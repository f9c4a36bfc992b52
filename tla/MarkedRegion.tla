---------------------------- MODULE MarkedRegion ----------------------------
(***************************************************************************)
(* The text surgery that mcpsync performs on a Codex config.toml: a region *)
(* between two marker comments is generated, everything else belongs to    *)
(* the user.  A text is a sequence of lines; a line is a tuple whose first *)
(* field says what the code, or TOML, sees in it.                          *)
(*                                                                         *)
(*   <<"key", k>>        a key-value pair                                  *)
(*   <<"table", t>>      [t] at the start of the line                      *)
(*   <<"indented", t>>   [t] after white space                             *)
(*   <<"mcp", s, v>>     [mcp_servers.s] with its pairs, v standing for    *)
(*                       what they were rendered from                      *)
(*   <<"start", o>>, <<"end", o>>   the markers of region o                *)
(*   <<"blank">>                                                           *)
(***************************************************************************)
EXTENDS Naturals, Sequences, FiniteSets

Blank == <<"blank">>
StartMark(o) == <<"start", o>>
EndMark(o) == <<"end", o>>

First(S) == CHOOSE i \in S : \A j \in S : i <= j
Last(S) == CHOOSE i \in S : \A j \in S : i >= j

\* The elements of s at the positions in I.
Pick(s, I) ==
    [k \in 1..Cardinality(I) |-> s[CHOOSE i \in I : Cardinality({j \in I : j <= i}) = k]]

Positions(c, line) == {i \in DOMAIN c : c[i] = line}
IsBlank(c) == \A i \in DOMAIN c : c[i] = Blank

HasStart(c, o) == Positions(c, StartMark(o)) # {}
StartOf(c, o) == First(Positions(c, StartMark(o)))
EndsOf(c, o) == {i \in Positions(c, EndMark(o)) : StartOf(c, o) < i}

\* The end marker is looked for behind the start marker only.
HasRegion(c, o) == HasStart(c, o) /\ EndsOf(c, o) # {}
EndOf(c, o) == First(EndsOf(c, o))
Region(c, o) == IF HasRegion(c, o) THEN StartOf(c, o)..EndOf(c, o) ELSE {}

Before(c, o) == SubSeq(c, 1, StartOf(c, o) - 1)
After(c, o) == SubSeq(c, EndOf(c, o) + 1, Len(c))

Replace(c, o, block) == Before(c, o) \o block \o After(c, o)
Remove(c, o) == Before(c, o) \o After(c, o)

\* Where a new block goes: before the first line that satisfies the caller's
\* notion of a table header, at the end when there is none.
Split(c, headers) == IF headers = {} THEN Len(c) + 1 ELSE First(headers)
InsertAt(c, i, block) ==
    LET prefix == SubSeq(c, 1, i - 1)
        suffix == SubSeq(c, i, Len(c))
    IN  (IF IsBlank(prefix) THEN block ELSE prefix \o <<Blank>> \o block) \o suffix

\* "[" in the first column.
Bracketed(c) == {i \in DOMAIN c : c[i][1] \in {"table", "mcp"}}
\* Mutant: the block goes on top.
InsertOnTop(c, block) == block \o c
Insert(c, block) == InsertAt(c, Split(c, Bracketed(c)), block)

\* "[" after any white space, and the text without its trailing blank lines.
Headers(c) == {i \in DOMAIN c : c[i][1] \in {"table", "indented", "mcp"}}
Filled(c) == {i \in DOMAIN c : c[i] # Blank}
Trim(c) == IF Filled(c) = {} THEN <<>> ELSE SubSeq(c, 1, Last(Filled(c)))

-----------------------------------------------------------------------------
\* What the lines mean to TOML: a pair belongs to the last header above it.

HeadersOver(c, i) == IF i \in Headers(c) THEN {} ELSE {j \in Headers(c) : j < i}

\* The user's lines, and each of them with the table it belongs to; but for
\* those that a misplaced edit put under a header of the generated region, since
\* their table changes whenever the region does.
Outside(c, o) == {i \in DOMAIN c \ Region(c, o) : c[i] # Blank}
OwnLines(c, o) == {c[i] : i \in Outside(c, o)}

TableOf(c, i) == IF HeadersOver(c, i) = {} THEN <<"top">> ELSE c[Last(HeadersOver(c, i))]
InOwnTable(c, o, i) ==
    HeadersOver(c, i) # {} => Last(HeadersOver(c, i)) \notin Region(c, o)
Meaning(c, o) ==
    {<<TableOf(c, i), c[i]>> : i \in {j \in Outside(c, o) : InOwnTable(c, o, j)}}

\* A region without a header, with lines behind it that have none of their own
\* either: these change their table as soon as the region opens one.
Exposed(c, o) ==
    /\ HasRegion(c, o) /\ Headers(c) \cap Region(c, o) = {}
    /\ \E i \in (EndOf(c, o) + 1)..Len(c) :
          c[i] # Blank /\ Headers(c) \cap (EndOf(c, o)..i) = {}

\* Nothing of the user's in c is lost or moved to another table in d.
Keeps(c, d, o) == Meaning(c, o) \subseteq Meaning(d, o) /\ OwnLines(c, o) = OwnLines(d, o)
=============================================================================
