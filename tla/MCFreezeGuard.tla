--------------------------- MODULE MCFreezeGuard ----------------------------
(* One path for each way in which the allowlists treat one: listed by one  *)
(* reason or the other, by none, and private although a reason lists it.   *)
EXTENDS FreezeGuard

Path == {"module.go", "README.md", "Makefile", "rules/a.go"}
Lists == [compat |-> {"module.go", "rules/a.go"}, doc |-> {"README.md"}]
Tree == [p \in Path |-> IF p = "rules/a.go" THEN "gone" ELSE
                        IF p = "Makefile" THEN "rules" ELSE "text"]
=============================================================================
