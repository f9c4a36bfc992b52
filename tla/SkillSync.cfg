SPECIFICATION MCFairSpec
CONSTANTS
    old = old
    new = new
    broken = broken
    Names <- MCNames
    Normalized <- MCNormalized
    Texts <- MCTexts
    Portable <- MCPortable
    AsSource <- MCAsSource
    Surfaces <- MCSurfaces
    Linkable = {"claude"}
    Trees <- MCTrees
    MaxEvents = 2
    MaxSwaps = 3
INVARIANTS TypeOK CleanRunMirrors CheckIsExact NoTornMirror
PROPERTIES OnlyCheckedPlansWrite SourcesSpared PurgeComesLast EveryRunEnds
