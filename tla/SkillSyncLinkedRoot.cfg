SPECIFICATION MCSpec
CONSTANTS
    old = old
    new = new
    broken = broken
    Names <- MCNames
    Normalized <- MCNormalized
    Texts <- MCTexts
    Portable <- MCPortable
    AsSource <- MCAsSource
    Surfaces <- LinkedSurfaces
    Linkable = {"claude"}
    Trees <- LinkedTrees
    MaxEvents = 0
    MaxSwaps = 3
PROPERTY SourcesSpared
