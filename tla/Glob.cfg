SPECIFICATION Spec
CONSTANTS
    Code <- Codes
    MaxBracePatternLength = 13
    MaxBraceExpansions = 7
    MaxBraceDepth = 2
    Patterns <- SomePatterns
    Strings <- SomeStrings
    Globs <- SomeGlobs
    Entries <- SomeEntries
    Root <- Top
    Texts <- SomeTexts
    ImmutablePrefixes <- SomePrefixes
INVARIANTS
    TypeOK
    SegmentsExact
    UrisExact
    GlobExact
    CachedNamesOne
