\* One administrator at a time, two platforms, and a parser.
CONSTANTS
    a1 = a1  a2 = a2  r1 = r1  e1 = e1  e2 = e2
    NoPack = NoPack  Unloadable = Unloadable  None = None
    Platform <- TwoPlatforms
    Shipped <- ShipTwo
    Admin <- OneAdmin
    Parser <- OneParser
    Example <- TwoExamples
    WholeWrites = TRUE
    MayFail = FALSE
    PatternIds = {1, 2}
    MaxOps = 4
SPECIFICATION Spec
CHECK_DEADLOCK FALSE
INVARIANTS
    ChoicesServeTheirPatterns
    CacheFreshUnlessOverlap
PROPERTIES
    OnlyItsOwnPlatform
