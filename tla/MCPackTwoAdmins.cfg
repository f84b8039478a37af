\* Two administrators on two platforms, torn files, crashes and failing appends.
CONSTANTS
    a1 = a1  a2 = a2  r1 = r1  e1 = e1  e2 = e2
    NoPack = NoPack  Unloadable = Unloadable  None = None
    Platform <- TwoPlatforms
    Shipped <- ShipTwo
    Admin <- TwoAdmins
    Parser = {}
    Example <- TwoExamples
    WholeWrites = FALSE
    MayFail = TRUE
    PatternIds = {1, 2}
    MaxOps = 3
SPECIFICATION Spec
CHECK_DEADLOCK FALSE
INVARIANTS
    OnePackEach
    ChoicesAttested
