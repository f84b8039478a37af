\* Activations of one administrator, of any version on disk.
CONSTANTS
    a1 = a1  a2 = a2  r1 = r1  e1 = e1  e2 = e2
    NoPack = NoPack  Unloadable = Unloadable  None = None
    Platform <- OnePlatform
    Shipped <- ShipOne
    Admin <- OneAdmin
    Parser = {}
    Example <- TwoExamples
    WholeWrites = TRUE
    MayFail = FALSE
    PatternIds = {1, 2}
    MaxOps = 5
SPECIFICATION Spec
CHECK_DEADLOCK FALSE
INVARIANT NextParseUsesIt
