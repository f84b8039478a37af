\* Two requests at a time, two audits of two files, with failures.
CONSTANTS
    a1 = a1  a2 = a2  router = router  switch = switch
    ntp = ntp  aaa = aaa  r1 = r1  r2 = r2
    Auditor <- MCAuditor
    Shape <- MCShape
    Text <- MCText
    Taught <- MCTaught
    Selections <- MCSelections
    Mixed = Mixed  Idle = Idle
    MayFail = TRUE
    MaxAudits = 2
SPECIFICATION Spec
CHECK_DEADLOCK FALSE
INVARIANTS
    DecisionIsAttested
    RunsAgreeWithTheChain
    QueueIsTheLastParse
PROPERTY
    EveryAuditEnds
