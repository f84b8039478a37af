\* One device, one edition with a platform scope and one without, two audits.
SPECIFICATION Spec
CONSTANTS
    Framework = {"nist", "stig", "iso"}
    Platform = "ios"
    Control <- MCControl
    Multi <- MCMulti
    WorstCase <- MCWorstCase
    Edition <- MCEdition
    Packs <- MCPacks
    Deployments <- MCDeployments
    MaxRuns = 2
INVARIANTS
    VerdictIsJustified
    KnowledgeOnlySettles
    EveryRuleAccountedFor
    ViewAgreesWithRun
    RanksAreEarned
    PlanIsComplete
