\* One damage to a chain of up to four records.
CONSTANTS
    confirmed = confirmed  activated = activated
    Event <- MCEvent
    Genesis = Genesis  NoEnd = NoEnd  NoTop = NoTop
    MaxRecords = 4
    MaxDamage = 1
SPECIFICATION Spec
INVARIANTS
    LossIsReported
PROPERTY
    ReconcileIsSound
