\* Three writers, two admissible events, at most three records, one reader that
\* verifies the whole chain or the range 1..2.
CONSTANTS
    w1 = w1  w2 = w2  w3 = w3  v1 = v1
    confirmed = confirmed  activated = activated
    raw = raw  model_acts = model_acts
    Writer <- MCWriter
    Event <- MCEvent
    NotJson <- MCNotJson
    Forbidden <- MCForbidden
    Reader <- MCReader
    Ranges <- MCRanges
    Genesis = Genesis  NoEvent = NoEvent
    NoDraft = NoDraft  NoReply = NoReply  Nobody = Nobody
    NoEnd = NoEnd  NoTop = NoTop  NoReport = NoReport
    MaxRecords = 3
SPECIFICATION VFair
INVARIANTS
    ChainLinked
    HeadMatchesLog
    ReplyIsAttested
PROPERTIES
    EveryCallEnds
    ImplementsAttestationLog
    UntouchedIsUnaccused
