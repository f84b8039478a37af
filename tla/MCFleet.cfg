\* Two uploads of up to six files, two changes of packs, one lost blob.
CONSTANTS
    MinScore = 60
    MinMargin = 25
    Unidentified = Unidentified
    PackOf <- MCPackOf
    Shipped <- MCShipped
    Batches <- MCBatches
    Limits = {4, 200}
    MinCohort = 5
    NoPage = NoPage
    MaxUploads = 2
    MaxChanges = 2
    MaxLost = 1
SPECIFICATION FleetSpec
INVARIANTS
    DetectionIsDecisive
    OutliersAreEvidenced
