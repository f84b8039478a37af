\* A server and the script, two accounts, four rows stored or processes killed.
CONSTANTS
    Database <- MCDatabase
    Release <- MCRelease
    AccountsSince = 2
    Legacy <- MCLegacy
    amy = amy  bob = bob
    User <- MCUser
    File = {1, 2}
    Missing = Missing
    NoOne = NoOne
    NoCall = NoCall
    Kinds <- MCKinds
    MaxTokens = 2
    Cosine <- MCCosine
    FieldOrder <- MCFieldOrder
    TextOrder <- MCTextOrder
    Seeds <- MCSeeds
    NoField = NoField
    Residue <- MCResidue
    NotRead = NotRead
    MaxWork = 4
SPECIFICATION Spec
SYMMETRY MCSymmetry
CHECK_DEADLOCK FALSE
INVARIANTS
    SchemaIsItsHistory
    AdminRemainsUnlessLate
    OthersLearnNothing
    DecisionsAreWhatWasSeen
