\* Lists of three entries, files of five lines of every shape, filters of two
\* terms in both forms.
CONSTANTS
    Files <- MCFiles
    Address <- MCAddress
    Address6 <- MCAddress6
    PortMax = 3
    AddressOf <- MCAddressOf
    WildcardOf <- MCWildcardOf
    CidrOf <- MCCidrOf
    PortOf <- MCPortOf
    Numeral <- MCNumeral
    Patterns <- MCPatterns
    NumberOf <- MCNumberOf
    Protocols <- MCProtocols
    Members <- MCMembers
    SecretWords <- MCSecretWords
    Hashes <- MCHashes
    Literals <- MCLiterals
    Casts <- MCCasts
    MaxTokens = 24
    TaughtField = "taught"
    TaughtFiles <- MCTaughtFiles
    NoLesson = NoLesson
SPECIFICATION TSpec
CHECK_DEADLOCK FALSE
INVARIANTS
    TreeFollowsTheFile
    FactsAreOfTheirBlock
    ListsAreWhole
    EntriesSayTheirLines
    ReportedEntriesDecideNothing
    SilenceMeansReachable
    TaughtLineIsRead
