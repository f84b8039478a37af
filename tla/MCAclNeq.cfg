\* Lists of an IOS device that hold a condition "not this port".
CONSTANTS
    Files <- NeqFiles
    Address <- MCAddress
    Address6 <- MCAddress6
    PortMax = 3
    AddressOf <- MCAddressOf
    WildcardOf <- MCWildcardOf
    CidrOf <- MCCidrOf
    PortOf <- MCPortOf
    Numeral <- MCNumeral
    Patterns <- MCPatterns
    NumberOf <- MCNumberOf
    Protocols <- MCProtocols
    Members <- MCMembers
    SecretWords <- MCSecretWords
    Hashes <- MCHashes
    Literals <- MCLiterals
    Casts <- MCCasts
    MaxTokens = 24
    TaughtField = "taught"
    TaughtFiles <- MCTaughtFiles
    NoLesson = NoLesson
SPECIFICATION TSpec
CHECK_DEADLOCK FALSE
INVARIANT ReportedEntriesDecideNothing
