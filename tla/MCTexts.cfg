SPECIFICATION MCSpec
CONSTANTS
    Readings <- TextsToRead
    Uris <- MCUris
    Values <- MCValues
    MaxSets = 1
    BodyPieces <- TwoPieces
    Blank = "_"
    Nul = "0"
    MaxWritten = 3
    MaxAdds = 1
    MaxServed = 2
    CccTable <- Ccc
    DecompTable <- Decomp
    ComposeTable <- Compose
INVARIANTS
    AddressesExact
    AddressesPrinted
    CodePointsExact
    NormalFormsExact
    UriPartsExact
    UriIndexesAgree
    HostNumbersRead
    TemplatesRendered
    CookiesRead
    PercentDecodes
    UriObjectPartsAreRead
    UriObjectAnswersDoNotAge
PROPERTIES
    TextServedWhole
    NothingInvented
CHECK_DEADLOCK FALSE
