SPECIFICATION MCSpec
CONSTANTS
    acme = acme
    bolt = bolt
    h1 = h1
    h2 = h2
    none = none
    Firms = {acme, bolt}
    Mode <- MCMode
    FirmOf <- MCFirmOf
    Amount <- MCAmount
    Handlers = {h1}
    MaxPushes = 1
    MaxSessions = 2
    Operators = {h1, h2}
    Scopes <- MCScopes
    Prices = {1, 2}
    PlatformPrices = {3}
    DefaultPrice = 4
    MaxCards = 3
    NoRequest = none
INVARIANTS
    MCTypeOK
    InvoiceMatchesUsage
    CleanMeansTied
    PaidOnEvidence
    NewestCardWins
PROPERTIES
    PaidReferenceIsFinal
    PaymentArrives
