SPECIFICATION MCSpec
CONSTANTS
    acme = acme
    bolt = bolt
    h1 = h1
    h2 = h2
    none = none
    Firms = {acme, bolt}
    Mode <- MCMode
    FirmOf <- MCOneFirm
    Amount <- MCPair
    Handlers = {h1, h2}
    MaxPushes = 1
    MaxSessions = 1
    Operators = {h1}
    Scopes <- MCScopes
    Prices = {1}
    PlatformPrices = {}
    DefaultPrice = 4
    MaxCards = 0
    NoRequest = none
INVARIANTS
    UsageOnOneInvoice
CHECK_DEADLOCK FALSE
