SPECIFICATION Spec
CONSTANTS
    soles = soles
    dollars = dollars
    friend = friend
    cc = cc
    p1 = p1
    p2 = p2
    pen = pen
    usd = usd
    h1 = h1
    h2 = h2
    q1 = q1
    n1 = n1
    n2 = n2
    a1 = a1
    a2 = a2
    f1 = f1
    f2 = f2
    v1 = v1
    v2 = v2
    r1 = r1
    r2 = r2
    me = me
    you = you
    child = child
    f0 = f0
    till = till
    Holders <- MCHolders
    House <- MCHouse
    Funds <- MCFunds
    Own <- MCOwn
    PocketIds <- MCPocketIds
    CurrencyOf <- MCCurrency
    AmountThreshold = 2
    Calls <- MCCalls
    MaxCalls = 3
    Orders <- MCOrders
    Amounts = {1, 2}
    Main = soles
    MaxPockets = 2
    PocketOrders <- MCPocketOrders
    Quotes <- MCQuotes
    Position <- MCPosition
    One = 10
    Whole = 10
    Cent = 2
    Spread = 1
    References = {5}
    FXAmounts = {2}
    FairFor <- MCFairFor
    Applications <- MCApplications
    CardOrders <- MCCardOrders
    CardAccount = cc
    CardAmounts = {1}
    Customers <- MCCustomers
    Phones <- MCPhones
    Verifications <- MCVerifications
    MaxAttempts = 2
    Codes <- MCCodes
    Burst = 2
    Rate = 2
    Pieces = 3
    Ticks = 2
    Series <- MCSeries
    DefaultHorizon = 3
    SpendWindow = 3
    TightDays = 2
    Situations <- MCSituations
    Forms <- MCReferences
    Applicants <- MCApplicants
    Refused <- MCRefused
    Currencies = {"USD"}
    Cash = till
SYMMETRY Symmetry
INVARIANTS
    TransfersWereAuthorized
    OneCardPocket
    ExchangesAreFair
    WindowsAreBounded
    OptionsHelp
    LinesWereApproved
    AliasesFollowProofs
    ReceiptsStand
    
CHECK_DEADLOCK FALSE
