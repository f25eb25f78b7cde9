SPECIFICATION SessionsSpec
CONSTANTS
    main = main
    pocket = pocket
    shop = shop
    cash = cash
    t1 = t1
    t2 = t2
    s1 = s1
    s2 = s2
    Customers <- MCCustomers
    Internals <- MCInternals
    Family <- MCFamily
    Opening <- MCOpening
    MaxBalance <- MCMaxBalance
    MaxTransaction <- MCMaxTransaction
    Movements <- MCMovements
    MovementKeys = {t1, t2}
    Sessions = {s1, s2}
    Rank <- MCRank
INVARIANTS
    NoOverdraft
    OncePerKey
    SomeoneProceeds
    BalanceIsProjection

    
