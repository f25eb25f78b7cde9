SPECIFICATION MandateSpec
CONSTANTS
    main = main
    pocket = pocket
    shop = shop
    cash = cash
    holds = holds
    k1 = k1
    k2 = k2
    t1 = t1
    m1 = m1
    m2 = m2
    none = none
    Customers <- MCCustomers
    Internals <- MCInternals
    Family <- MCFamily
    Opening <- MCOpening
    MaxBalance <- MCMaxBalance
    MaxTransaction <- MCMaxTransaction
    Movements <- MCMovements
    MovementKeys = {t1}
    Keys = {k1, k2}
    Commands <- MCCommands
    Holds = holds
    MaxTime = 2
    MandateIds = {m1, m2}
    NoMandate = none
    Grants <- MCGrants
SYMMETRY AllAlike
INVARIANTS
    StatusMatchesLedger
    RefundsChain
    HoldsCoverLive
    CapRespected
    ConsumptionIsMoneyOut
PROPERTIES
    KeepsEscrow
    DeadMandatesShrink
CHECK_DEADLOCK FALSE
