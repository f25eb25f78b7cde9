SPECIFICATION MCSpec
CONSTANTS
    main = main
    pocket = pocket
    shop = shop
    cash = cash
    holds = holds
    k1 = k1
    k2 = k2
    t1 = t1
    process = process
    rpc = rpc
    Customers <- MCCustomers
    Internals <- MCInternals
    Family <- MCFamily
    Opening <- MCOpening
    MaxBalance <- MCMaxBalance
    MaxTransaction <- MCMaxTransaction
    Movements <- MCMovements
    MovementKeys = {t1}
    Keys = {k1, k2}
    Commands <- MCCommands
    Holds = holds
    MaxTime = 2
    Sweepers = {process, rpc}
    BatchLimit = 2
    MaxCrashes = 1
    Calls = {c1, c2}
    Own = {shop}
    MaxRetries = 1
INVARIANT RefundMovesOnce
CHECK_DEADLOCK FALSE
