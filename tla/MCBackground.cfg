SPECIFICATION Spec
CONSTANTS
    a = a
    b = b
    c = c
    Touches <- MCTouches
    MaxEvents = 4
    Relays = {r1}
    BatchSize = 2
    MaxFailures = 2
    Limit = 2
    Amounts = {1, 2}
    Cycle = 2
    PaymentDays = 1
    Floor = 1
    Share = 2
    Slow = 4
    PerDay = 2
    Lag = 1
    Straddle = FALSE
    MaxInstant = 8
    MaxPostings = 3

    
    
PROPERTIES
    Delivered
    CaughtUpInTheEnd
CHECK_DEADLOCK FALSE
