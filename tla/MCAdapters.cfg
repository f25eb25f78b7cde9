SPECIFICATION Spec
CONSTANTS
    acc = acc
    other = other
    p1 = p1
    t1 = t1
    t2 = t2
    i1 = i1
    hold = hold
    settle = settle
    extra = extra
    nostro = nostro
    transit = transit
    c1 = c1
    c2 = c2
    Holders <- MCHolders
    House <- MCHouse
    Funds <- MCFunds
    Purchases <- MCPurchases
    AccountOf <- MCAccountOf
    Amount <- MCAmount
    Finals <- MCFinals
    AuthHold = hold
    Settlement = settle
    Overage = extra
    MaxSpend = 2
    Transfers <- MCTransfers
    From <- MCFrom
    Sending <- MCSending
    Notices <- MCNotices
    Incoming <- MCIncoming
    Nostro = nostro
    InTransit = transit
    Calls <- MCCalls
    Senders <- MCSenders
SYMMETRY Symmetry
INVARIANTS
    
    RailsKeepCount
