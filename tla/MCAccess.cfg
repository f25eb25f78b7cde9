SPECIFICATION Spec
CONSTANTS
    ana = ana
    d1 = d1
    d2 = d2
    p1 = p1
    pay = pay
    c1 = c1
    c2 = c2
    a1 = a1
    k1 = k1
    k2 = k2
    k3 = k3
    s1 = s1
    s2 = s2
    Customers <- MCCustomers
    Devices <- MCDevices
    Credentials <- MCCredentials
    Operations <- MCOperations
    MaxPINAttempts = 2
    MaxTickets = 2
    MaxSessions = 2
    Calls <- MCCalls
    AgentIds <- MCAgentIds
    Keys <- MCKeys
    RotationWindow = 1
    MaxSignatureAge = 1
    MaxTime = 3
    Transactions <- MCTransactions
    Scopes <- MCScopes
    SecretGraceWindow = 1
    TokenTTL = 1
    MaxRotations = 2
    MaxTokens = 1
SYMMETRY Symmetry
INVARIANTS
    TicketsWorkOnce
    
    
PROPERTIES
    TakenAwayStaysAway
