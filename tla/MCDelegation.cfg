SPECIFICATION Spec
CONSTANTS
    a1 = a1
    a2 = a2
    k1 = k1
    k2 = k2
    c1 = c1
    m1 = m1
    m2 = m2
    h1 = h1
    h2 = h2
    n1 = n1
    r1 = r1
    none = none
    AgentIds <- MCAgentIds
    Keys <- MCKeys
    RotationWindow = 1
    MaxSignatureAge = 0
    MaxTime = 0
    Transactions <- MCTransactions
    AmountThreshold = 2
    Consents <- MCConsents
    Mandates <- MCMandates
    Limits <- MCLimits
    NoLimit = none
    Calls <- MCCalls
    MaxCalls = 5
    PayKeys <- MCPayKeys
    Refs <- MCRefs
SYMMETRY Symmetry
INVARIANTS
    LiveMandatesAccountedFor
    GrantedAsConfirmed
    PaidByTheGrantedAgent
    AnswersHold
CHECK_DEADLOCK FALSE
