SPECIFICATION OnboardingSpec
CONSTANTS
    a1 = a1
    a2 = a2
    w1 = w1
    w2 = w2
    dni = dni
    Apps = {a1, a2}
    Document <- MCDocument
    Verdicts <- MCVerdicts
    Workers = {w1, w2}
SYMMETRY AllAlike
INVARIANT OpenedWereApproved
