SPECIFICATION ReplaySpec
CONSTANTS
    SignedRequests = {q1, q2}
    Handlers = {h1, h2}
    Skew = 3
    Margin = 2
    Patience = 1
    Horizon = 8
SYMMETRY Symmetry
CHECK_DEADLOCK FALSE
INVARIANTS
    OnceUnlessAhead
    KeptApart
