CONSTANTS
    c1 = c1  c2 = c2  r1 = r1  r2 = r2  r3 = r3  o1 = o1  o2 = o2
    NoTask = NoTask
    Conns <- TwoConns
    Retriers <- TwoRetriers
    Operators <- TwoOperators
    MaxRetries = 2
    InitStatus = {"Normal", "Closed", "ForceClosed", "Unknown"}
    InitProtocol = {"HTTP2"}
    MaxOps = 2
SPECIFICATION Spec
SYMMETRY Symmetry
INVARIANTS TypeOK TokenCoherent RetryFlagOwned MutexOwnerStoppable GuardsExact RetryBudget
PROPERTIES ClientTransitions ScopeRefinement
