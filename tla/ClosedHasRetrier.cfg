CONSTANTS
    c1 = c1  c2 = c2  r1 = r1  r2 = r2  r3 = r3  o1 = o1  o2 = o2
    NoTask = NoTask
    Conns <- TwoConns
    Retriers <- TwoRetriers
    Operators <- NoOperator
    MaxRetries = 0
    InitStatus = {"Normal"}
    InitProtocol = {"HTTP2"}
    MaxOps = 0
SPECIFICATION Spec
SYMMETRY Symmetry
INVARIANTS ClosedHasRetrier
