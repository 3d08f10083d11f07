CONSTANTS
    k1 = k1  k2 = k2  k3 = k3  q1 = q1  q2 = q2
    H2Conns <- ThreeH2Conns
    QuicConns <- TwoQuicConns
    MaxTasks = 1
SPECIFICATION FairSpec
INVARIANTS TypeOK PermitLaw
PROPERTIES ArrivalsServed
