CONSTANTS
    t1 = t1  t2 = t2  t3 = t3  p1 = p1  p2 = p2
    Tunnels <- ThreeTunnels
    Peers <- TwoPeers
    PeerOf <- PeerOfTunnel
    Modulus = 5
    MaxTotal = 3
    Bytes = {2}
    Times = {1, 8}
    Statuses = {"Normal", "Closed"}
    MaxResets = 1
    InitRtt = 4
    MaxTime = 2
    Divisor <- Halving
SPECIFICATION Spec
SYMMETRY Symmetry
INVARIANTS TypeOK CountsLaw CostCoversLoad
PROPERTIES AtomicMetric
