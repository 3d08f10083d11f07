CONSTANTS
    c1 = c1  c2 = c2
    plain = plain  pinned = pinned  lost = lost  open = open  vague = vague
    N = 3
    Conns <- TwoConns
    Hosts <- AllHosts
    Sections <- EverySection
    Ring <- LastInRing
    Costs = {1, 2}
SPECIFICATION Spec
SYMMETRY Symmetry
INVARIANTS TypeOK RulesObeyed AlgorithmsAnswer
PROPERTIES RoundRobinFair
