SPECIFICATION Spec
CONSTANTS
    s1 = s1
    s2 = s2
    s3 = s3
    s4 = s4
    Sessions = {s1, s2, s3, s4}
    MAX_MESH_CONNECTIONS = 2
    MAX_VERTICES_PER_PEER_WINDOW = 2
    VERTEX_RATE_WINDOW = 3
    MaxOffers = 3
SYMMETRY MCSymmetry
INVARIANT
    BudgetIsPerPeer
