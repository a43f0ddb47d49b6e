CONSTANTS
    c1 = c1
    c2 = c2
    k1 = k1
    k2 = k2
    k3 = k3
    NoClient = NoClient
    MaxObjectId = 2
    Clients <- MCClients
    Conns <- MCConns
    Randoms <- MCRandoms
SPECIFICATION Spec
SYMMETRY Symmetry
INVARIANTS IdsConsistent ClientAgrees
PROPERTY LeaseSpec
