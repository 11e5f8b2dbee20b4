\* A docker client and one that sends chunks share a repository.
CONSTANTS
    p1 = p1
    p2 = p2
    n1 = n1
    c1 = c1
    c2 = c2
    Conns = {t1, t2, t3}
    Repos = {n1}
    Pieces = {p1, p2}
    MaxDraws = 6
    Reseeded = FALSE
    Requests <- AllRequests
    None = None
    Clients = {c1, c2}
    Kind <- MCKind
    Want <- MCWant
    RepoOf <- MCRepoOf
    MaxGiveUps = 1
    MaxRestarts = 1
SPECIFICATION ClientSpec
INVARIANTS TypeOK ContentAddressed SessionIntact
PROPERTIES StoreSpec SessionGrows EveryoneDone
