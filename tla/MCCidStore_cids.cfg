\* Two callers of the store, with the default resolver and a dnslink one.
CONSTANTS
    a = a
    b = b
    g = g
    d = d
    i1 = i1
    i2 = i2
    x1 = x1
    t1 = t1
    t2 = t2
    Threads = {t1, t2}
    Names = {a, b, g}
    Digests = {d}
    Images = {i1, i2}
    Keys <- MCKeys
    Requests <- MCRequests
    Trees = {x1}
    TreeAt <- MCTreeAt
    Config <- MCConfig
    Env = {"disk", "crash", "api"}
    EmptyCid = EmptyCid
    None = None
SPECIFICATION FairSpec
INVARIANTS TypeOK KeptOnDisk
PROPERTIES ListsTags MapSpec Returns
