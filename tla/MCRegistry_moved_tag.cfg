\* A tag moves in the outside world while it is pulled.
CONSTANTS
    n1 = n1
    n2 = n2
    g1 = g1
    lt = lt
    m1 = m1
    m2 = m2
    l1 = l1
    b1 = b1
    b2 = b2
    d1 = d1
    d2 = d2
    dl = dl
    t1 = t1
    t2 = t2
    None = None
    EmptyCid = EmptyCid
    Threads = {t1}
    Names = {n1}
    Tags = {g1, lt}
    Latest = lt
    Plain = {m1, m2}
    Lists = {l1}
    Blobs = {b1, b2}
    BlobsOf <- MCBlobsOf
    SubManifests <- MCSubManifests
    Digest <- MCDigest
    Requests <- MovedCalls
    External <- MovedWorld
    Env = {"publish"}
SPECIFICATION Spec
INVARIANT ReverseSound
CHECK_DEADLOCK FALSE
