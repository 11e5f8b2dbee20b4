\* Three docker clients and images without a common blob; adding an image to IPFS may fail.
CONSTANTS
    n1 = n1
    n2 = n2
    g1 = g1
    g2 = g2
    lt = lt
    m1 = m1
    m2 = m2
    m3 = m3
    b1 = b1
    b2 = b2
    b3 = b3
    b4 = b4
    d1 = d1
    d2 = d2
    d3 = d3
    t1 = t1
    t2 = t2
    t3 = t3
    None = None
    EmptyCid = EmptyCid
    Threads = {t1, t2, t3}
    Names = {n1, n2}
    Tags = {g1, g2, lt}
    Latest = lt
    Plain = {m1, m2, m3}
    Lists = {}
    Blobs = {b1, b2, b3, b4}
    BlobsOf <- ApartBlobs
    SubManifests <- MCSubManifests
    Digest <- MCDigest
    Plan <- ApartPlan
    Requests <- PlanCalls
    External = {}
    Env = {"api"}
SPECIFICATION ClientSpec
INVARIANTS PushComplete PullWhole LockGivenBack
PROPERTY JobsEnd
