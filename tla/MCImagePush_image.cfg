\* Two pushes in one process, of an image or of something else; one layer may fail to be read.
CONSTANTS
    c1 = c1
    d1 = d1
    d2 = d2
    n1 = n1
    n2 = n2
    n3 = n3
    v1 = v1
    Pushers = {p1, p2}
    Data = {c1, d1, d2}
    Nothing = Nothing
    Names = {n1, n2, n3}
    Flaky = {n3}
    Tags = {Latest, v1}
    Latest = Latest
    Jobs <- MCJobs
    Env = {"disk", "stream", "api"}
    Failed = Failed
    None = None
SPECIFICATION FairSpec
INVARIANTS TypeOK Servable
PROPERTIES OfferSpec PushEnds RefsEnd
