\* An archive with a linked layer.
CONSTANTS
    c1 = c1
    d1 = d1
    d2 = d2
    n1 = n1
    n2 = n2
    n3 = n3
    v1 = v1
    Pushers = {p1}
    Data = {c1, d1, d2}
    Nothing = Nothing
    Names = {n1, n2, n3}
    Flaky = {}
    Tags = {Latest, v1}
    Latest = Latest
    Jobs <- LinkJobs
    Env = {}
    Failed = Failed
    None = None
SPECIFICATION Spec
INVARIANTS LayersKept
