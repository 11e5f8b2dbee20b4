\* One process pulls or serves, another pulls, again and again.
CONSTANTS
    p1 = p1
    p2 = p2
    t1 = t1
    t2 = t2
    c1 = c1
    None = None
    Other = Other
    Elsewhere = Elsewhere
    Callers = {p2}
    Procs = {p1, p2}
    Threads = {t1, t2}
    ProcOf <- MCProcOf
    Configs <- MCConfigs
    Ports = {5000, 80, 192}
    OtherPorts = {5000}
    WebPort = 80
    Cids = {c1}
    MaxStarts = 1
    Env = {"slow", "ipfs", "bind", "cert", "kill", "daemon", "namesake", "pgrep"}
SPECIFICATION PullSpec
INVARIANTS TypeOK OneStart FailureTold OneLeft
PROPERTIES PullHolds ServerStays PullEnds DaemonReturns
