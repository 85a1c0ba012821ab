SPECIFICATION Spec
CONSTANTS
    Nodes = {n1}
    Containers = {}
    Addrs = {bare, port}
    BareHost = bare
    Projects = {p}
    Deploys = {d1, d2}
    Uids = {u1, u2}
    FallbackUid = prometheus
    None = None
    EphemeralTtl = 0
    Loop = loop
    Getters = {get1, get2}
    Putters = {}
    Posters = {}
    LogAnswers = {FALSE}
    PutWants <- KeepOrRetire
    MaxClock = 0
INVARIANTS ServedLinksMatch
