SPECIFICATION Spec
CONSTANTS
    Nodes = {n1}
    Containers = {c1}
    Addrs = {bare}
    BareHost = bare
    Projects = {p}
    Deploys = {d}
    Uids = {}
    FallbackUid = prometheus
    None = None
    EphemeralTtl = 0
    Loop = loop
    Getters = {}
    Putters = {}
    Posters = {post}
    LogAnswers = {FALSE}
    PutWants <- KeepOrRetire
    MaxClock = 0
PROPERTIES ClassNeverFlips
