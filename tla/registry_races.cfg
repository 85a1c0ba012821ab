SPECIFICATION Spec
CONSTANTS
    Nodes = {n1}
    Containers = {c1}
    Addrs = {bare}
    BareHost = bare
    Projects = {p}
    Deploys = {d}
    Uids = {}
    FallbackUid = prometheus
    None = None
    EphemeralTtl = 0
    Loop = loop
    Getters = {}
    Putters = {put}
    Posters = {post}
    LogAnswers = {FALSE}
    PutWants <- KeepOrRetire
    MaxClock = 1
INVARIANTS TypeOK LockDiscipline
PROPERTIES OnlySightingsCreate DiscoveryIsWhole ClassSticksWithNodes
