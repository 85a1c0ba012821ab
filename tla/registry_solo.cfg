SPECIFICATION FairSpec
CONSTANTS
    Nodes = {}
    Containers = {c1}
    Addrs = {bare}
    BareHost = bare
    Projects = {p}
    Deploys = {d}
    Uids = {}
    FallbackUid = prometheus
    None = None
    EphemeralTtl = 0
    Loop = loop
    Getters = {get}
    Putters = {put}
    Posters = {}
    LogAnswers = {TRUE}
    PutWants <- KeepClearOrRetire
    MaxClock = 1
INVARIANTS TimesOrdered
PROPERTIES ColumnsHaveOneWriter ClassNeverFlips LockReleased EverythingEnds LoopKeepsTrying
