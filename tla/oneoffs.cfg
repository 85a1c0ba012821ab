SPECIFICATION Spec
CONSTANTS
    Nodes = {}
    Containers = {c1}
    Addrs = {bare}
    BareHost = bare
    Projects = {app, standalone}
    Deploys = {d}
    Uids = {}
    FallbackUid = prometheus
    None = None
    EphemeralTtl = 1
    Standalone = standalone
    MaxClock = 3
INVARIANTS OneOffsAreEphemeral
CHECK_DEADLOCK FALSE
