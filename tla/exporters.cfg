SPECIFICATION FairSpec
CONSTANTS
    Nodes = {}
    Containers = {c1}
    Addrs = {bare}
    BareHost = bare
    Projects = {standalone}
    Deploys = {d}
    Uids = {}
    FallbackUid = prometheus
    None = None
    EphemeralTtl = 0
    Standalone = standalone
    Programs = {"docker-inventory", "gpu-exporter"}
    Main = main
    Scrapers = {s1, s2}
    Vms = {v}
    Readings = {idle, busy}
    Interval = 1
    MaxTicks = 2
    MaxChanges = 1
INVARIANTS TypeOK ServedIsFresh
PROPERTIES PublishedIsTrue SuccessStays ScrapesAnswered
