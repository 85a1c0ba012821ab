SPECIFICATION FairSpec
CONSTANTS
    sorted = sorted
    shuffled = shuffled
    app = app
    system = system
    web = web
    proxy = proxy
    Nodes = {n1}
    Spaces = {app, system}
    Workloads = {web, proxy}
    System = {system}
    SpaceOf <- SpaceOfEach
    KindOf <- KindOfEach
    Orders = {sorted, shuffled}
    SortedOrder = sorted
    None = None
    MaxChanges = 2
    MaxFaults = 2
INVARIANTS TypeOK BoardIsSound
PROPERTIES KeepsPair SidecarFollowsCluster BoardFollowsCluster RewritesShowSomethingNew
