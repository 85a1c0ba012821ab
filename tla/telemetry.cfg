SPECIFICATION FairSpec
CONSTANTS
    disk = disk
    usb = usb
    m1 = m1
    m2 = m2
    node1 = node1
    node10 = node10
    home = home
    later = later
    Gauges = {1, 2}
    Hosts = {node1, node10}
    Longer <- LongerNames
    Mounts = {disk, usb}
    Members = {m1, m2}
    Sensors = {1, 2, 3, 4}
    Zones = {4}
    Levels = {"info", "error"}
    Limit = 2
    MaxSensors = 2
    None = None
    NaN = NaN
    Off = Off
    Threads = {t1}
    Coroutines = {k1, k2}
    Routes <- MyRoutes
    Wants = {{}, {"error"}}
    Worlds = {home, later}
    Data <- TwoWorlds
    MaxChanges = 1
INVARIANTS TypeOK ValuesArePresent ListsArePresent ValuesAreExact ListsAreExact NaNOnlyIfSwapLeft
PROPERTIES EverythingEnds
