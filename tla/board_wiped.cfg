SPECIFICATION Spec
CONSTANTS
    h1 = h1
    h2 = h2
    Names <- TwoHosts
    Bare <- BareTwo
    Fleets <- AnyOfTwo
    Uids = {u}
    FallbackUid = prometheus
    None = None
    MaxChanges = 0
    MaxFaults = 1
    MaxVersion = 10
PROPERTIES WritesOnlyIfChanged
CHECK_DEADLOCK FALSE
