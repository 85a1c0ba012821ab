SPECIFICATION FairSpec
CONSTANTS
    h1 = h1
    h2 = h2
    Names <- TwoHosts
    Bare <- BareTwo
    Fleets <- AnyOfTwo
    Uids = {u}
    FallbackUid = prometheus
    None = None
    MaxChanges = 5
    MaxFaults = 2
    MaxVersion = 10
INVARIANTS TypeOK SidecarNeverAhead SkipsOnlyIfShown
PROPERTIES SidecarFollowsFleet KeepsPair RewritesFollowChanges BoardFollowsFleet
CHECK_DEADLOCK FALSE
