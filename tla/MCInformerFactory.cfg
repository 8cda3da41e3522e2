SPECIFICATION SceneSpec
CONSTANTS
    Callers = {a, b}
    Types = {Tenant, ClusterResourceQuota}
    Contexts = {x, y}
    None = None
INVARIANTS
    OneInformerPerType
    StoppedForGood
    SyncedWhenItSaysSo
PROPERTIES
    StartsOnceAndInTime
    CallsReturn
