\* A handle, and the reply to a sync is lost.
CONSTANTS
    s1 = s1
    s2 = s2
    c1 = c1
    c2 = c2
    ann = ann
    bob = bob
    None = None
    Suites <- TwoSuites
    Loaded <- TwoSuites
    Clients <- OneClient
    UserOf <- Ann
    Vals = {0, 1}
    MaxHandle = 1
    MaxState = 5
    MaxModify = 4
    Allowed = {"register", "lost_handle"}
    MaxEvents = 2
SPECIFICATION Spec
INVARIANTS SyncMirrors
CHECK_DEADLOCK FALSE
