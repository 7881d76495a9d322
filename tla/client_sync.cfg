\* No handle: two suites that come and go, lost replies, one client.
CONSTANTS
    s1 = s1
    s2 = s2
    c1 = c1
    c2 = c2
    ann = ann
    bob = bob
    None = None
    Suites <- TwoSuites
    Loaded = {}
    Clients <- OneClient
    UserOf <- Ann
    Vals = {0, 1}
    MaxHandle = 0
    MaxState = 5
    MaxModify = 4
    Allowed = {"suites", "restructure", "clear", "lost", "reset"}
    MaxEvents = 0
SPECIFICATION FairSpec
INVARIANTS SyncMirrors NoNewsIsTrue
PROPERTIES MirrorSpec Converges
CHECK_DEADLOCK FALSE
