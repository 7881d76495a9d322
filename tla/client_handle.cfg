\* One client with a handle: suites registered, added, removed and deleted, and a
\* calendar that moves on.
CONSTANTS
    s1 = s1
    s2 = s2
    c1 = c1
    c2 = c2
    ann = ann
    bob = bob
    None = None
    Suites <- TwoSuites
    Loaded <- TwoSuites
    Clients <- OneClient
    UserOf <- Ann
    Vals = {0, 1}
    MaxHandle = 1
    MaxState = 4
    MaxModify = 5
    Allowed = {"suites", "restructure", "register", "tick"}
    MaxEvents = 1
SYMMETRY Alike
SPECIFICATION Spec
INVARIANTS SyncMirrors NoNewsIsTrue
CHECK_DEADLOCK FALSE
