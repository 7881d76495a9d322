\* `delete _all_' drops the handles; another client is given the number of one.
CONSTANTS
    s1 = s1
    s2 = s2
    c1 = c1
    c2 = c2
    ann = ann
    bob = bob
    None = None
    Suites <- TwoSuites
    Loaded <- TwoSuites
    Clients <- TwoClients
    UserOf <- SameUser
    Vals = {0, 1}
    MaxHandle = 2
    MaxState = 5
    MaxModify = 5
    Allowed = {"clear", "register"}
    MaxEvents = 0
SPECIFICATION Spec
INVARIANTS SyncMirrors
CHECK_DEADLOCK FALSE
