\* A handle is dropped by user, its client has no copy yet.
CONSTANTS
    s1 = s1
    s2 = s2
    c1 = c1
    c2 = c2
    ann = ann
    bob = bob
    None = None
    Suites <- TwoSuites
    Loaded <- TwoSuites
    Clients <- TwoClients
    UserOf <- SameUser
    Vals = {0, 1}
    MaxHandle = 1
    MaxState = 5
    MaxModify = 4
    Allowed = {"register", "drop_user"}
    MaxEvents = 2
SPECIFICATION Spec
INVARIANTS FullNamesKnownHandle
CHECK_DEADLOCK FALSE
