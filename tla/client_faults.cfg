\* Small and structural changes between the full syncs of a client that resets,
\* and two events: the server dies, a handle is registered again or dropped, a
\* reply is lost, a queue of another suite changes.
CONSTANTS
    s1 = s1
    s2 = s2
    c1 = c1
    c2 = c2
    ann = ann
    bob = bob
    None = None
    Suites <- TwoSuites
    Loaded <- TwoSuites
    Clients <- OneClient
    UserOf <- Ann
    Vals = {0, 1}
    MaxHandle = 1
    MaxState = 4
    MaxModify = 4
    Allowed = {"suites", "reset", "queue_path", "restart", "reregister", "drop", "drop_user", "lost_handle"}
    MaxEvents = 2
SYMMETRY Alike
SPECIFICATION Spec
INVARIANTS FullIsFresh
CHECK_DEADLOCK FALSE
