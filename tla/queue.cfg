\* Everything that can happen to three jobs that share a queue.
CONSTANTS
    j1 = j1
    j2 = j2
    j3 = j3
    Jobs <- ThreeJobs
    N = 3
    Events = {"fail", "reset", "lost", "kill", "requeue"}
    MaxEvents = 3
SPECIFICATION FairSpec
INVARIANTS NoneSkipped ActiveIsHeld
PROPERTIES HandsOutWaiting NullMeansProcessed AllComplete
CHECK_DEADLOCK FALSE
