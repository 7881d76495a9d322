\* Two jobs, one of which resets the index while the other works.
CONSTANTS
    j1 = j1
    j2 = j2
    j3 = j3
    Jobs <- TwoJobs
    N = 3
    Events = {"fail", "reset"}
    MaxEvents = 2
SPECIFICATION Spec
PROPERTIES HandsOutWaitingAlways
CHECK_DEADLOCK FALSE
