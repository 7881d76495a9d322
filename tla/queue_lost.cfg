\* One reply to active is lost.
CONSTANTS
    j1 = j1
    j2 = j2
    j3 = j3
    Jobs <- OneJob
    N = 2
    Events = {"lost", "reset"}
    MaxEvents = 1
SPECIFICATION Spec
PROPERTIES NullMeansProcessedAlways
CHECK_DEADLOCK FALSE
