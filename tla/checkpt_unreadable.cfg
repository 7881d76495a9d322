\* The only check point file cannot be loaded.
CONSTANTS
    StartModes = {"on_time"}
    SetModes = {}
    Leftovers = {"cut"}
    MaxVersion = 2
    MaxFaults = 2
SPECIFICATION Spec
PROPERTIES RefusesUnreadable
