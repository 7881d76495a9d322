\* The server dies while it writes and starts again.
CONSTANTS
    StartModes = {"on_time"}
    SetModes = {}
    Leftovers = {"empty"}
    MaxVersion = 2
    MaxFaults = 2
SPECIFICATION Spec
PROPERTIES StartsFromGoodFile
