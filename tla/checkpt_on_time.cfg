\* Check-pointing is switched on while the server runs.
CONSTANTS
    StartModes = {"never"}
    SetModes = {"on_time"}
    Leftovers = {}
    MaxVersion = 2
    MaxFaults = 0
SPECIFICATION FairSpec
PROPERTIES ChangesSavedAlways
