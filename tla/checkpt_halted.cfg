\* The mode is always, the server is halted.
CONSTANTS
    StartModes = {"always"}
    SetModes = {}
    Leftovers = {}
    MaxVersion = 2
    MaxFaults = 0
SPECIFICATION Spec
INVARIANTS HaltedNeverSaves
