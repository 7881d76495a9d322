\* A write that is cut short leaves part of the definition.
CONSTANTS
    StartModes = {"on_time"}
    SetModes = {}
    Leftovers = {"cut"}
    MaxVersion = 3
    MaxFaults = 2
SPECIFICATION Spec
INVARIANTS GoodFile
