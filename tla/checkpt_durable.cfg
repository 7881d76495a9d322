\* All modes, no write is cut short: saves, deaths and restores keep the promise of Durable.
CONSTANTS
    StartModes = {"on_time", "always", "never"}
    SetModes = {"on_time", "always", "never"}
    Leftovers = {}
    MaxVersion = 3
    MaxFaults = 2
SPECIFICATION FairSpec
INVARIANTS GoodFile CleanIsSaved HaltedIsQuiet
PROPERTIES DurableSpec StartsFromGoodFile ChangesSaved
