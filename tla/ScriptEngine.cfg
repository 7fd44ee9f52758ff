SPECIFICATION ScriptSpec
CONSTANTS
    Script = {tour, eclipse}
    NoScript = NoScript
    MaxRuns = 4
    MaxTimers = 2
INVARIANTS
    ScriptInv
    EarlyAfterStop
PROPERTIES
    StopEnds
