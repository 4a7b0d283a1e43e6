CONSTANTS
    Keys = {k1, k2}
    NoKey = NoKey
    MaxText = 6
    MaxRuns = 2
    MaxFaults = 1
SPECIFICATION Spec
INVARIANTS TypeOK OffsetsHold OneOffset SearchFinds
PROPERTIES IndexedInTheEnd
CHECK_DEADLOCK FALSE
