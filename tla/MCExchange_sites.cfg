SPECIFICATION Spec
CONSTANTS
    s1 = s1
    s2 = s2
    s3 = s3
    Sites = {s1, s2, s3}
    MaxNos <- AllOrTwo
    Firsts <- TwoOrThree
    Freq = 1
    MaxClock = 2
    MaxEvents = 1
INVARIANT TypeOK
INVARIANT NothingSkipped
INVARIANT InStep
PROPERTY DateForward
PROPERTY RunsEnd
PROPERTY Fetched
CHECK_DEADLOCK FALSE
