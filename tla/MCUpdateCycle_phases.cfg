CONSTANTS
    MaxNum = 1
    MaxEvents = 2
    NameAnswers = {TRUE, FALSE}
SPECIFICATION FairSpec
INVARIANTS TypeOK NothingLost FailsSuccessive
PROPERTIES AttemptsSettle
CHECK_DEADLOCK FALSE
