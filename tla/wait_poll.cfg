CONSTANTS
    Timeouts <- SomeTimeouts
    Polls <- SomePolls
    CheckTime = 1
    Start = 4
    Horizon = 20
SPECIFICATION FairSpec
CHECK_DEADLOCK FALSE
INVARIANTS TypeOK OnlyLateSignalsMissed GivesUpInTime
PROPERTIES Answers
