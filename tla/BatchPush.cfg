SPECIFICATION Spec
CONSTANTS
    Key = {k1, k2}
    NoKey = NoKey
    Token = {t1}
    Absent = Absent
    Cleared = Cleared
    Pusher = {1, 2, 3, 4, 5, 6}
    BatchConcurrency = 2
    MaxBatchPushCount = 5
    MaxListed = 6
INVARIANTS
    BatchTypeOK
    AtMostConcurrency
    RowsAnswerKeys
PROPERTIES
    NoCallRestarts
    BatchIsAnswered
CHECK_DEADLOCK FALSE
