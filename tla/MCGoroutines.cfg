\* Each of the parts that share no state: two instances on one port; all ten
\* polls for a transaction, whose numbers are rounded to three bits (8 is the
\* last before the gaps, 9 is rounded down and 11 up); three logs through a
\* channel that holds one; and the converter with mantissas of five bits.
SPECIFICATION Spec
CONSTANTS
    i1 = i1
    i2 = i2
    Instances = {i1, i2}
    WaitCount = 10
    Mantissa = 3
    Numbers = {8, 9, 11}
    MaxItems = 2
    Capacity = 1
    MaxLogs = 3
    Precision = 5
    Base = 10
    Amounts = {0, 1, 2, 3, 5, 7, 9, 10, 11, 13, 19, 20, 23, 25, 26, 29, 30, 31, 32, 33, 35, 37, 47, 50, 57, 63, 65, 99, 100, 101}
    Decimals = {0, 1, 2}
INVARIANTS
    AcceptedIsWanted
    FittingIsSigned
    StartedIsWhole
    EndedIsComplete
    NothingSkipped
    WithinOneUnit
PROPERTIES
    ConfirmationSpec
    SubmissionEnds
    NeverDeaf
    GoroutineReturns
    UnsubscribeReturns
\* Submissions end, and so do the users of the bindings.
CHECK_DEADLOCK FALSE
