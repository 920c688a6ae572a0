SPECIFICATION Spec
CONSTANTS
    Count = 2
    Kinds = {"medium"}
    RevocationsLeft = 1
    ErrorsLeft = 0
CHECK_DEADLOCK FALSE
INVARIANTS RunsOnlyGranted
