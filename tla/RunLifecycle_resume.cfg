SPECIFICATION Spec
CONSTANTS
    Runs = {r1}
    Streams = {s1}
    Calls = {c1, c2}
    Requests = {q1}
    NoRun = NoRun
    NoCall = NoCall
    NoRequest = NoRequest
    PrivateThread = FALSE
    InsertsMayFail = FALSE
    MaxRestarts = 0
SYMMETRY IdSymmetry
CHECK_DEADLOCK FALSE
INVARIANTS AwaitingIsParked
