SPECIFICATION Spec
CONSTANTS
    Runs = {r1, r2}
    Streams = {s1, s2}
    Calls = {c1, c2}
    Requests = {q1, q2}
    NoRun = NoRun
    NoCall = NoCall
    NoRequest = NoRequest
    PrivateThread = TRUE
    InsertsMayFail = TRUE
    MaxRestarts = 1
SYMMETRY IdSymmetry
CHECK_DEADLOCK FALSE
INVARIANTS TypeOK ReleaseNeedsGrant RunningIsOwned StatusIsEarned
PROPERTIES QuiescentTerminalIsFinal
