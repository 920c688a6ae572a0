SPECIFICATION FairSpec
CONSTANTS
    Runs = {r1}
    Streams = {s1, s2}
    Calls = {c1}
    Requests = {q1, q2}
    NoRun = NoRun
    NoCall = NoCall
    NoRequest = NoRequest
    PrivateThread = FALSE
    InsertsMayFail = FALSE
    MaxRestarts = 0
CHECK_DEADLOCK FALSE
PROPERTIES SettledDecisionStands StreamsEnd RequestsEnd
