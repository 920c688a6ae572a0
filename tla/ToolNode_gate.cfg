SPECIFICATION FairSpec
CONSTANTS
    Count = 3
    Kinds = {"low", "medium", "high", "cross", "ask", "unscoped", "unregistered", "private"}
    RevocationsLeft = 1
    ErrorsLeft = 1
CHECK_DEADLOCK FALSE
INVARIANTS TypeOK ValuesStayWithTheirCalls ResultsAreHonest
PROPERTIES ImplementsGate NodeFinishes
