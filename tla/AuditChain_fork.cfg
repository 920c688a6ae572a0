SPECIFICATION Spec
CONSTANTS
    Entries = {e1, e2, e3}
    NoEntry = NoEntry
CHECK_DEADLOCK FALSE
INVARIANTS NoFork
