SPECIFICATION HistorySpec
CONSTANTS
    HistoryTurns = {h1, h2}
    HistoryTools = {"x", "y"}
    HistoryLimit = 4
    MaxUses = 2
    Apology = Apology
CHECK_DEADLOCK FALSE
INVARIANTS ResultsPairUp
