SPECIFICATION ServicesSpec
CONSTANTS
    Entries = {e1, e2, e3, e4}
    NoEntry = NoEntry
    AuthRequests = {q1, q2}
    AccessLife = 0
    RefreshLife = 1
    MaxPairs = 3
    MaxPasswords = 2
    MaxTime = 2
    GoogleTools = {calendar, gmail}
    DeployedGrant = 0
    MaxGrants = 2
    MaxSaves = 2
    MaxStates = 1
    SettingsRequests = {r1, r2}
    Scopes = {research, scheduling}
    Unset = Unset
    SettingValues = {Unset, custom}
    Standard = Standard
    Texts = {t1, t2}
    Nothing = Nothing
    MemoryCalls = {c1}
    MaxFacts = 2
    TaskIds = {a, b, c}
    Priorities = {0}
    MaxChain = 3
    MaxSequence = 3
    Tool = "web_search"
    Reserved = {"web_search"}
    Builtin = {"web_search", "external_memory"}
    Names = {"web_search", "external_memory", "lookup"}
    Functions = {"web_search"}
    AnyFunction = "*"
    GrantRequests = {g1, g2}
    Calls = {d1, d2}
    CallLimit = 1
    MaxRows = 2
    Messages = {m1, m2}
    MessageKeys = {k}
    NoKey = NoKey
    Threads = {t}
    HistoryTurns = {h1, h2}
    HistoryTools = {"x", "y"}
    HistoryLimit = 4
    MaxUses = 2
    Apology = Apology
    Turns = {u1, u2}
    Configured = {"openai", "anthropic", "google_ai"}
    Chosen = {"anthropic", "google_ai"}
    NodeProvider = "default"
    MaxRetries = 2
    MaxCalls = 2
CHECK_DEADLOCK FALSE
INVARIANTS ServicesTypeOK LinksLeadBack SerialAppendsVerify LoggedOutStaysOut HeldTokenLives LastWordHolds LastSettingHolds LastWishRemembered NoCircularWait CancelReachesAll DisabledToolIsRefused MessageOnce ThreadKeepsDomain StoredTurnsAreTrue CallsCountedOnce
PROPERTIES AppendsEnd
