SPECIFICATION ModelSpec
CONSTANTS
    Turns = {u1, u2}
    Configured = {"openai", "anthropic", "google_ai"}
    Chosen = {"anthropic", "google_ai"}
    NodeProvider = "default"
    MaxRetries = 2
    MaxCalls = 2
CHECK_DEADLOCK FALSE
INVARIANTS PrivateStaysLocal
