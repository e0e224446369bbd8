SPECIFICATION MCSpec
CONSTANTS
    Claude = Claude
    Codex = Codex
    Providers = {Claude, Codex}
    FailureThreshold = 1
    WindowSeconds = 1
    CooldownSeconds = 1
    MaxTime = 2
    Runs = {q1}
    ShutdownRequests = {}
    Threads = {t1}
    ThreadOf <- MCThreadOf
    Config <- MCConfig
    Modes = {"single"}
    NoSession = NoSession
    Faults = {}
INVARIANTS TakenIsAnswered
CHECK_DEADLOCK FALSE
