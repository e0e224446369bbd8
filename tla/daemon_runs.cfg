SPECIFICATION MCSpec
CONSTANTS
    Claude = Claude
    Codex = Codex
    Providers = {Claude, Codex}
    FailureThreshold = 1
    WindowSeconds = 1
    CooldownSeconds = 1
    MaxTime = 2
    Runs = {q1, q2, q3, q4}
    ShutdownRequests = {q4}
    Threads = {t1}
    ThreadOf <- MCThreadOf
    Config <- MCConfig
    Modes = {"single", "chain"}
    NoSession = NoSession
    Faults = {"dal"}
INVARIANTS NoOrphanTrial OpensAtThreshold ChainInOrder SessionIsolation DrainIsComplete
SYMMETRY RunsAlike
CHECK_DEADLOCK FALSE
