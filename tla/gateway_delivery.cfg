SPECIFICATION FairSpec
CONSTANTS
    Users = {u1, u2}
    Agents = {a1, a2}
    Channels = {c1}
    Exts = {e1}
    NoUser = NoUser
    NoAgent = NoAgent
    NoChannel = NoChannel
    NoExt = NoExt
    Repos = {"memory", "postgres"}
    Callers = {k1}
    AdminPairs <- MCAdminPairs
    Messages = {m1}
    NoMessage = NoMessage
    Origin <- MCOrigin
    Requests = {r1, r2}
    Faults = {"claim", "enqueue", "send", "ack"}
    MaxAttempts = 2
    MaxExpiries = 1
    Pids = {p1}
    NoPid = NoPid
    BatchSize = 2
    MaxCrashes = 1
INVARIANTS OneEntryPerWindow NothingLost InStreamOrder RepliesBounded JobsOfOneTenant
PROPERTIES EveryEntryEnds
CHECK_DEADLOCK FALSE
