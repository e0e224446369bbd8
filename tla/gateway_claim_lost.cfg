SPECIFICATION Spec
CONSTANTS
    Users = {u1, u2}
    Agents = {a1, a2}
    Channels = {c1}
    Exts = {e1}
    NoUser = NoUser
    NoAgent = NoAgent
    NoChannel = NoChannel
    NoExt = NoExt
    Repos = {"memory", "postgres"}
    Callers = {k1}
    AdminPairs <- MCAdminPairs
    Messages = {m1}
    NoMessage = NoMessage
    Origin <- MCOrigin
    Requests = {r1}
    Faults = {"enqueue"}
    MaxAttempts = 2
    MaxExpiries = 0
    Pids = {p1}
    NoPid = NoPid
    BatchSize = 2
    MaxCrashes = 1
INVARIANTS AnsweredIsQueued
CHECK_DEADLOCK FALSE
