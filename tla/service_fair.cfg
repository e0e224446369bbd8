SPECIFICATION FairSpec
CONSTANTS
    Users = {u1, u2}
    Sandboxes = {s1}
    NoUser = NoUser
    NoSandbox = NoSandbox
    NoThread = NoThread
    Handlers = {h1, h2}
    Scanners = {m1}
    Threads = {h1, h2, m1}
    Capacity = 1
    Live = FALSE
    Faults = {}
    Ops = {"provision"}
INVARIANTS OneFlightPerUser WaitersHaveLeader AnsweredRunning
PROPERTIES RequestsAnswered TrackedIdleIsHibernated
