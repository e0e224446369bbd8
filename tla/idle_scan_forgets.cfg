SPECIFICATION FairSpec
CONSTANTS
    Users = {u1}
    Sandboxes = {s1}
    NoUser = NoUser
    NoSandbox = NoSandbox
    NoThread = NoThread
    Handlers = {h1}
    Scanners = {m1}
    Threads = {h1, m1}
    Capacity = 1
    Live = FALSE
    Faults = {}
    Ops = {"provision"}
PROPERTIES IdleIsHibernated
