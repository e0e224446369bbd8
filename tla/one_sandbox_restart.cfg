SPECIFICATION SpecBeforeDelete
CONSTANTS
    Users = {u1}
    Sandboxes = {s1, s2, s3}
    NoUser = NoUser
    NoSandbox = NoSandbox
    NoThread = NoThread
    Handlers = {h1, h2}
    Scanners = {m1}
    Threads = {h1, h2, m1}
    Capacity = 1
    Live = TRUE
    Faults = {}
    Ops = {"provision", "hibernate", "delete", "restart"}
SYMMETRY Symmetry
PROPERTIES ImplementsUserSandbox
