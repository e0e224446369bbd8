SPECIFICATION Spec
CONSTANTS
    Users = {u1, u2}
    Sandboxes = {s1, s2}
    NoUser = NoUser
    NoSandbox = NoSandbox
    NoThread = NoThread
    Handlers = {h1, h2}
    Scanners = {}
    Threads = {h1, h2}
    Capacity = 1
    Live = TRUE
    Faults = {"request_lost", "reply_lost"}
    Ops = {"provision", "resume", "hibernate", "delete", "touch", "restart"}
SYMMETRY Symmetry
INVARIANTS IInv OwnSandbox ActiveSetBounded
