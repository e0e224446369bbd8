SPECIFICATION Spec
CONSTANTS
    Users = {u1}
    Sandboxes = {s1, s2}
    NoUser = NoUser
    NoSandbox = NoSandbox
    NoThread = NoThread
    Handlers = {h1}
    Scanners = {}
    Threads = {h1}
    Capacity = 1
    Live = TRUE
    Faults = {"request_lost"}
    Ops = {"provision"}
SYMMETRY Symmetry
INVARIANTS OneSandboxPerUser
