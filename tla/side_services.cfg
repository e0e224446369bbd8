SPECIFICATION SideSpec
CONSTANTS
    SandboxOf <- MCSandboxOf
    DaemonOf <- MCDaemonOf
    MaxJunk <- MCMaxJunk
    Manifests <- MCManifests
    Inputs <- MCInputs
    Bounds <- MCBounds
    Turns <- MCTurns
    Disks <- MCDisks
    Updates <- MCUpdates
    Environment = {"HOME"}
    Loops = {"l1", "l2"}
    Manual = {"m"}
    ValidityS = 3
    LeadS = 2
    DisableS = 2
    BackoffBase <- MCBackoff
    Lifetimes = {1}
    MaxClock = 3
    MaxIssued = 2
    Callers = {"g1", "g2"}
    WindowSeconds = 1
    Degraded = 1
    Unhealthy = 5
    MinSamples = 2
    MaxNow = 2
    MaxSamples = 3
    Runners = {"old", "new"}
    Newest <- MCNewest
INVARIANTS StopAnswersPending ReplyIsOwn StopReaps LockHasHolder LowerTiersYield
INVARIANTS PluginDirIsSelection TokenIsLatest DisabledOnlyAfterWindow MigratedInOrder
PROPERTIES WindowIsCounted
CHECK_DEADLOCK FALSE
