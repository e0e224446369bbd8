------------------------------ MODULE DaemonHandle ----------------------------
(***************************************************************************)
(* The orchestrator's side of a daemon (orchestrator/exec.go): RPCs over   *)
(* one line stream, the goroutine that reads the replies, Stop, and the    *)
(* spawner that remembers one process per sandbox.                         *)
(***************************************************************************)
EXTENDS Integers, Sequences, FiniteSets

CONSTANTS
    SandboxOf,      \* daemon -> the sandbox StartDaemon puts it in
    DaemonOf,       \* RPC -> its daemon
    MaxJunk         \* daemon -> the lines it may write that are no reply

ASSUME HandleAssumption ==
    /\ MaxJunk \in [DOMAIN SandboxOf -> Nat]
    /\ \A r \in DOMAIN DaemonOf : DaemonOf[r] \in DOMAIN SandboxOf

VARIABLES
    daemon,         \* daemon -> [alive, started, asked, lines, junk], its process
    handle,         \* daemon -> [stopped, pending, reader, closed]
    stopper,        \* daemon -> [pc, pending], the call of Stop
    rpc,            \* RPC -> [pc, channel, outcome]
    spawned         \* sandbox -> its daemon in the spawner's map, or "none"
handleVars == <<daemon, handle, stopper, rpc, spawned>>

Daemons == DOMAIN SandboxOf
Rpcs    == DOMAIN DaemonOf
Of(r)   == handle[DaemonOf[r]]

HandleInit ==
    /\ daemon = [d \in Daemons |-> [alive |-> FALSE, started |-> FALSE, asked |-> {},
                                    lines |-> <<>>, junk |-> 0]]
    /\ handle = [d \in Daemons |-> [stopped |-> FALSE, pending |-> {}, reader |-> "none",
                                    closed |-> FALSE]]
    /\ stopper = [d \in Daemons |-> [pc |-> "none", pending |-> {}]]
    /\ rpc = [r \in Rpcs |-> [pc |-> "idle", channel |-> "empty", outcome |-> "none"]]
    /\ spawned = [s \in {SandboxOf[d] : d \in Daemons} |-> "none"]

\* A dead process reads nothing more; what it wrote stays in the pipe.
Dead(p) == [p EXCEPT !.alive = FALSE, !.asked = {}]

\* StartDaemon: a second daemon of a sandbox takes the spawner's entry over.
StartDaemon(d) ==
    /\ ~daemon[d].started
    /\ daemon' = [daemon EXCEPT ![d].alive = TRUE, ![d].started = TRUE]
    /\ spawned' = [spawned EXCEPT ![SandboxOf[d]] = d]
    /\ UNCHANGED <<handle, stopper, rpc>>

-----------------------------------------------------------------------------
(***************************************************************************)
(* RPC: the test of stopped and the registration are two critical sections.*)
(***************************************************************************)
\* The deferred delete of the pending entry.
RpcReturns(r, o) ==
    /\ rpc' = [rpc EXCEPT ![r].pc = "done", ![r].outcome = o]
    /\ handle' = [handle EXCEPT ![DaemonOf[r]].pending = @ \ {r}]

RpcCalled(r) ==
    /\ rpc[r].pc = "idle" /\ daemon[DaemonOf[r]].started
    /\ rpc' = IF Of(r).stopped
              THEN [rpc EXCEPT ![r].pc = "done", ![r].outcome = "stopped"]
              ELSE [rpc EXCEPT ![r].pc = "register"]
    /\ UNCHANGED <<daemon, handle, stopper, spawned>>

\* ensureReader, once for the life of the handle.
Register(r) ==
    /\ rpc[r].pc = "register"
    /\ rpc' = [rpc EXCEPT ![r].pc = "write"]
    /\ handle' = [handle EXCEPT ![DaemonOf[r]].pending = @ \union {r},
                                ![DaemonOf[r]].reader = IF @ = "none" THEN "on" ELSE @]
    /\ UNCHANGED <<daemon, stopper, spawned>>

RpcWrites(r) ==
    LET d == DaemonOf[r] IN
    /\ rpc[r].pc = "write"
    /\ IF Of(r).closed \/ ~daemon[d].alive
       THEN RpcReturns(r, "write error") /\ UNCHANGED daemon
       ELSE /\ daemon' = [daemon EXCEPT ![d].asked = @ \union {r}]
            /\ rpc' = [rpc EXCEPT ![r].pc = "wait"]
            /\ UNCHANGED handle
    /\ UNCHANGED <<stopper, spawned>>

RpcReceives(r) ==
    /\ rpc[r].pc = "wait" /\ rpc[r].channel # "empty"
    /\ RpcReturns(r, rpc[r].channel)
    /\ UNCHANGED <<daemon, stopper, spawned>>

\* The RPC's timer, or its context.
RpcExpires(r) ==
    /\ rpc[r].pc = "wait"
    /\ RpcReturns(r, "deadline")
    /\ UNCHANGED <<daemon, stopper, spawned>>

RpcStep(r) == RpcCalled(r) \/ Register(r) \/ RpcWrites(r) \/ RpcReceives(r) \/ RpcExpires(r)

-----------------------------------------------------------------------------
(***************************************************************************)
(* readerLoop and the daemon's process.                                    *)
(***************************************************************************)
\* Sends to a channel of one place, which may be full.
Sent(rs, v) == [r \in Rpcs |-> IF r \in rs /\ rpc[r].channel = "empty"
                               THEN [rpc[r] EXCEPT !.channel = v] ELSE rpc[r]]

\* A reply goes to the RPC that is pending under its id, a line without one to
\* nobody; a blank line ends the reader as the end of the stream does.
ReadLine(d) ==
    /\ handle[d].reader = "on" /\ daemon[d].lines # <<>> /\ ~handle[d].closed
    /\ LET line == Head(daemon[d].lines) IN
       /\ rpc' = Sent({line} \intersect handle[d].pending, "reply")
       /\ handle' = IF line = "blank" THEN [handle EXCEPT ![d].reader = "done"] ELSE handle
    /\ daemon' = [daemon EXCEPT ![d].lines = Tail(@)]
    /\ UNCHANGED <<stopper, spawned>>

ReadEnds(d) ==
    /\ handle[d].reader = "on"
    /\ handle[d].stopped \/ handle[d].closed \/ (daemon[d].lines = <<>> /\ ~daemon[d].alive)
    /\ handle' = [handle EXCEPT ![d].reader = "done"]
    /\ UNCHANGED <<daemon, stopper, rpc, spawned>>

DaemonReplies(d) ==
    /\ daemon[d].alive
    /\ \E r \in daemon[d].asked :
         daemon' = [daemon EXCEPT ![d].asked = @ \ {r}, ![d].lines = Append(@, r)]
    /\ UNCHANGED <<handle, stopper, rpc, spawned>>

Babble(d) ==
    /\ daemon[d].alive /\ daemon[d].junk < MaxJunk[d]
    /\ \E line \in {"blank", "notice"} :
         daemon' = [daemon EXCEPT ![d].junk = @ + 1, ![d].lines = Append(@, line)]
    /\ UNCHANGED <<handle, stopper, rpc, spawned>>

\* By itself, or with the context of the StartDaemon that made it.
Exit(d) ==
    /\ daemon[d].alive
    /\ daemon' = [daemon EXCEPT ![d] = Dead(@)]
    /\ UNCHANGED <<handle, stopper, rpc, spawned>>

-----------------------------------------------------------------------------
(***************************************************************************)
(* Stop.                                                                   *)
(***************************************************************************)
StopAt(d, pc) == stopper' = [stopper EXCEPT ![d].pc = pc]

\* Mutant: the pending RPCs are not taken over.
StopBegins_NoSwap(d) ==
    /\ stopper[d].pc = "none" /\ daemon[d].started
    /\ handle' = [handle EXCEPT ![d].stopped = TRUE, ![d].pending = {}]
    /\ StopAt(d, "close")
    /\ UNCHANGED <<daemon, rpc, spawned>>
StopBegins(d) ==
    /\ stopper[d].pc = "none" /\ daemon[d].started
    /\ handle' = [handle EXCEPT ![d].stopped = TRUE, ![d].pending = {}]
    /\ stopper' = [stopper EXCEPT ![d] = [pc |-> "close", pending |-> handle[d].pending]]
    /\ UNCHANGED <<daemon, rpc, spawned>>

CloseStreams(d) ==
    /\ stopper[d].pc = "close"
    /\ handle' = [handle EXCEPT ![d].closed = TRUE]
    /\ daemon' = [daemon EXCEPT ![d] = Dead(@)]
    /\ StopAt(d, "drain")
    /\ UNCHANGED <<rpc, spawned>>

\* The wait for the reader is bounded, 500 ms: the reader may be still at work.
Drain(d) ==
    /\ stopper[d].pc = "drain"
    /\ rpc' = Sent(stopper[d].pending, "stopped")
    /\ StopAt(d, "forget")
    /\ UNCHANGED <<daemon, handle, spawned>>

\* onStop: the spawner kills the process it has for the sandbox.
Forget(d) ==
    LET s == SandboxOf[d] IN
    /\ stopper[d].pc = "forget"
    /\ daemon' = IF spawned[s] = "none" THEN daemon
                 ELSE [daemon EXCEPT ![spawned[s]] = Dead(@)]
    /\ spawned' = [spawned EXCEPT ![s] = "none"]
    /\ StopAt(d, "stopped")
    /\ UNCHANGED <<handle, rpc>>

HandleStopStep(d) == StopBegins(d) \/ CloseStreams(d) \/ Drain(d) \/ Forget(d)
ReaderStep(d) == ReadLine(d) \/ ReadEnds(d)

HandleNext ==
    \/ \E d \in Daemons : StartDaemon(d) \/ HandleStopStep(d) \/ ReaderStep(d)
                          \/ DaemonReplies(d) \/ Babble(d) \/ Exit(d)
    \/ \E r \in Rpcs : RpcStep(r)
HandleSpec == HandleInit /\ [][HandleNext]_handleVars

-----------------------------------------------------------------------------
(***************************************************************************)
(* Properties.                                                             *)
(***************************************************************************)
\* Once Stop has returned nobody it knew of waits on: an RPC that still waits
\* with nothing in its channel registered after Stop had taken the others over
\* (DaemonHandle.RPC, Stop, readerLoop).
StopAnswersPending ==
    \A r \in Rpcs :
        stopper[DaemonOf[r]].pc = "stopped" /\ rpc[r].pc = "wait" /\ rpc[r].channel = "empty"
            => r \in Of(r).pending
================================================================================
