--------------------------- MODULE RuntimeDaemon ----------------------------
(***************************************************************************)
(* The runtime daemon process (cmd/runtime-daemon, runtime/daemon.go) on   *)
(* top of its JSON-RPC server (pkg/jsonrpc).  Serve reads lines from stdin *)
(* and handles each in a goroutine counted by a wait group; after the end  *)
(* of the input or a shutdown it waits for the goroutines, at most five    *)
(* seconds, and the process exits.                                         *)
(*                                                                         *)
(* The client writes one line per request and may close stdin at any time: *)
(* the gateway's consumer does so right after its only line, a             *)
(* DaemonHandle of the orchestrator does when it stops.  Requests are runs *)
(* of AgentLoop and "shutdown" requests; health and malformed lines are    *)
(* answered without touching state and left out.                           *)
(***************************************************************************)
EXTENDS AgentLoop, FiniteSets

CONSTANT ShutdownRequests   \* the requests that are "shutdown" calls

ASSUME DaemonAssumption == ShutdownRequests \subseteq Runs

VARIABLES
    stdin,      \* lines written and not read
    closed,     \* the client has closed stdin
    serve,      \* step of Serve
    inflight,   \* the wait group
    shutting,   \* Shutdown was called
    cancelled,  \* the handlers' context is cancelled
    stdout,     \* replies, oldest first
    timedOut    \* the drain timeout has fired

serverVars == <<stdin, closed, serve, inflight, shutting, cancelled, stdout, timedOut>>
vars == <<now, breaker, mode, sessions, step, pos, run,
          stdin, closed, serve, inflight, shutting, cancelled, stdout, timedOut>>

Init ==
    /\ BreakerInit
    /\ LoopInit
    /\ stdin = <<>>
    /\ closed = FALSE
    /\ serve = "scan"
    /\ inflight = 0
    /\ shutting = FALSE
    /\ cancelled = FALSE
    /\ stdout = <<>>
    /\ timedOut = FALSE

Sent(q) == q \in Range(stdin) \/ step[q] # "none"

-----------------------------------------------------------------------------
(***************************************************************************)
(* The client and the operating system.                                    *)
(***************************************************************************)
Send(q) ==
    /\ ~closed
    /\ serve # "exited"
    /\ ~Sent(q)
    /\ stdin' = Append(stdin, q)
    /\ UNCHANGED <<breakerVars, loopVars, closed, serve, inflight, shutting, cancelled,
                   stdout, timedOut>>

CloseStdin ==
    /\ ~closed
    /\ closed' = TRUE
    /\ UNCHANGED <<breakerVars, loopVars, stdin, serve, inflight, shutting, cancelled,
                   stdout, timedOut>>

\* SIGTERM or SIGINT: main calls Daemon.Shutdown.
Signal ==
    /\ serve # "exited"
    /\ ~shutting
    /\ shutting' = TRUE
    /\ UNCHANGED <<breakerVars, loopVars, stdin, closed, serve, inflight, cancelled,
                   stdout, timedOut>>

Client == (\E q \in Runs : Send(q)) \/ CloseStdin \/ Signal

-----------------------------------------------------------------------------
(***************************************************************************)
(* Serve.                                                                  *)
(***************************************************************************)
\* Mutant: the handler is not counted.
ServeLine_NoAdd ==
    /\ serve = "scan"
    /\ stdin # <<>>
    /\ stdin' = Tail(stdin)
    /\ IF shutting
       THEN serve' = "drain" /\ UNCHANGED step
       ELSE /\ step' = [step EXCEPT ![Head(stdin)] = "dispatch"]
            /\ UNCHANGED serve
    /\ UNCHANGED <<breakerVars, mode, sessions, pos, run, closed, inflight, shutting, cancelled,
                   stdout, timedOut>>

\* A line: it is dropped after a shutdown, and handled otherwise.
ServeLine ==
    /\ serve = "scan"
    /\ stdin # <<>>
    /\ stdin' = Tail(stdin)
    /\ IF shutting
       THEN serve' = "drain" /\ UNCHANGED <<step, inflight>>
       ELSE /\ inflight' = inflight + 1
            /\ step' = [step EXCEPT ![Head(stdin)] = "dispatch"]
            /\ UNCHANGED serve
    /\ UNCHANGED <<breakerVars, mode, sessions, pos, run, closed, shutting, cancelled, stdout, timedOut>>

\* The end of the input.
ServeEOF ==
    /\ serve = "scan"
    /\ stdin = <<>> /\ closed
    /\ serve' = "drain"
    /\ UNCHANGED <<breakerVars, loopVars, stdin, closed, inflight, shutting, cancelled,
                   stdout, timedOut>>

\* The goroutine that waits for a shutdown cancels the handlers' context.
Cancel ==
    /\ shutting /\ ~cancelled
    /\ serve # "exited"
    /\ cancelled' = TRUE
    /\ UNCHANGED <<breakerVars, loopVars, stdin, closed, serve, inflight, shutting,
                   stdout, timedOut>>

Drained ==
    /\ serve = "drain"
    /\ inflight = 0
    /\ serve' = "returned"
    /\ UNCHANGED <<breakerVars, loopVars, stdin, closed, inflight, shutting, cancelled,
                   stdout, timedOut>>

\* drainTimeout is over.
DrainTimeout ==
    /\ serve = "drain"
    /\ serve' = "returned"
    /\ timedOut' = TRUE
    /\ UNCHANGED <<breakerVars, loopVars, stdin, closed, inflight, shutting, cancelled, stdout>>

\* Serve's return cancels the context of what is left, main returns and the
\* process ends with the goroutines in it.
Exit ==
    /\ serve = "returned"
    /\ serve' = "exited"
    /\ cancelled' = TRUE
    /\ step' = [q \in Runs |-> IF step[q] \in {"none", "done"} THEN step[q] ELSE "killed"]
    /\ pos' = [q \in Runs |-> 1]
    /\ run' = [q \in Runs |-> NoRun]
    /\ UNCHANGED <<breakerVars, mode, sessions, stdin, closed, inflight, shutting,
                   stdout, timedOut>>

Serve == ServeLine \/ ServeEOF \/ Drained \/ Exit

-----------------------------------------------------------------------------
(***************************************************************************)
(* A handler: the request itself, the reply, the end of the goroutine.     *)
(***************************************************************************)
HandleRun(q) ==
    /\ q \notin ShutdownRequests
    /\ LoopStep(q, cancelled)
    /\ UNCHANGED serverVars

\* handleShutdown.
HandleShutdown(q) ==
    /\ q \in ShutdownRequests
    /\ Goto(q, "dispatch", "reply")
    /\ shutting' = TRUE
    /\ UNCHANGED <<breakerVars, mode, sessions, pos, run, stdin, closed, serve, inflight, cancelled,
                   stdout, timedOut>>

Reply(q) ==
    /\ Goto(q, "reply", "end")
    /\ stdout' = Append(stdout, q)
    /\ UNCHANGED <<breakerVars, mode, sessions, pos, run, stdin, closed, serve, inflight, shutting,
                   cancelled, timedOut>>

End(q) ==
    /\ Goto(q, "end", "done")
    /\ pos' = [pos EXCEPT ![q] = 1]
    /\ run' = [run EXCEPT ![q] = NoRun]
    /\ inflight' = inflight - 1
    /\ UNCHANGED <<breakerVars, mode, sessions, stdin, closed, serve, shutting, cancelled,
                   stdout, timedOut>>

Handler(q) == HandleRun(q) \/ HandleShutdown(q) \/ Reply(q) \/ End(q)

Clock == Tick /\ serve # "exited" /\ UNCHANGED <<loopVars, serverVars>>

Next ==
    \/ Client \/ Serve \/ Cancel \/ DrainTimeout \/ Clock
    \/ \E q \in Runs : Handler(q)

Spec == Init /\ [][Next]_vars

-----------------------------------------------------------------------------
TypeOK ==
    /\ BreakerTypeOK
    /\ LoopTypeOK
    /\ stdin \in Seq(Runs) /\ stdout \in Seq(Runs)
    /\ {closed, shutting, cancelled, timedOut} \subseteq BOOLEAN
    /\ serve \in {"scan", "drain", "returned", "exited"}
    /\ inflight \in Nat

\* Run q is between AttemptStarted for provider p and its Record call.
Attempting(q, p) ==
    /\ mode = "chain"
    /\ step[q] \in {"session", "turn", "record"}
    /\ Provider(q) = p

\* A provider is blocked by its half-open trial only while some run is still
\* on that attempt: whatever mix of late failures, successes and terminal
\* errors of older attempts arrives, no trial is left behind that would skip
\* the provider for ever.
NoOrphanTrial ==
    \A p \in Providers :
        breaker[p].trial /\ serve # "exited" =>
            /\ breaker[p].state = "half_open"
            /\ \E q \in Runs : Attempting(q, p)

\* F16: "Circuit breaker opens after configurable failure count".  A provider
\* with that many failures on record is not in normal operation, and an open
\* breaker counts its cooldown from a time that has been.
OpensAtThreshold ==
    \A p \in Providers :
        /\ Len(breaker[p].failures) >= FailureThreshold => breaker[p].state # "closed"
        /\ breaker[p].state = "open" => breaker[p].openedAt \in 1..now

\* F16: the chain tries a provider that is configured as fallback-only and
\* nothing else when all the others have failed or were skipped, and goes on
\* after no other outcome than a failover-worthy failure or a skip.
ChainInOrder ==
    \A q \in Runs :
        LET tried == run[q].attempts IN
        /\ \A i \in DOMAIN tried : i < Len(tried) => tried[i].result \in {"failover", "skipped"}
        /\ \A entry \in Range(Config), i \in DOMAIN tried :
              (\A f \in Range(Config) : f.id = tried[i].provider => f.fallbackOnly)
              /\ ~entry.fallbackOnly
              => \E j \in 1..(i - 1) : tried[j].provider = entry.id

\* F16: "Per-provider session state remains isolated".  A turn resumes only a
\* session its own provider issued for its own conversation.
SessionIsolation ==
    \A q \in Runs :
        step[q] = "turn" =>
            run[q].session \in {NoSession, [provider |-> Provider(q), thread |-> ThreadOf[q]]}

\* Serve that returned without a drain timeout has left no handler behind:
\* every request it took from the input has its reply.
DrainIsComplete ==
    serve \in {"returned", "exited"} /\ ~timedOut =>
        \A q \in Runs : step[q] = "none" \/ q \in Range(stdout)

\* consumer.go: spawnDaemon "sends one JSON-RPC run request, and returns the
\* reply text".  A request that was taken up is answered.
TakenIsAnswered ==
    \A q \in Runs : step[q] = "killed" => q \in Range(stdout)
=============================================================================
