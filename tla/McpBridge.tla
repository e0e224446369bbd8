------------------------------- MODULE McpBridge -------------------------------
(***************************************************************************)
(* The per-turn MCP loopback bridge (internal/mcpbridge): HTTP handlers    *)
(* that dispatch tool calls to one stdio child process per skill, and the  *)
(* bridge's stop at the end of the turn.                                   *)
(*                                                                         *)
(* A skillChild is locked for the whole of a call.  Its process is written *)
(* a request line and read a reply line; a call that times out leaves its  *)
(* reader behind, on the same stream.  Two readers of one bufio.Reader are *)
(* a data race: here either of them gets the next line.  A write to a      *)
(* process that has stopped reading, its pipe full, blocks without a       *)
(* timeout, with the lock held.                                            *)
(***************************************************************************)
EXTENDS Integers, Sequences, FiniteSets

CONSTANTS
    Manifests,      \* slug -> [enabled, command], the turn's skills
    Inputs,         \* request -> its possible [post, token, method, slug]
    Bounds          \* [children, processes, notices]: how many of each there may be

ASSUME BridgeAssumption ==
    /\ Bounds \subseteq [children : Nat, processes : Nat, notices : Nat]
    /\ "free" \notin DOMAIN Inputs

VARIABLES
    call,           \* request -> what its handler holds
    pool,           \* slug -> index of its skillChild, 0 for none
    children,       \* sequence of [slug, mu, process, initialized, nextReqID]
    processes,      \* sequence of [alive, stdin, full, asked, lines, readers, late]
    audit,          \* calls with an entry in ToolCalls
    stop,           \* "no", "shutdown", "stopping", "stopped"
    stopping,       \* children that stopAll has still to stop
    room            \* of Bounds; its notices are those still to come
bridgeVars == <<call, pool, children, processes, audit, stop, stopping, room>>

Calls      == DOMAIN Inputs
Enabled(s) == Manifests[s].enabled /\ Manifests[s].command
Slugs      == DOMAIN Manifests
Free       == "free"
NoCall     == [pc |-> "idle", outcome |-> "none", method |-> "none",
               slugs |-> {}, child |-> 0, req |-> 0, sent |-> "none", reply |-> 0, seen |-> {}]

BridgeInit ==
    /\ call = [c \in Calls |-> NoCall]
    /\ pool = [s \in Slugs |-> 0]
    /\ children = <<>> /\ processes = <<>>
    /\ audit = {} /\ stop = "no" /\ stopping = {}
    /\ room \in Bounds

Active(c)      == call[c].pc \notin {"idle", "done"}
ChildOf(c)       == children[call[c].child]
ProcessOf(c)     == processes[ChildOf(c).process]
Goto(c, pc)    == call' = [call EXCEPT ![c].pc = pc]
Set(c, field, v) == [children EXCEPT ![call[c].child][field] = v]

\* What a handler does with the outcome of its dealings with the child: a tool
\* call is audited, and an error ends a listing.
Respond(c, o) == call' = [call EXCEPT ![c] =
    [NoCall EXCEPT !.pc = "done", !.method = call[c].method, !.outcome = o,
                   !.req = call[c].req, !.reply = call[c].reply]]
Outcome(c, o) == IF call[c].method = "tools/call"
                 THEN call' = [call EXCEPT ![c].outcome = o, ![c].pc = "audit"]
                 ELSE Respond(c, o)

-----------------------------------------------------------------------------
(***************************************************************************)
(* The HTTP handler.                                                       *)
(***************************************************************************)
Early(i) ==
    CASE ~i.post          -> "405"
      [] ~i.token         -> "401"
      [] i.method = "none"       -> "-32600"
      [] i.method = "initialize" -> "ok"
      [] i.method = "tools/list" -> "none"
      [] i.method = "tools/call" -> IF i.slug = "none" THEN "-32602" ELSE "none"
      [] OTHER            -> "-32601"

HandleMCP(c, i) ==
    /\ call[c].pc = "idle" /\ stop = "no"
    /\ call' = [call EXCEPT ![c] =
         [NoCall EXCEPT !.pc = IF Early(i) = "none" THEN "get" ELSE "done",
                        !.outcome = Early(i), !.method = i.method,
                        !.slugs = IF i.method = "tools/list" THEN {s \in Slugs : Enabled(s)}
                                  ELSE {i.slug}]]
    /\ UNCHANGED <<pool, children, processes, audit, stop, stopping, room>>

\* pool.get, for the next slug of a listing or the one of a call.
Get(c, s) ==
    /\ call[c].pc = "get" /\ s \in call[c].slugs
    /\ CASE ~(s \in Slugs /\ Enabled(s)) ->
              Outcome(c, "error") /\ UNCHANGED <<pool, children>>
         [] s \in Slugs /\ pool[s] # 0 ->
              /\ call' = [call EXCEPT ![c].pc = "start", ![c].slugs = @ \ {s}, ![c].child = pool[s]]
              /\ UNCHANGED <<pool, children>>
         [] OTHER ->
              /\ Len(children) < room.children
              /\ children' = Append(children, [slug |-> s, mu |-> Free, process |-> 0,
                                               initialized |-> FALSE, nextReqID |-> 1])
              /\ pool' = [pool EXCEPT ![s] = Len(children')]
              /\ call' = [call EXCEPT ![c].pc = "start", ![c].slugs = @ \ {s},
                                      ![c].child = Len(children')]
    /\ UNCHANGED <<processes, audit, stop, stopping, room>>

\* A listing without slugs left is answered.
Listed(c) ==
    /\ call[c].pc = "get" /\ call[c].slugs = {}
    /\ Outcome(c, "ok")
    /\ UNCHANGED <<pool, children, processes, audit, stop, stopping, room>>

\* ensureStarted takes the child's lock; a child that is not initialised is
\* given a new process, whatever process it had.
Started(c) ==
    /\ call[c].pc = "start" /\ ChildOf(c).mu = Free /\ ChildOf(c).initialized
    /\ Goto(c, IF call[c].method = "tools/call" THEN "lock" ELSE "get")
    /\ UNCHANGED <<pool, children, processes, audit, stop, stopping, room>>

SpawnChild(c) ==
    /\ call[c].pc = "start" /\ ChildOf(c).mu = Free /\ ~ChildOf(c).initialized
    /\ \/ /\ Len(processes) < room.processes
          /\ processes' = Append(processes, [alive |-> TRUE, stdin |-> TRUE, full |-> FALSE,
                                    asked |-> <<>>, lines |-> <<>>, readers |-> 0,
                                    late |-> stop \in {"stopping", "stopped"}])
          /\ children' = [children EXCEPT ![call[c].child].mu = c,
                                          ![call[c].child].process = Len(processes')]
          /\ call' = [call EXCEPT ![c].pc = "send", ![c].sent = "initialize"]
       \/ Outcome(c, "error") /\ UNCHANGED <<processes, children>>
    /\ UNCHANGED <<pool, audit, stop, stopping, room>>

Lock(c) ==
    /\ call[c].pc = "lock" /\ ChildOf(c).mu = Free
    /\ children' = Set(c, "mu", c)
    /\ call' = [call EXCEPT ![c].pc = "send", ![c].sent = "tools/call"]
    /\ UNCHANGED <<pool, processes, audit, stop, stopping, room>>

-----------------------------------------------------------------------------
(***************************************************************************)
(* sendRPC.                                                                *)
(***************************************************************************)
\* Mutant: the child's lock is kept.
Fail_KeepLock(c) == Outcome(c, "error") /\ UNCHANGED children
Fail(c) == Outcome(c, "error") /\ children' = Set(c, "mu", Free)

\* The write waits for a process that lives and does not read.
Writable(c) == ProcessOf(c).stdin /\ ProcessOf(c).alive
Send(c) ==
    /\ call[c].pc = "send" /\ ~(Writable(c) /\ ProcessOf(c).full)
    /\ IF Writable(c)
       THEN /\ processes' = [processes EXCEPT
                 ![ChildOf(c).process].asked = Append(@, ChildOf(c).nextReqID)]
            /\ children' = Set(c, "nextReqID", ChildOf(c).nextReqID + 1)
            /\ call' = [call EXCEPT ![c].pc = "await", ![c].req = ChildOf(c).nextReqID]
       ELSE /\ Outcome(c, "error")
            /\ children' = [children EXCEPT ![call[c].child].mu = Free,
                                            ![call[c].child].nextReqID = @ + 1]
            /\ UNCHANGED processes
    /\ UNCHANGED <<pool, audit, stop, stopping, room>>

\* After the reply to initialize the tools are listed; then the child is
\* initialised and unlocked.
Proceed(c) ==
    CASE call[c].sent = "initialize" ->
            call' = [call EXCEPT ![c].pc = "send", ![c].sent = "tools/list"] /\ UNCHANGED children
      [] call[c].sent = "tools/list" ->
            /\ children' = [children EXCEPT ![call[c].child].initialized = TRUE,
                                            ![call[c].child].mu = Free]
            /\ Goto(c, IF call[c].method = "tools/call" THEN "lock" ELSE "get")
      [] OTHER ->
            /\ call' = [call EXCEPT ![c].pc = "audit", ![c].outcome = "ok",
                                    ![c].reply = Head(ProcessOf(c).lines).id]
            /\ children' = Set(c, "mu", Free)

\* A line without an id passes for the reply.
\* Mutant: the reply's id is not compared.
Accepts_Any(c, line) == line.kind = "result"
Accepts(c, line) == line.id \in {0, call[c].req} /\ line.kind = "result"

Read(c) ==
    /\ call[c].pc = "await" /\ ProcessOf(c).lines # <<>>
    /\ processes' = [processes EXCEPT ![ChildOf(c).process].lines = Tail(@)]
    /\ IF Accepts(c, Head(ProcessOf(c).lines)) THEN Proceed(c) ELSE Fail(c)
    /\ UNCHANGED <<pool, audit, stop, stopping, room>>

ReadEOF(c) ==
    /\ call[c].pc = "await" /\ ProcessOf(c).lines = <<>> /\ ~ProcessOf(c).alive
    /\ Fail(c)
    /\ UNCHANGED <<pool, processes, audit, stop, stopping, room>>

\* childRPCTimeoutS, or the request's context; the reader stays.
CallExpires(c) ==
    /\ call[c].pc = "await"
    /\ processes' = [processes EXCEPT ![ChildOf(c).process].readers = @ + 1]
    /\ Fail(c)
    /\ UNCHANGED <<pool, audit, stop, stopping, room>>

\* A reader left behind takes a line nobody waits for any more, or somebody
\* does.
StaleRead(p) ==
    /\ processes[p].readers > 0 /\ processes[p].lines # <<>>
    /\ processes' = [processes EXCEPT ![p].lines = Tail(@), ![p].readers = @ - 1]
    /\ UNCHANGED <<call, pool, children, audit, stop, stopping, room>>

\* The append to ToolCalls, without a lock: a read and a write.
ReadAudit(c) ==
    /\ call[c].pc = "audit"
    /\ call' = [call EXCEPT ![c].pc = "append", ![c].seen = audit]
    /\ UNCHANGED <<pool, children, processes, audit, stop, stopping, room>>

AppendAudit(c) ==
    /\ call[c].pc = "append"
    /\ audit' = call[c].seen \union {c}
    /\ Respond(c, call[c].outcome)
    /\ UNCHANGED <<pool, children, processes, stop, stopping, room>>

CallStep(c) ==
    \/ \E s \in call[c].slugs : Get(c, s)
    \/ Listed(c) \/ Started(c) \/ SpawnChild(c) \/ Lock(c) \/ Send(c)
    \/ Read(c) \/ ReadEOF(c) \/ CallExpires(c) \/ ReadAudit(c) \/ AppendAudit(c)

-----------------------------------------------------------------------------
(***************************************************************************)
(* The skills' processes: replies in order, perhaps never, notifications   *)
(* between them, input that is read no more, an early end.                 *)
(***************************************************************************)
Reply(p) ==
    /\ processes[p].alive /\ processes[p].asked # <<>>
    /\ \E kind \in {"result", "error"} :
         processes' = [processes EXCEPT ![p].asked = Tail(@),
             ![p].lines = Append(@, [id |-> Head(processes[p].asked), kind |-> kind])]
    /\ UNCHANGED <<call, pool, children, audit, stop, stopping, room>>

Notify(p) ==
    /\ processes[p].alive /\ room.notices > 0
    /\ room' = [room EXCEPT !.notices = @ - 1]
    /\ processes' = [processes EXCEPT ![p].lines = Append(@, [id |-> 0, kind |-> "result"])]
    /\ UNCHANGED <<call, pool, children, audit, stop, stopping>>

Die(p) ==
    /\ processes[p].alive
    /\ processes' = [processes EXCEPT ![p].alive = FALSE, ![p].asked = <<>>]
    /\ UNCHANGED <<call, pool, children, audit, stop, stopping, room>>

\* It reads no more: what it is being sent fills its pipe.
Stall(p) ==
    /\ processes[p].alive /\ ~processes[p].full
    /\ \E c \in Calls : call[c].pc = "send" /\ ChildOf(c).process = p
    /\ processes' = [processes EXCEPT ![p].full = TRUE]
    /\ UNCHANGED <<call, pool, children, audit, stop, stopping, room>>

ServerStep(p) == StaleRead(p) \/ Reply(p) \/ Notify(p) \/ Die(p) \/ Stall(p)

-----------------------------------------------------------------------------
(***************************************************************************)
(* Stop.                                                                   *)
(***************************************************************************)
Shutdown ==
    /\ stop = "no" /\ stop' = "shutdown"
    /\ UNCHANGED <<call, pool, children, processes, audit, stopping, room>>

\* Shutdown waits for the handlers, for terminateGraceS at most; then stopAll
\* empties the pool.
\* Mutant: children that are still being started are passed over.
StopAll_Initialized ==
    /\ stop = "shutdown"
    /\ stop' = "stopping"
    /\ stopping' = {k \in {pool[s] : s \in Slugs} \ {0} : children[k].initialized}
    /\ pool' = [s \in Slugs |-> 0]
    /\ UNCHANGED <<call, children, processes, audit, room>>
StopAll ==
    /\ stop = "shutdown"
    /\ stop' = "stopping"
    /\ stopping' = {pool[s] : s \in Slugs} \ {0}
    /\ pool' = [s \in Slugs |-> 0]
    /\ UNCHANGED <<call, children, processes, audit, room>>

\* skillChild.stop: the lock, for the time it takes to read the process; then
\* its stdin is closed, and it is interrupted, killed and reaped.
StopChild(k) ==
    LET p == children[k].process IN
    /\ k \in stopping /\ children[k].mu = Free
    /\ stopping' = stopping \ {k}
    /\ processes' = IF p = 0 THEN processes
                    ELSE [processes EXCEPT
                           ![p].alive = FALSE, ![p].stdin = FALSE, ![p].asked = <<>>]
    /\ UNCHANGED <<call, pool, children, audit, stop, room>>

Stopped ==
    /\ stop = "stopping" /\ stopping = {}
    /\ stop' = "stopped"
    /\ UNCHANGED <<call, pool, children, processes, audit, stopping, room>>

StopStep == StopAll \/ Stopped \/ \E k \in stopping : StopChild(k)

BridgeNext ==
    \/ \E c \in Calls : CallStep(c) \/ \E i \in Inputs[c] : HandleMCP(c, i)
    \/ \E p \in DOMAIN processes : ServerStep(p)
    \/ Shutdown \/ StopStep
BridgeSpec == BridgeInit /\ [][BridgeNext]_bridgeVars

-----------------------------------------------------------------------------
(***************************************************************************)
(* Properties.                                                             *)
(***************************************************************************)
\* A tool call that succeeds returns the reply to its own request, or a line
\* that names no request; replies that came too late for the calls before it
\* are not taken for it (sendRPC).
ReplyIsOwn ==
    \A c \in Calls :
        /\ call[c].pc \in {"audit", "append", "done"}
        /\ call[c].method = "tools/call" /\ call[c].outcome = "ok"
        => call[c].reply \in {0, call[c].req}

\* Once Stop has returned, a skill's process that is still alive is one that a
\* later one replaced, after a failed start of the skill, or one that a request
\* still running after the grace period spawned (Stop, stopAll).
StopReaps ==
    stop = "stopped" =>
        \A p \in DOMAIN processes : processes[p].alive =>
            \/ processes[p].late
            \/ \A k \in DOMAIN children : children[k].process # p

\* A child's lock is held only by a call that is at work with it: one whose
\* request is sent and will be answered, fail or time out, or one whose write
\* is under way.  That one alone can keep the other calls and the stop waiting
\* for good, when the process lives and has stopped reading (callTool,
\* ensureStarted, sendRPC).
LockHasHolder ==
    \A k \in DOMAIN children :
        children[k].mu # Free =>
            /\ call[children[k].mu].child = k
            /\ call[children[k].mu].pc \in {"send", "await"}
================================================================================
