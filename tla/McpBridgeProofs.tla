---------------------------- MODULE McpBridgeProofs ---------------------------
(***************************************************************************)
(* Proofs about McpBridge, for any skills, requests and bounds: the lock   *)
(* of a skillChild always has a holder that will let it go, and Stop ends  *)
(* the process of every child it finds.                                    *)
(***************************************************************************)
EXTENDS McpBridge, SequenceTheorems, TLAPS

\* The record r has the fields fs, and r[f] for each of them.
Shaped(r, fs) == r = [f \in fs |-> r[f]]
CallFields == {"pc", "outcome", "method", "slugs", "child", "req", "sent", "reply", "seen"}
Child == [slug : Slugs, mu : Calls \cup {Free}, process : Nat, initialized : BOOLEAN,
          nextReqID : Nat]
Line == [id : Nat, kind : {"result", "error"}]
Process == [alive : BOOLEAN, stdin : BOOLEAN, full : BOOLEAN, asked : Seq(Nat),
            lines : Seq(Line), readers : Nat, late : BOOLEAN]

BridgeTypeOK ==
    /\ call = [c \in Calls |-> call[c]]
    /\ \A c \in Calls : Shaped(call[c], CallFields)
    /\ children \in Seq(Child)
    /\ processes \in Seq(Process)
    /\ pool \in [Slugs -> Nat]
    /\ stop \in {"no", "shutdown", "stopping", "stopped"}

\* A call that deals with a child has one, and one that awaits a reply holds
\* its lock.
Working == \A c \in Calls :
    call[c].pc \in {"start", "lock", "send", "await"} => call[c].child \in DOMAIN children
Holding == \A c \in Calls :
    call[c].pc \in {"send", "await"} => children[call[c].child].mu = c

\* Until stopAll takes the pool over every child is in it; then a child whose
\* process lives is one that is still to be stopped, or was started late.
Pooled ==
    /\ \A s \in Slugs : pool[s] # 0 => pool[s] \in DOMAIN children
    /\ stop \in {"no", "shutdown"} =>
          \A k \in DOMAIN children : pool[children[k].slug] = k
Reaped ==
    \A k \in DOMAIN children :
        LET p == children[k].process IN
        /\ p = 0 \/ p \in DOMAIN processes
        /\ stop \in {"stopping", "stopped"} /\ p # 0 =>
              ~processes[p].alive \/ processes[p].late \/ k \in stopping
Ended == stop = "stopped" => stopping = {}

BridgeInv == /\ BridgeTypeOK /\ Working /\ Holding /\ LockHasHolder
             /\ Pooled /\ Reaped /\ Ended

LEMMA BridgeInitial == BridgeInit => BridgeInv
<1> SUFFICES ASSUME BridgeInit PROVE BridgeInv
  OBVIOUS
<1>1. BridgeTypeOK
  BY DEF BridgeInit, BridgeTypeOK, NoCall, Shaped, CallFields
<1>2. Working /\ Holding /\ LockHasHolder /\ Pooled /\ Reaped /\ Ended
  BY DEF BridgeInit, NoCall, Working, Holding, LockHasHolder, Pooled, Reaped, Ended
<1> QED
  BY <1>1, <1>2 DEF BridgeInv

-----------------------------------------------------------------------------
(***************************************************************************)
(* What a step of one call changes.                                        *)
(***************************************************************************)
\* Only c's record moves.
Moved(c) == /\ call' = [x \in Calls |-> call'[x]]
            /\ Shaped(call'[c], CallFields)
            /\ \A x \in Calls : x # c => call'[x] = call[x]

\* A tool call goes on to its audit, a listing is answered (callTool,
\* handleToolsList).
LEMMA OutcomeMoves ==
    ASSUME BridgeTypeOK, NEW c \in Calls, NEW o, Outcome(c, o)
    PROVE  /\ Moved(c) /\ call'[c].pc \in {"audit", "done"}
           /\ call'[c].method = call[c].method /\ call'[c].outcome = o
           /\ call'[c].req = call[c].req /\ call'[c].reply = call[c].reply
<1>1. call = [x \in Calls |-> call[x]] /\ Shaped(call[c], CallFields)
  BY DEF BridgeTypeOK
<1>2. CASE call[c].method = "tools/call"
  BY <1>1, <1>2, ZenonT(60) DEF Outcome, Moved, Shaped, CallFields
<1>3. CASE call[c].method # "tools/call"
  BY <1>1, <1>3, ZenonT(60) DEF Outcome, Respond, NoCall, Moved, Shaped, CallFields
<1> QED
  BY <1>2, <1>3

\* The lock k that c deals with is c's after the step, or free; no other lock
\* is touched (mu of skillChild).
LEMMA LockMoves ==
    ASSUME BridgeInv, NEW c \in Calls, Moved(c), NEW k,
           DOMAIN children \subseteq DOMAIN children',
           \A j \in DOMAIN children : j # k => children'[j].mu = children[j].mu,
           \A j \in DOMAIN children' : j \notin DOMAIN children => children'[j].mu = Free,
           call[c].pc \in {"send", "await"} => call[c].child = k,
           k \in DOMAIN children => children[k].mu \in {Free, c},
           call'[c].pc \in {"send", "await"} =>
              call'[c].child = k /\ k \in DOMAIN children /\ children'[k].mu = c,
           call'[c].pc \notin {"send", "await"} /\ k \in DOMAIN children => children'[k].mu = Free,
           call'[c].pc \in {"start", "lock", "send", "await"} => call'[c].child \in DOMAIN children'
    PROVE  Working' /\ Holding' /\ LockHasHolder'
<1>1. \A x \in Calls : x # c => call'[x] = call[x]
  BY DEF Moved
<1>2. Working'
  BY <1>1 DEF BridgeInv, Working
<1>3. Free \notin Calls
  BY BridgeAssumption DEF Free, Calls
<1>4. Holding'
  <2>1. SUFFICES ASSUME NEW x \in Calls, call'[x].pc \in {"send", "await"}
                 PROVE  children'[call'[x].child].mu = x
    BY DEF Holding
  <2>2. CASE x = c
    BY <2>1, <2>2
  <2>3. CASE x # c
    <3>1. /\ call'[x] = call[x] /\ call[x].child \in DOMAIN children
          /\ children[call[x].child].mu = x
      BY <1>1, <2>1, <2>3 DEF BridgeInv, Working, Holding
    <3>2. call[x].child # k
      BY <1>3, <2>3, <3>1
    <3> QED
      BY <3>1, <3>2
  <2> QED
    BY <2>2, <2>3
<1>5. LockHasHolder'
  <2>1. SUFFICES ASSUME NEW j \in DOMAIN children', children'[j].mu # Free
                 PROVE  /\ call'[children'[j].mu].child = j
                        /\ call'[children'[j].mu].pc \in {"send", "await"}
    BY DEF LockHasHolder
  <2>2. j \in DOMAIN children
    BY <2>1
  <2>3. CASE j = k
    BY <2>1, <2>2, <2>3
  <2>4. CASE j # k
    <3>1. children'[j].mu = children[j].mu
      BY <2>2, <2>4
    <3>2. /\ children[j].mu \in Calls /\ call[children[j].mu].child = j
          /\ call[children[j].mu].pc \in {"send", "await"}
      <4>1. children[j] \in Child
        BY <2>2 DEF BridgeInv, BridgeTypeOK
      <4>2. children[j].mu \in Calls
        BY <2>1, <3>1, <4>1 DEF Child
      <4> QED
        BY <2>1, <2>2, <3>1, <4>2 DEF BridgeInv, LockHasHolder
    <3>3. children[j].mu # c
      BY <2>4, <3>2
    <3> QED
      BY <1>1, <3>1, <3>2, <3>3
  <2> QED
    BY <2>3, <2>4
<1> QED
  BY <1>2, <1>4, <1>5

\* Nobody's process comes to life, and no child changes its process.
LEMMA ReapKeeps ==
    ASSUME BridgeInv, UNCHANGED <<pool, stop, stopping>>, DOMAIN children' = DOMAIN children,
           \A k \in DOMAIN children : /\ children'[k].slug = children[k].slug
                                      /\ children'[k].process = children[k].process,
           DOMAIN processes' = DOMAIN processes,
           \A p \in DOMAIN processes : /\ processes'[p].alive => processes[p].alive
                                       /\ processes[p].late => processes'[p].late
    PROVE  Pooled' /\ Reaped' /\ Ended'
<1>1. Pooled' /\ Ended'
  BY DEF BridgeInv, Pooled, Ended
<1>2. Reaped'
  BY DEF BridgeInv, Reaped
<1> QED
  BY <1>1, <1>2

-----------------------------------------------------------------------------
(***************************************************************************)
(* The steps of a call.                                                    *)
(***************************************************************************)
\* One child's record is replaced.
LEMMA ChildSet ==
    ASSUME children \in Seq(Child), NEW k \in DOMAIN children, NEW x \in Child,
           children' = [children EXCEPT ![k] = x]
    PROVE  /\ children' \in Seq(Child) /\ DOMAIN children' = DOMAIN children
           /\ children'[k] = x
           /\ \A j \in DOMAIN children : j # k => children'[j] = children[j]
  OBVIOUS

\* The child that c deals with is c's, and keeps what it has but for some
\* fields.
OnlyChild(c) ==
    /\ children' \in Seq(Child) /\ DOMAIN children' = DOMAIN children
    /\ children'[call[c].child].slug = children[call[c].child].slug
    /\ \A j \in DOMAIN children : j # call[c].child => children'[j] = children[j]
NoneRevived ==
    /\ processes' \in Seq(Process) /\ DOMAIN processes' = DOMAIN processes
    /\ \A p \in DOMAIN processes : /\ processes'[p].alive => processes[p].alive
                                   /\ processes[p].late => processes'[p].late

LEMMA Holder ==
    ASSUME BridgeInv, NEW c \in Calls, call[c].pc \in {"send", "await"}
    PROVE  LET k == call[c].child IN
           k \in DOMAIN children /\ children[k].mu = c /\ children[k] \in Child
  BY DEF BridgeInv, BridgeTypeOK, Working, Holding

\* A call leaves its child, which is unlocked: the end of sendRPC.
LEMMA ReleaseKeeps ==
    ASSUME BridgeInv, NEW c \in Calls, call[c].pc \in {"send", "await"},
           Moved(c), OnlyChild(c), NoneRevived,
           children'[call[c].child].mu = Free,
           children'[call[c].child].process = children[call[c].child].process,
           call'[c].pc \notin {"send", "await"},
           call'[c].pc \in {"start", "lock"} => call'[c].child = call[c].child,
           UNCHANGED <<pool, stop, stopping>>
    PROVE  BridgeInv'
<1> DEFINE k == call[c].child
<1>1. k \in DOMAIN children /\ children[k].mu = c
  BY Holder
<1>2. BridgeTypeOK'
  BY DEF BridgeInv, BridgeTypeOK, Moved, OnlyChild, NoneRevived
<1>3. /\ DOMAIN children' = DOMAIN children
      /\ \A j \in DOMAIN children : j # k => children'[j] = children[j]
      /\ children'[k].mu = Free /\ children'[k].slug = children[k].slug
      /\ children'[k].process = children[k].process
  BY DEF OnlyChild
<1>4. call[c].child = k /\ (call'[c].pc \in {"start", "lock"} => call'[c].child = k)
  OBVIOUS
<1> HIDE DEF k
<1>5. Working' /\ Holding' /\ LockHasHolder'
  BY <1>1, <1>3, <1>4, LockMoves
<1>6. Pooled' /\ Reaped' /\ Ended'
  BY <1>3, ReapKeeps DEF NoneRevived
<1> QED
  BY <1>2, <1>5, <1>6 DEF BridgeInv

\* A call goes on with the child it holds, or takes one that is free.
LEMMA HoldKeeps ==
    ASSUME BridgeInv, NEW c \in Calls, call[c].child \in DOMAIN children,
           children[call[c].child].mu \in {Free, c},
           Moved(c), OnlyChild(c), NoneRevived,
           children'[call[c].child].mu = c,
           children'[call[c].child].process = children[call[c].child].process,
           call'[c].pc \in {"send", "await"}, call'[c].child = call[c].child,
           UNCHANGED <<pool, stop, stopping>>
    PROVE  BridgeInv'
<1> DEFINE k == call[c].child
<1>1. BridgeTypeOK'
  BY DEF BridgeInv, BridgeTypeOK, Moved, OnlyChild, NoneRevived
<1>2. /\ DOMAIN children' = DOMAIN children /\ k \in DOMAIN children
      /\ \A j \in DOMAIN children : j # k => children'[j] = children[j]
      /\ children[k].mu \in {Free, c}
      /\ children'[k].mu = c /\ children'[k].slug = children[k].slug
      /\ children'[k].process = children[k].process
  BY DEF OnlyChild
<1>3. call[c].child = k /\ call'[c].child = k
  OBVIOUS
<1> HIDE DEF k
<1>4. Working' /\ Holding' /\ LockHasHolder'
  BY <1>2, <1>3, LockMoves
<1>5. Pooled' /\ Reaped' /\ Ended'
  BY <1>2, ReapKeeps DEF NoneRevived
<1> QED
  BY <1>1, <1>4, <1>5 DEF BridgeInv

\* A call that holds nothing moves and touches nothing.
LEMMA FreeKeeps ==
    ASSUME BridgeInv, NEW c \in Calls, call[c].pc \notin {"send", "await"}, Moved(c),
           call'[c].pc \notin {"send", "await"},
           call'[c].pc \in {"start", "lock"} => call'[c].child \in DOMAIN children,
           UNCHANGED <<children, processes, pool, stop, stopping>>
    PROVE  BridgeInv'
<1>1. BridgeTypeOK'
  BY DEF BridgeInv, BridgeTypeOK, Moved
<1>2. 0 \notin DOMAIN children
  BY DEF BridgeInv, BridgeTypeOK
<1>3. Working' /\ Holding' /\ LockHasHolder'
  BY <1>2, LockMoves
<1>4. Pooled' /\ Reaped' /\ Ended'
  BY ReapKeeps
<1> QED
  BY <1>1, <1>3, <1>4 DEF BridgeInv

LEMMA SetMu ==
    ASSUME BridgeInv, NEW c \in Calls, call[c].child \in DOMAIN children,
           NEW v \in Calls \cup {Free}, children' = Set(c, "mu", v)
    PROVE  /\ OnlyChild(c) /\ children'[call[c].child].mu = v
           /\ children'[call[c].child].process = children[call[c].child].process
<1> DEFINE k == call[c].child
           x == [children[k] EXCEPT !.mu = v]
<1>1. children[k] \in Child /\ children \in Seq(Child) /\ k \in DOMAIN children
  BY DEF BridgeInv, BridgeTypeOK
<1>2. x \in Child /\ x.mu = v /\ x.slug = children[k].slug /\ x.process = children[k].process
  BY <1>1 DEF Child
<1>3. children' = [children EXCEPT ![k] = x]
  BY DEF Set
<1> HIDE DEF k, x
<1>4. /\ children' \in Seq(Child) /\ DOMAIN children' = DOMAIN children
      /\ children'[k] = x
      /\ \A j \in DOMAIN children : j # k => children'[j] = children[j]
  BY <1>1, <1>2, <1>3, ChildSet
<1> QED
  BY <1>2, <1>4 DEF OnlyChild, k

LEMMA FailKeeps ==
    ASSUME BridgeInv, NEW c \in Calls, call[c].pc \in {"send", "await"}, Fail(c), NoneRevived,
           UNCHANGED <<pool, stop, stopping>>
    PROVE  BridgeInv'
<1>1. Moved(c) /\ call'[c].pc \in {"audit", "done"}
  BY OutcomeMoves DEF Fail, BridgeInv
<1>2. call[c].child \in DOMAIN children
  BY Holder
<1>3. /\ OnlyChild(c) /\ children'[call[c].child].mu = Free
      /\ children'[call[c].child].process = children[call[c].child].process
  BY <1>2, SetMu DEF Fail
<1> QED
  BY <1>1, <1>3, ReleaseKeeps

\* handleMCP, tools/list, the audit: no lock is held.
LEMMA HandlerKeeps ==
    ASSUME BridgeInv, NEW c \in Calls,
           \/ \E i \in Inputs[c] : HandleMCP(c, i)
           \/ Listed(c) \/ Started(c) \/ ReadAudit(c) \/ AppendAudit(c)
    PROVE  BridgeInv'
<1>1. UNCHANGED <<children, processes, pool, stop, stopping>> /\ call[c].pc \notin {"send", "await"}
  BY DEF HandleMCP, Listed, Started, ReadAudit, AppendAudit
<1>2. call = [x \in Calls |-> call[x]] /\ Shaped(call[c], CallFields) /\ BridgeTypeOK
  BY DEF BridgeInv, BridgeTypeOK
<1>3. /\ Moved(c) /\ call'[c].pc \notin {"send", "await"}
      /\ call'[c].pc \in {"start", "lock"} => call'[c].child \in DOMAIN children
  <2>1. ASSUME NEW i \in Inputs[c], HandleMCP(c, i)
        PROVE  Moved(c) /\ call'[c].pc \notin {"send", "await", "start", "lock"}
    BY <1>2, <2>1 DEF HandleMCP, NoCall, Moved, Shaped, CallFields
  <2>2. CASE Listed(c)
    BY <1>2, <2>2, OutcomeMoves DEF Listed
  <2>3. CASE Started(c)
    <3>1. call[c].child \in DOMAIN children
      BY <2>3 DEF Started, BridgeInv, Working
    <3>2. Moved(c) /\ call'[c].pc \in {"lock", "get"} /\ call'[c].child = call[c].child
      BY <1>2, <2>3 DEF Started, Goto, Moved, Shaped, CallFields
    <3> QED
      BY <3>1, <3>2
  <2>4. CASE ReadAudit(c)
    BY <1>2, <2>4 DEF ReadAudit, Moved, Shaped, CallFields
  <2>5. CASE AppendAudit(c)
    BY <1>2, <2>5 DEF AppendAudit, Respond, NoCall, Moved, Shaped, CallFields
  <2> QED
    BY <2>1, <2>2, <2>3, <2>4, <2>5
<1> QED
  BY <1>1, <1>3, FreeKeeps

\* A new child is unlocked, has no process, and is in the pool (pool.get).
LEMMA GetKeeps ==
    ASSUME BridgeInv, NEW c \in Calls, NEW s \in call[c].slugs, Get(c, s)
    PROVE  BridgeInv'
<1>1. call = [x \in Calls |-> call[x]] /\ Shaped(call[c], CallFields) /\ BridgeTypeOK
  BY DEF BridgeInv, BridgeTypeOK
<1>2. UNCHANGED <<processes, stop, stopping>> /\ call[c].pc = "get"
  BY DEF Get
<1>3. CASE Outcome(c, "error") /\ UNCHANGED <<pool, children>>
  BY <1>1, <1>2, <1>3, OutcomeMoves, FreeKeeps
<1>4. CASE /\ s \in Slugs /\ pool[s] # 0
           /\ call' = [call EXCEPT ![c].pc = "start", ![c].slugs = @ \ {s}, ![c].child = pool[s]]
           /\ UNCHANGED <<pool, children>>
  <2>1. Moved(c) /\ call'[c].pc = "start" /\ call'[c].child = pool[s]
    BY <1>1, <1>4 DEF Moved, Shaped, CallFields
  <2>2. pool[s] \in DOMAIN children
    BY <1>4 DEF BridgeInv, Pooled
  <2> QED
    BY <1>2, <1>4, <2>1, <2>2, FreeKeeps
<1>5. CASE /\ s \in Slugs /\ pool[s] = 0
           /\ children' = Append(children, [slug |-> s, mu |-> Free, process |-> 0,
                                            initialized |-> FALSE, nextReqID |-> 1])
           /\ pool' = [pool EXCEPT ![s] = Len(children')]
           /\ call' = [call EXCEPT ![c].pc = "start", ![c].slugs = @ \ {s},
                                   ![c].child = Len(children')]
  <2> DEFINE new == [slug |-> s, mu |-> Free, process |-> 0, initialized |-> FALSE, nextReqID |-> 1]
             n == Len(children) + 1
  <2>1. new \in Child /\ Len(children) \in Nat /\ children \in Seq(Child)
    BY <1>1, <1>5 DEF Child, BridgeTypeOK
  <2>2. /\ children' \in Seq(Child) /\ Len(children') = n /\ DOMAIN children' = 1..n
        /\ DOMAIN children = 1..Len(children)
        /\ children'[n] = new /\ \A k \in DOMAIN children : children'[k] = children[k]
    BY <1>5, <2>1
  <2>3. /\ Moved(c) /\ call'[c].pc = "start" /\ call'[c].child = n
    BY <1>1, <1>5, <2>2 DEF Moved, Shaped, CallFields
  <2>4. pool' \in [Slugs -> Nat] /\ \A t \in Slugs : pool'[t] = IF t = s THEN n ELSE pool[t]
    BY <1>1, <1>5, <2>1, <2>2 DEF BridgeTypeOK
  <2>5. new.slug = s /\ new.mu = Free /\ new.process = 0
    OBVIOUS
  <2> HIDE DEF new
  <2>6. BridgeTypeOK'
    BY <1>1, <1>2, <2>2, <2>3, <2>4 DEF BridgeTypeOK, Moved
  <2>7. Working' /\ Holding' /\ LockHasHolder'
    <3>1. /\ 0 \notin DOMAIN children /\ n \in DOMAIN children'
          /\ DOMAIN children \subseteq DOMAIN children'
      BY <2>1, <2>2
    <3>2. \A j \in DOMAIN children' : j \notin DOMAIN children => children'[j].mu = Free
      BY <2>1, <2>2, <2>5
    <3> HIDE DEF n
    <3> QED
      BY <1>2, <2>2, <2>3, <3>1, <3>2, LockMoves
  <2>8. Pooled'
    <3>0. \A t \in Slugs : pool'[t] # 0 => pool'[t] \in DOMAIN children'
      BY <2>1, <2>2, <2>4 DEF BridgeInv, Pooled
    <3>1. SUFFICES ASSUME stop \in {"no", "shutdown"}, NEW k \in DOMAIN children'
                   PROVE  pool'[children'[k].slug] = k
      BY <1>2, <3>0 DEF Pooled
    <3>2. CASE k \in DOMAIN children
      <4>1. children'[k] = children[k] /\ pool[children[k].slug] = k /\ children[k].slug \in Slugs
        <5>1. children[k] \in Child
          BY <2>1, <3>2
        <5> QED
          BY <2>2, <3>1, <3>2, <5>1 DEF BridgeInv, Pooled, Child
      <4>2. children[k].slug # s
        BY <1>5, <2>1, <3>2, <4>1
      <4> QED
        BY <2>4, <4>1, <4>2
    <3>3. CASE k \notin DOMAIN children
      <4>1. k = n
        BY <2>1, <2>2, <3>1, <3>3
      <4> QED
        BY <1>5, <2>2, <2>4, <2>5, <4>1
    <3> QED
      BY <3>2, <3>3
  <2>9. Reaped' /\ Ended'
    <3>1. \A k \in DOMAIN children' : k \in DOMAIN children \/ children'[k].process = 0
      BY <2>1, <2>2, <2>5
    <3> QED
      BY <1>2, <2>2, <3>1 DEF BridgeInv, Reaped, Ended
  <2> QED
    BY <2>6, <2>7, <2>8, <2>9 DEF BridgeInv
<1> QED
  BY <1>3, <1>4, <1>5 DEF Get

\* ensureStarted gives the child a new process and keeps the lock; a process
\* started after stopAll is late.
LEMMA SpawnKeeps ==
    ASSUME BridgeInv, NEW c \in Calls, SpawnChild(c)
    PROVE  BridgeInv'
<1>1. call = [x \in Calls |-> call[x]] /\ Shaped(call[c], CallFields) /\ BridgeTypeOK
  BY DEF BridgeInv, BridgeTypeOK
<1>2. /\ UNCHANGED <<pool, stop, stopping>> /\ call[c].pc = "start"
      /\ call[c].child \in DOMAIN children /\ children[call[c].child].mu = Free
  BY DEF SpawnChild, ChildOf, BridgeInv, Working
<1>3. CASE Outcome(c, "error") /\ UNCHANGED <<processes, children>>
  BY <1>1, <1>2, <1>3, OutcomeMoves, FreeKeeps
<1>4. ASSUME NEW b \in BOOLEAN, b <=> stop \in {"stopping", "stopped"},
             processes' = Append(processes, [alive |-> TRUE, stdin |-> TRUE, full |-> FALSE,
                                             asked |-> <<>>, lines |-> <<>>, readers |-> 0, late |-> b]),
             children' = [children EXCEPT ![call[c].child].mu = c,
                                          ![call[c].child].process = Len(processes')],
             call' = [call EXCEPT ![c].pc = "send", ![c].sent = "initialize"]
      PROVE  BridgeInv'
  <2> DEFINE k == call[c].child
             x == [children[k] EXCEPT !.mu = c, !.process = Len(processes')]
             new == [alive |-> TRUE, stdin |-> TRUE, full |-> FALSE, asked |-> <<>>,
                     lines |-> <<>>, readers |-> 0, late |-> b]
             n == Len(processes) + 1
  <2>1. new \in Process /\ new.late = b /\ Len(processes) \in Nat /\ processes \in Seq(Process)
    BY <1>1, <1>4 DEF Process, BridgeTypeOK
  <2> HIDE DEF new
  <2>2. /\ processes' \in Seq(Process) /\ Len(processes') = n /\ processes'[n] = new
        /\ DOMAIN processes = 1..(n - 1) /\ DOMAIN processes' = 1..n
        /\ \A p \in DOMAIN processes : processes'[p] = processes[p]
    BY <1>4, <2>1 DEF new
  <2>3. children[k] \in Child /\ children \in Seq(Child) /\ k \in DOMAIN children
    BY <1>2 DEF BridgeInv, BridgeTypeOK
  <2>4. x \in Child /\ x.mu = c /\ x.slug = children[k].slug /\ x.process = n
    <3>1. Len(processes') \in Nat /\ Len(processes') = n
      BY <2>1, <2>2
    <3> QED
      BY <2>3, <3>1 DEF Child
  <2>5. children' = [children EXCEPT ![k] = x]
    BY <1>4
  <2>6. Moved(c) /\ call'[c].pc = "send" /\ call'[c].child = k
    BY <1>1, <1>4 DEF Moved, Shaped, CallFields
  <2>7. call[c].child = k
    OBVIOUS
  <2> HIDE DEF k, x
  <2>8. /\ children' \in Seq(Child) /\ DOMAIN children' = DOMAIN children
        /\ children'[k] = x
        /\ \A j \in DOMAIN children : j # k => children'[j] = children[j]
    BY <2>3, <2>4, <2>5, ChildSet
  <2>9. BridgeTypeOK'
    BY <1>1, <1>2, <2>2, <2>6, <2>8 DEF BridgeTypeOK, Moved
  <2>10. Working' /\ Holding' /\ LockHasHolder'
    BY <1>2, <2>3, <2>4, <2>6, <2>7, <2>8, LockMoves
  <2>11. Pooled' /\ Ended'
    BY <1>2, <2>4, <2>8 DEF BridgeInv, Pooled, Ended
  <2>12. Reaped'
    <3>1. SUFFICES ASSUME NEW j \in DOMAIN children
                   PROVE  LET p == children'[j].process IN
                          /\ p = 0 \/ p \in DOMAIN processes'
                          /\ stop \in {"stopping", "stopped"} /\ p # 0 =>
                                ~processes'[p].alive \/ processes'[p].late \/ j \in stopping
      BY <1>2, <2>8 DEF Reaped
    <3>2. CASE j = k
      <4>1. children'[j].process = n /\ n \in DOMAIN processes' /\ processes'[n].late = b
        BY <2>1, <2>2, <2>4, <2>8, <3>2
      <4> QED
        BY <1>4, <4>1
    <3>3. CASE j # k
      <4>1. children'[j] = children[j]
        BY <2>8, <3>1, <3>3
      <4>2. DOMAIN processes \subseteq DOMAIN processes'
        BY <2>1, <2>2
      <4> QED
        BY <2>2, <3>1, <4>1, <4>2 DEF BridgeInv, Reaped
    <3> QED
      BY <3>2, <3>3
  <2> QED
    BY <2>9, <2>10, <2>11, <2>12 DEF BridgeInv
<1>5. CASE ~(Outcome(c, "error") /\ UNCHANGED <<processes, children>>)
  <2>1. /\ processes' = Append(processes, [alive |-> TRUE, stdin |-> TRUE, full |-> FALSE,
                            asked |-> <<>>, lines |-> <<>>, readers |-> 0, late |-> stop \in {"stopping", "stopped"}])
        /\ children' = [children EXCEPT ![call[c].child].mu = c,
                                        ![call[c].child].process = Len(processes')]
        /\ call' = [call EXCEPT ![c].pc = "send", ![c].sent = "initialize"]
    BY <1>5 DEF SpawnChild
  <2>2. CASE stop \in {"stopping", "stopped"}
    <3>1. (stop \in {"stopping", "stopped"}) = TRUE
      BY <2>2
    <3> QED
      BY <1>4, <2>1, <2>2, <3>1
  <2>3. CASE stop \notin {"stopping", "stopped"}
    <3>1. (stop \in {"stopping", "stopped"}) = FALSE
      BY <2>3
    <3> QED
      BY <1>4, <2>1, <2>3, <3>1
  <2> QED
    BY <2>2, <2>3
<1> QED
  BY <1>3, <1>5

-----------------------------------------------------------------------------
(***************************************************************************)
(* What happens to one process: requests, replies, readers, its end.       *)
(***************************************************************************)
LEMMA ProcessSet ==
    ASSUME BridgeTypeOK, NEW p, NEW x, processes' = [processes EXCEPT ![p] = x],
           p \in DOMAIN processes => /\ x \in Process
                                     /\ x.alive => processes[p].alive
                                     /\ processes[p].late => x.late
    PROVE  NoneRevived
<1>1. processes \in Seq(Process)
  BY DEF BridgeTypeOK
<1>2. CASE p \in DOMAIN processes
  BY <1>1, <1>2 DEF NoneRevived
<1>3. CASE p \notin DOMAIN processes
  <2>1. processes' = processes
    BY <1>1, <1>3
  <2> QED
    BY <1>1, <2>1 DEF NoneRevived
<1> QED
  BY <1>2, <1>3

LEMMA Written ==
    ASSUME BridgeTypeOK, NEW p, NEW n \in Nat,
           processes' = [processes EXCEPT ![p].asked = Append(@, n)]
    PROVE  NoneRevived
<1> DEFINE x == [processes[p] EXCEPT !.asked = Append(@, n)]
<1>1. processes' = [processes EXCEPT ![p] = x]
  OBVIOUS
<1>2. p \in DOMAIN processes => /\ x \in Process /\ x.alive = processes[p].alive
                                /\ x.late = processes[p].late
  <2>1. p \in DOMAIN processes => processes[p] \in Process
    BY DEF BridgeTypeOK
  <2>2. p \in DOMAIN processes => Append(processes[p].asked, n) \in Seq(Nat)
    BY <2>1 DEF Process
  <2>3. CASE p \in DOMAIN processes
    <3>1. x \in Process /\ x.alive = processes[p].alive /\ x.late = processes[p].late
      BY <2>1, <2>2, <2>3 DEF Process
    <3> QED
      BY <3>1
  <2> QED
    BY <2>3
<1> HIDE DEF x
<1> QED
  BY <1>1, <1>2, ProcessSet

LEMMA LineTaken ==
    ASSUME BridgeTypeOK, NEW p, processes[p].lines # <<>>,
           processes' = [processes EXCEPT ![p].lines = Tail(@)]
    PROVE  NoneRevived
<1> DEFINE x == [processes[p] EXCEPT !.lines = Tail(@)]
<1>1. processes' = [processes EXCEPT ![p] = x]
  OBVIOUS
<1>2. p \in DOMAIN processes => /\ x \in Process /\ x.alive = processes[p].alive
                                /\ x.late = processes[p].late
  <2>1. p \in DOMAIN processes => processes[p] \in Process
    BY DEF BridgeTypeOK
  <2>2. p \in DOMAIN processes => Tail(processes[p].lines) \in Seq(Line)
    BY <2>1 DEF Process
  <2>3. CASE p \in DOMAIN processes
    <3>1. x \in Process /\ x.alive = processes[p].alive /\ x.late = processes[p].late
      BY <2>1, <2>2, <2>3 DEF Process
    <3> QED
      BY <3>1
  <2> QED
    BY <2>3
<1> HIDE DEF x
<1> QED
  BY <1>1, <1>2, ProcessSet

LEMMA ReaderLeft ==
    ASSUME BridgeTypeOK, NEW p, processes' = [processes EXCEPT ![p].readers = @ + 1]
    PROVE  NoneRevived
<1> DEFINE x == [processes[p] EXCEPT !.readers = @ + 1]
<1>1. processes' = [processes EXCEPT ![p] = x]
  OBVIOUS
<1>2. p \in DOMAIN processes => /\ x \in Process /\ x.alive = processes[p].alive
                                /\ x.late = processes[p].late
  <2>1. p \in DOMAIN processes => processes[p] \in Process
    BY DEF BridgeTypeOK
  <2>2. p \in DOMAIN processes => processes[p].readers + 1 \in Nat
    BY <2>1 DEF Process
  <2>3. CASE p \in DOMAIN processes
    <3>1. x \in Process /\ x.alive = processes[p].alive /\ x.late = processes[p].late
      BY <2>1, <2>2, <2>3 DEF Process
    <3> QED
      BY <3>1
  <2> QED
    BY <2>3
<1> HIDE DEF x
<1> QED
  BY <1>1, <1>2, ProcessSet

\* The processes' own steps (readers left behind, replies, notifications, exit,
\* input that is not read).
LEMMA ServerKeeps ==
    ASSUME BridgeInv, NEW p \in DOMAIN processes, ServerStep(p)
    PROVE  BridgeInv'
<1>1. UNCHANGED <<call, pool, children, stop, stopping>> /\ BridgeTypeOK
  BY DEF ServerStep, StaleRead, Reply, Notify, Die, Stall, BridgeInv
<1>2. processes[p] \in Process
  BY <1>1 DEF BridgeTypeOK
<1>3. NoneRevived
  <2>1. CASE StaleRead(p)
    <3> DEFINE x == [processes[p] EXCEPT !.lines = Tail(@), !.readers = @ - 1]
    <3>1. processes' = [processes EXCEPT ![p] = x]
      BY <2>1 DEF StaleRead
    <3>2. Tail(processes[p].lines) \in Seq(Line) /\ processes[p].readers - 1 \in Nat
      BY <1>2, <2>1 DEF StaleRead, Process
    <3>3. x \in Process /\ x.alive = processes[p].alive /\ x.late = processes[p].late
      BY <1>2, <3>2, ZenonT(60) DEF Process
    <3> HIDE DEF x
    <3> QED
      BY <1>1, <3>1, <3>3, ProcessSet
  <2>2. CASE Reply(p)
    <3>1. PICK kind \in {"result", "error"} :
            processes' = [processes EXCEPT ![p].asked = Tail(@),
                 ![p].lines = Append(@, [id |-> Head(processes[p].asked), kind |-> kind])]
      BY <2>2 DEF Reply
    <3> DEFINE line == [id |-> Head(processes[p].asked), kind |-> kind]
               x == [processes[p] EXCEPT !.asked = Tail(@), !.lines = Append(@, line)]
    <3>2. line \in Line
      BY <1>2, <2>2 DEF Reply, Process, Line
    <3>3. processes' = [processes EXCEPT ![p] = x]
      BY <3>1
    <3> HIDE DEF line
    <3>4. /\ Tail(processes[p].asked) \in Seq(Nat)
          /\ Append(processes[p].lines, line) \in Seq(Line)
      BY <1>2, <2>2, <3>2 DEF Reply, Process
    <3>5. x \in Process /\ x.alive = processes[p].alive /\ x.late = processes[p].late
      BY <1>2, <3>4, ZenonT(60) DEF Process
    <3> HIDE DEF x
    <3> QED
      BY <1>1, <3>3, <3>5, ProcessSet
  <2>3. CASE Notify(p)
    <3> DEFINE line == [id |-> 0, kind |-> "result"]
               x == [processes[p] EXCEPT !.lines = Append(@, line)]
    <3>1. processes' = [processes EXCEPT ![p] = x]
      BY <2>3 DEF Notify
    <3>2. line \in Line
      BY DEF Line
    <3> HIDE DEF line
    <3>3. x \in Process /\ x.alive = processes[p].alive /\ x.late = processes[p].late
      BY <1>2, <3>2, SMTT(30) DEF Process
    <3> HIDE DEF x
    <3> QED
      BY <1>1, <3>1, <3>3, ProcessSet
  <2>4. CASE Die(p)
    <3> DEFINE x == [processes[p] EXCEPT !.alive = FALSE, !.asked = <<>>]
    <3>1. processes' = [processes EXCEPT ![p] = x]
      BY <2>4 DEF Die
    <3>2. <<>> \in Seq(Nat)
      OBVIOUS
    <3>3. x \in Process /\ ~x.alive /\ x.late = processes[p].late
      BY <1>2, <3>2, ZenonT(60) DEF Process
    <3> HIDE DEF x
    <3> QED
      BY <1>1, <3>1, <3>3, ProcessSet
  <2>5. CASE Stall(p)
    <3> DEFINE x == [processes[p] EXCEPT !.full = TRUE]
    <3>1. processes' = [processes EXCEPT ![p] = x]
      BY <2>5 DEF Stall
    <3>2. x \in Process /\ x.alive = processes[p].alive /\ x.late = processes[p].late
      BY <1>2, ZenonT(60) DEF Process
    <3> HIDE DEF x
    <3> QED
      BY <1>1, <3>1, <3>2, ProcessSet
  <2> QED
    BY <2>1, <2>2, <2>3, <2>4, <2>5 DEF ServerStep
<1>4. BridgeTypeOK' /\ Working' /\ Holding' /\ LockHasHolder'
  BY <1>1, <1>3 DEF BridgeInv, BridgeTypeOK, Working, Holding, LockHasHolder, NoneRevived
<1>5. Pooled' /\ Reaped' /\ Ended'
  BY <1>1, <1>3, ReapKeeps DEF NoneRevived
<1> QED
  BY <1>4, <1>5 DEF BridgeInv

-----------------------------------------------------------------------------
(***************************************************************************)
(* sendRPC: the lock, the request, the reply, the failures.                *)
(***************************************************************************)
LEMMA ChildReplaced ==
    ASSUME BridgeInv, NEW c \in Calls, call[c].child \in DOMAIN children, NEW x \in Child,
           x.slug = children[call[c].child].slug,
           children' = [children EXCEPT ![call[c].child] = x]
    PROVE  OnlyChild(c) /\ children'[call[c].child] = x
<1> DEFINE k == call[c].child
<1>1. children \in Seq(Child) /\ k \in DOMAIN children /\ x.slug = children[k].slug
  BY DEF BridgeInv, BridgeTypeOK
<1>2. children' = [children EXCEPT ![k] = x]
  OBVIOUS
<1> HIDE DEF k
<1>3. /\ children' \in Seq(Child) /\ DOMAIN children' = DOMAIN children
      /\ children'[k] = x
      /\ \A j \in DOMAIN children : j # k => children'[j] = children[j]
  BY <1>1, <1>2, ChildSet
<1> QED
  BY <1>1, <1>3 DEF OnlyChild, k

LEMMA NobodyRevived == ASSUME BridgeInv, UNCHANGED processes PROVE NoneRevived
  BY DEF BridgeInv, BridgeTypeOK, NoneRevived

LEMMA LockKeeps ==
    ASSUME BridgeInv, NEW c \in Calls, Lock(c)
    PROVE  BridgeInv'
<1>1. /\ call[c].child \in DOMAIN children /\ children[call[c].child].mu = Free
      /\ UNCHANGED <<processes, pool, stop, stopping>>
  BY DEF Lock, ChildOf, BridgeInv, Working
<1>2. Moved(c) /\ call'[c].pc = "send" /\ call'[c].child = call[c].child
  <2>1. call = [x \in Calls |-> call[x]] /\ Shaped(call[c], CallFields)
    BY DEF BridgeInv, BridgeTypeOK
  <2> QED
    BY <2>1 DEF Lock, Moved, Shaped, CallFields
<1>3. /\ OnlyChild(c) /\ children'[call[c].child].mu = c
      /\ children'[call[c].child].process = children[call[c].child].process
  BY <1>1, SetMu DEF Lock
<1>4. NoneRevived
  BY <1>1, NobodyRevived
<1> QED
  BY <1>1, <1>2, <1>3, <1>4, HoldKeeps

\* A request is written and its number used up, whether the pipe takes it or not.
LEMMA SendKeeps ==
    ASSUME BridgeInv, NEW c \in Calls, Send(c)
    PROVE  BridgeInv'
<1> DEFINE k == call[c].child
           n == children[k].nextReqID
           x == [children[k] EXCEPT !.nextReqID = n + 1]
           y == [children[k] EXCEPT !.mu = Free, !.nextReqID = n + 1]
<1>1. /\ k \in DOMAIN children /\ children[k].mu = c /\ children[k] \in Child
      /\ call[c].pc = "send" /\ UNCHANGED <<pool, stop, stopping>> /\ BridgeTypeOK
  BY Holder DEF Send, BridgeInv
<1>2. /\ n \in Nat /\ x \in Child /\ x.slug = children[k].slug /\ x.mu = c
      /\ x.process = children[k].process
      /\ y \in Child /\ y.slug = children[k].slug /\ y.mu = Free
      /\ y.process = children[k].process
  <2>1. n \in Nat /\ n + 1 \in Nat
    BY <1>1 DEF Child
  <2> HIDE DEF n
  <2>2. /\ x \in Child /\ x.slug = children[k].slug /\ x.mu = c
        /\ x.process = children[k].process
    BY <1>1, <2>1 DEF Child
  <2>3. /\ y \in Child /\ y.slug = children[k].slug /\ y.mu = Free
        /\ y.process = children[k].process
    BY <1>1, <2>1 DEF Child
  <2> QED
    BY <2>1, <2>2, <2>3 DEF n
<1>3. CASE Writable(c)
  <2>1. /\ processes' = [processes EXCEPT ![children[k].process].asked = Append(@, n)]
        /\ children' = [children EXCEPT ![k] = x]
        /\ call' = [call EXCEPT ![c].pc = "await", ![c].req = n]
    BY <1>3 DEF Send, Set, ChildOf
  <2>2. Moved(c) /\ call'[c].pc = "await" /\ call'[c].child = k
    <3>1. call = [u \in Calls |-> call[u]] /\ Shaped(call[c], CallFields)
      BY <1>1 DEF BridgeTypeOK
    <3> QED
      BY <2>1, <3>1 DEF Moved, Shaped, CallFields
  <2> HIDE DEF n, x
  <2>3. NoneRevived
    BY <1>1, <1>2, <2>1, Written
  <2>4. OnlyChild(c) /\ children'[k] = x
    BY <1>1, <1>2, <2>1, ChildReplaced
  <2> QED
    BY <1>1, <1>2, <2>2, <2>3, <2>4, HoldKeeps
<1>4. CASE ~Writable(c)
  <2>1. /\ Outcome(c, "error") /\ UNCHANGED processes
        /\ children' = [children EXCEPT ![k] = y]
    BY <1>4 DEF Send
  <2>2. Moved(c) /\ call'[c].pc \in {"audit", "done"}
    BY <1>1, <2>1, OutcomeMoves
  <2> HIDE DEF n, y
  <2>3. NoneRevived
    BY <2>1, NobodyRevived
  <2>4. OnlyChild(c) /\ children'[k] = y
    BY <1>1, <1>2, <2>1, ChildReplaced
  <2> QED
    BY <1>1, <1>2, <2>2, <2>3, <2>4, ReleaseKeeps
<1> QED
  BY <1>3, <1>4

\* The reply is read: the next request, the end of the start, or the outcome.
LEMMA ReadKeeps ==
    ASSUME BridgeInv, NEW c \in Calls, Read(c)
    PROVE  BridgeInv'
<1> DEFINE k == call[c].child
           x == [children[k] EXCEPT !.initialized = TRUE, !.mu = Free]
<1>1. /\ k \in DOMAIN children /\ children[k].mu = c /\ children[k] \in Child
      /\ call[c].pc = "await" /\ UNCHANGED <<pool, stop, stopping>> /\ BridgeTypeOK
      /\ call = [u \in Calls |-> call[u]] /\ Shaped(call[c], CallFields)
  BY Holder DEF Read, BridgeInv, BridgeTypeOK
<1>2. NoneRevived
  BY <1>1, LineTaken DEF Read, ProcessOf, ChildOf
<1>3. CASE Fail(c)
  BY <1>1, <1>2, <1>3, FailKeeps
<1>4. CASE Proceed(c)
  <2>1. CASE call[c].sent = "initialize"
    <3>1. call' = [call EXCEPT ![c].pc = "send", ![c].sent = "tools/list"] /\ UNCHANGED children
      BY <1>4, <2>1 DEF Proceed
    <3>2. Moved(c) /\ call'[c].pc = "send" /\ call'[c].child = k
      BY <1>1, <3>1 DEF Moved, Shaped, CallFields
    <3>3. OnlyChild(c)
      BY <1>1, <3>1 DEF OnlyChild, BridgeTypeOK
    <3> QED
      BY <1>1, <1>2, <3>1, <3>2, <3>3, HoldKeeps
  <2>2. CASE call[c].sent = "tools/list"
    <3>1. /\ children' = [children EXCEPT ![k] = x]
          /\ Goto(c, IF call[c].method = "tools/call" THEN "lock" ELSE "get")
      BY <1>4, <2>2 DEF Proceed
    <3>2. Moved(c) /\ call'[c].pc \in {"lock", "get"} /\ call'[c].child = k
      BY <1>1, <3>1 DEF Goto, Moved, Shaped, CallFields
    <3>3. /\ x \in Child /\ x.slug = children[k].slug /\ x.mu = Free
          /\ x.process = children[k].process
      BY <1>1 DEF Child
    <3> HIDE DEF x
    <3>4. OnlyChild(c) /\ children'[k] = x
      BY <1>1, <3>1, <3>3, ChildReplaced
    <3> QED
      BY <1>1, <1>2, <3>2, <3>3, <3>4, ReleaseKeeps
  <2>3. CASE call[c].sent \notin {"initialize", "tools/list"}
    <3>1. /\ call' = [call EXCEPT ![c].pc = "audit", ![c].outcome = "ok",
                                  ![c].reply = Head(ProcessOf(c).lines).id]
          /\ children' = Set(c, "mu", Free)
      BY <1>4, <2>3 DEF Proceed
    <3>2. Moved(c) /\ call'[c].pc = "audit"
      BY <1>1, <3>1 DEF Moved, Shaped, CallFields
    <3>3. OnlyChild(c) /\ children'[k].mu = Free /\ children'[k].process = children[k].process
      BY <1>1, <3>1, SetMu
    <3> QED
      BY <1>1, <1>2, <3>2, <3>3, ReleaseKeeps
  <2> QED
    BY <2>1, <2>2, <2>3
<1> QED
  BY <1>3, <1>4 DEF Read

\* The stream's end and the timeout.
LEMMA GiveUpKeeps ==
    ASSUME BridgeInv, NEW c \in Calls, ReadEOF(c) \/ CallExpires(c)
    PROVE  BridgeInv'
<1>1. call[c].pc = "await" /\ Fail(c) /\ UNCHANGED <<pool, stop, stopping>> /\ BridgeTypeOK
  BY DEF ReadEOF, CallExpires, BridgeInv
<1>2. NoneRevived
  <2>1. CASE ReadEOF(c)
    BY <2>1, NobodyRevived DEF ReadEOF
  <2>2. CASE CallExpires(c)
    BY <1>1, <2>2, ReaderLeft DEF CallExpires
  <2> QED
    BY <2>1, <2>2
<1> QED
  BY <1>1, <1>2, FailKeeps

-----------------------------------------------------------------------------
(***************************************************************************)
(* Stop.                                                                   *)
(***************************************************************************)
LEMMA StopKeeps ==
    ASSUME BridgeInv, Shutdown \/ StopStep
    PROVE  BridgeInv'
<1>1. UNCHANGED <<call, children>> /\ BridgeTypeOK
  BY DEF Shutdown, StopStep, StopAll, StopChild, Stopped, BridgeInv
<1>2. Working' /\ Holding' /\ LockHasHolder'
  BY <1>1 DEF BridgeInv, Working, Holding, LockHasHolder
<1>3. CASE Shutdown
  <2>1. BridgeTypeOK'
    BY <1>1, <1>3 DEF BridgeTypeOK, Shutdown
  <2>2. Pooled' /\ Reaped' /\ Ended'
    BY <1>1, <1>3 DEF Shutdown, BridgeInv, Pooled, Reaped, Ended
  <2> QED
    BY <1>2, <2>1, <2>2 DEF BridgeInv
<1>4. CASE StopAll
  <2>1. BridgeTypeOK'
    BY <1>1, <1>4 DEF BridgeTypeOK, StopAll
  <2>2. Pooled' /\ Ended'
    BY <1>4 DEF StopAll, Pooled, Ended
  <2>3. Reaped'
    <3>1. SUFFICES ASSUME NEW k \in DOMAIN children
                   PROVE  /\ children[k].process = 0 \/ children[k].process \in DOMAIN processes
                          /\ k \in stopping'
      BY <1>1, <1>4 DEF StopAll, Reaped
    <3>2. children[k] \in Child /\ k # 0
      BY <1>1, <3>1 DEF BridgeTypeOK
    <3>3. children[k].slug \in Slugs /\ pool[children[k].slug] = k
      BY <1>4, <3>1, <3>2 DEF StopAll, BridgeInv, Pooled, Child
    <3>4. k \in stopping'
      BY <1>4, <3>2, <3>3 DEF StopAll
    <3> QED
      BY <3>1, <3>4 DEF BridgeInv, Reaped
  <2> QED
    BY <1>2, <2>1, <2>2, <2>3 DEF BridgeInv
<1>5. CASE Stopped
  <2>1. BridgeTypeOK' /\ Pooled' /\ Reaped' /\ Ended'
    BY <1>1, <1>5 DEF BridgeTypeOK, Stopped, BridgeInv, Pooled, Reaped, Ended
  <2> QED
    BY <1>2, <2>1 DEF BridgeInv
<1>6. ASSUME NEW k \in stopping, StopChild(k)
      PROVE  BridgeInv'
  <2> DEFINE p == children[k].process
             x == [processes[p] EXCEPT !.alive = FALSE, !.stdin = FALSE, !.asked = <<>>]
  <2>1. /\ stopping' = stopping \ {k} /\ UNCHANGED <<pool, stop>>
        /\ processes' = IF p = 0 THEN processes ELSE [processes EXCEPT ![p] = x]
    BY <1>6 DEF StopChild
  <2>2. p \in DOMAIN processes => x \in Process /\ ~x.alive /\ x.late = processes[p].late
    <3>1. CASE p \in DOMAIN processes
      <4>1. processes[p] \in Process /\ <<>> \in Seq(Nat)
        BY <1>1, <3>1 DEF BridgeTypeOK
      <4>2. x \in Process /\ ~x.alive /\ x.late = processes[p].late
        BY <4>1 DEF Process
      <4> QED
        BY <4>2
    <3> QED
      BY <3>1
  <2> HIDE DEF x
  <2>3. NoneRevived
    <3>1. CASE p = 0
      BY <2>1, <3>1, NobodyRevived
    <3>2. CASE p # 0
      BY <1>1, <2>1, <2>2, <3>2, ProcessSet
    <3> QED
      BY <3>1, <3>2
  <2>4. p # 0 /\ p \in DOMAIN processes => ~processes'[p].alive
    BY <1>1, <2>1, <2>2 DEF BridgeTypeOK
  <2> HIDE DEF p
  <2>5. BridgeTypeOK'
    BY <1>1, <2>1, <2>3 DEF BridgeTypeOK, NoneRevived
  <2>6. Pooled' /\ Ended'
    BY <1>1, <2>1 DEF BridgeInv, Pooled, Ended
  <2>7. Reaped'
    <3>1. SUFFICES ASSUME NEW j \in DOMAIN children
                   PROVE  LET q == children[j].process IN
                          /\ q = 0 \/ q \in DOMAIN processes'
                          /\ stop \in {"stopping", "stopped"} /\ q # 0 =>
                                ~processes'[q].alive \/ processes'[q].late \/ j \in stopping'
      BY <1>1, <2>1 DEF Reaped
    <3>2. LET q == children[j].process IN
          /\ q = 0 \/ q \in DOMAIN processes
          /\ stop \in {"stopping", "stopped"} /\ q # 0 =>
                ~processes[q].alive \/ processes[q].late \/ j \in stopping
      BY <3>1 DEF BridgeInv, Reaped
    <3>3. CASE j = k
      BY <2>3, <2>4, <3>2, <3>3 DEF NoneRevived, p
    <3>4. CASE j # k
      BY <2>1, <2>3, <3>2, <3>4 DEF NoneRevived
    <3> QED
      BY <3>3, <3>4
  <2> QED
    BY <1>2, <2>5, <2>6, <2>7 DEF BridgeInv
<1> QED
  BY <1>3, <1>4, <1>5, <1>6 DEF StopStep

-----------------------------------------------------------------------------
LEMMA BridgeStep == BridgeInv /\ [BridgeNext]_bridgeVars => BridgeInv'
<1> SUFFICES ASSUME BridgeInv, [BridgeNext]_bridgeVars PROVE BridgeInv'
  OBVIOUS
<1>1. CASE UNCHANGED bridgeVars
  BY <1>1 DEF bridgeVars, BridgeInv, BridgeTypeOK, Working, Holding, LockHasHolder,
              Pooled, Reaped, Ended
<1>2. ASSUME NEW c \in Calls, CallStep(c) \/ \E i \in Inputs[c] : HandleMCP(c, i)
      PROVE  BridgeInv'
  <2>1. CASE \E s \in call[c].slugs : Get(c, s)
    BY <2>1, GetKeeps
  <2>2. CASE \/ \E i \in Inputs[c] : HandleMCP(c, i)
             \/ Listed(c) \/ Started(c) \/ ReadAudit(c) \/ AppendAudit(c)
    BY <2>2, HandlerKeeps
  <2>3. CASE SpawnChild(c)
    BY <2>3, SpawnKeeps
  <2>4. CASE Lock(c)
    BY <2>4, LockKeeps
  <2>5. CASE Send(c)
    BY <2>5, SendKeeps
  <2>6. CASE Read(c)
    BY <2>6, ReadKeeps
  <2>7. CASE ReadEOF(c) \/ CallExpires(c)
    BY <2>7, GiveUpKeeps
  <2> QED
    BY <1>2, <2>1, <2>2, <2>3, <2>4, <2>5, <2>6, <2>7 DEF CallStep
<1>3. CASE \E p \in DOMAIN processes : ServerStep(p)
  BY <1>3, ServerKeeps
<1>4. CASE Shutdown \/ StopStep
  BY <1>4, StopKeeps
<1> QED
  BY <1>1, <1>2, <1>3, <1>4 DEF BridgeNext

\* The invariant holds for every request, skill and process.
THEOREM BridgeInvariance == BridgeSpec => []BridgeInv
<1>1. BridgeInit => BridgeInv
  BY BridgeInitial
<1>2. BridgeInv /\ [BridgeNext]_bridgeVars => BridgeInv'
  BY BridgeStep
<1> QED
  BY <1>1, <1>2, PTL DEF BridgeSpec

\* Every lock of a child is held by a call that is at work with it, so neither
\* another call nor the stop waits for one that is already answered (sendRPC).
THEOREM LocksAreHeld == BridgeSpec => []LockHasHolder
<1>1. BridgeInv => LockHasHolder
  BY DEF BridgeInv
<1> QED
  BY <1>1, BridgeInvariance, PTL

\* When Stop has returned, the processes that still live are those it could not
\* know of: the replaced ones and the late ones (stopAll).
THEOREM StopReapsAll == BridgeSpec => []StopReaps
<1>1. BridgeInv => StopReaps
  <2>1. SUFFICES ASSUME BridgeInv, stop = "stopped", NEW p \in DOMAIN processes,
                        processes[p].alive, ~processes[p].late,
                        NEW k \in DOMAIN children, children[k].process = p
                 PROVE  FALSE
    BY DEF StopReaps
  <2>2. p # 0 /\ stopping = {}
    BY <2>1 DEF BridgeInv, BridgeTypeOK, Ended
  <2> QED
    BY <2>1, <2>2 DEF BridgeInv, Reaped
<1> QED
  BY <1>1, BridgeInvariance, PTL

-----------------------------------------------------------------------------
(***************************************************************************)
(* Replies.                                                                *)
(***************************************************************************)
\* A tool call has its slug until the child is got, and only Proceed makes it
\* a success.
OwnReply(c) ==
    /\ call[c].pc = "get" /\ call[c].method = "tools/call" => call[c].slugs # {}
    /\ call[c].pc \in {"audit", "append", "done"} /\ call[c].method = "tools/call"
       /\ call[c].outcome = "ok" => call[c].reply \in {0, call[c].req}
ReplyInv == \A c \in Calls : OwnReply(c)

\* Every step of c keeps OwnReply(c).
LEMMA ReplyStep ==
    ASSUME BridgeInv, ReplyInv, NEW c \in Calls,
           CallStep(c) \/ \E i \in Inputs[c] : HandleMCP(c, i)
    PROVE  ReplyInv'
<1>1. call = [x \in Calls |-> call[x]] /\ Shaped(call[c], CallFields) /\ OwnReply(c)
  BY DEF BridgeInv, BridgeTypeOK, ReplyInv
<1>2. SUFFICES Moved(c) /\ OwnReply(c)'
  BY DEF Moved, ReplyInv, OwnReply
<1>3. ASSUME NEW o, Outcome(c, o), o # "ok" \/ call[c].method # "tools/call"
      PROVE  Moved(c) /\ OwnReply(c)'
  BY <1>3, OutcomeMoves DEF OwnReply, BridgeInv
<1>4. ASSUME NEW i \in Inputs[c], HandleMCP(c, i)
      PROVE  Moved(c) /\ OwnReply(c)'
  <2>1. /\ Moved(c) /\ call'[c].method = i.method /\ call'[c].outcome = Early(i)
        /\ call'[c].pc = IF Early(i) = "none" THEN "get" ELSE "done"
        /\ i.method # "tools/list" => call'[c].slugs = {i.slug}
    BY <1>1, <1>4 DEF HandleMCP, NoCall, Moved, Shaped, CallFields
  <2>2. i.method = "tools/call" => Early(i) # "ok"
    BY DEF Early
  <2> QED
    BY <2>1, <2>2 DEF OwnReply
<1>5. ASSUME NEW s \in call[c].slugs, Get(c, s)
      PROVE  Moved(c) /\ OwnReply(c)'
  <2>1. CASE Outcome(c, "error")
    BY <1>3, <2>1
  <2>2. CASE ~Outcome(c, "error")
    <3>1. Moved(c) /\ call'[c].pc = "start"
      BY <1>1, <1>5, <2>2 DEF Get, Moved, Shaped, CallFields
    <3> QED
      BY <3>1 DEF OwnReply
  <2> QED
    BY <2>1, <2>2
<1>6. CASE Listed(c)
  BY <1>1, <1>3, <1>6 DEF Listed, OwnReply
<1>7. CASE Started(c)
  <2>1. /\ Moved(c) /\ call'[c].method = call[c].method
        /\ call'[c].pc = IF call[c].method = "tools/call" THEN "lock" ELSE "get"
    BY <1>1, <1>7 DEF Started, Goto, Moved, Shaped, CallFields
  <2> QED
    BY <2>1 DEF OwnReply
<1>8. CASE SpawnChild(c)
  <2>1. CASE Outcome(c, "error")
    BY <1>3, <2>1
  <2>2. CASE ~Outcome(c, "error")
    <3>1. Moved(c) /\ call'[c].pc = "send"
      BY <1>1, <1>8, <2>2 DEF SpawnChild, Moved, Shaped, CallFields
    <3> QED
      BY <3>1 DEF OwnReply
  <2> QED
    BY <2>1, <2>2
<1>9. CASE Lock(c)
  <2>1. Moved(c) /\ call'[c].pc = "send"
    BY <1>1, <1>9 DEF Lock, Moved, Shaped, CallFields
  <2> QED
    BY <2>1 DEF OwnReply
<1>10. CASE Send(c)
  <2>1. CASE Outcome(c, "error")
    BY <1>3, <2>1
  <2>2. CASE ~Outcome(c, "error")
    <3>1. Moved(c) /\ call'[c].pc = "await"
      BY <1>1, <1>10, <2>2 DEF Send, Moved, Shaped, CallFields
    <3> QED
      BY <3>1 DEF OwnReply
  <2> QED
    BY <2>1, <2>2
<1>11. CASE Fail(c)
  BY <1>3, <1>11 DEF Fail
<1>12. CASE Read(c) /\ ~Fail(c)
  <2>1. Accepts(c, Head(ProcessOf(c).lines)) /\ Proceed(c)
    BY <1>12 DEF Read
  <2>2. CASE call[c].sent = "initialize"
    <3>1. Moved(c) /\ call'[c].pc = "send"
      BY <1>1, <2>1, <2>2 DEF Proceed, Moved, Shaped, CallFields
    <3> QED
      BY <3>1 DEF OwnReply
  <2>3. CASE call[c].sent = "tools/list"
    <3>1. /\ Moved(c) /\ call'[c].method = call[c].method
          /\ call'[c].pc = IF call[c].method = "tools/call" THEN "lock" ELSE "get"
      BY <1>1, <2>1, <2>3 DEF Proceed, Goto, Moved, Shaped, CallFields
    <3> QED
      BY <3>1 DEF OwnReply
  <2>4. CASE call[c].sent \notin {"initialize", "tools/list"}
    <3>1. /\ Moved(c) /\ call'[c].pc = "audit" /\ call'[c].req = call[c].req
          /\ call'[c].reply = Head(ProcessOf(c).lines).id
      <4> DEFINE id == Head(ProcessOf(c).lines).id
      <4>1. call' = [call EXCEPT ![c].pc = "audit", ![c].outcome = "ok", ![c].reply = id]
        BY <2>1, <2>4 DEF Proceed
      <4> HIDE DEF id
      <4>2. Moved(c) /\ call'[c].pc = "audit" /\ call'[c].req = call[c].req /\ call'[c].reply = id
        BY <1>1, <4>1 DEF Moved, Shaped, CallFields
      <4> QED
        BY <4>2 DEF id
    <3>2. call'[c].reply \in {0, call'[c].req}
      <4> DEFINE line == Head(ProcessOf(c).lines)
      <4>1. line.id \in {0, call[c].req}
        BY <2>1 DEF Accepts
      <4> QED
        BY <3>1, <4>1
    <3> QED
      BY <3>1, <3>2 DEF OwnReply
  <2> QED
    BY <2>2, <2>3, <2>4
<1>13. CASE ReadAudit(c)
  <2>1. /\ Moved(c) /\ call'[c].pc = "append" /\ call[c].pc = "audit"
        /\ \A f \in {"method", "outcome", "reply", "req"} : call'[c][f] = call[c][f]
    BY <1>1, <1>13 DEF ReadAudit, Moved, Shaped, CallFields
  <2> QED
    BY <1>1, <2>1 DEF OwnReply
<1>14. CASE AppendAudit(c)
  <2>1. /\ Moved(c) /\ call'[c].pc = "done" /\ call[c].pc = "append"
        /\ \A f \in {"method", "outcome", "reply", "req"} : call'[c][f] = call[c][f]
    BY <1>1, <1>14 DEF AppendAudit, Respond, NoCall, Moved, Shaped, CallFields
  <2> QED
    BY <1>1, <2>1 DEF OwnReply
<1> QED
  BY <1>4, <1>5, <1>6, <1>7, <1>8, <1>9, <1>10, <1>11, <1>12, <1>13, <1>14
     DEF CallStep, ReadEOF, CallExpires

\* A successful tool call returns the reply to its own request, or a line that
\* names no request, however late the replies to earlier ones come (sendRPC).
THEOREM RepliesAreOwn == BridgeSpec => []ReplyIsOwn
<1>1. BridgeInit => ReplyInv
  BY DEF BridgeInit, NoCall, ReplyInv, OwnReply
<1>2. BridgeInv /\ ReplyInv /\ [BridgeNext]_bridgeVars => ReplyInv'
  <2> SUFFICES ASSUME BridgeInv, ReplyInv, [BridgeNext]_bridgeVars PROVE ReplyInv'
    OBVIOUS
  <2>1. CASE UNCHANGED call
    BY <2>1 DEF ReplyInv, OwnReply
  <2>2. ASSUME NEW c \in Calls, CallStep(c) \/ \E i \in Inputs[c] : HandleMCP(c, i)
        PROVE  ReplyInv'
    BY <2>2, ReplyStep
  <2> QED
    BY <2>1, <2>2 DEF BridgeNext, bridgeVars, ServerStep, StaleRead, Reply, Notify, Die, Stall,
                      Shutdown, StopStep, StopAll, StopChild, Stopped
<1>3. ReplyInv => ReplyIsOwn
  BY DEF ReplyInv, OwnReply, ReplyIsOwn
<1> QED
  BY <1>1, <1>2, <1>3, BridgeInvariance, PTL DEF BridgeSpec
===============================================================================
