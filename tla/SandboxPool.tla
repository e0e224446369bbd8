---------------------------- MODULE SandboxPool ----------------------------
(***************************************************************************)
(* internal/orchestrator/pool.go and single_flight.go: the active set of   *)
(* sandboxes in LRU order and the single-flight wrapper around             *)
(* Orchestrator.GetOrResume.                                               *)
(*                                                                         *)
(* p.mu guards the active set and s.mu guards the in-flight map: a         *)
(* critical section of either is one step, and neither lock is held across *)
(* a provider call.  The list p.active is a sequence of users; the element *)
(* of a user holds the sandbox byUser gives, so byUser is both the map     *)
(* p.byUser and the sandboxID fields of the list elements.                 *)
(*                                                                         *)
(* Of the clock only what the idle scan tells apart is kept: lastActive of *)
(* a sandbox is "none" (no entry), "fresh", or "idle" once ThresholdFor    *)
(* its tier has passed since it was touched.                               *)
(***************************************************************************)
EXTENDS Orchestrator, Naturals, Sequences, SequencesExt

CONSTANTS Capacity, NoThread

ASSUME PoolAssumption ==
    /\ Capacity \in Nat
    /\ NoThread \notin Threads

VARIABLES
    active,      \* users of the active set, least recently used first
    byUser,      \* the sandbox of each user in the active set
    lastActive,  \* last_active_at of each sandbox, as an age
    pinned,      \* sandboxes protected from eviction
    inflight,    \* single-flight: the leader of the call for each user
    waitOn       \* single-flight: the leader each waiting thread waits for

lruVars    == <<active, byUser, lastActive>>
flightVars == <<inflight, waitOn>>
poolVars   == <<active, byUser, lastActive, pinned, inflight, waitOn>>

PoolInit ==
    /\ active     = <<>>
    /\ byUser     = [u \in Users |-> NoSandbox]
    /\ lastActive = [s \in Sandboxes |-> "none"]
    /\ pinned     = {}
    /\ inflight   = [u \in Users |-> NoThread]
    /\ waitOn     = [t \in Threads |-> NoThread]

PoolSteps == {"enter", "wait", "touch", "evict", "unfly", "wake", "got", "forget", "drop"}

\* The list without the element byUser points to for user u.
Without(u) ==
    IF \E i \in DOMAIN active : active[i] = u
    THEN RemoveAt(active, CHOOSE i \in DOMAIN active : active[i] = u)
    ELSE active

\* The element of user u leaves the list and the map.
DropUser(u) ==
    /\ active' = Without(u)
    /\ byUser' = [byUser EXCEPT ![u] = NoSandbox]

-----------------------------------------------------------------------------
(***************************************************************************)
(* SandboxPool.GetOrResume(user): single flight around the orchestrator's  *)
(* GetOrResume, touchInternal and maybeEvict.  It ends at step "got" with  *)
(* the result in box and seen; box = NoSandbox is an error.                *)
(***************************************************************************)
\* Mutant: the in-flight map is written without being looked up.
Enter_NoLookup(t) ==
    /\ pc[t] = "enter"
    /\ inflight' = [inflight EXCEPT ![user[t]] = t]
    /\ onOk'  = [onOk  EXCEPT ![t] = "touch"]
    /\ onErr' = [onErr EXCEPT ![t] = "unfly"]
    /\ Goto(t, "lookup")
    /\ UNCHANGED <<providerVars, storeVars, argVars, resVars, lruVars, pinned, waitOn>>

\* Mutant: the key of the call does not name the user.
Enter_OneKey(t) ==
    /\ pc[t] = "enter"
    /\ IF \A v \in Users : inflight[v] = NoThread
       THEN /\ inflight' = [inflight EXCEPT ![user[t]] = t]
            /\ onOk'  = [onOk  EXCEPT ![t] = "touch"]
            /\ onErr' = [onErr EXCEPT ![t] = "unfly"]
            /\ Goto(t, "lookup")
            /\ UNCHANGED waitOn
       ELSE /\ \E v \in Users : /\ inflight[v] # NoThread
                                /\ waitOn' = [waitOn EXCEPT ![t] = inflight[v]]
            /\ Goto(t, "wait")
            /\ UNCHANGED <<inflight, contVars>>
    /\ UNCHANGED <<providerVars, storeVars, argVars, resVars, lruVars, pinned>>

\* The first critical section of SingleFlight.Do.
Enter(t) ==
    /\ pc[t] = "enter"
    /\ IF inflight[user[t]] = NoThread
       THEN /\ inflight' = [inflight EXCEPT ![user[t]] = t]
            /\ onOk'  = [onOk  EXCEPT ![t] = "touch"]
            /\ onErr' = [onErr EXCEPT ![t] = "unfly"]
            /\ Goto(t, "lookup")
            /\ UNCHANGED waitOn
       ELSE /\ waitOn' = [waitOn EXCEPT ![t] = inflight[user[t]]]
            /\ Goto(t, "wait")
            /\ UNCHANGED <<inflight, contVars>>
    /\ UNCHANGED <<providerVars, storeVars, argVars, resVars, lruVars, pinned>>

\* touchInternal: most recently used, active now.
TouchInternal(t) ==
    /\ pc[t] = "touch"
    /\ active' = Append(Without(user[t]), user[t])
    /\ byUser' = [byUser EXCEPT ![user[t]] = box[t]]
    /\ lastActive' = [lastActive EXCEPT ![box[t]] = "fresh"]
    /\ Goto(t, "evict")
    /\ UNCHANGED <<providerVars, storeVars, argVars, resVars, contVars,
                   pinned, flightVars>>

\* Positions of the list elements that may be evicted.
Evictable == {i \in DOMAIN active : byUser[active[i]] \notin pinned}

\* Mutant: eviction starts one entry too late.
MaybeEvict_OffByOne(t) ==
    /\ pc[t] = "evict"
    /\ \/ /\ Len(active) <= Capacity + 1 \/ Evictable = {}
          /\ Goto(t, "unfly")
          /\ UNCHANGED <<lruVars, target, contVars>>
       \/ /\ Len(active) > Capacity + 1
          /\ \E i \in Evictable :
                /\ \A j \in Evictable : i <= j
                /\ DropUser(active[i])
                /\ lastActive' = [lastActive EXCEPT ![byUser[active[i]]] = "none"]
                /\ target' = [target EXCEPT ![t] = byUser[active[i]]]
          /\ onOk'  = [onOk  EXCEPT ![t] = "unfly"]
          /\ onErr' = [onErr EXCEPT ![t] = "unfly"]
          /\ Goto(t, "hib_get")
    /\ UNCHANGED <<providerVars, storeVars, user, resVars, pinned, flightVars>>

\* The critical section of maybeEvict.  The victim leaves the active set
\* first and is hibernated afterwards, with the lock released.
MaybeEvict(t) ==
    /\ pc[t] = "evict"
    /\ \/ /\ Len(active) <= Capacity \/ Evictable = {}
          /\ Goto(t, "unfly")
          /\ UNCHANGED <<lruVars, target, contVars>>
       \/ /\ Len(active) > Capacity
          /\ \E i \in Evictable :
                /\ \A j \in Evictable : i <= j
                /\ DropUser(active[i])
                /\ lastActive' = [lastActive EXCEPT ![byUser[active[i]]] = "none"]
                /\ target' = [target EXCEPT ![t] = byUser[active[i]]]
          /\ onOk'  = [onOk  EXCEPT ![t] = "unfly"]
          /\ onErr' = [onErr EXCEPT ![t] = "unfly"]
          /\ Goto(t, "hib_get")
    /\ UNCHANGED <<providerVars, storeVars, user, resVars, pinned, flightVars>>

\* Mutant: the slot is freed without wg.Done.
Unfly_NoDone(t) ==
    /\ pc[t] = "unfly"
    /\ inflight' = [inflight EXCEPT ![user[t]] = NoThread]
    /\ Goto(t, "got")
    /\ UNCHANGED <<providerVars, storeVars, argVars, resVars, contVars,
                   lruVars, pinned, waitOn>>

\* The deferred function of SingleFlight.Do: free the slot, then wake.
Unfly(t) ==
    /\ pc[t] = "unfly"
    /\ inflight' = [inflight EXCEPT ![user[t]] = NoThread]
    /\ Goto(t, "wake")
    /\ UNCHANGED <<providerVars, storeVars, argVars, resVars, contVars,
                   lruVars, pinned, waitOn>>

\* wg.Done: c.result never changes again, so every waiter gets it here.
Wake(t) ==
    /\ pc[t] = "wake"
    /\ LET woken == {x \in Threads : pc[x] = "wait" /\ waitOn[x] = t} IN
       /\ pc'   = [x \in Threads |-> IF x \in woken \cup {t} THEN "got" ELSE pc[x]]
       /\ box'  = [x \in Threads |-> IF x \in woken THEN box[t] ELSE box[x]]
       /\ seen' = [x \in Threads |-> IF x \in woken THEN seen[t] ELSE seen[x]]
       /\ waitOn' = [x \in Threads |-> IF x \in woken THEN NoThread ELSE waitOn[x]]
    /\ UNCHANGED <<providerVars, storeVars, argVars, contVars, lruVars, pinned,
                   inflight>>

-----------------------------------------------------------------------------
\* The tail of SandboxPool.Hibernate(target), after Orchestrator.Hibernate
\* succeeded.  Its callers go on in the same way after success and failure.
Forget(t) ==
    /\ pc[t] = "forget"
    /\ IF \E u \in Users : byUser[u] = target[t]
       THEN \E u \in Users : byUser[u] = target[t] /\ DropUser(u)
       ELSE UNCHANGED <<active, byUser>>
    /\ lastActive' = [lastActive EXCEPT ![target[t]] = "none"]
    /\ Goto(t, onErr[t])
    /\ UNCHANGED <<providerVars, storeVars, argVars, resVars, contVars,
                   pinned, flightVars>>

PoolStep(t) ==
    \/ Enter(t) \/ TouchInternal(t) \/ MaybeEvict(t) \/ Unfly(t) \/ Wake(t)
    \/ Forget(t)
    \/ OrchestratorStep(t) /\ UNCHANGED poolVars

-----------------------------------------------------------------------------
\* SandboxPool.Touch(s), the hook for callers outside the service.
PoolTouch(s) ==
    /\ lastActive' = [lastActive EXCEPT ![s] = "fresh"]
    /\ IF \E u \in Users : byUser[u] = s
       THEN \E u \in Users : /\ byUser[u] = s
                             /\ active' = Append(Without(u), u)
       ELSE UNCHANGED active
    /\ UNCHANGED <<providerVars, storeVars, threadVars, byUser, pinned, flightVars>>

\* The flight of thread t has touched its sandbox and not yet returned.
Touched(t) ==
    \/ pc[t] \in {"evict", "unfly", "wake"}
    \/ pc[t] \in HibernateSteps /\ onOk[t] = "unfly"

\* The clock passes the idle threshold of sandbox s.  Thresholds are minutes:
\* a flight that touched s has returned by then.
Age(s) ==
    /\ lastActive[s] = "fresh"
    /\ \A t \in Threads : Touched(t) => box[t] # s
    /\ lastActive' = [lastActive EXCEPT ![s] = "idle"]
    /\ UNCHANGED <<providerVars, storeVars, threadVars, active, byUser,
                   pinned, flightVars>>
=============================================================================
