------------------------ MODULE OrchestratorService ------------------------
(***************************************************************************)
(* The orchestrator process of cmd/orchestrator: the HTTP handlers of      *)
(* api.go, the idle scan of hibernate.go and the pool, the orchestrator    *)
(* and the provider they share.  Every request runs in a goroutine of its  *)
(* own (a thread of Handlers), the scan in one more (Scanners).            *)
(*                                                                         *)
(* Ops names the endpoints clients call:                                   *)
(*   "provision"  POST /sandboxes and POST /sandboxes/{user}/prewarm       *)
(*   "resume"     POST /sandboxes/{id}/resume                              *)
(*   "hibernate"  POST /sandboxes/{id}/hibernate                           *)
(*   "delete"     DELETE /sandboxes/{id}                                   *)
(*   "touch"      SandboxPool.Touch, called by no handler today            *)
(*   "restart"    the process dies and comes back with empty memory        *)
(***************************************************************************)
EXTENDS SandboxPool, FiniteSets

CONSTANTS Handlers, Scanners, Ops

ASSUME ServiceAssumption ==
    /\ Handlers \cap Scanners = {}
    /\ Handlers \cup Scanners \subseteq Threads
    /\ IsFiniteSet(Threads)
    /\ Ops \subseteq {"provision", "resume", "hibernate", "delete", "touch", "restart"}

VARIABLE todo  \* what is left of the snapshot a scan works through

vars == <<state, owner, store, pc, user, box, seen, target, onOk, onErr,
          active, byUser, lastActive, pinned, inflight, waitOn, todo>>

Init ==
    /\ ProviderInit
    /\ OrchestratorInit
    /\ PoolInit
    /\ todo = [t \in Threads |-> <<>>]

-----------------------------------------------------------------------------
(***************************************************************************)
(* HTTP handlers.  A request that reached step "got" is answered there.    *)
(***************************************************************************)
\* POST /sandboxes: pool.GetOrResume for the user of the body.
PostSandbox(t, u) ==
    /\ pc[t] = "idle"
    /\ user' = [user EXCEPT ![t] = u]
    /\ Goto(t, "enter")
    /\ UNCHANGED <<providerVars, storeVars, target, resVars, contVars, poolVars, todo>>

\* POST /sandboxes/{id}/resume: only a hibernated sandbox needs more than
\* the lookup, and it goes to the orchestrator and not through the pool.
PostResume(t, s) ==
    /\ pc[t] = "idle"
    /\ GetSandbox(s, TRUE)
    /\ Observed(s) = "hibernated"
    /\ user'  = [user  EXCEPT ![t] = owner[s]]
    /\ onOk'  = [onOk  EXCEPT ![t] = "got"]
    /\ onErr' = [onErr EXCEPT ![t] = "got"]
    /\ Goto(t, "lookup")
    /\ UNCHANGED <<storeVars, target, resVars, poolVars, todo>>

\* POST /sandboxes/{id}/hibernate: orchestrator.Hibernate, past the pool.
PostHibernate(t, s) ==
    /\ pc[t] = "idle"
    /\ target' = [target EXCEPT ![t] = s]
    /\ onOk'   = [onOk   EXCEPT ![t] = "got"]
    /\ onErr'  = [onErr  EXCEPT ![t] = "got"]
    /\ Goto(t, "hib_get")
    /\ UNCHANGED <<providerVars, storeVars, user, resVars, poolVars, todo>>

\* DELETE /sandboxes/{id}: orchestrator.Destroy, past the pool.
DeleteSandboxRequest(t, s) ==
    /\ pc[t] = "idle"
    /\ target' = [target EXCEPT ![t] = s]
    /\ onOk'   = [onOk   EXCEPT ![t] = "got"]
    /\ onErr'  = [onErr  EXCEPT ![t] = "got"]
    /\ Goto(t, "del")
    /\ UNCHANGED <<providerVars, storeVars, user, resVars, poolVars, todo>>

\* A thread that ends its work keeps nothing of it.
Retire(t) ==
    /\ pc'     = [pc     EXCEPT ![t] = "idle"]
    /\ user'   = [user   EXCEPT ![t] = NoUser]
    /\ box'    = [box    EXCEPT ![t] = NoSandbox]
    /\ seen'   = [seen   EXCEPT ![t] = "none"]
    /\ target' = [target EXCEPT ![t] = NoSandbox]
    /\ onOk'   = [onOk   EXCEPT ![t] = "idle"]
    /\ onErr'  = [onErr  EXCEPT ![t] = "idle"]

Reply(t) ==
    /\ pc[t] = "got"
    /\ Retire(t)
    /\ UNCHANGED <<providerVars, storeVars, poolVars, todo>>

HandlerRequest(t) ==
    \/ "provision" \in Ops /\ \E u \in Users : PostSandbox(t, u)
    \/ \E s \in Sandboxes :
          \/ "resume"    \in Ops /\ PostResume(t, s)
          \/ "hibernate" \in Ops /\ PostHibernate(t, s)
          \/ "delete"    \in Ops /\ DeleteSandboxRequest(t, s)

HandlerStep(t) ==
    \/ Reply(t)
    \/ PoolStep(t) /\ UNCHANGED todo

-----------------------------------------------------------------------------
(***************************************************************************)
(* HibernateScheduler.ScanOnce.  The clock is read and the active set is   *)
(* copied once; the pin is looked up again when the item's turn comes.     *)
(***************************************************************************)
\* An empty snapshot ends the scan at once.  A missing last_active_at is
\* the zero time and counts as idle.
ScanStart(t) ==
    /\ pc[t] = "idle"
    /\ active # <<>>
    /\ todo' = [todo EXCEPT ![t] =
          [i \in 1..Len(active) |->
             [box |-> byUser[active[i]], idle |-> lastActive[byUser[active[i]]] # "fresh"]]]
    /\ Goto(t, "scan")
    /\ UNCHANGED <<providerVars, storeVars, argVars, resVars, contVars, poolVars>>

\* Mutant: the comparison with the threshold is the wrong way round.
ScanItem_Inverted(t) ==
    /\ pc[t] = "scan"
    /\ todo[t] # <<>>
    /\ todo' = [todo EXCEPT ![t] = Tail(@)]
    /\ LET item == Head(todo[t]) IN
       IF ~item.idle /\ item.box \notin pinned
       THEN /\ target' = [target EXCEPT ![t] = item.box]
            /\ onOk'   = [onOk   EXCEPT ![t] = "forget"]
            /\ onErr'  = [onErr  EXCEPT ![t] = "scan"]
            /\ Goto(t, "hib_get")
       ELSE UNCHANGED <<pc, target, contVars>>
    /\ UNCHANGED <<providerVars, storeVars, user, resVars, poolVars>>

\* pool.Hibernate of an idle item that is not pinned.
ScanItem(t) ==
    /\ pc[t] = "scan"
    /\ todo[t] # <<>>
    /\ todo' = [todo EXCEPT ![t] = Tail(@)]
    /\ LET item == Head(todo[t]) IN
       IF item.idle /\ item.box \notin pinned
       THEN /\ target' = [target EXCEPT ![t] = item.box]
            /\ onOk'   = [onOk   EXCEPT ![t] = "forget"]
            /\ onErr'  = [onErr  EXCEPT ![t] = "scan"]
            /\ Goto(t, "hib_get")
       ELSE UNCHANGED <<pc, target, contVars>>
    /\ UNCHANGED <<providerVars, storeVars, user, resVars, poolVars>>

ScanEnd(t) ==
    /\ pc[t] = "scan"
    /\ todo[t] = <<>>
    /\ Retire(t)
    /\ UNCHANGED <<providerVars, storeVars, poolVars, todo>>

ScannerStep(t) ==
    \/ ScanStart(t) \/ ScanItem(t) \/ ScanEnd(t)
    \/ PoolStep(t) /\ UNCHANGED todo

-----------------------------------------------------------------------------
\* The process restarts: its memory is lost.  The sandboxes are not, unless
\* the provider is the fake, which lives in that memory.
Restart ==
    /\ store'  = [u \in Users |-> NoSandbox]
    /\ pc'     = [t \in Threads |-> "idle"]
    /\ user'   = [t \in Threads |-> NoUser]
    /\ box'    = [t \in Threads |-> NoSandbox]
    /\ seen'   = [t \in Threads |-> "none"]
    /\ target' = [t \in Threads |-> NoSandbox]
    /\ onOk'   = [t \in Threads |-> "idle"]
    /\ onErr'  = [t \in Threads |-> "idle"]
    /\ active' = <<>>
    /\ byUser' = [u \in Users |-> NoSandbox]
    /\ lastActive' = [s \in Sandboxes |-> "none"]
    /\ pinned' = {}
    /\ inflight' = [u \in Users |-> NoThread]
    /\ waitOn' = [t \in Threads |-> NoThread]
    /\ todo'   = [t \in Threads |-> <<>>]
    /\ IF Live THEN UNCHANGED providerVars
       ELSE /\ state' = [s \in Sandboxes |-> "absent"]
            /\ owner' = [s \in Sandboxes |-> NoUser]

ProviderCompletes(s) ==
    /\ CompleteStart(s) \/ CompleteStop(s)
    /\ UNCHANGED <<storeVars, threadVars, poolVars, todo>>

ProviderAutoStops(s) ==
    /\ AutoStop(s)
    /\ UNCHANGED <<storeVars, threadVars, poolVars, todo>>

Running ==
    \/ \E t \in Handlers : HandlerRequest(t) \/ HandlerStep(t)
    \/ \E t \in Scanners : ScannerStep(t)
    \/ \E s \in Sandboxes :
          \/ ProviderCompletes(s)
          \/ ProviderAutoStops(s)
          \/ Age(s) /\ UNCHANGED todo
          \/ "touch" \in Ops /\ PoolTouch(s) /\ UNCHANGED todo

Next ==
    \/ Running
    \/ "restart" \in Ops /\ Restart

Spec == Init /\ [][Next]_vars

\* No restart once a sandbox has been deleted: the label search of a process
\* that remembers nothing may answer with the deleted one (FindByLabel), and
\* GetOrResume then creates another next to the one the user has.
NextBeforeDelete ==
    \/ Running
    \/ /\ "restart" \in Ops
       /\ \A s \in Sandboxes : state[s] # "destroyed"
       /\ Restart

SpecBeforeDelete == Init /\ [][NextBeforeDelete]_vars

\* The Go scheduler runs every goroutine that is not blocked, the scan is
\* started again and again, the provider completes what it accepted and the
\* clock does not stop.  Clients are free to call or not.
Fairness ==
    /\ \A t \in Handlers : WF_vars(HandlerStep(t))
    /\ \A t \in Scanners : WF_vars(ScannerStep(t))
    /\ \A s \in Sandboxes :
          /\ WF_vars(ProviderCompletes(s))
          /\ WF_vars(Age(s) /\ UNCHANGED todo)

FairSpec == Spec /\ Fairness

-----------------------------------------------------------------------------
Steps ==
    {"idle", "scan"} \cup GetOrResumeSteps \cup HibernateSteps
      \cup DestroySteps \cup PoolSteps

TypeOK ==
    /\ ProviderTypeOK
    /\ store  \in [Users -> Sandboxes \cup {NoSandbox}]
    /\ pc     \in [Threads -> Steps]
    /\ user   \in [Threads -> Users \cup {NoUser}]
    /\ box    \in [Threads -> Sandboxes \cup {NoSandbox}]
    /\ seen   \in [Threads -> ReadStates]
    /\ target \in [Threads -> Sandboxes \cup {NoSandbox}]
    /\ onOk   \in [Threads -> Steps]
    /\ onErr  \in [Threads -> Steps]
    /\ active \in Seq(Users)
    /\ byUser \in [Users -> Sandboxes \cup {NoSandbox}]
    /\ lastActive \in [Sandboxes -> {"none", "fresh", "idle"}]
    /\ pinned \subseteq Sandboxes
    /\ inflight \in [Users -> Threads \cup {NoThread}]
    /\ waitOn \in [Threads -> Threads \cup {NoThread}]
    /\ todo   \in [Threads -> Seq([box : Sandboxes \cup {NoSandbox}, idle : BOOLEAN])]

\* The thread leads the single-flight call of its user.
Leads(t) ==
    \/ pc[t] \in {"touch", "evict", "unfly"}
    \/ pc[t] \in GetOrResumeSteps /\ onOk[t] = "touch"
    \/ pc[t] \in HibernateSteps /\ onOk[t] = "unfly"

\* Tenant isolation.  Whatever the interleaving, the sandbox a request is
\* answered with, the one the store resolves a user to and the one the
\* active set holds for a user all carry that user's label (GetOrResume,
\* Upsert and touchInternal never mix up two users' sandboxes).
OwnSandbox ==
    /\ \A t \in Threads :
          pc[t] = "got" /\ box[t] # NoSandbox => owner[box[t]] = user[t]
    /\ \A u \in Users :
          /\ store[u] # NoSandbox => owner[store[u]] = u
          /\ byUser[u] # NoSandbox => owner[byUser[u]] = u

\* F15: "only one resume operation runs; others wait".  At most one thread
\* is inside the function SingleFlight.Do protects for a user.
OneFlightPerUser ==
    \A t1, t2 \in Threads :
        Leads(t1) /\ Leads(t2) /\ user[t1] = user[t2] => t1 = t2

\* No lost wake-up: a thread blocked in wg.Wait waits for a call for its own
\* user that is still running or is about to call wg.Done.
WaitersHaveLeader ==
    \A t \in Threads : pc[t] = "wait" =>
        \E l \in Threads : /\ waitOn[t] = l
                           /\ user[l] = user[t]
                           /\ Leads(l) \/ pc[l] = "wake"

\* The list and the map of the pool describe the same set of users, no user
\* is listed twice, and every listed sandbox has its last_active_at (without
\* one the idle scan would take it for idle since the zero time).
ActiveSetSound ==
    /\ \A u \in Users : byUser[u] # NoSandbox <=> \E i \in DOMAIN active : active[i] = u
    /\ \A i, j \in DOMAIN active : active[i] = active[j] => i = j
    /\ \A u \in Users : byUser[u] # NoSandbox => lastActive[byUser[u]] # "none"

\* maybeEvict takes one victim at a time without a loop; still the active set
\* is never larger than its capacity by more than the calls that have added
\* a user and not yet run maybeEvict.
CapacityBound ==
    Len(active) <= Capacity + Cardinality({t \in Threads : pc[t] = "evict"})

\* Both: what the idle scan and the eviction rely on.
ActiveSetBounded == ActiveSetSound /\ CapacityBound

(***************************************************************************)
(* The inductive invariant behind the safety properties above, by parts.   *)
(***************************************************************************)
\* A sandbox is labelled from the moment it exists.
OwnersKnown == \A s \in Sandboxes : Exists(s) <=> owner[s] \in Users

\* Both caches name sandboxes of the right user.
CachesOwned ==
    \A u \in Users :
        /\ store[u] # NoSandbox => owner[store[u]] = u
        /\ byUser[u] # NoSandbox => owner[byUser[u]] = u

\* A thread working for a user knows which, and what it holds is the user's.
HeldBy(t) ==
    /\ pc[t] \in GetOrResumeSteps \cup {"enter", "wait", "touch", "evict", "unfly", "wake"}
          => user[t] \in Users
    /\ pc[t] \in HibernateSteps /\ onOk[t] = "unfly" => user[t] \in Users
    /\ pc[t] = "idle" => box[t] = NoSandbox
    /\ box[t] # NoSandbox => user[t] \in Users /\ owner[box[t]] = user[t]

HeldOwned == \A t \in Threads : HeldBy(t)

\* Where each subroutine returns to, by its callers.
ReturnsOf(t) ==
    /\ pc[t] \in GetOrResumeSteps =>
          <<onOk[t], onErr[t]>> \in {<<"touch", "unfly">>, <<"got", "got">>}
    /\ pc[t] \in HibernateSteps =>
          <<onOk[t], onErr[t]>> \in {<<"unfly", "unfly">>, <<"forget", "scan">>, <<"got", "got">>}
    /\ pc[t] \in DestroySteps => <<onOk[t], onErr[t]>> = <<"got", "got">>
    /\ pc[t] = "forget" => onErr[t] = "scan"

ReturnsMatch == \A t \in Threads : ReturnsOf(t)

\* The in-flight map holds exactly the leaders.
FlightsLed ==
    \A t \in Threads, u \in Users : inflight[u] = t <=> Leads(t) /\ user[t] = u

IInv ==
    /\ TypeOK
    /\ OwnersKnown
    /\ CachesOwned
    /\ HeldOwned
    /\ ReturnsMatch
    /\ FlightsLed
    /\ WaitersHaveLeader

-----------------------------------------------------------------------------
\* The sandbox is not yet (being) destroyed.
Alive(s) == state[s] \notin {"absent", "destroyed"}

\* F01: "One sandbox per user_id, persistent".  No interleaving of the lookup,
\* the label search and the create of two requests leaves a user with two.
OneSandboxPerUser ==
    \A s1, s2 \in Sandboxes :
        Alive(s1) /\ Alive(s2) /\ owner[s1] = owner[s2] => s1 = s2

\* The user's sandboxes as clients see them, for the specification UserSandbox.
home == [u \in Users |-> {s \in Sandboxes : Alive(s) /\ owner[s] = u}]

up == {u \in Users : \E s \in home[u] : state[s] \in {"provisioning", "running"}}

retired == {s \in Sandboxes : state[s] = "destroyed"}

Promise == INSTANCE UserSandbox WITH
    Users <- Users, Sandboxes <- Sandboxes, home <- home, up <- up, retired <- retired

\* The service implements UserSandbox: a user keeps the sandbox it was given
\* until a DELETE, a deleted one never comes back, and every other step only
\* resumes or suspends the user's own.
ImplementsUserSandbox == Promise!Spec

\* GetOrResume: "returns a running sandbox for userID".  The sandbox of an
\* answer was running when the provider was last asked about it.
AnsweredRunning ==
    \A t \in Handlers :
        pc[t] = "got" /\ box[t] # NoSandbox => seen[t] = "running"

\* Every request is answered: nobody waits for a flight that does not end.
RequestsAnswered ==
    \A t \in Handlers : pc[t] # "idle" ~> pc[t] = "idle"

\* F15: "A sandbox idle for >= 5 min is hibernated within 30s".  A running
\* sandbox without recent use is stopped, unless it is used again.
IdleIsHibernated ==
    \A s \in Sandboxes :
        state[s] = "running" /\ lastActive[s] # "fresh"
           ~> state[s] # "running" \/ lastActive[s] = "fresh"

\* What the code does guarantee of it: a sandbox in the active set does not
\* stay there idle and running.
TrackedIdleIsHibernated ==
    \A u \in Users :
        byUser[u] # NoSandbox /\ lastActive[byUser[u]] = "idle"
           ~> byUser[u] = NoSandbox \/ lastActive[byUser[u]] = "fresh"
=============================================================================
