--------------------- MODULE OrchestratorServiceProofs ---------------------
(***************************************************************************)
(* Proofs about OrchestratorService, for any users, sandboxes, threads,    *)
(* capacity, provider kind, transport faults and set of endpoints in use.  *)
(*                                                                         *)
(* The theorems on types, tenants, flights and wake-ups come from one      *)
(* inductive invariant, IInv.  Answers of the in-memory client (AnswerInv) *)
(* and the active set (PoolInv) have an invariant each, kept by steps that *)
(* keep IInv.  The steps inside Orchestrator (sandbox.go) are first brought *)
(* to one shape, so that their preservation of IInv is argued once; each   *)
(* step of the pool, of the handlers and of the idle scan then has its own *)
(* lemma.                                                                  *)
(***************************************************************************)
EXTENDS OrchestratorService, SequenceTheorems, FiniteSetTheorems, TLAPS

\* Taking an element out of a sequence leaves a sequence (container/list Remove).
LEMMA RemoveAtType ==
    ASSUME NEW S, NEW s \in Seq(S), NEW k \in 1..Len(s)
    PROVE  RemoveAt(s, k) \in Seq(S)
<1>1. SubSeq(s, 1, k - 1) \in Seq(S)
  BY SubSeqProperties
<1>2. SubSeq(s, k + 1, Len(s)) \in Seq(S)
  BY SubSeqProperties
<1>. QED BY <1>1, <1>2 DEF RemoveAt

\* The active set without a user is still a sequence of users (p.active.Remove).
LEMMA WithoutType ==
    ASSUME active \in Seq(Users), NEW u \in Users
    PROVE  Without(u) \in Seq(Users)
<1>1. CASE \E i \in DOMAIN active : active[i] = u
  <2>. DEFINE k == CHOOSE i \in DOMAIN active : active[i] = u
  <2>1. k \in 1..Len(active)
    BY <1>1
  <2>2. Without(u) = RemoveAt(active, k)
    BY <1>1 DEF Without
  <2>. HIDE DEF k
  <2>. QED BY <2>1, <2>2, RemoveAtType
<1>2. CASE ~ \E i \in DOMAIN active : active[i] = u
  BY <1>2 DEF Without
<1>. QED BY <1>1, <1>2

-----------------------------------------------------------------------------
\* What every step keeps of the provider.
ProviderKept ==
    /\ ProviderTypeOK'
    /\ OwnersKnown'
    /\ \A s \in Sandboxes : owner[s] \in Users => owner'[s] = owner[s]

\* The thread goes on in the subroutine or returns from it.
Moves(t, subroutine) ==
    /\ pc[t] \in subroutine
    /\ \E l \in subroutine \cup {onOk[t], onErr[t]} : pc' = [pc EXCEPT ![t] = l]

\* What the thread has in hand after the step.
Holds(t) ==
    \E b \in Sandboxes \cup {NoSandbox}, st \in ReadStates :
        /\ box'  = [box  EXCEPT ![t] = b]
        /\ seen' = [seen EXCEPT ![t] = st]
        /\ b # NoSandbox => user[t] \in Users /\ owner'[b] = user[t]

\* The common shape of the steps inside Orchestrator.
Shape(t) ==
    /\ ProviderKept
    /\ \/ Moves(t, GetOrResumeSteps)
       \/ Moves(t, HibernateSteps)
       \/ Moves(t, DestroySteps)
    /\ Holds(t)
    /\ store' \in [Users -> Sandboxes \cup {NoSandbox}]
    /\ \A u \in Users : store'[u] # NoSandbox => owner'[store'[u]] = u
    /\ UNCHANGED <<user, target, onOk, onErr>>

\* A call that only reads keeps the provider as it is.
LEMMA UnchangedProvider ==
    ASSUME IInv, UNCHANGED providerVars
    PROVE  ProviderKept
BY DEF IInv, TypeOK, ProviderTypeOK, providerVars, ProviderKept, OwnersKnown, Exists

\* Setting the state of a sandbox that exists keeps sandboxes and owners apart
\* from the ids not yet allotted.
LEMMA StateSet ==
    ASSUME IInv, NEW s, NEW x \in ProviderStates \ {"absent"},
           s \in Sandboxes => Exists(s),
           state' = [state EXCEPT ![s] = x], UNCHANGED owner
    PROVE  ProviderKept
BY DEF IInv, TypeOK, ProviderTypeOK, ProviderKept, OwnersKnown, Exists

\* StartSandbox creates nothing and relabels nothing.
LEMMA StartKeeps ==
    ASSUME IInv, NEW s, NEW ok \in BOOLEAN, StartSandbox(s, ok)
    PROVE  ProviderKept /\ UNCHANGED owner
<1>. USE DEF StartSandbox, LiveStartSandbox, FakeStartSandbox, Transition
<1>1. UNCHANGED owner
  OBVIOUS
<1>2. \/ UNCHANGED state
      \/ /\ Exists(s)
         /\ \/ state' = [state EXCEPT ![s] = "provisioning"]
            \/ state' = [state EXCEPT ![s] = "running"]
  BY DEF Exists
<1>3. {"provisioning", "running"} \subseteq ProviderStates \ {"absent"}
  BY DEF ProviderStates
<1>. QED BY <1>1, <1>2, <1>3, UnchangedProvider, StateSet DEF providerVars

\* StopSandbox creates nothing and relabels nothing.
LEMMA StopKeeps ==
    ASSUME IInv, NEW s, NEW ok \in BOOLEAN, StopSandbox(s, ok)
    PROVE  ProviderKept /\ UNCHANGED owner
<1>. USE DEF StopSandbox, LiveStopSandbox, FakeStopSandbox, Transition
<1>1. UNCHANGED owner
  OBVIOUS
<1>2. \/ UNCHANGED state
      \/ /\ Exists(s)
         /\ \/ state' = [state EXCEPT ![s] = "stopping"]
            \/ state' = [state EXCEPT ![s] = "hibernated"]
            \/ state' = [state EXCEPT ![s] = state[s]]
  BY DEF Exists
<1>3. state' = [state EXCEPT ![s] = state[s]] => UNCHANGED state
  BY DEF IInv, TypeOK, ProviderTypeOK
<1>4. {"stopping", "hibernated"} \subseteq ProviderStates \ {"absent"}
  BY DEF ProviderStates
<1>. QED BY <1>1, <1>2, <1>3, <1>4, UnchangedProvider, StateSet DEF providerVars

\* DeleteSandbox creates nothing and relabels nothing; ids are not reused.
LEMMA DeleteKeeps ==
    ASSUME IInv, NEW s, NEW ok \in BOOLEAN, DeleteSandbox(s, ok)
    PROVE  ProviderKept /\ UNCHANGED owner
<1>. USE DEF DeleteSandbox, LiveDeleteSandbox, FakeDeleteSandbox, Transition, providerVars
<1>1. UNCHANGED owner
  OBVIOUS
<1>2. \/ UNCHANGED state
      \/ Exists(s) /\ state' = [state EXCEPT ![s] = "destroyed"]
  BY DEF Exists
<1>3. "destroyed" \in ProviderStates \ {"absent"}
  BY DEF ProviderStates
<1>. QED BY <1>1, <1>2, <1>3, UnchangedProvider, StateSet

\* CreateSandbox labels the new sandbox and leaves the others alone.
LEMMA CreateKeeps ==
    ASSUME IInv, NEW u \in Users, NEW s \in Sandboxes \cup {NoSandbox}, NEW ok \in BOOLEAN,
           CreateSandbox(u, s, ok)
    PROVE  /\ ProviderKept
           /\ ok => s \in Sandboxes /\ owner'[s] = u
<1>. USE DEF IInv, TypeOK, ProviderTypeOK
<1>1. CASE UNCHANGED providerVars /\ ~ok
  BY <1>1, UnchangedProvider
<1>2. CASE /\ s \in Sandboxes /\ ~Exists(s)
           /\ state' = [state EXCEPT ![s] = Created]
           /\ owner' = [owner EXCEPT ![s] = u]
  <2>1. ProviderTypeOK'
    BY <1>2 DEF ProviderStates, Created
  <2>2. OwnersKnown'
    BY <1>2 DEF OwnersKnown, Exists, Created
  <2>3. \A x \in Sandboxes : owner[x] \in Users => owner'[x] = owner[x]
    BY <1>2 DEF OwnersKnown
  <2>. QED BY <1>2, <2>1, <2>2, <2>3 DEF ProviderKept
<1>. QED BY <1>1, <1>2 DEF CreateSandbox

\* A sandbox that exists is read in one of the four states of NormalizeState.
LEMMA ReadTypes ==
    ASSUME IInv, NEW s \in Sandboxes, Exists(s)
    PROVE  Observed(s) \in ReadStates \ {"none"}
BY DEF IInv, TypeOK, ProviderTypeOK, ProviderStates, Exists, Observed, ReadStates

\* Every step of Orchestrator.GetOrResume and Create has the common shape: in
\* particular the sandbox in hand is always the user's, whether it came from the
\* store, from the label search or from CreateSandbox.
LEMMA GetOrResumeShape ==
    ASSUME IInv, NEW t \in Threads,
           \/ Lookup(t) \/ Fetch(t) \/ Find(t) \/ Adopt(t)
           \/ Create(t) \/ Record(t) \/ Start(t) \/ Started(t)
    PROVE  Shape(t)
<1>. USE DEF IInv, TypeOK, providerVars, storeVars, argVars, resVars, contVars
<1>0. pc[t] \in GetOrResumeSteps => user[t] \in Users
  BY DEF HeldOwned, HeldBy
<1>a. ASSUME UNCHANGED providerVars, UNCHANGED storeVars
      PROVE  /\ ProviderKept
             /\ store' \in [Users -> Sandboxes \cup {NoSandbox}]
             /\ \A u \in Users : store'[u] # NoSandbox => owner'[store'[u]] = u
  BY <1>a, UnchangedProvider DEF CachesOwned
<1>b. ASSUME ProviderKept, UNCHANGED storeVars
      PROVE  /\ store' \in [Users -> Sandboxes \cup {NoSandbox}]
             /\ \A u \in Users : store'[u] # NoSandbox => owner'[store'[u]] = u
  BY <1>b DEF CachesOwned, ProviderKept
<1>c. ASSUME UNCHANGED <<providerVars, resVars>>
      PROVE  Holds(t)
  <2>1. box[t] \in Sandboxes \cup {NoSandbox} /\ seen[t] \in ReadStates
    OBVIOUS
  <2>2. box' = [box EXCEPT ![t] = box[t]] /\ seen' = [seen EXCEPT ![t] = seen[t]]
    BY <1>c
  <2>3. box[t] # NoSandbox => user[t] \in Users /\ owner'[box[t]] = user[t]
    BY <1>c DEF HeldOwned, HeldBy
  <2>. QED BY <2>1, <2>2, <2>3 DEF Holds
<1>1. CASE Lookup(t)
  <2>1. Moves(t, GetOrResumeSteps)
    BY <1>1 DEF Lookup, Moves, Goto, GetOrResumeSteps
  <2>2. Holds(t)
    BY <1>0, <1>1 DEF Lookup, Hold, Holds, CachesOwned, GetOrResumeSteps, ReadStates
  <2>. QED BY <1>1, <1>a, <2>1, <2>2 DEF Lookup, Shape
<1>2. CASE Fetch(t)
  <2>0. UNCHANGED providerVars
    BY <1>2 DEF Fetch, GetSandbox
  <2>1. Moves(t, GetOrResumeSteps)
    BY <1>2 DEF Fetch, Moves, Goto, GetOrResumeSteps, Dispatch
  <2>2. Holds(t)
    <3>1. CASE GetSandbox(box[t], TRUE) /\ Hold(t, box[t], Observed(box[t]))
      <4>1. box[t] \in Sandboxes /\ Observed(box[t]) \in ReadStates
        BY <3>1, ReadTypes DEF GetSandbox
      <4>2. user[t] \in Users /\ owner'[box[t]] = user[t]
        BY <2>0, <4>1, ClientAssumption DEF HeldOwned, HeldBy
      <4>. QED BY <3>1, <4>1, <4>2 DEF Hold, Holds
    <3>2. CASE Hold(t, NoSandbox, "none")
      BY <3>2 DEF Hold, Holds, ReadStates
    <3>. QED BY <1>2, <3>1, <3>2 DEF Fetch
  <2>. QED BY <1>2, <1>a, <2>0, <2>1, <2>2 DEF Fetch, Shape
<1>3. CASE Find(t)
  <2>0. UNCHANGED providerVars
    BY <1>3 DEF Find, FindByLabel
  <2>1. Moves(t, GetOrResumeSteps)
    BY <1>3 DEF Find, Moves, Goto, GetOrResumeSteps
  <2>2. Holds(t)
    <3>1. PICK s \in Sandboxes \cup {NoSandbox} :
             /\ FindByLabel(user[t], s)
             /\ Hold(t, s, IF s = NoSandbox THEN "none" ELSE Observed(s))
      BY <1>3 DEF Find
    <3>2. CASE s = NoSandbox
      BY <3>1, <3>2 DEF Hold, Holds, ReadStates
    <3>3. CASE s # NoSandbox
      <4>1. s \in Sandboxes /\ owner[s] = user[t]
        BY <3>1, <3>3 DEF FindByLabel, Labelled, LiveLabelled, FakeLabelled
      <4>2. Exists(s)
        BY <1>0, <1>3, <4>1 DEF OwnersKnown, Find, GetOrResumeSteps
      <4>3. Observed(s) \in ReadStates
        BY <4>1, <4>2, ReadTypes
      <4>. QED BY <1>0, <1>3, <2>0, <3>1, <3>3, <4>1, <4>3 DEF Find, GetOrResumeSteps, Hold, Holds
    <3>. QED BY <3>2, <3>3
  <2>. QED BY <1>3, <1>a, <2>0, <2>1, <2>2 DEF Find, Shape
<1>4. CASE Adopt(t) \/ Record(t)
  <2>0. UNCHANGED providerVars /\ UNCHANGED resVars
    BY <1>4 DEF Adopt, Record
  <2>1. Moves(t, GetOrResumeSteps)
    BY <1>4 DEF Adopt, Record, Moves, Goto, GetOrResumeSteps, Dispatch
  <2>2. user[t] \in Users /\ store' = [store EXCEPT ![user[t]] = box[t]]
    BY <1>0, <1>4 DEF Adopt, Record, GetOrResumeSteps
  <2>3. /\ store' \in [Users -> Sandboxes \cup {NoSandbox}]
        /\ \A u \in Users : store'[u] # NoSandbox => owner'[store'[u]] = u
    BY <2>0, <2>2 DEF CachesOwned, HeldOwned, HeldBy
  <2>4. Holds(t)
    BY <1>c, <2>0
  <2>5. UNCHANGED <<user, target, onOk, onErr>>
    BY <1>4 DEF Adopt, Record
  <2>. QED BY <2>0, <2>1, <2>3, <2>4, <2>5, UnchangedProvider DEF Shape
<1>5. CASE Create(t)
  <2>0. user[t] \in Users
    BY <1>0, <1>5 DEF Create, GetOrResumeSteps
  <2>1. PICK s \in Sandboxes \cup {NoSandbox}, ok \in BOOLEAN :
           /\ CreateSandbox(user[t], s, ok)
           /\ IF ok THEN /\ Hold(t, s, Created)
                         /\ Goto(t, "record")
                    ELSE /\ Hold(t, NoSandbox, "none")
                         /\ Goto(t, onErr[t])
    BY <1>5 DEF Create
  <2>2. ProviderKept /\ (ok => s \in Sandboxes /\ owner'[s] = user[t])
    BY <2>0, <2>1, CreateKeeps
  <2>3. Moves(t, GetOrResumeSteps)
    BY <1>5, <2>1 DEF Create, Moves, Goto, GetOrResumeSteps
  <2>4. Holds(t)
    BY <2>0, <2>1, <2>2 DEF Hold, Holds, ReadStates, Created
  <2>. QED BY <1>5, <1>b, <2>2, <2>3, <2>4 DEF Create, Shape
<1>6. CASE Start(t)
  <2>1. PICK ok \in BOOLEAN :
           /\ StartSandbox(box[t], ok)
           /\ IF ok THEN /\ Hold(t, box[t], "running")
                         /\ Goto(t, IF Live THEN "started" ELSE onOk[t])
                    ELSE /\ Hold(t, NoSandbox, "none")
                         /\ Goto(t, onErr[t])
    BY <1>6 DEF Start
  <2>2. ProviderKept /\ UNCHANGED owner
    BY <2>1, StartKeeps
  <2>3. Moves(t, GetOrResumeSteps)
    BY <1>6, <2>1 DEF Start, Moves, Goto, GetOrResumeSteps
  <2>4. Holds(t)
    BY <2>1, <2>2 DEF Hold, Holds, ReadStates, HeldOwned, HeldBy
  <2>. QED BY <1>6, <1>b, <2>2, <2>3, <2>4 DEF Start, Shape
<1>7. CASE Started(t)
  <2>0. UNCHANGED providerVars
    BY <1>7 DEF Started, GetSandbox
  <2>1. Moves(t, GetOrResumeSteps)
    BY <1>7 DEF Started, Moves, Goto, GetOrResumeSteps
  <2>2. Holds(t)
    <3>1. CASE GetSandbox(box[t], TRUE) /\ Hold(t, box[t], Observed(box[t]))
      <4>1. box[t] \in Sandboxes /\ Observed(box[t]) \in ReadStates
        BY <3>1, ReadTypes DEF GetSandbox
      <4>2. user[t] \in Users /\ owner'[box[t]] = user[t]
        BY <2>0, <4>1, ClientAssumption DEF HeldOwned, HeldBy
      <4>. QED BY <3>1, <4>1, <4>2 DEF Hold, Holds
    <3>2. CASE Hold(t, NoSandbox, "none")
      BY <3>2 DEF Hold, Holds, ReadStates
    <3>. QED BY <1>7, <3>1, <3>2 DEF Started
  <2>. QED BY <1>7, <1>a, <2>0, <2>1, <2>2 DEF Started, Shape
<1>. QED BY <1>1, <1>2, <1>3, <1>4, <1>5, <1>6, <1>7

\* Every step of Orchestrator.Hibernate and Destroy has the common shape.
LEMMA HibernateDestroyShape ==
    ASSUME IInv, NEW t \in Threads,
           \/ HibernateGet(t) \/ HibernateStop(t) \/ Stopped(t)
           \/ DestroyDelete(t) \/ DestroyUnstore(t)
    PROVE  Shape(t)
<1>. USE DEF IInv, TypeOK, providerVars, storeVars, argVars, resVars, contVars
<1>1. ProviderKept /\ UNCHANGED owner
  BY UnchangedProvider, StopKeeps, DeleteKeeps
     DEF HibernateGet, HibernateStop, Stopped, DestroyDelete, DestroyUnstore, GetSandbox
<1>2. Moves(t, HibernateSteps) \/ Moves(t, DestroySteps)
  <2>1. CASE HibernateGet(t)
    BY <2>1 DEF HibernateGet, Moves, Goto, HibernateSteps
  <2>2. CASE HibernateStop(t)
    BY <2>2 DEF HibernateStop, Moves, Goto, HibernateSteps
  <2>3. CASE Stopped(t)
    BY <2>3 DEF Stopped, Moves, Goto, HibernateSteps
  <2>4. CASE DestroyDelete(t) \/ DestroyUnstore(t)
    BY <2>4 DEF DestroyDelete, DestroyUnstore, Moves, Goto, DestroySteps
  <2>. QED BY <2>1, <2>2, <2>3, <2>4
<1>3. UNCHANGED <<user, target, onOk, onErr, box, seen>>
  BY DEF HibernateGet, HibernateStop, Stopped, DestroyDelete, DestroyUnstore
<1>4. Holds(t)
  <2>1. box[t] \in Sandboxes \cup {NoSandbox} /\ seen[t] \in ReadStates
    OBVIOUS
  <2>2. box' = [box EXCEPT ![t] = box[t]] /\ seen' = [seen EXCEPT ![t] = seen[t]]
    BY <1>3
  <2>3. box[t] # NoSandbox => user[t] \in Users /\ owner'[box[t]] = user[t]
    BY <1>1 DEF HeldOwned, HeldBy
  <2>. QED BY <2>1, <2>2, <2>3 DEF Holds
<1>5. \/ UNCHANGED store
      \/ store' = [u \in Users |-> IF store[u] = target[t] THEN NoSandbox ELSE store[u]]
  BY DEF HibernateGet, HibernateStop, Stopped, DestroyDelete, DestroyUnstore
<1>6. /\ store' \in [Users -> Sandboxes \cup {NoSandbox}]
      /\ \A u \in Users : store'[u] # NoSandbox => owner'[store'[u]] = u
  BY <1>1, <1>5 DEF CachesOwned
<1>. QED BY <1>1, <1>2, <1>3, <1>4, <1>6 DEF Shape

\* A step inside Orchestrator neither begins nor ends the leadership of a flight.
LEMMA MoveTypes ==
    ASSUME IInv, NEW t \in Threads, Shape(t)
    PROVE  /\ pc' \in [Threads -> Steps]
           /\ pc' = [pc EXCEPT ![t] = pc'[t]]
           /\ pc'[t] \notin {"idle", "enter", "wait", "wake", "evict"}
           /\ pc[t] \notin {"idle", "enter", "wait", "wake", "evict", "scan", "got"}
           /\ Leads(t)' <=> Leads(t)
<1>. USE DEF IInv, TypeOK, ReturnsMatch, ReturnsOf, GetOrResumeSteps, HibernateSteps, DestroySteps
<1>1. PICK l : /\ pc' = [pc EXCEPT ![t] = l]
               /\ \/ pc[t] \in GetOrResumeSteps /\ l \in GetOrResumeSteps \cup {onOk[t], onErr[t]}
                  \/ pc[t] \in HibernateSteps /\ l \in HibernateSteps \cup {onOk[t], onErr[t]}
                  \/ pc[t] \in DestroySteps /\ l \in DestroySteps \cup {onOk[t], onErr[t]}
  BY DEF Shape, Moves
<1>2. l \in Steps
  BY <1>1 DEF Steps, PoolSteps
<1>3. pc'[t] = l
  BY <1>1
<1>4. l \notin {"idle", "enter", "wait", "wake", "evict"}
  BY <1>1
<1>5. onOk'[t] = onOk[t]
  BY DEF Shape
<1>6. Leads(t)' <=> Leads(t)
  <2>1. CASE pc[t] \in GetOrResumeSteps
    BY <1>1, <1>3, <1>5, <2>1 DEF Leads
  <2>2. CASE pc[t] \in HibernateSteps
    BY <1>1, <1>3, <1>5, <2>2 DEF Leads
  <2>3. CASE pc[t] \in DestroySteps
    BY <1>1, <1>3, <1>5, <2>3 DEF Leads
  <2>. QED BY <1>1, <2>1, <2>2, <2>3
<1>. QED BY <1>1, <1>2, <1>3, <1>4, <1>6

\* Preservation of IInv by all of sandbox.go.
LEMMA OrchestratorStepKeeps ==
    ASSUME IInv, NEW t \in Threads, OrchestratorStep(t), UNCHANGED poolVars, UNCHANGED todo
    PROVE  IInv'
<1>. USE DEF IInv, poolVars
<1>0. Shape(t)
  BY GetOrResumeShape, HibernateDestroyShape DEF OrchestratorStep
<1>m. /\ pc' \in [Threads -> Steps]
      /\ pc' = [pc EXCEPT ![t] = pc'[t]]
      /\ pc'[t] \notin {"idle", "enter", "wait", "wake", "evict"}
      /\ pc[t] \notin {"idle", "enter", "wait", "wake", "evict", "scan", "got"}
      /\ Leads(t)' <=> Leads(t)
  BY <1>0, MoveTypes
<1>u. UNCHANGED <<user, target, onOk, onErr>>
  BY <1>0 DEF Shape
<1>b. PICK b \in Sandboxes \cup {NoSandbox}, st \in ReadStates :
         /\ box'  = [box  EXCEPT ![t] = b]
         /\ seen' = [seen EXCEPT ![t] = st]
         /\ b # NoSandbox => user[t] \in Users /\ owner'[b] = user[t]
  BY <1>0 DEF Shape, Holds
<1>l. ASSUME NEW x \in Threads PROVE Leads(x)' <=> Leads(x)
  <2>1. CASE x = t
    BY <1>m, <2>1
  <2>2. CASE x # t
    <3>1. pc'[x] = pc[x] /\ onOk'[x] = onOk[x]
      BY <1>m, <1>u, <2>2 DEF TypeOK
    <3>. QED BY <3>1 DEF Leads
  <2>. QED BY <2>1, <2>2
<1>1. TypeOK'
  <2>1. ProviderTypeOK' /\ store' \in [Users -> Sandboxes \cup {NoSandbox}]
    BY <1>0 DEF Shape, ProviderKept
  <2>2. box' \in [Threads -> Sandboxes \cup {NoSandbox}] /\ seen' \in [Threads -> ReadStates]
    BY <1>b DEF TypeOK
  <2>. QED BY <1>m, <1>u, <2>1, <2>2 DEF TypeOK
<1>2. OwnersKnown'
  BY <1>0 DEF Shape, ProviderKept
<1>3. CachesOwned'
  BY <1>0 DEF Shape, ProviderKept, CachesOwned, TypeOK
<1>4. HeldOwned'
  <2>1. user[t] \in Users \/ pc[t] \in HibernateSteps \cup DestroySteps \cup GetOrResumeSteps
    BY <1>0 DEF Shape, Moves
  <2>. SUFFICES ASSUME NEW x \in Threads
        PROVE  /\ pc'[x] \in GetOrResumeSteps \cup {"enter", "wait", "touch", "evict", "unfly", "wake"}
                    => user[x] \in Users
               /\ pc'[x] \in HibernateSteps /\ onOk[x] = "unfly" => user[x] \in Users
               /\ pc'[x] = "idle" => box'[x] = NoSandbox
               /\ box'[x] # NoSandbox => user[x] \in Users /\ owner'[box'[x]] = user[x]
    BY <1>u DEF HeldOwned, HeldBy
  <2>2. CASE x = t
    <3>1. pc'[t] \in GetOrResumeSteps \cup {"enter", "wait", "touch", "evict", "unfly", "wake"} => user[t] \in Users
      BY <1>0, <1>m DEF Shape, Moves, HeldOwned, HeldBy, ReturnsMatch, ReturnsOf, GetOrResumeSteps, HibernateSteps, DestroySteps, TypeOK
    <3>2. pc'[t] \in HibernateSteps /\ onOk[t] = "unfly" => user[t] \in Users
      BY <1>0, <1>m DEF Shape, Moves, HeldOwned, HeldBy, ReturnsMatch, ReturnsOf, GetOrResumeSteps, HibernateSteps, DestroySteps, TypeOK
    <3>3. box'[t] = b
      BY <1>b DEF TypeOK
    <3>. QED BY <1>b, <1>m, <2>2, <3>1, <3>2, <3>3
  <2>3. CASE x # t
    <3>1. pc'[x] = pc[x] /\ box'[x] = box[x]
      BY <1>m, <1>b, <2>3 DEF TypeOK
    <3>2. box[x] # NoSandbox => owner'[box[x]] = owner[box[x]]
      <4>1. box[x] # NoSandbox => owner[box[x]] \in Users /\ box[x] \in Sandboxes
        BY DEF HeldOwned, HeldBy, TypeOK
      <4>. QED BY <4>1, <1>0 DEF Shape, ProviderKept
    <3>. QED BY <3>1, <3>2 DEF HeldOwned, HeldBy
  <2>. QED BY <2>2, <2>3
<1>5. ReturnsMatch'
  BY <1>0, <1>m, <1>u DEF Shape, Moves, ReturnsMatch, ReturnsOf, GetOrResumeSteps, HibernateSteps, DestroySteps, TypeOK
<1>6. FlightsLed'
  BY <1>l, <1>u DEF FlightsLed, TypeOK
<1>7. WaitersHaveLeader'
  BY <1>l, <1>m, <1>u DEF WaitersHaveLeader, TypeOK
<1>. QED BY <1>1, <1>2, <1>3, <1>4, <1>5, <1>6, <1>7

\* What one thread does is invisible to the leadership of the others.
LEMMA LeadsFrame ==
    ASSUME IInv, NEW t \in Threads,
           pc' = [pc EXCEPT ![t] = pc'[t]], onOk' = [onOk EXCEPT ![t] = onOk'[t]]
    PROVE  \A x \in Threads \ {t} :
              /\ pc'[x] = pc[x]
              /\ onOk'[x] = onOk[x]
              /\ Leads(x)' <=> Leads(x)
<1>. SUFFICES ASSUME NEW x \in Threads, x # t
              PROVE  pc'[x] = pc[x] /\ onOk'[x] = onOk[x] /\ (Leads(x)' <=> Leads(x))
  OBVIOUS
<1>1. pc'[x] = pc[x] /\ onOk'[x] = onOk[x]
  BY DEF IInv, TypeOK
<1>. QED BY <1>1 DEF Leads

\* SingleFlight.Do, first critical section: a thread becomes leader only when the
\* slot is free, and a waiter starts waiting on the leader of its own user.
LEMMA EnterKeeps ==
    ASSUME IInv, NEW t \in Threads, Enter(t), UNCHANGED todo
    PROVE  IInv'
<1>. USE DEF IInv
<1>u. UNCHANGED <<state, owner, store, user, target, box, seen, active, byUser,
                  lastActive, pinned, todo>>
  BY DEF Enter, providerVars, storeVars, argVars, resVars, lruVars
<1>0. user[t] \in Users /\ pc[t] = "enter"
  BY DEF Enter, HeldOwned, HeldBy
<1>1. OwnersKnown' /\ CachesOwned'
  BY <1>u DEF OwnersKnown, Exists, CachesOwned
<1>2. CASE /\ inflight[user[t]] = NoThread
           /\ inflight' = [inflight EXCEPT ![user[t]] = t]
           /\ onOk' = [onOk EXCEPT ![t] = "touch"]
           /\ onErr' = [onErr EXCEPT ![t] = "unfly"]
           /\ pc' = [pc EXCEPT ![t] = "lookup"]
           /\ UNCHANGED waitOn
  <2>1. pc'[t] = "lookup" /\ onOk'[t] = "touch" /\ onErr'[t] = "unfly"
    BY <1>2 DEF TypeOK
  <2>2. \A x \in Threads \ {t} : pc'[x] = pc[x] /\ onOk'[x] = onOk[x] /\ (Leads(x)' <=> Leads(x))
    BY <1>2, <2>1, LeadsFrame
  <2>3. Leads(t)'
    BY <2>1 DEF Leads, GetOrResumeSteps
  <2>4. ~Leads(t)
    BY <1>0 DEF Leads, GetOrResumeSteps, HibernateSteps
  <2>5. {"lookup", "touch", "unfly"} \subseteq Steps
    BY DEF Steps, PoolSteps, GetOrResumeSteps
  <2>6. TypeOK'
    BY <1>0, <1>2, <1>u, <2>5 DEF TypeOK, ProviderTypeOK
  <2>7. HeldOwned'
    BY <1>0, <1>u, <2>1, <2>2 DEF HeldOwned, HeldBy, HibernateSteps
  <2>8. ReturnsMatch'
    BY <1>2, <2>1, <2>2 DEF ReturnsMatch, ReturnsOf, HibernateSteps, DestroySteps, TypeOK
  <2>9. FlightsLed'
    BY <1>0, <1>2, <1>u, <2>2, <2>3, <2>4, PoolAssumption DEF FlightsLed, TypeOK
  <2>10. WaitersHaveLeader'
    BY <1>0, <1>2, <1>u, <2>1, <2>2, <2>3 DEF WaitersHaveLeader
  <2>. QED BY <1>1, <2>6, <2>7, <2>8, <2>9, <2>10
<1>3. CASE /\ inflight[user[t]] # NoThread
           /\ waitOn' = [waitOn EXCEPT ![t] = inflight[user[t]]]
           /\ pc' = [pc EXCEPT ![t] = "wait"]
           /\ UNCHANGED <<inflight, onOk, onErr>>
  <2>1. pc'[t] = "wait" /\ waitOn'[t] = inflight[user[t]]
    BY <1>3 DEF TypeOK
  <2>2. \A x \in Threads \ {t} : pc'[x] = pc[x] /\ onOk'[x] = onOk[x] /\ (Leads(x)' <=> Leads(x))
    BY <1>3, <2>1, LeadsFrame DEF TypeOK
  <2>3. ~Leads(t) /\ ~Leads(t)'
    BY <1>0, <2>1 DEF Leads, GetOrResumeSteps, HibernateSteps
  <2>4. "wait" \in Steps
    BY DEF Steps, PoolSteps
  <2>5. inflight[user[t]] \in Threads
    BY <1>0, <1>3 DEF TypeOK
  <2>6. TypeOK'
    BY <1>3, <1>u, <2>4, <2>5 DEF TypeOK, ProviderTypeOK
  <2>7. HeldOwned'
    BY <1>0, <1>3, <1>u, <2>1, <2>2 DEF HeldOwned, HeldBy, HibernateSteps
  <2>8. ReturnsMatch'
    BY <1>3, <2>1, <2>2 DEF ReturnsMatch, ReturnsOf, GetOrResumeSteps, HibernateSteps, DestroySteps
  <2>9. FlightsLed'
    BY <1>3, <1>u, <2>2, <2>3 DEF FlightsLed, TypeOK
  <2>10. WaitersHaveLeader'
    <3>. SUFFICES ASSUME NEW x \in Threads, pc'[x] = "wait"
                  PROVE  \E l \in Threads : /\ waitOn'[x] = l
                                            /\ user[l] = user[x]
                                            /\ Leads(l)' \/ pc'[l] = "wake"
      BY <1>u DEF WaitersHaveLeader
    <3>1. CASE x = t
      <4>1. PICK l \in Threads : l = inflight[user[t]]
        BY <2>5
      <4>2. Leads(l) /\ user[l] = user[t]
        BY <1>0, <4>1 DEF FlightsLed
      <4>. QED BY <2>1, <2>2, <2>3, <3>1, <4>1, <4>2
    <3>2. CASE x # t
      <4>1. waitOn'[x] = waitOn[x] /\ pc[x] = "wait"
        BY <1>3, <2>2, <3>2 DEF TypeOK
      <4>2. PICK l \in Threads : /\ waitOn[x] = l
                                 /\ user[l] = user[x]
                                 /\ Leads(l) \/ pc[l] = "wake"
        BY <4>1 DEF WaitersHaveLeader
      <4>3. l # t
        BY <1>0, <2>3, <4>2
      <4>. QED BY <2>2, <4>1, <4>2, <4>3
    <3>. QED BY <3>1, <3>2
  <2>. QED BY <1>1, <2>6, <2>7, <2>8, <2>9, <2>10
<1>. QED BY <1>2, <1>3 DEF Enter, Goto, contVars

\* A step of one thread that neither begins nor ends a flight keeps the parts of
\* IInv that speak about threads, if it keeps them for that thread.
LEMMA StepOf ==
    ASSUME IInv, NEW t \in Threads,
           pc'    = [pc    EXCEPT ![t] = pc'[t]],
           user'  = [user  EXCEPT ![t] = user'[t]],
           box'   = [box   EXCEPT ![t] = box'[t]],
           onOk'  = [onOk  EXCEPT ![t] = onOk'[t]],
           onErr' = [onErr EXCEPT ![t] = onErr'[t]],
           UNCHANGED <<owner, inflight, waitOn>>,
           HeldBy(t)', ReturnsOf(t)',
           Leads(t)' <=> Leads(t), Leads(t) => user'[t] = user[t],
           pc[t] # "wake", pc'[t] # "wait"
    PROVE  HeldOwned' /\ ReturnsMatch' /\ FlightsLed' /\ WaitersHaveLeader'
<1>. USE DEF IInv
<1>1. \A x \in Threads \ {t} :
         /\ pc'[x] = pc[x] /\ user'[x] = user[x] /\ box'[x] = box[x]
         /\ onOk'[x] = onOk[x] /\ onErr'[x] = onErr[x]
         /\ Leads(x)' <=> Leads(x)
  <2>1. \A x \in Threads \ {t} :
           /\ pc'[x] = pc[x] /\ user'[x] = user[x] /\ box'[x] = box[x]
           /\ onOk'[x] = onOk[x] /\ onErr'[x] = onErr[x]
    BY DEF TypeOK
  <2>. QED BY <2>1, LeadsFrame
<1>2. HeldOwned'
  BY <1>1 DEF HeldOwned, HeldBy
<1>3. ReturnsMatch'
  BY <1>1 DEF ReturnsMatch, ReturnsOf
<1>4. FlightsLed'
  <2>. SUFFICES ASSUME NEW x \in Threads, NEW u \in Users
                PROVE  inflight[u] = x <=> Leads(x)' /\ user'[x] = u
    BY DEF FlightsLed
  <2>1. inflight[u] = x <=> Leads(x) /\ user[x] = u
    BY DEF FlightsLed
  <2>. QED BY <1>1, <2>1
<1>5. WaitersHaveLeader'
  <2>. SUFFICES ASSUME NEW x \in Threads, pc'[x] = "wait"
                PROVE  \E l \in Threads : /\ waitOn'[x] = l
                                          /\ user'[l] = user'[x]
                                          /\ Leads(l)' \/ pc'[l] = "wake"
    BY DEF WaitersHaveLeader
  <2>1. x # t /\ pc[x] = "wait" /\ user'[x] = user[x]
    BY <1>1
  <2>2. PICK l \in Threads : /\ waitOn[x] = l
                             /\ user[l] = user[x]
                             /\ Leads(l) \/ pc[l] = "wake"
    BY <2>1 DEF WaitersHaveLeader
  <2>. QED BY <1>1, <2>1, <2>2
<1>. QED BY <1>2, <1>3, <1>4, <1>5

\* touchInternal enters the user's own sandbox in the active set.
LEMMA TouchInternalKeeps ==
    ASSUME IInv, NEW t \in Threads, TouchInternal(t), UNCHANGED todo
    PROVE  IInv'
<1>. USE DEF IInv
<1>u. UNCHANGED <<state, owner, store, user, target, box, seen, onOk, onErr,
                  pinned, inflight, waitOn, todo>>
  BY DEF TouchInternal, providerVars, storeVars, argVars, resVars, contVars, flightVars
<1>0. pc[t] = "touch" /\ pc' = [pc EXCEPT ![t] = "evict"] /\ pc'[t] = "evict"
  BY DEF TouchInternal, Goto, TypeOK
<1>1. user[t] \in Users
  BY <1>0 DEF HeldOwned, HeldBy
<1>2. byUser' = [byUser EXCEPT ![user[t]] = box[t]]
  BY DEF TouchInternal
<1>3. TypeOK'
  <2>1. active' \in Seq(Users)
    BY <1>1, WithoutType, AppendProperties DEF TouchInternal, TypeOK
  <2>2. lastActive' \in [Sandboxes -> {"none", "fresh", "idle"}]
    BY DEF TouchInternal, TypeOK
  <2>3. "evict" \in Steps
    BY DEF Steps, PoolSteps
  <2>. QED BY <1>u, <1>0, <1>2, <2>1, <2>2, <2>3 DEF TypeOK, ProviderTypeOK
<1>4. OwnersKnown'
  BY <1>u DEF OwnersKnown, Exists
<1>5. CachesOwned'
  BY <1>u, <1>1, <1>2 DEF CachesOwned, HeldOwned, HeldBy, TypeOK
<1>6. HeldBy(t)' /\ ReturnsOf(t)'
  BY <1>u, <1>0, <1>1
     DEF HeldOwned, HeldBy, ReturnsOf, GetOrResumeSteps, HibernateSteps, DestroySteps
<1>7. Leads(t) /\ Leads(t)'
  BY <1>0 DEF Leads
<1>. QED BY <1>u, <1>0, <1>3, <1>4, <1>5, <1>6, <1>7, StepOf, ZenonT(60) DEF TypeOK

\* Removing a user from the active set adds nothing to it.
LEMMA DropUserProperties ==
    ASSUME IInv, NEW u \in Users, DropUser(u), UNCHANGED <<store, owner>>
    PROVE  /\ active' \in Seq(Users)
           /\ byUser' \in [Users -> Sandboxes \cup {NoSandbox}]
           /\ CachesOwned'
BY WithoutType DEF IInv, TypeOK, DropUser, CachesOwned

\* maybeEvict keeps the leader in its flight while the victim is hibernated.
LEMMA MaybeEvictKeeps ==
    ASSUME IInv, NEW t \in Threads, MaybeEvict(t), UNCHANGED todo
    PROVE  IInv'
<1>. USE DEF IInv
<1>u. UNCHANGED <<state, owner, store, user, box, seen, pinned, inflight, waitOn, todo>>
  BY DEF MaybeEvict, providerVars, storeVars, resVars, flightVars
<1>0. pc[t] = "evict"
  BY DEF MaybeEvict
<1>1. user[t] \in Users
  BY <1>0 DEF HeldOwned, HeldBy
<1>4. OwnersKnown'
  BY <1>u DEF OwnersKnown, Exists
<1>5. CASE pc' = [pc EXCEPT ![t] = "unfly"] /\ UNCHANGED <<lruVars, target, contVars>>
  <2>0. pc'[t] = "unfly"
    BY <1>5 DEF TypeOK
  <2>1. UNCHANGED <<active, byUser, lastActive, target, onOk, onErr>>
    BY <1>5 DEF lruVars, contVars
  <2>2. TypeOK'
    <3>1. "unfly" \in Steps
      BY DEF Steps, PoolSteps
    <3>. QED BY <1>u, <1>5, <2>1, <3>1 DEF TypeOK, ProviderTypeOK
  <2>3. CachesOwned'
    BY <1>u, <2>1 DEF CachesOwned
  <2>4. HeldBy(t)' /\ ReturnsOf(t)'
    BY <1>u, <1>1, <2>0, <2>1
       DEF HeldOwned, HeldBy, ReturnsOf, GetOrResumeSteps, HibernateSteps, DestroySteps
  <2>5. Leads(t) /\ Leads(t)'
    BY <1>0, <2>0 DEF Leads
  <2>. QED BY <1>u, <1>0, <1>4, <1>5, <2>0, <2>1, <2>2, <2>3, <2>4, <2>5, StepOf, ZenonT(60) DEF TypeOK
<1>6. ASSUME NEW i \in DOMAIN active,
             DropUser(active[i]),
             lastActive' = [lastActive EXCEPT ![byUser[active[i]]] = "none"],
             target' = [target EXCEPT ![t] = byUser[active[i]]],
             onOk'  = [onOk  EXCEPT ![t] = "unfly"],
             onErr' = [onErr EXCEPT ![t] = "unfly"],
             pc' = [pc EXCEPT ![t] = "hib_get"]
      PROVE  IInv'
  <2>0. pc'[t] = "hib_get" /\ onOk'[t] = "unfly" /\ onErr'[t] = "unfly"
    BY <1>6 DEF TypeOK
  <2>1. active[i] \in Users
    BY DEF TypeOK
  <2>2. /\ active' \in Seq(Users)
        /\ byUser' \in [Users -> Sandboxes \cup {NoSandbox}]
        /\ CachesOwned'
    BY <1>u, <1>6, <2>1, DropUserProperties
  <2>3. TypeOK'
    <3>1. {"unfly", "hib_get"} \subseteq Steps
      BY DEF Steps, PoolSteps, HibernateSteps
    <3>2. target' \in [Threads -> Sandboxes \cup {NoSandbox}]
      BY <1>6, <2>1 DEF TypeOK
    <3>. QED BY <1>u, <1>6, <2>2, <3>1, <3>2 DEF TypeOK, ProviderTypeOK
  <2>4. HeldBy(t)' /\ ReturnsOf(t)'
    BY <1>u, <1>1, <2>0
       DEF HeldOwned, HeldBy, ReturnsOf, GetOrResumeSteps, HibernateSteps, DestroySteps
  <2>5. Leads(t) /\ Leads(t)'
    BY <1>0, <2>0 DEF Leads, HibernateSteps
  <2>. QED BY <1>u, <1>0, <1>4, <1>6, <2>0, <2>2, <2>3, <2>4, <2>5, StepOf, ZenonT(60) DEF TypeOK
<1>. QED BY <1>5, <1>6 DEF MaybeEvict, Evictable, Goto

\* The deferred delete frees the slot of the thread's own user only, and its
\* waiters go on to wait for a thread that is about to wake them.
LEMMA UnflyKeeps ==
    ASSUME IInv, NEW t \in Threads, Unfly(t), UNCHANGED todo
    PROVE  IInv'
<1>. USE DEF IInv
<1>u. UNCHANGED <<state, owner, store, user, target, box, seen, onOk, onErr, active,
                  byUser, lastActive, pinned, waitOn, todo>>
  BY DEF Unfly, providerVars, storeVars, argVars, resVars, contVars, lruVars
<1>0. /\ pc[t] = "unfly" /\ pc' = [pc EXCEPT ![t] = "wake"] /\ pc'[t] = "wake"
      /\ inflight' = [inflight EXCEPT ![user[t]] = NoThread]
  BY DEF Unfly, Goto, TypeOK
<1>1. user[t] \in Users
  BY <1>0 DEF HeldOwned, HeldBy
<1>2. \A x \in Threads \ {t} : pc'[x] = pc[x] /\ (Leads(x)' <=> Leads(x))
  BY <1>u, <1>0, LeadsFrame DEF TypeOK
<1>3. Leads(t) /\ ~Leads(t)'
  BY <1>0 DEF Leads, GetOrResumeSteps, HibernateSteps
<1>4. TypeOK'
  <2>1. "wake" \in Steps
    BY DEF Steps, PoolSteps
  <2>. QED BY <1>u, <1>0, <2>1 DEF TypeOK, ProviderTypeOK
<1>5. OwnersKnown' /\ CachesOwned'
  BY <1>u DEF OwnersKnown, Exists, CachesOwned
<1>6. HeldOwned'
  BY <1>u, <1>0, <1>1, <1>2 DEF HeldOwned, HeldBy, HibernateSteps
<1>7. ReturnsMatch'
  BY <1>u, <1>0, <1>2 DEF ReturnsMatch, ReturnsOf, GetOrResumeSteps, HibernateSteps, DestroySteps
<1>8. FlightsLed'
  <2>. SUFFICES ASSUME NEW x \in Threads, NEW u \in Users
                PROVE  inflight'[u] = x <=> Leads(x)' /\ user[x] = u
    BY <1>u DEF FlightsLed
  <2>1. /\ inflight[u] = x <=> Leads(x) /\ user[x] = u
        /\ inflight[u] = t <=> Leads(t) /\ user[t] = u
    BY DEF FlightsLed
  <2>2. inflight'[u] = IF u = user[t] THEN NoThread ELSE inflight[u]
    BY <1>0 DEF TypeOK
  <2>. QED BY <1>2, <1>3, <2>1, <2>2, PoolAssumption
<1>9. WaitersHaveLeader'
  <2>. SUFFICES ASSUME NEW x \in Threads, pc'[x] = "wait"
                PROVE  \E l \in Threads : /\ waitOn[x] = l
                                          /\ user[l] = user[x]
                                          /\ Leads(l)' \/ pc'[l] = "wake"
    BY <1>u DEF WaitersHaveLeader
  <2>1. pc[x] = "wait"
    BY <1>0, <1>2
  <2>2. PICK l \in Threads : /\ waitOn[x] = l
                             /\ user[l] = user[x]
                             /\ Leads(l) \/ pc[l] = "wake"
    BY <2>1 DEF WaitersHaveLeader
  <2>. QED BY <1>0, <1>2, <2>2
<1>. QED BY <1>4, <1>5, <1>6, <1>7, <1>8, <1>9

\* wg.Done releases all waiters of the call, with a sandbox of their own user.
LEMMA WakeKeeps ==
    ASSUME IInv, NEW t \in Threads, Wake(t), UNCHANGED todo
    PROVE  IInv'
<1>. USE DEF IInv
<1>. DEFINE woken == {x \in Threads : pc[x] = "wait" /\ waitOn[x] = t}
<1>u. UNCHANGED <<state, owner, store, user, target, onOk, onErr, active, byUser,
                  lastActive, pinned, inflight, todo>>
  BY DEF Wake, providerVars, storeVars, argVars, contVars, lruVars
<1>0. /\ pc[t] = "wake"
      /\ pc'   = [x \in Threads |-> IF x \in woken \cup {t} THEN "got" ELSE pc[x]]
      /\ box'  = [x \in Threads |-> IF x \in woken THEN box[t] ELSE box[x]]
      /\ seen' = [x \in Threads |-> IF x \in woken THEN seen[t] ELSE seen[x]]
      /\ waitOn' = [x \in Threads |-> IF x \in woken THEN NoThread ELSE waitOn[x]]
  BY DEF Wake
<1>1. \A x \in woken : pc[x] = "wait" /\ waitOn[x] = t /\ user[x] = user[t]
  BY DEF WaitersHaveLeader
<1>. HIDE DEF woken
<1>2. \A x \in Threads : Leads(x)' <=> Leads(x)
  <2>. SUFFICES ASSUME NEW x \in Threads PROVE Leads(x)' <=> Leads(x)
    OBVIOUS
  <2>1. CASE x \in woken \cup {t}
    <3>1. pc'[x] = "got" /\ pc[x] \in {"wait", "wake"}
      BY <1>0, <1>1, <2>1
    <3>. QED BY <3>1 DEF Leads, GetOrResumeSteps, HibernateSteps
  <2>2. CASE x \notin woken \cup {t}
    <3>1. pc'[x] = pc[x]
      BY <1>0, <2>2
    <3>. QED BY <1>u, <3>1 DEF Leads
  <2>. QED BY <2>1, <2>2
<1>3. TypeOK'
  <2>1. "got" \in Steps
    BY DEF Steps, PoolSteps
  <2>. QED BY <1>u, <1>0, <2>1 DEF TypeOK, ProviderTypeOK
<1>4. OwnersKnown' /\ CachesOwned'
  BY <1>u DEF OwnersKnown, Exists, CachesOwned
<1>5. HeldOwned'
  <2>. SUFFICES ASSUME NEW x \in Threads PROVE HeldBy(x)'
    BY DEF HeldOwned
  <2>0. HeldBy(x) /\ HeldBy(t)
    BY DEF HeldOwned
  <2>1. CASE x \in woken
    <3>1. pc'[x] = "got" /\ box'[x] = box[t] /\ user[x] = user[t]
      BY <1>0, <1>1, <2>1
    <3>. QED BY <1>u, <2>0, <3>1 DEF HeldBy, GetOrResumeSteps, HibernateSteps
  <2>2. CASE x \notin woken
    <3>1. box'[x] = box[x] /\ pc'[x] \in {"got", pc[x]}
      BY <1>0, <2>2
    <3>. QED BY <1>u, <2>0, <3>1 DEF HeldBy, GetOrResumeSteps, HibernateSteps
  <2>. QED BY <2>1, <2>2
<1>6. ReturnsMatch'
  BY <1>u, <1>0 DEF ReturnsMatch, ReturnsOf, GetOrResumeSteps, HibernateSteps, DestroySteps
<1>7. FlightsLed'
  BY <1>u, <1>2 DEF FlightsLed
<1>8. WaitersHaveLeader'
  <2>. SUFFICES ASSUME NEW x \in Threads, pc'[x] = "wait"
                PROVE  \E l \in Threads : /\ waitOn'[x] = l
                                          /\ user[l] = user[x]
                                          /\ Leads(l)' \/ pc'[l] = "wake"
    BY <1>u DEF WaitersHaveLeader
  <2>1. x \notin woken /\ pc[x] = "wait" /\ waitOn'[x] = waitOn[x]
    BY <1>0
  <2>2. PICK l \in Threads : /\ waitOn[x] = l
                             /\ user[l] = user[x]
                             /\ Leads(l) \/ pc[l] = "wake"
    BY <2>1 DEF WaitersHaveLeader
  <2>3. l # t
    BY <2>1, <2>2 DEF woken
  <2>4. l \notin woken \/ Leads(l)
    BY <1>1, <2>2
  <2>. QED BY <1>0, <1>2, <2>1, <2>2, <2>3, <2>4
<1>. QED BY <1>3, <1>4, <1>5, <1>6, <1>7, <1>8

\* The tail of pool.Hibernate.
LEMMA ForgetKeeps ==
    ASSUME IInv, NEW t \in Threads, Forget(t), UNCHANGED todo
    PROVE  IInv'
<1>. USE DEF IInv
<1>u. UNCHANGED <<state, owner, store, user, target, box, seen, onOk, onErr,
                  pinned, inflight, waitOn, todo>>
  BY DEF Forget, providerVars, storeVars, argVars, resVars, contVars, flightVars
<1>0. pc[t] = "forget" /\ onErr[t] = "scan" /\ pc' = [pc EXCEPT ![t] = "scan"] /\ pc'[t] = "scan"
  BY DEF Forget, Goto, TypeOK, ReturnsMatch, ReturnsOf
<1>1. /\ active' \in Seq(Users)
      /\ byUser' \in [Users -> Sandboxes \cup {NoSandbox}]
      /\ CachesOwned'
  <2>1. CASE UNCHANGED <<active, byUser>>
    BY <1>u, <2>1 DEF TypeOK, CachesOwned
  <2>2. CASE \E u \in Users : DropUser(u)
    BY <1>u, <2>2, DropUserProperties
  <2>. QED BY <2>1, <2>2 DEF Forget
<1>2. TypeOK'
  <2>1. "scan" \in Steps
    BY DEF Steps
  <2>2. lastActive' \in [Sandboxes -> {"none", "fresh", "idle"}]
    BY DEF Forget, TypeOK
  <2>. QED BY <1>u, <1>0, <1>1, <2>1, <2>2 DEF TypeOK, ProviderTypeOK
<1>3. OwnersKnown'
  BY <1>u DEF OwnersKnown, Exists
<1>4. HeldBy(t)' /\ ReturnsOf(t)'
  BY <1>u, <1>0 DEF HeldOwned, HeldBy, ReturnsOf, GetOrResumeSteps, HibernateSteps, DestroySteps
<1>5. ~Leads(t) /\ ~Leads(t)'
  BY <1>0 DEF Leads, GetOrResumeSteps, HibernateSteps
<1>. QED BY <1>u, <1>0, <1>1, <1>2, <1>3, <1>4, <1>5, StepOf, ZenonT(60) DEF TypeOK

\* A request begins with empty hands.
LEMMA RequestKeeps ==
    ASSUME IInv, NEW t \in Threads,
           \/ \E u \in Users : PostSandbox(t, u)
           \/ \E s \in Sandboxes : \/ PostResume(t, s)
                                   \/ PostHibernate(t, s)
                                   \/ DeleteSandboxRequest(t, s)
    PROVE  IInv'
<1>. USE DEF IInv
<1>u. UNCHANGED <<state, owner, store, box, seen, active, byUser, lastActive, pinned,
                  inflight, waitOn, todo>>
  BY DEF PostSandbox, PostResume, PostHibernate, DeleteSandboxRequest, GetSandbox,
         providerVars, storeVars, resVars, poolVars
<1>0. pc[t] = "idle"
  BY DEF PostSandbox, PostResume, PostHibernate, DeleteSandboxRequest
<1>1. box[t] = NoSandbox /\ ~Leads(t)
  BY <1>0 DEF HeldOwned, HeldBy, Leads, GetOrResumeSteps, HibernateSteps
<1>2. OwnersKnown' /\ CachesOwned'
  BY <1>u DEF OwnersKnown, Exists, CachesOwned
<1>3. CASE \E u \in Users : PostSandbox(t, u)
  <2>1. PICK u \in Users : PostSandbox(t, u)
    BY <1>3
  <2>2. /\ user' = [user EXCEPT ![t] = u] /\ user'[t] = u
        /\ pc' = [pc EXCEPT ![t] = "enter"] /\ pc'[t] = "enter"
        /\ UNCHANGED <<target, onOk, onErr>>
    BY <2>1 DEF PostSandbox, Goto, contVars, TypeOK
  <2>3. TypeOK'
    <3>1. "enter" \in Steps
      BY DEF Steps, PoolSteps
    <3>. QED BY <1>u, <2>2, <3>1 DEF TypeOK, ProviderTypeOK
  <2>4. HeldBy(t)' /\ ReturnsOf(t)' /\ ~Leads(t)'
    BY <1>u, <1>1, <2>2
       DEF HeldBy, ReturnsOf, Leads, GetOrResumeSteps, HibernateSteps, DestroySteps
  <2>. QED BY <1>u, <1>0, <1>1, <1>2, <2>2, <2>3, <2>4, StepOf, ZenonT(60) DEF TypeOK
<1>4. CASE \E s \in Sandboxes : PostResume(t, s)
  <2>1. PICK s \in Sandboxes : PostResume(t, s)
    BY <1>4
  <2>2. owner[s] \in Users
    BY <2>1 DEF PostResume, GetSandbox, OwnersKnown
  <2>3. /\ user' = [user EXCEPT ![t] = owner[s]] /\ user'[t] = owner[s]
        /\ pc' = [pc EXCEPT ![t] = "lookup"] /\ pc'[t] = "lookup"
        /\ onOk' = [onOk EXCEPT ![t] = "got"] /\ onOk'[t] = "got"
        /\ onErr' = [onErr EXCEPT ![t] = "got"] /\ onErr'[t] = "got"
        /\ UNCHANGED target
    BY <2>1 DEF PostResume, Goto, TypeOK
  <2>4. TypeOK'
    <3>1. {"lookup", "got"} \subseteq Steps
      BY DEF Steps, PoolSteps, GetOrResumeSteps
    <3>. QED BY <1>u, <2>2, <2>3, <3>1 DEF TypeOK, ProviderTypeOK
  <2>5. HeldBy(t)' /\ ReturnsOf(t)' /\ ~Leads(t)'
    BY <1>u, <1>1, <2>2, <2>3
       DEF HeldBy, ReturnsOf, Leads, GetOrResumeSteps, HibernateSteps, DestroySteps
  <2>. QED BY <1>u, <1>0, <1>1, <1>2, <2>3, <2>4, <2>5, StepOf, ZenonT(60) DEF TypeOK
<1>5. CASE \E s \in Sandboxes : PostHibernate(t, s) \/ DeleteSandboxRequest(t, s)
  <2>1. PICK s \in Sandboxes, l \in {"hib_get", "del"} :
          /\ target' = [target EXCEPT ![t] = s]
          /\ pc' = [pc EXCEPT ![t] = l]
          /\ onOk' = [onOk EXCEPT ![t] = "got"]
          /\ onErr' = [onErr EXCEPT ![t] = "got"]
          /\ UNCHANGED user
    BY <1>5 DEF PostHibernate, DeleteSandboxRequest, Goto
  <2>2. pc'[t] = l /\ onOk'[t] = "got" /\ onErr'[t] = "got"
    BY <2>1 DEF TypeOK
  <2>3. TypeOK'
    <3>1. {"hib_get", "del", "got"} \subseteq Steps
      BY DEF Steps, PoolSteps, HibernateSteps, DestroySteps
    <3>. QED BY <1>u, <2>1, <3>1 DEF TypeOK, ProviderTypeOK
  <2>4. HeldBy(t)' /\ ReturnsOf(t)' /\ ~Leads(t)'
    BY <1>u, <1>1, <2>1, <2>2
       DEF HeldBy, ReturnsOf, Leads, GetOrResumeSteps, HibernateSteps, DestroySteps
  <2>. QED BY <1>u, <1>0, <1>1, <1>2, <2>1, <2>2, <2>3, <2>4, StepOf, ZenonT(60) DEF TypeOK
<1>. QED BY <1>3, <1>4, <1>5

\* The end of a request and of a scan.
LEMMA RetireKeeps ==
    ASSUME IInv, NEW t \in Threads, Reply(t) \/ ScanEnd(t)
    PROVE  IInv'
<1>. USE DEF IInv
<1>u. UNCHANGED <<state, owner, store, active, byUser, lastActive, pinned, inflight, waitOn, todo>>
  BY DEF Reply, ScanEnd, providerVars, storeVars, poolVars
<1>0. /\ pc[t] \in {"got", "scan"}
      /\ pc' = [pc EXCEPT ![t] = "idle"] /\ pc'[t] = "idle"
      /\ user' = [user EXCEPT ![t] = NoUser]
      /\ box' = [box EXCEPT ![t] = NoSandbox] /\ box'[t] = NoSandbox
      /\ seen' = [seen EXCEPT ![t] = "none"]
      /\ target' = [target EXCEPT ![t] = NoSandbox]
      /\ onOk' = [onOk EXCEPT ![t] = "idle"]
      /\ onErr' = [onErr EXCEPT ![t] = "idle"]
  BY DEF Reply, ScanEnd, Retire, TypeOK
<1>1. TypeOK'
  <2>1. "idle" \in Steps /\ "none" \in ReadStates
    BY DEF Steps, ReadStates
  <2>. QED BY <1>u, <1>0, <2>1 DEF TypeOK, ProviderTypeOK
<1>2. OwnersKnown' /\ CachesOwned'
  BY <1>u DEF OwnersKnown, Exists, CachesOwned
<1>3. HeldBy(t)' /\ ReturnsOf(t)'
  BY <1>0 DEF HeldBy, ReturnsOf, GetOrResumeSteps, HibernateSteps, DestroySteps
<1>4. ~Leads(t) /\ ~Leads(t)'
  BY <1>0 DEF Leads, GetOrResumeSteps, HibernateSteps
<1>. QED BY <1>u, <1>0, <1>1, <1>2, <1>3, <1>4, StepOf, ZenonT(60) DEF TypeOK

\* The steps of HibernateScheduler.ScanOnce itself.
LEMMA ScanKeeps ==
    ASSUME IInv, NEW t \in Threads, ScanStart(t) \/ ScanItem(t)
    PROVE  IInv'
<1>. USE DEF IInv
<1>u. UNCHANGED <<state, owner, store, user, box, seen, active, byUser, lastActive, pinned,
                  inflight, waitOn>>
  BY DEF ScanStart, ScanItem, providerVars, storeVars, argVars, resVars, poolVars
<1>0. OwnersKnown' /\ CachesOwned'
  BY <1>u DEF OwnersKnown, Exists, CachesOwned
<1>1. CASE ScanStart(t)
  <2>1. /\ pc[t] = "idle" /\ pc' = [pc EXCEPT ![t] = "scan"] /\ pc'[t] = "scan"
        /\ UNCHANGED <<target, onOk, onErr>>
    BY <1>1 DEF ScanStart, Goto, argVars, contVars, TypeOK
  <2>2. TypeOK'
    <3>. DEFINE items == [i \in 1..Len(active) |->
                 [box |-> byUser[active[i]], idle |-> lastActive[byUser[active[i]]] # "fresh"]]
    <3>1. Len(active) \in Nat /\ \A i \in 1..Len(active) : active[i] \in Users
      BY DEF TypeOK
    <3>2. \A i \in 1..Len(active) : items[i] \in [box : Sandboxes \cup {NoSandbox}, idle : BOOLEAN]
      BY <3>1 DEF TypeOK
    <3>3. items \in Seq([box : Sandboxes \cup {NoSandbox}, idle : BOOLEAN])
      BY <3>1, <3>2
    <3>4. todo' = [todo EXCEPT ![t] = items]
      BY <1>1 DEF ScanStart
    <3>5. "scan" \in Steps
      BY DEF Steps
    <3>. HIDE DEF items
    <3>. QED BY <1>u, <2>1, <3>3, <3>4, <3>5 DEF TypeOK, ProviderTypeOK
  <2>3. HeldBy(t)' /\ ReturnsOf(t)'
    BY <1>u, <2>1
       DEF HeldOwned, HeldBy, ReturnsOf, GetOrResumeSteps, HibernateSteps, DestroySteps
  <2>4. ~Leads(t) /\ ~Leads(t)'
    BY <2>1 DEF Leads, GetOrResumeSteps, HibernateSteps
  <2>. QED BY <1>u, <1>0, <2>1, <2>2, <2>3, <2>4, StepOf, ZenonT(60) DEF TypeOK
<1>2. CASE ScanItem(t)
  <2>1. /\ pc[t] = "scan" /\ todo[t] # <<>>
        /\ todo' = [todo EXCEPT ![t] = Tail(todo[t])]
    BY <1>2 DEF ScanItem
  <2>2. todo' \in [Threads -> Seq([box : Sandboxes \cup {NoSandbox}, idle : BOOLEAN])]
    BY <2>1, HeadTailProperties DEF TypeOK
  <2>3. CASE UNCHANGED <<pc, target, contVars>>
    <3>1. UNCHANGED <<pc, target, onOk, onErr>>
      BY <2>3 DEF contVars
    <3>2. TypeOK'
      BY <1>u, <2>2, <3>1 DEF TypeOK, ProviderTypeOK
    <3>3. HeldBy(t)' /\ ReturnsOf(t)' /\ (Leads(t)' <=> Leads(t))
      BY <1>u, <3>1 DEF HeldOwned, HeldBy, ReturnsMatch, ReturnsOf, Leads
    <3>. QED BY <1>u, <1>0, <2>1, <3>1, <3>2, <3>3, StepOf, ZenonT(60) DEF TypeOK
  <2>4. CASE /\ target' = [target EXCEPT ![t] = Head(todo[t]).box]
             /\ onOk'   = [onOk   EXCEPT ![t] = "forget"]
             /\ onErr'  = [onErr  EXCEPT ![t] = "scan"]
             /\ pc' = [pc EXCEPT ![t] = "hib_get"]
    <3>1. pc'[t] = "hib_get" /\ onOk'[t] = "forget" /\ onErr'[t] = "scan"
      BY <2>4 DEF TypeOK
    <3>2. TypeOK'
      <4>1. {"hib_get", "forget", "scan"} \subseteq Steps
        BY DEF Steps, PoolSteps, HibernateSteps
      <4>2. Head(todo[t]) \in [box : Sandboxes \cup {NoSandbox}, idle : BOOLEAN]
        BY <2>1, HeadTailProperties DEF TypeOK
      <4>3. Head(todo[t]).box \in Sandboxes \cup {NoSandbox}
        BY <4>2
      <4>. QED BY <1>u, <2>2, <2>4, <4>1, <4>3 DEF TypeOK, ProviderTypeOK
    <3>3. HeldBy(t)' /\ ReturnsOf(t)'
      BY <1>u, <2>1, <3>1
         DEF HeldOwned, HeldBy, ReturnsOf, GetOrResumeSteps, HibernateSteps, DestroySteps
    <3>4. ~Leads(t) /\ ~Leads(t)'
      BY <2>1, <3>1 DEF Leads, GetOrResumeSteps, HibernateSteps
    <3>. QED BY <1>u, <1>0, <2>1, <2>4, <3>1, <3>2, <3>3, <3>4, StepOf, ZenonT(60) DEF TypeOK
  <2>. QED BY <1>2, <2>3, <2>4 DEF ScanItem, Goto
<1>. QED BY <1>1, <1>2

\* After a restart memory is empty, and nothing is said about an empty memory.
LEMMA RestartKeeps ==
    ASSUME IInv, Restart
    PROVE  IInv'
<1>. USE DEF IInv, Restart
<1>1. ProviderTypeOK' /\ OwnersKnown'
  <2>1. CASE Live
    BY <2>1 DEF TypeOK, ProviderTypeOK, OwnersKnown, Exists, providerVars
  <2>2. CASE ~Live
    BY <2>2, ClientAssumption DEF ProviderTypeOK, ProviderStates, OwnersKnown, Exists
  <2>. QED BY <2>1, <2>2
<1>2. TypeOK' /\ CachesOwned'
  <2>1. "idle" \in Steps /\ "none" \in ReadStates
    BY DEF Steps, ReadStates
  <2>. QED BY <1>1, <2>1 DEF TypeOK, CachesOwned
<1>3. HeldOwned' /\ ReturnsMatch'
  BY DEF HeldOwned, HeldBy, ReturnsMatch, ReturnsOf, GetOrResumeSteps, HibernateSteps, DestroySteps
<1>4. FlightsLed' /\ WaitersHaveLeader'
  BY PoolAssumption DEF FlightsLed, WaitersHaveLeader, Leads, GetOrResumeSteps, HibernateSteps
<1>. QED BY <1>1, <1>2, <1>3, <1>4

\* The steps of the provider, the clock and SandboxPool.Touch.
LEMMA EnvironmentKeeps ==
    ASSUME IInv, UNCHANGED todo,
           \E s \in Sandboxes : \/ ProviderCompletes(s) \/ ProviderAutoStops(s)
                                \/ Age(s) \/ PoolTouch(s)
    PROVE  IInv'
<1>. USE DEF IInv
<1>1. PICK s \in Sandboxes :
          \/ ProviderCompletes(s) \/ ProviderAutoStops(s) \/ Age(s) \/ PoolTouch(s)
  OBVIOUS
<1>2. UNCHANGED <<owner, store, pc, user, box, seen, target, onOk, onErr, byUser, pinned,
                  inflight, waitOn>>
  BY <1>1 DEF ProviderCompletes, ProviderAutoStops, CompleteStart, CompleteStop, AutoStop, Age,
         PoolTouch, providerVars, storeVars, threadVars, poolVars, flightVars
<1>3. ProviderTypeOK' /\ OwnersKnown'
  <2>1. CASE UNCHANGED state
    BY <1>2, <2>1 DEF TypeOK, ProviderTypeOK, OwnersKnown, Exists
  <2>2. ASSUME NEW x \in ProviderStates \ {"absent"}, Exists(s), state' = [state EXCEPT ![s] = x]
        PROVE  ProviderTypeOK' /\ OwnersKnown'
    BY <1>2, <2>2, StateSet DEF ProviderKept
  <2>3. {"running", "hibernated", "stopping"} \subseteq ProviderStates \ {"absent"}
    BY DEF ProviderStates
  <2>. QED BY <1>1, <2>1, <2>2, <2>3
       DEF ProviderCompletes, ProviderAutoStops, CompleteStart, CompleteStop, AutoStop, Age,
           PoolTouch, providerVars, Exists
<1>4. active' \in Seq(Users) /\ lastActive' \in [Sandboxes -> {"none", "fresh", "idle"}]
  <2>1. CASE PoolTouch(s)
    <3>1. active' \in Seq(Users)
      <4>1. \/ UNCHANGED active
            \/ \E u \in Users : active' = Append(Without(u), u)
        BY <2>1 DEF PoolTouch
      <4>2. ASSUME NEW u \in Users PROVE Append(Without(u), u) \in Seq(Users)
        <5>1. Without(u) \in Seq(Users)
          BY WithoutType DEF TypeOK
        <5>. QED BY <5>1, AppendProperties
      <4>. QED BY <4>1, <4>2 DEF TypeOK
    <3>2. lastActive' \in [Sandboxes -> {"none", "fresh", "idle"}]
      BY <2>1 DEF PoolTouch, TypeOK
    <3>. QED BY <3>1, <3>2
  <2>2. CASE Age(s)
    BY <2>2 DEF Age, TypeOK
  <2>3. CASE ProviderCompletes(s) \/ ProviderAutoStops(s)
    BY <2>3 DEF ProviderCompletes, ProviderAutoStops, poolVars, TypeOK
  <2>. QED BY <1>1, <2>1, <2>2, <2>3
<1>5. TypeOK'
  BY <1>2, <1>3, <1>4 DEF TypeOK
<1>6. CachesOwned' /\ HeldOwned' /\ ReturnsMatch'
  BY <1>2 DEF CachesOwned, HeldOwned, HeldBy, ReturnsMatch, ReturnsOf
<1>7. \A x \in Threads : Leads(x)' <=> Leads(x)
  BY <1>2 DEF Leads
<1>8. FlightsLed' /\ WaitersHaveLeader'
  BY <1>2, <1>7 DEF FlightsLed, WaitersHaveLeader
<1>. QED BY <1>3, <1>5, <1>6, <1>8

\* Steps that change nothing.
LEMMA StutterKeeps == IInv /\ UNCHANGED vars => IInv'
<1>. SUFFICES ASSUME IInv, UNCHANGED vars PROVE IInv'
  OBVIOUS
<1>. USE DEF IInv, vars
<1>1. TypeOK' /\ OwnersKnown' /\ CachesOwned'
  BY DEF TypeOK, ProviderTypeOK, OwnersKnown, Exists, CachesOwned
<1>2. HeldOwned' /\ ReturnsMatch'
  BY DEF HeldOwned, HeldBy, ReturnsMatch, ReturnsOf
<1>3. \A x \in Threads : Leads(x)' <=> Leads(x)
  BY DEF Leads
<1>4. FlightsLed' /\ WaitersHaveLeader'
  BY <1>3 DEF FlightsLed, WaitersHaveLeader
<1>. QED BY <1>1, <1>2, <1>4

\* Preservation of IInv by single_flight.go, pool.go and sandbox.go.
LEMMA PoolStepKeeps ==
    ASSUME IInv, NEW t \in Threads, PoolStep(t), UNCHANGED todo
    PROVE  IInv'
BY EnterKeeps, TouchInternalKeeps, MaybeEvictKeeps, UnflyKeeps, WakeKeeps, ForgetKeeps,
   OrchestratorStepKeeps DEF PoolStep

\* IInv is inductive.
LEMMA NextKeeps == IInv /\ [Next]_vars => IInv'
<1>. SUFFICES ASSUME IInv, [Next]_vars PROVE IInv'
  OBVIOUS
<1>1. ASSUME NEW t \in Handlers, HandlerRequest(t) \/ HandlerStep(t)
      PROVE  IInv'
  <2>1. t \in Threads
    BY ServiceAssumption
  <2>. QED BY <1>1, <2>1, RequestKeeps, RetireKeeps, PoolStepKeeps DEF HandlerRequest, HandlerStep
<1>2. ASSUME NEW t \in Scanners, ScannerStep(t)
      PROVE  IInv'
  <2>1. t \in Threads
    BY ServiceAssumption
  <2>. QED BY <1>2, <2>1, ScanKeeps, RetireKeeps, PoolStepKeeps DEF ScannerStep
<1>3. ASSUME NEW s \in Sandboxes,
             \/ ProviderCompletes(s)
             \/ ProviderAutoStops(s)
             \/ Age(s) /\ UNCHANGED todo
             \/ PoolTouch(s) /\ UNCHANGED todo
      PROVE  IInv'
  <2>1. UNCHANGED todo
    BY <1>3 DEF ProviderCompletes, ProviderAutoStops
  <2>. QED BY <1>3, <2>1, EnvironmentKeeps
<1>. QED BY <1>1, <1>2, <1>3, RestartKeeps, StutterKeeps DEF Next, Running

\* IInv holds when the service starts beside an empty provider.
LEMMA InitIInv == Init => IInv
<1>. SUFFICES ASSUME Init PROVE IInv
  OBVIOUS
<1>. USE DEF Init, ProviderInit, OrchestratorInit, PoolInit
<1>1. TypeOK
  BY DEF TypeOK, ProviderTypeOK, ProviderStates, Steps, ReadStates
<1>2. OwnersKnown /\ CachesOwned
  BY ClientAssumption DEF OwnersKnown, Exists, CachesOwned
<1>3. HeldOwned /\ ReturnsMatch
  BY DEF HeldOwned, HeldBy, ReturnsMatch, ReturnsOf, GetOrResumeSteps, HibernateSteps, DestroySteps
<1>4. FlightsLed /\ WaitersHaveLeader
  BY PoolAssumption DEF FlightsLed, WaitersHaveLeader, Leads, GetOrResumeSteps, HibernateSteps
<1>. QED BY <1>1, <1>2, <1>3, <1>4 DEF IInv

-----------------------------------------------------------------------------
\* The inductive invariant holds in every reachable state.
THEOREM Invariance == Spec => []IInv
BY InitIInv, NextKeeps, PTL DEF Spec

\* Every variable keeps its type, whatever the interleaving, the faults of the
\* provider and the restarts.
THEOREM TypeCorrect == Spec => []TypeOK
<1>1. IInv => TypeOK
  BY DEF IInv
<1>. QED BY <1>1, Invariance, PTL

\* No request is ever answered with another user's sandbox, and neither the store
\* nor the active set ever holds one (GetOrResume, Upsert, touchInternal).
THEOREM TenantIsolation == Spec => []OwnSandbox
<1>1. IInv => OwnSandbox
  BY DEF IInv, OwnSandbox, CachesOwned, HeldOwned, HeldBy
<1>. QED BY <1>1, Invariance, PTL

\* "Only one resume operation runs; others wait": at most one thread per user is
\* inside the function that SingleFlight.Do protects.
THEOREM SingleFlightExclusion == Spec => []OneFlightPerUser
<1>1. IInv => OneFlightPerUser
  <2>. SUFFICES ASSUME IInv, NEW t1 \in Threads, NEW t2 \in Threads,
                       Leads(t1), Leads(t2), user[t1] = user[t2]
                PROVE  t1 = t2
    BY DEF OneFlightPerUser
  <2>1. user[t1] \in Users
    BY DEF IInv, HeldOwned, HeldBy, Leads
  <2>. QED BY <2>1 DEF IInv, FlightsLed
<1>. QED BY <1>1, Invariance, PTL

\* A request blocked in SingleFlight.Do always has a live leader of its own user
\* that will wake it.
THEOREM NoLostWakeup == Spec => []WaitersHaveLeader
<1>1. IInv => WaitersHaveLeader
  BY DEF IInv
<1>. QED BY <1>1, Invariance, PTL

-----------------------------------------------------------------------------
(***************************************************************************)
(* AnsweredRunning, for the in-memory client.                              *)
(***************************************************************************)
\* The fake starts and stops at once: no sandbox is between two states.
AtRest == \A s \in Sandboxes : state[s] \notin {"provisioning", "stopping"}

\* Outside GetOrResume a thread holds only what it has seen running.
SeenRunning ==
    \A t \in Threads :
        /\ pc[t] # "started"
        /\ pc[t] = "adopt" => seen[t] \in {"running", "hibernated", "destroyed"}
        /\ pc[t] \notin GetOrResumeSteps \ {"record"} /\ box[t] # NoSandbox
              => seen[t] = "running"

AnswerInv == AtRest /\ SeenRunning

\* The fake client's calls go from one resting state to another.
LEMMA FakeRests ==
    ASSUME IInv, AnswerInv, ~Live, Next
    PROVE  AtRest'
<1>1. \/ UNCHANGED state
      \/ \E s, x : /\ x \in {"running", "hibernated", "destroyed"}
                   /\ state' = [state EXCEPT ![s] = x]
      \/ state' = [s \in Sandboxes |-> "absent"]
  <2>. USE DEF providerVars
  <2>1. ASSUME NEW t, PoolStep(t)
        PROVE  \/ UNCHANGED state
               \/ \E s, x : /\ x \in {"running", "hibernated", "destroyed"}
                            /\ state' = [state EXCEPT ![s] = x]
    <3>1. CASE Create(t)
      BY <3>1 DEF Create, CreateSandbox, Created
    <3>2. CASE Start(t)
      BY <3>2 DEF Start, StartSandbox, FakeStartSandbox, Transition
    <3>3. CASE HibernateStop(t)
      BY <3>3 DEF HibernateStop, StopSandbox, FakeStopSandbox, Transition
    <3>4. CASE DestroyDelete(t)
      BY <3>4 DEF DestroyDelete, DeleteSandbox, FakeDeleteSandbox, Transition
    <3>5. CASE \/ Lookup(t) \/ Fetch(t) \/ Find(t) \/ Adopt(t) \/ Record(t) \/ Started(t)
               \/ HibernateGet(t) \/ Stopped(t) \/ DestroyUnstore(t)
      BY <3>5 DEF Lookup, Fetch, Find, Adopt, Record, Started, HibernateGet, Stopped,
         DestroyUnstore, GetSandbox, FindByLabel
    <3>6. CASE \/ Enter(t) \/ TouchInternal(t) \/ MaybeEvict(t) \/ Unfly(t) \/ Wake(t) \/ Forget(t)
      BY <3>6 DEF Enter, TouchInternal, MaybeEvict, Unfly, Wake, Forget
    <3>. QED BY <2>1, <3>1, <3>2, <3>3, <3>4, <3>5, <3>6 DEF PoolStep, OrchestratorStep
  <2>2. CASE \E t \in Handlers : HandlerRequest(t) \/ HandlerStep(t)
    BY <2>1, <2>2 DEF HandlerRequest, HandlerStep, PostSandbox, PostResume, PostHibernate,
       DeleteSandboxRequest, Reply, GetSandbox
  <2>3. CASE \E t \in Scanners : ScannerStep(t)
    BY <2>1, <2>3 DEF ScannerStep, ScanStart, ScanItem, ScanEnd
  <2>4. CASE \E s \in Sandboxes : \/ ProviderCompletes(s) \/ ProviderAutoStops(s)
                                  \/ Age(s) \/ PoolTouch(s)
    BY <2>4 DEF ProviderCompletes, ProviderAutoStops, CompleteStart, CompleteStop, AutoStop,
       Age, PoolTouch
  <2>5. CASE Restart
    BY <2>5 DEF Restart
  <2>. QED BY <2>2, <2>3, <2>4, <2>5 DEF Next, Running
<1>. QED BY <1>1 DEF AnswerInv, AtRest, IInv, TypeOK, ProviderTypeOK

\* What one thread holds after its step; the others hold what they held.
HoldsSeen(t) ==
    /\ \A q \in Threads \ {t} :
          pc'[q] = pc[q] /\ box'[q] = box[q] /\ seen'[q] = seen[q]
    /\ pc'[t] # "started"
    /\ pc'[t] = "adopt" => seen'[t] \in {"running", "hibernated", "destroyed"}
    /\ pc'[t] \notin GetOrResumeSteps \ {"record"} /\ box'[t] # NoSandbox
          => seen'[t] = "running"

\* GetOrResume returns what it has seen running, or nothing.
LEMMA GetOrResumeSees ==
    ASSUME IInv, AnswerInv, ~Live, NEW t \in Threads,
           \/ Lookup(t) \/ Fetch(t) \/ Find(t) \/ Adopt(t)
           \/ Create(t) \/ Record(t) \/ Start(t) \/ Started(t)
    PROVE  HoldsSeen(t)
<1>. USE DEF IInv
<1>1. Shape(t)
  BY GetOrResumeShape
<1>2. \A q \in Threads \ {t} : pc'[q] = pc[q] /\ box'[q] = box[q] /\ seen'[q] = seen[q]
  <2>1. pc' = [pc EXCEPT ![t] = pc'[t]]
    BY <1>1, MoveTypes
  <2>2. box' = [box EXCEPT ![t] = box'[t]] /\ seen' = [seen EXCEPT ![t] = seen'[t]]
    BY <1>1 DEF Shape, Holds, TypeOK
  <2>. QED BY <2>1, <2>2 DEF TypeOK
<1>3. ReturnsOf(t) /\ pc[t] \in GetOrResumeSteps
  BY DEF ReturnsMatch, Lookup, Fetch, Find, Adopt, Create, Record, Start, Started, GetOrResumeSteps
<1>4. \A s \in Sandboxes : Observed(s) \in {"absent", "running", "hibernated", "destroyed"}
  BY DEF AnswerInv, AtRest, SeenRunning, TypeOK, ProviderTypeOK, ProviderStates, Observed
<1>5. onOk[t] \in {"touch", "got"} /\ onErr[t] \in {"unfly", "got"}
  BY <1>3 DEF ReturnsOf
<1>. USE DEF GetOrResumeSteps
<1>6. CASE Lookup(t)
  BY <1>2, <1>6 DEF HoldsSeen, Lookup, Hold, Goto, TypeOK
<1>7. CASE Fetch(t)
  <2>1. \/ /\ pc'[t] = Dispatch(t, Observed(box[t]))
           /\ box'[t] = box[t] /\ seen'[t] = Observed(box[t])
           /\ box[t] \in Sandboxes /\ Exists(box[t])
        \/ pc'[t] = "find" /\ seen'[t] = "none"
    BY <1>7 DEF Fetch, Hold, Goto, TypeOK, GetSandbox
  <2>2. box[t] \in Sandboxes /\ Exists(box[t]) => Observed(box[t]) \in {"running", "hibernated", "destroyed"}
    BY <1>4 DEF Observed, Exists
  <2>. QED BY <1>2, <1>5, <2>1, <2>2 DEF HoldsSeen, Dispatch
<1>8. CASE Find(t)
  <2>1. PICK s \in Sandboxes \cup {NoSandbox} :
           /\ FindByLabel(user[t], s)
           /\ pc'[t] = IF s = NoSandbox THEN "create" ELSE "adopt"
           /\ seen'[t] = IF s = NoSandbox THEN "none" ELSE Observed(s)
    BY <1>8 DEF Find, Hold, Goto, TypeOK
  <2>2. s \in Sandboxes => Exists(s)
    BY <2>1, ClientAssumption, <1>3
       DEF FindByLabel, Labelled, FakeLabelled, OwnersKnown, HeldOwned, HeldBy
  <2>3. s \in Sandboxes => Observed(s) \in {"running", "hibernated", "destroyed"}
    BY <1>4, <2>2 DEF Observed, Exists
  <2>. QED BY <1>2, <2>1, <2>3 DEF HoldsSeen
<1>9. CASE Adopt(t)
  <2>1. /\ pc[t] = "adopt" /\ pc'[t] = Dispatch(t, seen[t])
        /\ box'[t] = box[t] /\ seen'[t] = seen[t]
    BY <1>9 DEF Adopt, Goto, TypeOK, resVars
  <2>2. seen[t] \in {"running", "hibernated", "destroyed"}
    BY <2>1 DEF AnswerInv, AtRest, SeenRunning
  <2>. QED BY <1>2, <1>5, <2>1, <2>2 DEF HoldsSeen, Dispatch
<1>10. CASE Create(t)
  <2>1. \/ pc'[t] = "record" /\ seen'[t] = "running"
        \/ pc'[t] = onErr[t] /\ box'[t] = NoSandbox /\ seen'[t] = "none"
    BY <1>10 DEF Create, Created, Hold, Goto, TypeOK
  <2>. QED BY <1>2, <1>5, <2>1 DEF HoldsSeen
<1>11. CASE Record(t)
  <2>1. /\ pc[t] = "record" /\ pc'[t] = onOk[t] /\ box'[t] = box[t] /\ seen'[t] = seen[t]
    BY <1>11 DEF Record, Goto, TypeOK, resVars
  <2>. QED BY <1>2, <1>5, <2>1 DEF HoldsSeen, AnswerInv, SeenRunning
<1>12. CASE Start(t)
  <2>1. \/ pc'[t] = onOk[t] /\ seen'[t] = "running"
        \/ pc'[t] = onErr[t] /\ box'[t] = NoSandbox /\ seen'[t] = "none"
    BY <1>12 DEF Start, Hold, Goto, TypeOK
  <2>. QED BY <1>2, <1>5, <2>1 DEF HoldsSeen
<1>13. CASE Started(t)
  BY <1>13 DEF Started, AnswerInv, SeenRunning
<1>. QED BY <1>6, <1>7, <1>8, <1>9, <1>10, <1>11, <1>12, <1>13

\* Every step of a thread keeps what the threads have seen.
LEMMA AnswerStep ==
    ASSUME IInv, AnswerInv, ~Live, NEW t \in Threads,
           \/ PoolStep(t)
           \/ HandlerRequest(t) \/ Reply(t)
           \/ ScanStart(t) \/ ScanItem(t) \/ ScanEnd(t)
    PROVE  SeenRunning'
<1>. USE DEF IInv
<1>. SUFFICES ASSUME NEW q \in Threads
              PROVE  /\ pc'[q] # "started"
                     /\ pc'[q] = "adopt" => seen'[q] \in {"running", "hibernated", "destroyed"}
                     /\ pc'[q] \notin GetOrResumeSteps \ {"record"} /\ box'[q] # NoSandbox
                           => seen'[q] = "running"
  BY DEF AnswerInv, AtRest, SeenRunning
<1>1. /\ pc[q] # "started"
      /\ pc[q] = "adopt" => seen[q] \in {"running", "hibernated", "destroyed"}
      /\ pc[q] \notin GetOrResumeSteps \ {"record"} /\ box[q] # NoSandbox
            => seen[q] = "running"
  BY DEF AnswerInv, AtRest, SeenRunning
<1>2. CASE \/ Lookup(t) \/ Fetch(t) \/ Find(t) \/ Adopt(t)
           \/ Create(t) \/ Record(t) \/ Start(t) \/ Started(t)
  BY <1>1, <1>2, GetOrResumeSees DEF HoldsSeen
<1>3. CASE \/ HibernateGet(t) \/ HibernateStop(t) \/ Stopped(t)
           \/ DestroyDelete(t) \/ DestroyUnstore(t)
  <2>1. UNCHANGED <<box, seen>>
    BY <1>3 DEF HibernateGet, HibernateStop, Stopped, DestroyDelete, DestroyUnstore, resVars
  <2>2. Shape(t)
    BY <1>3, HibernateDestroyShape
  <2>3. pc' = [pc EXCEPT ![t] = pc'[t]]
    BY <2>2, MoveTypes
  <2>4. pc[t] \notin GetOrResumeSteps /\ pc'[t] \notin GetOrResumeSteps
    BY <1>3, <2>3 DEF HibernateGet, HibernateStop, Stopped, DestroyDelete, DestroyUnstore, Goto,
       ReturnsMatch, ReturnsOf, HibernateSteps, DestroySteps, GetOrResumeSteps, TypeOK
  <2>. QED BY <1>1, <2>1, <2>3, <2>4 DEF GetOrResumeSteps, TypeOK
<1>4. CASE Wake(t)
  <2>1. pc[t] = "wake"
    BY <1>4 DEF Wake
  <2>2. box[t] # NoSandbox => seen[t] = "running"
    BY <2>1 DEF AnswerInv, AtRest, SeenRunning, GetOrResumeSteps
  <2>3. CASE pc[q] = "wait" /\ waitOn[q] = t
    <3>1. pc'[q] = "got" /\ box'[q] = box[t] /\ seen'[q] = seen[t]
      BY <1>4, <2>3 DEF Wake
    <3>. QED BY <2>2, <3>1
  <2>4. CASE ~(pc[q] = "wait" /\ waitOn[q] = t)
    <3>1. pc'[q] \in {pc[q], "got"} /\ box'[q] = box[q] /\ seen'[q] = seen[q] /\ (q = t \/ pc'[q] = pc[q])
      BY <1>4, <2>4 DEF Wake
    <3>. QED BY <1>1, <2>2, <3>1
  <2>. QED BY <2>3, <2>4
<1>5. CASE \/ Enter(t) \/ TouchInternal(t) \/ MaybeEvict(t) \/ Unfly(t) \/ Forget(t)
           \/ HandlerRequest(t) \/ ScanStart(t) \/ ScanItem(t)
  <2>1. UNCHANGED <<box, seen>>
    BY <1>5 DEF Enter, TouchInternal, MaybeEvict, Unfly, Forget, HandlerRequest, PostSandbox,
       PostResume, PostHibernate, DeleteSandboxRequest, ScanStart, ScanItem, resVars
  <2>2. /\ pc[t] \in {"enter", "touch", "evict", "unfly", "forget", "idle", "scan"}
        /\ \/ UNCHANGED pc
           \/ \E l \in {"lookup", "wait", "evict", "hib_get", "unfly", "wake", "scan", "enter", "del"} :
                 pc' = [pc EXCEPT ![t] = l]
    BY <1>5 DEF Enter, TouchInternal, MaybeEvict, Unfly, Forget, HandlerRequest, PostSandbox,
       PostResume, PostHibernate, DeleteSandboxRequest, ScanStart, ScanItem, Goto,
       ReturnsMatch, ReturnsOf
  <2>. QED BY <1>1, <2>1, <2>2 DEF GetOrResumeSteps, TypeOK
<1>6. CASE Reply(t) \/ ScanEnd(t)
  <2>1. /\ pc' = [pc EXCEPT ![t] = "idle"] /\ box' = [box EXCEPT ![t] = NoSandbox]
        /\ seen' = [seen EXCEPT ![t] = "none"]
    BY <1>6 DEF Reply, ScanEnd, Retire
  <2>. QED BY <1>1, <2>1 DEF TypeOK
<1>. QED BY <1>2, <1>3, <1>4, <1>5, <1>6 DEF PoolStep, OrchestratorStep

\* AnswerInv is inductive with IInv.
LEMMA AnswerKeeps ==
    ASSUME ~Live
    PROVE  IInv /\ AnswerInv /\ [Next]_vars => AnswerInv'
<1>. SUFFICES ASSUME IInv, AnswerInv, [Next]_vars PROVE AnswerInv'
  OBVIOUS
<1>1. CASE UNCHANGED vars
  BY <1>1 DEF vars, AnswerInv, AtRest, SeenRunning
<1>2. CASE Next
  <2>1. AtRest'
    BY <1>2, FakeRests
  <2>2. CASE \E t \in Threads : \/ PoolStep(t)
                                \/ HandlerRequest(t) \/ Reply(t)
                                \/ ScanStart(t) \/ ScanItem(t) \/ ScanEnd(t)
    BY <2>1, <2>2, AnswerStep DEF AnswerInv
  <2>3. CASE \E s \in Sandboxes : \/ ProviderCompletes(s) \/ ProviderAutoStops(s)
                                  \/ Age(s) \/ PoolTouch(s)
    <3>1. UNCHANGED <<pc, box, seen>>
      BY <2>3 DEF ProviderCompletes, ProviderAutoStops, Age, PoolTouch, threadVars
    <3>. QED BY <2>1, <3>1 DEF AnswerInv, AtRest, SeenRunning
  <2>4. CASE Restart
    BY <2>1, <2>4 DEF AnswerInv, AtRest, SeenRunning, Restart
  <2>5. Handlers \cup Scanners \subseteq Threads
    BY ServiceAssumption
  <2>. QED BY <1>2, <2>2, <2>3, <2>4, <2>5 DEF Next, Running, HandlerStep, ScannerStep
<1>. QED BY <1>1, <1>2

\* AnswerInv holds while nobody holds anything.
LEMMA AnswerInitial == Init => AnswerInv
BY DEF Init, ProviderInit, OrchestratorInit, AnswerInv, AtRest, SeenRunning

\* "Returns a running sandbox for userID": with the in-memory client, whatever the
\* faults and whichever endpoints are used, the sandbox a request is answered with
\* was running when the client was last asked.
THEOREM AnswerSeenRunning ==
    ASSUME ~Live
    PROVE  Spec => []AnsweredRunning
<1>1. IInv /\ AnswerInv => AnsweredRunning
  BY ServiceAssumption DEF AnswerInv, AtRest, SeenRunning, AnsweredRunning, GetOrResumeSteps
<1>2. Init => AnswerInv
  BY AnswerInitial
<1>3. IInv /\ AnswerInv /\ [Next]_vars => AnswerInv'
  BY AnswerKeeps
<1>. QED BY <1>1, <1>2, <1>3, Invariance, PTL DEF Spec

-----------------------------------------------------------------------------
(***************************************************************************)
(* ActiveSetBounded.                                                       *)
(***************************************************************************)
\* A user is listed, and no user twice.
Listed(s, u) == \E i \in DOMAIN s : s[i] = u
NoRepeat(s)  == \A i, j \in DOMAIN s : s[i] = s[j] => i = j

\* container/list Remove takes out one element and keeps the others in order.
LEMMA RemoveAtElements ==
    ASSUME NEW S, NEW s \in Seq(S), NEW k \in 1..Len(s)
    PROVE  /\ RemoveAt(s, k) \in Seq(S)
           /\ Len(RemoveAt(s, k)) = Len(s) - 1
           /\ \A j \in 1..(Len(s) - 1) : RemoveAt(s, k)[j] = IF j < k THEN s[j] ELSE s[j + 1]
<1>0. Len(s) \in Nat /\ k \in Nat /\ 1 <= k /\ k <= Len(s)
  OBVIOUS
<1>. DEFINE f == SubSeq(s, 1, k - 1)
            g == SubSeq(s, k + 1, Len(s))
<1>1. f \in Seq(S) /\ Len(f) = k - 1 /\ \A j \in 1..(k - 1) : f[j] = s[j]
  BY SubSeqProperties
<1>2. g \in Seq(S) /\ Len(g) = Len(s) - k /\ \A j \in 1..(Len(s) - k) : g[j] = s[k + j]
  BY SubSeqProperties
<1>3. RemoveAt(s, k) = f \o g
  BY DEF RemoveAt
<1>. HIDE DEF f, g
<1>4. /\ f \o g \in Seq(S)
      /\ Len(f \o g) = Len(f) + Len(g)
      /\ \A j \in 1..(Len(f) + Len(g)) :
            (f \o g)[j] = IF j <= Len(f) THEN f[j] ELSE g[j - Len(f)]
  BY <1>1, <1>2, ConcatProperties
<1>5. ASSUME NEW j \in 1..(Len(s) - 1)
      PROVE  (f \o g)[j] = IF j < k THEN s[j] ELSE s[j + 1]
  <2>0. j \in Nat /\ j \in 1..(Len(f) + Len(g))
    BY <1>0, <1>1, <1>2
  <2>1. CASE j < k
    <3>1. j <= Len(f) /\ j \in 1..(k - 1)
      BY <1>0, <1>1, <2>0, <2>1
    <3>. QED BY <1>1, <1>4, <2>0, <2>1, <3>1
  <2>2. CASE ~(j < k)
    <3>. DEFINE m == j - (k - 1)
    <3>1. m \in 1..(Len(s) - k) /\ k + m = j + 1 /\ ~(j <= Len(f)) /\ j - Len(f) = m
      BY <1>0, <1>1, <2>0, <2>2
    <3>2. (f \o g)[j] = g[j - Len(f)]
      BY <1>4, <2>0, <3>1
    <3>. HIDE DEF m
    <3>3. g[m] = s[k + m]
      BY <1>2, <3>1
    <3>. QED BY <2>2, <3>1, <3>2, <3>3
  <2>. QED BY <2>1, <2>2
<1>6. Len(f \o g) = Len(s) - 1
  BY <1>0, <1>1, <1>2, <1>4
<1>. QED BY <1>3, <1>4, <1>5, <1>6

\* p.active.Remove of a user's element.
LEMMA WithoutElements ==
    ASSUME active \in Seq(Users), NoRepeat(active), NEW u \in Users
    PROVE  /\ Without(u) \in Seq(Users)
           /\ NoRepeat(Without(u))
           /\ \A v \in Users : Listed(Without(u), v) <=> v # u /\ Listed(active, v)
           /\ Len(Without(u)) = IF Listed(active, u) THEN Len(active) - 1 ELSE Len(active)
<1>1. CASE Listed(active, u)
  <2>. DEFINE k == CHOOSE i \in DOMAIN active : active[i] = u
              w == RemoveAt(active, k)
  <2>1. k \in 1..Len(active) /\ active[k] = u
    BY <1>1 DEF Listed
  <2>2. Without(u) = w
    BY <1>1 DEF Without, Listed
  <2>. HIDE DEF k
  <2>3. /\ w \in Seq(Users) /\ Len(w) = Len(active) - 1
        /\ \A j \in 1..(Len(active) - 1) : w[j] = IF j < k THEN active[j] ELSE active[j + 1]
    BY <2>1, RemoveAtElements
  <2>. HIDE DEF w
  <2>4. DOMAIN active = 1..Len(active) /\ DOMAIN w = 1..(Len(active) - 1) /\ Len(active) \in Nat
    BY <2>3
  <2>5. \A i, j \in 1..Len(active) : active[i] = active[j] => i = j
    BY <2>4 DEF NoRepeat
  <2>6. NoRepeat(w)
    <3>. SUFFICES ASSUME NEW i \in 1..(Len(active) - 1), NEW j \in 1..(Len(active) - 1), w[i] = w[j]
                  PROVE  i = j
      BY <2>4 DEF NoRepeat
    <3>1. /\ i \in 1..Len(active) /\ i + 1 \in 1..Len(active)
          /\ j \in 1..Len(active) /\ j + 1 \in 1..Len(active)
      BY <2>4
    <3>. QED BY <2>1, <2>3, <2>5, <3>1
  <2>7. ASSUME NEW v \in Users PROVE Listed(w, v) <=> v # u /\ Listed(active, v)
    <3>1. ASSUME NEW i \in 1..(Len(active) - 1), w[i] = v
          PROVE  v # u /\ Listed(active, v)
      <4>1. i \in 1..Len(active) /\ i + 1 \in 1..Len(active)
        BY <2>4
      <4>2. PICK j \in 1..Len(active) : active[j] = v /\ j # k
        BY <2>1, <2>3, <3>1, <4>1
      <4>. QED BY <2>1, <2>4, <2>5, <4>2 DEF Listed
    <3>2. ASSUME NEW i \in 1..Len(active), active[i] = v, v # u
          PROVE  Listed(w, v)
      <4>1. CASE i < k
        <5>1. i \in 1..(Len(active) - 1) /\ w[i] = v
          BY <2>1, <2>3, <2>4, <3>2, <4>1
        <5>. QED BY <2>4, <5>1 DEF Listed
      <4>2. CASE i > k
        <5>1. i - 1 \in 1..(Len(active) - 1) /\ ~(i - 1 < k) /\ (i - 1) + 1 = i
          BY <2>1, <2>4, <4>2
        <5>2. w[i - 1] = v
          BY <2>3, <3>2, <5>1
        <5>. QED BY <2>4, <5>1, <5>2 DEF Listed
      <4>. QED BY <2>1, <3>2, <4>1, <4>2
    <3>. QED BY <2>4, <3>1, <3>2 DEF Listed
  <2>. QED BY <1>1, <2>2, <2>3, <2>6, <2>7
<1>2. CASE ~Listed(active, u)
  <2>1. Without(u) = active
    BY <1>2 DEF Without, Listed
  <2>. QED BY <1>2, <2>1
<1>. QED BY <1>1, <1>2

\* p.active.PushBack: the user becomes the most recently used.
LEMMA ToEndElements ==
    ASSUME active \in Seq(Users), NoRepeat(active), NEW u \in Users
    PROVE  LET a == Append(Without(u), u) IN
           /\ NoRepeat(a)
           /\ \A v \in Users : Listed(a, v) <=> v = u \/ Listed(active, v)
           /\ Len(a) = IF Listed(active, u) THEN Len(active) ELSE Len(active) + 1
<1>. DEFINE w == Without(u)
            a == Append(w, u)
<1>1. /\ w \in Seq(Users)
      /\ NoRepeat(w)
      /\ \A v \in Users : Listed(w, v) <=> v # u /\ Listed(active, v)
      /\ Len(w) = IF Listed(active, u) THEN Len(active) - 1 ELSE Len(active)
  BY WithoutElements
<1>. HIDE DEF w
<1>2. /\ Len(a) = Len(w) + 1 /\ Len(w) \in Nat
      /\ DOMAIN a = 1..(Len(w) + 1) /\ DOMAIN w = 1..Len(w)
      /\ \A i \in 1..Len(w) : a[i] = w[i]
      /\ a[Len(w) + 1] = u
  BY <1>1
<1>. HIDE DEF a
<1>3. NoRepeat(a)
  <2>1. \A i \in 1..Len(w) : w[i] # u
    BY <1>1, <1>2 DEF Listed
  <2>. QED BY <1>1, <1>2, <2>1 DEF NoRepeat
<1>4. \A v \in Users : Listed(a, v) <=> v = u \/ Listed(w, v)
  BY <1>2 DEF Listed
<1>5. Len(a) = IF Listed(active, u) THEN Len(active) ELSE Len(active) + 1
  BY <1>1, <1>2
<1>6. NoRepeat(a) /\ \A v \in Users : Listed(a, v) <=> v = u \/ Listed(active, v)
  BY <1>1, <1>3, <1>4
<1>. QED BY <1>5, <1>6 DEF a, w

-----------------------------------------------------------------------------
HasBox == {"adopt", "record", "start", "started", "touch"}

\* What GetOrResume goes on with is a sandbox.
BoxKnown == \A t \in Threads : pc[t] \in HasBox => box[t] \in Sandboxes

Evicting == {t \in Threads : pc[t] = "evict"}

PoolInv ==
    /\ ActiveSetBounded
    /\ pinned = {}
    /\ BoxKnown

\* Two users never have the same sandbox in the active set.
LEMMA SandboxOnce ==
    ASSUME IInv, NEW u \in Users, NEW v \in Users, byUser[u] = byUser[v], byUser[u] # NoSandbox
    PROVE  u = v
BY DEF IInv, CachesOwned

\* Threads that enter or leave maybeEvict are counted.
LEMMA EvictingCount ==
    /\ IsFiniteSet(Evicting) /\ Cardinality(Evicting) \in Nat
    /\ IsFiniteSet(Evicting)' /\ Cardinality(Evicting)' \in Nat
<1>1. Evicting \subseteq Threads /\ Evicting' \subseteq Threads
  BY DEF Evicting
<1>2. IsFiniteSet(Evicting) /\ IsFiniteSet(Evicting')
  BY <1>1, ServiceAssumption, FS_Subset
<1>. QED BY <1>2, FS_CardinalityType

\* A step that leaves the active set alone.
LEMMA PoolFrame ==
    ASSUME IInv, PoolInv, UNCHANGED <<lruVars, pinned>>, Evicting' = Evicting,
           \A q \in Threads : \/ pc'[q] = pc[q] /\ box'[q] = box[q]
                              \/ pc'[q] \notin HasBox
                              \/ box'[q] \in Sandboxes
    PROVE  PoolInv'
<1>1. BoxKnown'
  BY DEF PoolInv, BoxKnown
<1>2. UNCHANGED <<active, byUser, lastActive, pinned>>
  BY DEF lruVars
<1>3. ActiveSetSound'
  BY <1>2 DEF PoolInv, ActiveSetBounded, ActiveSetSound
<1>4. CapacityBound'
  BY <1>2 DEF PoolInv, ActiveSetBounded, CapacityBound, Evicting
<1>. QED BY <1>1, <1>2, <1>3, <1>4 DEF PoolInv, ActiveSetBounded

\* GetOrResume reaches its caller with a sandbox or with an error.
LEMMA OrchestratorPool ==
    ASSUME IInv, PoolInv, NEW t \in Threads, OrchestratorStep(t), UNCHANGED poolVars
    PROVE  PoolInv'
<1>. USE DEF IInv
<1>0. Shape(t)
  BY GetOrResumeShape, HibernateDestroyShape DEF OrchestratorStep
<1>1. /\ pc' = [pc EXCEPT ![t] = pc'[t]]
      /\ pc[t] # "evict" /\ pc'[t] # "evict"
  BY <1>0, MoveTypes
<1>2. Evicting' = Evicting
  BY <1>1 DEF Evicting, TypeOK
<1>3. box' = [box EXCEPT ![t] = box'[t]]
  BY <1>0 DEF Shape, Holds, TypeOK
<1>4. UNCHANGED <<lruVars, pinned>>
  BY DEF poolVars, lruVars
<1>5. ReturnsOf(t) /\ (pc[t] \in HasBox => box[t] \in Sandboxes)
  BY DEF ReturnsMatch, PoolInv, BoxKnown
<1>6. pc'[t] \notin HasBox \/ box'[t] \in Sandboxes
  <2>. USE DEF ReturnsOf, GetOrResumeSteps, HibernateSteps, DestroySteps, HasBox, Goto, Hold, TypeOK
  <2>1. CASE Lookup(t)
    BY <2>1 DEF Lookup
  <2>2. CASE Fetch(t)
    BY <2>2 DEF Fetch, GetSandbox
  <2>3. CASE Find(t)
    BY <2>3 DEF Find
  <2>4. CASE Adopt(t) \/ Record(t)
    BY <1>5, <2>4 DEF Adopt, Record, resVars
  <2>5. CASE Create(t)
    BY <1>5, <2>5 DEF Create, CreateSandbox
  <2>6. CASE Start(t)
    BY <1>5, <2>6 DEF Start
  <2>7. CASE Started(t)
    BY <1>5, <2>7 DEF Started
  <2>8. CASE \/ HibernateGet(t) \/ HibernateStop(t) \/ Stopped(t)
             \/ DestroyDelete(t) \/ DestroyUnstore(t)
    <3>1. Moves(t, HibernateSteps) \/ Moves(t, DestroySteps)
      BY <1>0, <2>8 DEF Shape, Moves, HibernateGet, HibernateStop, Stopped, DestroyDelete, DestroyUnstore
    <3>. QED BY <1>5, <3>1 DEF Moves
  <2>. QED BY <2>1, <2>2, <2>3, <2>4, <2>5, <2>6, <2>7, <2>8 DEF OrchestratorStep
<1>7. \A q \in Threads \ {t} : pc'[q] = pc[q] /\ box'[q] = box[q]
  BY <1>1, <1>3 DEF TypeOK
<1>. QED BY <1>2, <1>4, <1>6, <1>7, PoolFrame

\* Enter, the deferred function, the handlers' and the scan's own steps.
LEMMA OthersPool ==
    ASSUME IInv, PoolInv, NEW t \in Threads,
           \/ Enter(t) \/ Unfly(t) \/ Wake(t)
           \/ HandlerRequest(t) \/ Reply(t)
           \/ ScanStart(t) \/ ScanItem(t) \/ ScanEnd(t)
    PROVE  PoolInv'
<1>. USE DEF IInv
<1>1. UNCHANGED <<lruVars, pinned>>
  BY DEF Enter, Unfly, Wake, HandlerRequest, PostSandbox, PostResume, PostHibernate,
     DeleteSandboxRequest, Reply, ScanStart, ScanItem, ScanEnd, poolVars, lruVars
<1>2. CASE Wake(t)
  <2>1. \A q \in Threads : \/ pc'[q] = pc[q] /\ box'[q] = box[q]
                           \/ pc[q] \in {"wait", "wake"} /\ pc'[q] = "got"
    BY <1>2 DEF Wake
  <2>2. Evicting' = Evicting
    BY <2>1 DEF Evicting
  <2>. QED BY <1>1, <2>1, <2>2, PoolFrame DEF HasBox
<1>3. CASE \/ Enter(t) \/ Unfly(t) \/ HandlerRequest(t) \/ Reply(t)
           \/ ScanStart(t) \/ ScanItem(t) \/ ScanEnd(t)
  <2>1. UNCHANGED box \/ box' = [box EXCEPT ![t] = NoSandbox]
    BY <1>3 DEF Enter, Unfly, HandlerRequest, PostSandbox, PostResume, PostHibernate,
       DeleteSandboxRequest, Reply, ScanStart, ScanItem, ScanEnd, Retire, resVars
  <2>2. /\ UNCHANGED pc \/ \E l \in {"lookup", "wait", "wake", "enter", "hib_get", "del", "idle", "scan"} :
                              pc' = [pc EXCEPT ![t] = l]
        /\ pc[t] \in {"enter", "unfly", "idle", "got", "scan"}
    BY <1>3 DEF Enter, Unfly, HandlerRequest, PostSandbox, PostResume, PostHibernate,
       DeleteSandboxRequest, Reply, ScanStart, ScanItem, ScanEnd, Retire, Goto
  <2>3. Evicting' = Evicting
    BY <2>2 DEF Evicting, TypeOK
  <2>4. \A q \in Threads : (pc'[q] = pc[q] /\ box'[q] = box[q]) \/ pc'[q] \notin HasBox
    BY <2>1, <2>2 DEF HasBox, TypeOK
  <2>. QED BY <1>1, <2>3, <2>4, PoolFrame
<1>. QED BY <1>2, <1>3

-----------------------------------------------------------------------------
\* ActiveSetSound, with the list's members by name.
LEMMA SoundByName ==
    ActiveSetSound <=>
        /\ NoRepeat(active)
        /\ \A u \in Users : byUser[u] # NoSandbox <=> Listed(active, u)
        /\ \A u \in Users : byUser[u] # NoSandbox => lastActive[byUser[u]] # "none"
BY DEF ActiveSetSound, NoRepeat, Listed

\* A user who leaves the active set takes last_active_at of its sandbox along, and
\* of no other (maybeEvict, Hibernate).
LEMMA DropUserPool ==
    ASSUME IInv, PoolInv, NEW u \in Users, DropUser(u),
           lastActive' = [lastActive EXCEPT ![byUser[u]] = "none"]
    PROVE  /\ ActiveSetSound'
           /\ Len(active') = IF Listed(active, u) THEN Len(active) - 1 ELSE Len(active)
<1>. USE DEF IInv
<1>1. active \in Seq(Users) /\ ActiveSetSound
  BY DEF TypeOK, PoolInv, ActiveSetBounded
<1>2. /\ NoRepeat(active)
      /\ \A v \in Users : byUser[v] # NoSandbox <=> Listed(active, v)
      /\ \A v \in Users : byUser[v] # NoSandbox => lastActive[byUser[v]] # "none"
  BY <1>1, SoundByName
<1>3. /\ active' = Without(u)
      /\ byUser'[u] = NoSandbox
      /\ \A v \in Users \ {u} : byUser'[v] = byUser[v]
  BY DEF DropUser, TypeOK
<1>4. /\ NoRepeat(active')
      /\ \A v \in Users : Listed(active', v) <=> v # u /\ Listed(active, v)
      /\ Len(active') = IF Listed(active, u) THEN Len(active) - 1 ELSE Len(active)
  BY <1>1, <1>2, <1>3, WithoutElements
<1>5. \A v \in Users : byUser'[v] # NoSandbox <=> Listed(active', v)
  BY <1>2, <1>3, <1>4
<1>6. ASSUME NEW v \in Users, byUser'[v] # NoSandbox
      PROVE  lastActive'[byUser'[v]] # "none"
  <2>1. v # u /\ byUser'[v] = byUser[v] /\ byUser[v] # byUser[u]
    BY <1>3, <1>6, SandboxOnce
  <2>. QED BY <1>2, <1>6, <2>1 DEF TypeOK
<1>. QED BY <1>4, <1>5, <1>6 DEF ActiveSetSound, NoRepeat, Listed

\* touchInternal adds at most its own user, and goes on to maybeEvict.
LEMMA TouchPool ==
    ASSUME IInv, PoolInv, NEW t \in Threads, TouchInternal(t)
    PROVE  PoolInv'
<1>. USE DEF IInv
<1>0. /\ pc[t] = "touch" /\ pc' = [pc EXCEPT ![t] = "evict"]
      /\ UNCHANGED <<box, pinned>>
  BY DEF TouchInternal, Goto, resVars
<1>1. user[t] \in Users /\ box[t] \in Sandboxes
  BY <1>0 DEF HeldOwned, HeldBy, PoolInv, BoxKnown, HasBox
<1>2. active \in Seq(Users) /\ ActiveSetSound
  BY DEF TypeOK, PoolInv, ActiveSetBounded
<1>3. /\ NoRepeat(active)
      /\ \A v \in Users : byUser[v] # NoSandbox <=> Listed(active, v)
      /\ \A v \in Users : byUser[v] # NoSandbox => lastActive[byUser[v]] # "none"
  BY <1>2, SoundByName
<1>4. /\ active' = Append(Without(user[t]), user[t])
      /\ byUser'[user[t]] = box[t]
      /\ \A v \in Users \ {user[t]} : byUser'[v] = byUser[v]
      /\ lastActive'[box[t]] = "fresh"
      /\ \A x \in Sandboxes \ {box[t]} : lastActive'[x] = lastActive[x]
  BY <1>1 DEF TouchInternal, TypeOK
<1>5. /\ NoRepeat(active')
      /\ \A v \in Users : Listed(active', v) <=> v = user[t] \/ Listed(active, v)
      /\ Len(active') <= Len(active) + 1
  <2>1. LET a == Append(Without(user[t]), user[t]) IN
        /\ NoRepeat(a)
        /\ \A v \in Users : Listed(a, v) <=> v = user[t] \/ Listed(active, v)
        /\ Len(a) = IF Listed(active, user[t]) THEN Len(active) ELSE Len(active) + 1
    BY <1>1, <1>2, <1>3, ToEndElements
  <2>2. Len(active) \in Nat
    BY <1>2
  <2>. QED BY <1>4, <2>1, <2>2
<1>6. \A v \in Users : byUser'[v] # NoSandbox <=> Listed(active', v)
  BY <1>1, <1>3, <1>4, <1>5, ClientAssumption
<1>7. \A v \in Users : byUser'[v] # NoSandbox => lastActive'[byUser'[v]] # "none"
  <2>. SUFFICES ASSUME NEW v \in Users, byUser'[v] # NoSandbox
                PROVE  lastActive'[byUser'[v]] # "none"
    OBVIOUS
  <2>1. CASE byUser'[v] = box[t]
    BY <1>4, <2>1
  <2>2. CASE byUser'[v] # box[t]
    <3>1. byUser'[v] = byUser[v] /\ byUser[v] \in Sandboxes \ {box[t]}
      BY <1>4, <2>2 DEF TypeOK
    <3>. QED BY <1>3, <1>4, <3>1
  <2>. QED BY <2>1, <2>2
<1>8. ActiveSetSound'
  BY <1>5, <1>6, <1>7 DEF ActiveSetSound, NoRepeat, Listed
<1>9. CapacityBound'
  <2>1. Evicting' = Evicting \cup {t} /\ t \notin Evicting
    BY <1>0 DEF Evicting, TypeOK
  <2>2. Cardinality(Evicting)' = Cardinality(Evicting) + 1
    BY <2>1, EvictingCount, FS_AddElement
  <2>3. Len(active) <= Capacity + Cardinality(Evicting)
    BY DEF PoolInv, ActiveSetBounded, CapacityBound, Evicting
  <2>4. Len(active) \in Nat /\ Len(active') \in Nat /\ Capacity \in Nat
    <3>1. active' \in Seq(Users)
      BY <1>1, <1>2, <1>4, WithoutType, AppendProperties
    <3>. QED BY <1>2, <3>1, PoolAssumption
  <2>5. Len(active') <= Capacity + Cardinality(Evicting)'
    BY <1>5, <2>2, <2>3, <2>4, EvictingCount
  <2>. QED BY <2>5 DEF CapacityBound, Evicting
<1>10. BoxKnown'
  BY <1>0 DEF PoolInv, BoxKnown, HasBox, TypeOK
<1>. QED BY <1>0, <1>8, <1>9, <1>10 DEF PoolInv, ActiveSetBounded

\* maybeEvict takes one out, or finds the set within its capacity: nothing is
\* pinned.
LEMMA EvictPool ==
    ASSUME IInv, PoolInv, NEW t \in Threads, MaybeEvict(t)
    PROVE  PoolInv'
<1>. USE DEF IInv
<1>0. /\ pc[t] = "evict" /\ \E l \in {"unfly", "hib_get"} : pc' = [pc EXCEPT ![t] = l]
      /\ UNCHANGED <<box, pinned>>
  BY DEF MaybeEvict, Goto, resVars
<1>1. active \in Seq(Users) /\ Len(active) \in Nat /\ ActiveSetSound
  BY DEF TypeOK, PoolInv, ActiveSetBounded
<1>2. Evicting' = Evicting \ {t} /\ t \in Evicting
  BY <1>0 DEF Evicting, TypeOK
<1>3. Cardinality(Evicting)' = Cardinality(Evicting) - 1
  BY <1>2, EvictingCount, FS_RemoveElement
<1>4. Len(active) <= Capacity + Cardinality(Evicting)
  BY DEF PoolInv, ActiveSetBounded, CapacityBound, Evicting
<1>5. BoxKnown'
  BY <1>0 DEF PoolInv, BoxKnown, HasBox, TypeOK
<1>6. CASE (Len(active) <= Capacity \/ Evictable = {}) /\ UNCHANGED lruVars
  <2>1. Len(active) <= Capacity
    <3>1. CASE Evictable = {}
      <4>1. \A i \in DOMAIN active : FALSE
        BY <3>1 DEF Evictable, PoolInv
      <4>2. Len(active) = 0
        <5>1. CASE Len(active) > 0
          <6>1. 1 \in DOMAIN active
            BY <1>1, <5>1
          <6>. QED BY <4>1, <6>1
        <5>. QED BY <1>1, <5>1
      <4>. QED BY <4>2, PoolAssumption
    <3>. QED BY <1>6, <3>1
  <2>2. UNCHANGED <<active, byUser, lastActive>>
    BY <1>6 DEF lruVars
  <2>3. ActiveSetSound'
    BY <1>1, <2>2 DEF ActiveSetSound
  <2>4. Len(active) <= Capacity + Cardinality(Evicting)'
    BY <1>1, <2>1, EvictingCount, PoolAssumption
  <2>. QED BY <1>0, <1>5, <2>2, <2>3, <2>4 DEF PoolInv, ActiveSetBounded, CapacityBound, Evicting
<1>7. ASSUME NEW i \in DOMAIN active, DropUser(active[i]),
             lastActive' = [lastActive EXCEPT ![byUser[active[i]]] = "none"]
      PROVE  PoolInv'
  <2>1. active[i] \in Users /\ Listed(active, active[i])
    BY <1>1 DEF Listed
  <2>2. ActiveSetSound' /\ Len(active') = Len(active) - 1
    BY <1>7, <2>1, DropUserPool
  <2>3. Len(active') <= Capacity + Cardinality(Evicting)'
    BY <1>1, <1>3, <1>4, <2>2, EvictingCount, PoolAssumption
  <2>. QED BY <1>0, <1>5, <2>2, <2>3 DEF PoolInv, ActiveSetBounded, CapacityBound, Evicting
<1>. QED BY <1>6, <1>7 DEF MaybeEvict, Evictable

\* The tail of pool.Hibernate.
LEMMA ForgetPool ==
    ASSUME IInv, PoolInv, NEW t \in Threads, Forget(t)
    PROVE  PoolInv'
<1>. USE DEF IInv
<1>0. /\ pc[t] = "forget" /\ pc' = [pc EXCEPT ![t] = "scan"]
      /\ UNCHANGED <<box, pinned>>
      /\ lastActive' = [lastActive EXCEPT ![target[t]] = "none"]
  BY DEF Forget, Goto, resVars, ReturnsMatch, ReturnsOf
<1>1. active \in Seq(Users) /\ Len(active) \in Nat /\ ActiveSetSound
  BY DEF TypeOK, PoolInv, ActiveSetBounded
<1>2. Evicting' = Evicting
  BY <1>0 DEF Evicting, TypeOK
<1>3. BoxKnown'
  BY <1>0 DEF PoolInv, BoxKnown, HasBox, TypeOK
<1>4. ActiveSetSound' /\ Len(active') <= Len(active)
  <2>1. ASSUME NEW u \in Users, byUser[u] = target[t], DropUser(u)
        PROVE  ActiveSetSound' /\ Len(active') <= Len(active)
    <3>1. /\ ActiveSetSound'
          /\ Len(active') = IF Listed(active, u) THEN Len(active) - 1 ELSE Len(active)
      BY <1>0, <2>1, DropUserPool
    <3>. QED BY <1>1, <3>1
  <2>2. ASSUME \A u \in Users : byUser[u] # target[t], UNCHANGED <<active, byUser>>
        PROVE  ActiveSetSound' /\ Len(active') <= Len(active)
    <3>1. \A u \in Users : byUser[u] # NoSandbox => lastActive'[byUser[u]] = lastActive[byUser[u]]
      BY <1>0, <2>2 DEF TypeOK
    <3>. QED BY <1>1, <2>2, <3>1 DEF ActiveSetSound
  <2>. QED BY <2>1, <2>2 DEF Forget
<1>5. Len(active') <= Capacity + Cardinality(Evicting)
  <2>1. Len(active) <= Capacity + Cardinality(Evicting)
    BY DEF PoolInv, ActiveSetBounded, CapacityBound, Evicting
  <2>2. Len(active') \in Nat
    <3>1. active' \in Seq(Users)
      BY <1>1, WithoutType DEF Forget, DropUser
    <3>. QED BY <3>1
  <2>. QED BY <1>1, <1>4, <2>1, <2>2, EvictingCount, PoolAssumption
<1>6. CapacityBound'
  BY <1>2, <1>5 DEF CapacityBound, Evicting
<1>. QED BY <1>0, <1>3, <1>4, <1>6 DEF PoolInv, ActiveSetBounded

\* The provider, the clock and SandboxPool.Touch.
LEMMA EnvironmentPool ==
    ASSUME IInv, PoolInv,
           \E s \in Sandboxes : \/ ProviderCompletes(s) \/ ProviderAutoStops(s)
                                \/ Age(s) \/ PoolTouch(s)
    PROVE  PoolInv'
<1>. USE DEF IInv
<1>1. PICK s \in Sandboxes :
          \/ ProviderCompletes(s) \/ ProviderAutoStops(s) \/ Age(s) \/ PoolTouch(s)
  OBVIOUS
<1>2. UNCHANGED <<pc, box, byUser, pinned>>
  BY <1>1 DEF ProviderCompletes, ProviderAutoStops, Age, PoolTouch, threadVars, poolVars
<1>3. Evicting' = Evicting
  BY <1>2 DEF Evicting
<1>4. active \in Seq(Users) /\ Len(active) \in Nat /\ ActiveSetSound
  BY DEF TypeOK, PoolInv, ActiveSetBounded
<1>5. CASE ProviderCompletes(s) \/ ProviderAutoStops(s)
  BY <1>2, <1>3, <1>5, PoolFrame DEF ProviderCompletes, ProviderAutoStops, poolVars, lruVars
<1>6. ASSUME lastActive' = [lastActive EXCEPT ![s] = "fresh"] \/ lastActive' = [lastActive EXCEPT ![s] = "idle"]
      PROVE  \A u \in Users : byUser[u] # NoSandbox => lastActive'[byUser[u]] # "none"
  <2>. SUFFICES ASSUME NEW u \in Users, byUser[u] # NoSandbox
                PROVE  lastActive'[byUser[u]] # "none"
    OBVIOUS
  <2>1. byUser[u] \in Sandboxes /\ lastActive[byUser[u]] # "none"
    BY <1>4 DEF TypeOK, ActiveSetSound
  <2>. QED BY <1>6, <2>1 DEF TypeOK
<1>7. CASE Age(s)
  <2>1. UNCHANGED active
    BY <1>7 DEF Age
  <2>2. \A u \in Users : byUser[u] # NoSandbox => lastActive'[byUser[u]] # "none"
    BY <1>6, <1>7 DEF Age
  <2>3. ActiveSetSound'
    BY <1>2, <1>4, <2>1, <2>2 DEF ActiveSetSound
  <2>. QED BY <1>2, <1>3, <2>1, <2>3
       DEF PoolInv, ActiveSetBounded, CapacityBound, Evicting, BoxKnown
<1>8. CASE PoolTouch(s)
  <2>1. \A u \in Users : byUser[u] # NoSandbox => lastActive'[byUser[u]] # "none"
    BY <1>6, <1>8 DEF PoolTouch
  <2>2. /\ NoRepeat(active)
        /\ \A v \in Users : byUser[v] # NoSandbox <=> Listed(active, v)
    BY <1>4, SoundByName
  <2>3. CASE UNCHANGED active
    <3>1. ActiveSetSound'
      BY <1>2, <1>4, <2>1, <2>3 DEF ActiveSetSound
    <3>. QED BY <1>2, <1>3, <2>3, <3>1
         DEF PoolInv, ActiveSetBounded, CapacityBound, Evicting, BoxKnown
  <2>4. ASSUME NEW u \in Users, byUser[u] = s, active' = Append(Without(u), u)
        PROVE  PoolInv'
    <3>1. Listed(active, u)
      BY <2>2, <2>4, ClientAssumption
    <3>2. /\ NoRepeat(active')
          /\ \A v \in Users : Listed(active', v) <=> v = u \/ Listed(active, v)
          /\ Len(active') = Len(active)
      <4>1. LET a == Append(Without(u), u) IN
            /\ NoRepeat(a)
            /\ \A v \in Users : Listed(a, v) <=> v = u \/ Listed(active, v)
            /\ Len(a) = IF Listed(active, u) THEN Len(active) ELSE Len(active) + 1
        BY <1>4, <2>2, ToEndElements
      <4>. QED BY <2>4, <3>1, <4>1
    <3>3. ActiveSetSound'
      BY <1>2, <2>1, <2>2, <3>1, <3>2 DEF ActiveSetSound, NoRepeat, Listed
    <3>. QED BY <1>2, <1>3, <3>2, <3>3
         DEF PoolInv, ActiveSetBounded, CapacityBound, Evicting, BoxKnown
  <2>. QED BY <1>8, <2>3, <2>4 DEF PoolTouch
<1>. QED BY <1>1, <1>5, <1>7, <1>8

\* After a restart the active set is empty.
LEMMA RestartPool ==
    ASSUME Restart
    PROVE  PoolInv'
<1>1. /\ active' = <<>> /\ byUser' = [u \in Users |-> NoSandbox] /\ pinned' = {}
      /\ pc' = [t \in Threads |-> "idle"]
  BY DEF Restart
<1>2. ActiveSetSound' /\ BoxKnown'
  BY <1>1 DEF ActiveSetSound, BoxKnown, HasBox
<1>3. CapacityBound'
  <2>1. 0 <= Capacity + Cardinality(Evicting)'
    BY EvictingCount, PoolAssumption
  <2>. QED BY <1>1, <2>1 DEF CapacityBound, Evicting
<1>. QED BY <1>1, <1>2, <1>3 DEF PoolInv, ActiveSetBounded

\* PoolInv holds while the active set is empty.
LEMMA InitPool == Init => PoolInv
<1>. SUFFICES ASSUME Init PROVE PoolInv
  OBVIOUS
<1>1. /\ active = <<>> /\ byUser = [u \in Users |-> NoSandbox] /\ pinned = {}
      /\ pc = [t \in Threads |-> "idle"]
  BY DEF Init, PoolInit, OrchestratorInit
<1>2. ActiveSetSound /\ BoxKnown
  BY <1>1 DEF ActiveSetSound, BoxKnown, HasBox
<1>3. CapacityBound
  <2>1. 0 <= Capacity + Cardinality(Evicting)
    BY EvictingCount, PoolAssumption
  <2>. QED BY <1>1, <2>1 DEF CapacityBound, Evicting
<1>. QED BY <1>1, <1>2, <1>3 DEF PoolInv, ActiveSetBounded

\* PoolInv is inductive with IInv.
LEMMA PoolKeeps == IInv /\ PoolInv /\ [Next]_vars => PoolInv'
<1>. SUFFICES ASSUME IInv, PoolInv, [Next]_vars PROVE PoolInv'
  OBVIOUS
<1>1. CASE UNCHANGED vars
  <2>1. UNCHANGED <<lruVars, pinned, pc, box>> /\ Evicting' = Evicting
    BY <1>1 DEF vars, lruVars, Evicting
  <2>. QED BY <2>1, PoolFrame
<1>2. CASE \E t \in Threads : \/ PoolStep(t)
                              \/ HandlerRequest(t) \/ Reply(t)
                              \/ ScanStart(t) \/ ScanItem(t) \/ ScanEnd(t)
  BY <1>2, OrchestratorPool, OthersPool, TouchPool, EvictPool, ForgetPool DEF PoolStep
<1>3. CASE \E s \in Sandboxes : \/ ProviderCompletes(s) \/ ProviderAutoStops(s)
                                \/ Age(s) \/ PoolTouch(s)
  BY <1>3, EnvironmentPool
<1>4. CASE Restart
  BY <1>4, RestartPool
<1>5. Handlers \cup Scanners \subseteq Threads
  BY ServiceAssumption
<1>. QED BY <1>1, <1>2, <1>3, <1>4, <1>5 DEF Next, Running, HandlerStep, ScannerStep

\* The active set lists every user once, with the time its sandbox was last used,
\* and is over its capacity by no more than the calls between touchInternal and
\* maybeEvict, whatever the interleaving, the faults and the restarts.
THEOREM ActiveSetKept == Spec => []ActiveSetBounded
<1>1. IInv /\ PoolInv => ActiveSetBounded
  BY DEF PoolInv
<1>. QED BY <1>1, InitPool, PoolKeeps, Invariance, PTL DEF Spec

=============================================================================
