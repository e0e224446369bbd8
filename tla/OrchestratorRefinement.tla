------------------------ MODULE OrchestratorRefinement ------------------------
(***************************************************************************)
(* OrchestratorService implements UserSandbox: with the REST client, no    *)
(* transport faults, no call of the resume endpoint, which goes past the   *)
(* single flight, and no restart after a delete.                           *)
(***************************************************************************)
EXTENDS OrchestratorServiceProofs

Reliable == Live /\ Faults = {} /\ "resume" \notin Ops

HomesOf(u) == {s \in Sandboxes : Alive(s) /\ owner[s] = u}

Deciding == {"fetch", "find", "adopt", "create", "record", "unstore"}

\* What a thread knows of its user's sandboxes where it decides whether to
\* create one, and what Destroy knows before it forgets a sandbox.
Decides(t) ==
    /\ pc[t] \in {"fetch", "adopt", "record"} => HomesOf(user[t]) \subseteq {box[t]}
    /\ pc[t] = "create" => HomesOf(user[t]) = {}
    /\ pc[t] = "find" => \A s \in HomesOf(user[t]), x \in Sandboxes : owner[x] = user[t] => x = s
    /\ pc[t] = "adopt" /\ seen[t] = "destroyed" =>
          box[t] \in Sandboxes /\ state[box[t]] = "destroyed"
    /\ pc[t] = "unstore" /\ target[t] \in Sandboxes => state[target[t]] = "destroyed"
    /\ pc[t] \in GetOrResumeSteps => onOk[t] = "touch"

\* The store has the user's sandbox, or a thread is about to put it there, or
\* the label search can find no other.
KnownAt(u, s) ==
    \/ store[u] = s
    \/ \E t \in Threads : pc[t] \in {"adopt", "record"} /\ user[t] = u /\ box[t] = s
    \/ store[u] = NoSandbox /\ \A x \in Sandboxes : owner[x] = u => x = s

HomesKnown == \A u \in Users : \A s \in HomesOf(u) : KnownAt(u, s)

HomeInv ==
    /\ OneSandboxPerUser
    /\ HomesKnown
    /\ \A t \in Threads : Decides(t)

-----------------------------------------------------------------------------
(***************************************************************************)
(* What steps do to the provider.                                          *)
(***************************************************************************)
\* A sandbox that is not gone changes its state.
Turns ==
    /\ \E s \in Sandboxes, x \in ProviderStates \ {"absent"} :
          Alive(s) /\ state' = [state EXCEPT ![s] = x]
    /\ UNCHANGED owner

\* The thread's user gets a new sandbox.
Makes(t, s) ==
    /\ pc[t] = "create" /\ s \in Sandboxes /\ ~Exists(s)
    /\ state' = [state EXCEPT ![s] = "provisioning"]
    /\ owner' = [owner EXCEPT ![s] = user[t]]

Quiet == Turns \/ UNCHANGED providerVars

\* Nothing that is gone comes back.
LEMMA QuietLoses ==
    ASSUME IInv, Quiet
    PROVE  /\ UNCHANGED owner
           /\ \A s \in Sandboxes : state[s] = "destroyed" => state'[s] = "destroyed"
           /\ \A u : HomesOf(u)' \subseteq HomesOf(u)
BY DEF IInv, TypeOK, ProviderTypeOK, Quiet, Turns, providerVars, HomesOf, Alive

\* Starting, stopping and deleting through the REST client.
LEMMA TransitionQuiet ==
    ASSUME IInv, Reliable, NEW s \in Sandboxes \cup {NoSandbox}, NEW ok \in BOOLEAN,
           StartSandbox(s, ok) \/ StopSandbox(s, ok) \/ DeleteSandbox(s, ok)
    PROVE  Quiet
<1>. USE DEF Reliable, StartSandbox, StopSandbox, DeleteSandbox, LiveStartSandbox,
             LiveStopSandbox, LiveDeleteSandbox, Transition
<1>1. CASE s = NoSandbox
  <2>1. UNCHANGED owner
    OBVIOUS
  <2>2. UNCHANGED state \/ \E x : state' = [state EXCEPT ![s] = x]
    OBVIOUS
  <2>3. UNCHANGED state
    BY <1>1, <2>2, ClientAssumption DEF IInv, TypeOK, ProviderTypeOK
  <2>. QED BY <2>1, <2>3 DEF Quiet, providerVars
<1>2. CASE s \in Sandboxes
  <2>1. UNCHANGED owner
    OBVIOUS
  <2>2. \/ UNCHANGED state
        \/ \E x \in {"provisioning", "running", "stopping", "hibernated", "destroyed"} :
              Alive(s) /\ state' = [state EXCEPT ![s] = x]
    <3>1. state[s] \in ProviderStates
      BY <1>2 DEF IInv, TypeOK, ProviderTypeOK
    <3>. QED BY <1>2, <3>1 DEF ProviderStates, Alive
  <2>. QED BY <1>2, <2>1, <2>2 DEF Quiet, Turns, providerVars, ProviderStates
<1>. QED BY <1>1, <1>2

\* The provider's own steps.
LEMMA EnvironmentQuiet ==
    ASSUME IInv, NEW s \in Sandboxes, CompleteStart(s) \/ CompleteStop(s) \/ AutoStop(s)
    PROVE  Quiet
<1>1. /\ UNCHANGED owner /\ Alive(s)
      /\ \E x \in {"running", "stopping", "hibernated"} : state' = [state EXCEPT ![s] = x]
  BY DEF CompleteStart, CompleteStop, AutoStop, Alive
<1>. QED BY <1>1 DEF Quiet, Turns, ProviderStates

-----------------------------------------------------------------------------
(***************************************************************************)
(* The threads a step leaves alone.                                        *)
(***************************************************************************)
Still(q) ==
    /\ pc'[q] = pc[q] /\ user'[q] = user[q] /\ box'[q] = box[q] /\ seen'[q] = seen[q]
    /\ target'[q] = target[q] /\ onOk'[q] = onOk[q]

\* A thread that was not about to write the store decides nothing.
Idles(q) ==
    /\ pc[q] \notin {"adopt", "record"}
    /\ pc'[q] \notin Deciding
    /\ pc'[q] \in GetOrResumeSteps => onOk'[q] = "touch"

LEMMA StillDecides ==
    ASSUME IInv, HomeInv, Quiet, NEW q \in Threads, Still(q) \/ Idles(q)
    PROVE  Decides(q)'
<1>1. CASE Idles(q)
  BY <1>1 DEF Idles, Decides, Deciding
<1>2. CASE Still(q)
  <2>1. Decides(q)
    BY DEF HomeInv
  <2>2. /\ UNCHANGED owner
        /\ \A s \in Sandboxes : state[s] = "destroyed" => state'[s] = "destroyed"
        /\ \A u : HomesOf(u)' \subseteq HomesOf(u)
    BY QuietLoses
  <2>3. \A s \in Sandboxes : (s \in HomesOf(user[q]))' => s \in HomesOf(user[q])
    BY <1>2, <2>2 DEF Still, HomesOf
  <2>4. (HomesOf(user[q]) \subseteq Sandboxes)'
    BY DEF HomesOf
  <2>5. (HomesOf(user[q]))' \subseteq HomesOf(user[q])
    BY <2>3, <2>4
  <2>. QED BY <1>2, <2>1, <2>2, <2>5 DEF Still, Decides
<1>. QED BY <1>1, <1>2

-----------------------------------------------------------------------------
(***************************************************************************)
(* Preservation of HomeInv.                                                *)
(***************************************************************************)
\* No sandbox appears, so no user comes to have two.
LEMMA QuietUnique ==
    ASSUME IInv, OneSandboxPerUser, Quiet
    PROVE  OneSandboxPerUser'
<1>1. UNCHANGED owner /\ \A s \in Sandboxes : Alive(s)' => Alive(s)
  BY DEF IInv, TypeOK, ProviderTypeOK, Quiet, Turns, providerVars, Alive
<1>. QED BY <1>1 DEF OneSandboxPerUser

\* What is known of a user's sandbox stays known while the store and the threads
\* about to write it stay as they are.
LEMMA KnownFrame ==
    ASSUME IInv, HomeInv, Quiet, UNCHANGED store,
           \A q \in Threads : Still(q) \/ pc[q] \notin {"adopt", "record"}
    PROVE  HomesKnown'
<1>1. /\ UNCHANGED owner
      /\ \A u : HomesOf(u)' \subseteq HomesOf(u)
  BY QuietLoses
<1>. SUFFICES ASSUME NEW u \in Users, NEW s \in HomesOf(u)'
              PROVE  KnownAt(u, s)'
  BY DEF HomesKnown
<1>2. KnownAt(u, s)
  BY <1>1 DEF HomeInv, HomesKnown
<1>. QED BY <1>1, <1>2 DEF KnownAt, Still

\* Steps that decide nothing.
LEMMA QuietKeeps ==
    ASSUME IInv, HomeInv, Quiet, UNCHANGED store,
           \A q \in Threads : Still(q) \/ Idles(q)
    PROVE  HomeInv'
<1>1. OneSandboxPerUser'
  BY QuietUnique DEF HomeInv
<1>2. HomesKnown'
  BY KnownFrame DEF Idles
<1>3. \A q \in Threads : Decides(q)'
  BY StillDecides
<1>. QED BY <1>1, <1>2, <1>3 DEF HomeInv

\* A step of one thread.
LEMMA OthersStill ==
    ASSUME IInv, NEW t \in Threads,
           pc'     = [pc     EXCEPT ![t] = pc'[t]],
           user'   = [user   EXCEPT ![t] = user'[t]],
           box'    = [box    EXCEPT ![t] = box'[t]],
           seen'   = [seen   EXCEPT ![t] = seen'[t]],
           target' = [target EXCEPT ![t] = target'[t]],
           onOk'   = [onOk   EXCEPT ![t] = onOk'[t]]
    PROVE  \A q \in Threads \ {t} : Still(q)
BY DEF IInv, TypeOK, Still

\* One call at a time works for a user, and knows the user.
LEMMA SoleFlight ==
    ASSUME IInv, HomeInv, NEW t \in Threads, pc[t] \in GetOrResumeSteps
    PROVE  /\ user[t] \in Users
           /\ \A q \in Threads :
                 pc[q] \in GetOrResumeSteps /\ user[q] = user[t] => q = t
<1>1. user[t] \in Users
  BY DEF IInv, HeldOwned, HeldBy
<1>2. \A q \in Threads : pc[q] \in GetOrResumeSteps => Leads(q)
  BY DEF HomeInv, Decides, Leads
<1>3. \A q \in Threads : inflight[user[t]] = q <=> Leads(q) /\ user[q] = user[t]
  BY <1>1 DEF IInv, FlightsLed
<1>. QED BY <1>1, <1>2, <1>3

\* The steps of the subroutines that change one thread and decide nothing.
LEMMA PassingKeeps ==
    ASSUME IInv, HomeInv, Reliable, NEW t \in Threads,
           Start(t) \/ Started(t) \/ HibernateGet(t) \/ HibernateStop(t) \/ Stopped(t)
    PROVE  HomeInv' /\ Quiet
<1>. USE DEF IInv
<1>1. Quiet
  <2>1. box[t] \in Sandboxes \cup {NoSandbox} /\ target[t] \in Sandboxes \cup {NoSandbox}
    BY DEF TypeOK
  <2>. QED BY <2>1, TransitionQuiet
       DEF Start, Started, HibernateGet, HibernateStop, Stopped, GetSandbox, Quiet
<1>2. Shape(t)
  BY GetOrResumeShape, HibernateDestroyShape
<1>3. /\ pc' = [pc EXCEPT ![t] = pc'[t]]
      /\ \/ pc[t] \in {"start", "started"} /\ pc'[t] \in {"started", onOk[t], onErr[t]}
         \/ pc[t] \in HibernateSteps /\ pc'[t] \in HibernateSteps \cup {onOk[t], onErr[t]}
  <2>1. CASE Start(t) \/ Started(t)
    <3>1. \E l \in {"started", onOk[t], onErr[t]} : pc' = [pc EXCEPT ![t] = l]
      BY <2>1 DEF Start, Started, Goto
    <3>. QED BY <2>1, <3>1 DEF TypeOK, Start, Started
  <2>2. CASE HibernateGet(t) \/ HibernateStop(t) \/ Stopped(t)
    <3>1. \E l \in HibernateSteps \cup {onOk[t], onErr[t]} : pc' = [pc EXCEPT ![t] = l]
      BY <2>2 DEF HibernateGet, HibernateStop, Stopped, Goto, HibernateSteps
    <3>. QED BY <2>2, <3>1 DEF TypeOK, HibernateGet, HibernateStop, Stopped, HibernateSteps
  <2>. QED BY <2>1, <2>2
<1>4. UNCHANGED <<user, target, onOk, onErr>>
  BY <1>2 DEF Shape
<1>5. Idles(t)
  <2>1. ReturnsOf(t) /\ Decides(t)
    BY DEF ReturnsMatch, HomeInv
  <2>. QED BY <1>3, <1>4, <2>1
       DEF Idles, Deciding, ReturnsOf, Decides, GetOrResumeSteps, HibernateSteps
<1>6. \A q \in Threads \ {t} : Still(q)
  <2>1. box' = [box EXCEPT ![t] = box'[t]] /\ seen' = [seen EXCEPT ![t] = seen'[t]]
    BY <1>2 DEF Shape, Holds, TypeOK
  <2>. QED BY <1>3, <1>4, <2>1, OthersStill DEF TypeOK
<1>7. UNCHANGED store
  BY DEF Start, Started, HibernateGet, HibernateStop, Stopped, storeVars
<1>. QED BY <1>1, <1>5, <1>6, <1>7, QuietKeeps

\* The store is read: what it does not have the label search can only find once.
LEMMA LookupKeeps ==
    ASSUME IInv, HomeInv, NEW t \in Threads, Lookup(t)
    PROVE  HomeInv' /\ Quiet
<1>. USE DEF IInv
<1>u. UNCHANGED <<state, owner, store, user, target, onOk, onErr>>
  BY DEF Lookup, providerVars, storeVars, argVars, contVars
<1>0. /\ pc[t] = "lookup" /\ pc[t] \in GetOrResumeSteps
      /\ pc' = [pc EXCEPT ![t] = IF store[user[t]] = NoSandbox THEN "find" ELSE "fetch"]
      /\ box' = [box EXCEPT ![t] = store[user[t]]]
      /\ seen' = [seen EXCEPT ![t] = "none"]
  BY DEF Lookup, Goto, Hold, GetOrResumeSteps
<1>1. /\ pc'[t] = IF store[user[t]] = NoSandbox THEN "find" ELSE "fetch"
      /\ box'[t] = store[user[t]]
  BY <1>0 DEF TypeOK
<1>2. Quiet
  BY <1>u DEF Quiet, providerVars
<1>3. \A q \in Threads \ {t} : Still(q)
  BY <1>u, <1>0, <1>1, OthersStill DEF TypeOK
<1>4. HomesKnown'
  BY <1>u, <1>0, <1>2, <1>3, KnownFrame
<1>5. \A s \in HomesOf(user[t]) :
         \/ store[user[t]] = s
         \/ store[user[t]] = NoSandbox /\ \A x \in Sandboxes : owner[x] = user[t] => x = s
  <2>1. user[t] \in Users /\ \A q \in Threads :
            pc[q] \in {"adopt", "record"} /\ user[q] = user[t] => q = t
    BY <1>0, SoleFlight DEF GetOrResumeSteps
  <2>. QED BY <1>0, <2>1 DEF HomeInv, HomesKnown, KnownAt
<1>6. Decides(t)'
  <2>1. (HomesOf(user[t]))' = HomesOf(user[t])
    BY <1>u DEF HomesOf, Alive
  <2>2. onOk[t] = "touch"
    BY <1>0 DEF HomeInv, Decides
  <2>3. NoSandbox \notin Sandboxes
    BY ClientAssumption
  <2>. QED BY <1>u, <1>1, <1>5, <2>1, <2>2, <2>3 DEF Decides, HomesOf
<1>7. OneSandboxPerUser'
  BY <1>2, QuietUnique DEF HomeInv
<1>. QED BY <1>2, <1>3, <1>4, <1>6, <1>7, StillDecides DEF HomeInv

\* The steps of the subroutines leave the other threads alone.
LEMMA SubroutineOthers ==
    ASSUME IInv, NEW t \in Threads, Shape(t)
    PROVE  /\ \A q \in Threads \ {t} : Still(q)
           /\ UNCHANGED <<user, target, onOk, onErr>>
<1>1. UNCHANGED <<user, target, onOk, onErr>>
  BY DEF Shape
<1>2. pc' = [pc EXCEPT ![t] = pc'[t]]
  BY MoveTypes
<1>3. box' = [box EXCEPT ![t] = box'[t]] /\ seen' = [seen EXCEPT ![t] = seen'[t]]
  BY DEF Shape, Holds, IInv, TypeOK
<1>. QED BY <1>1, <1>2, <1>3, OthersStill DEF IInv, TypeOK

\* A sandbox the provider does not have, or has destroyed, is nobody's home.
LEMMA FetchKeeps ==
    ASSUME IInv, HomeInv, Reliable, NEW t \in Threads, Fetch(t)
    PROVE  HomeInv' /\ Quiet
<1>. USE DEF IInv
<1>u. UNCHANGED <<state, owner, store, user, target, onOk, onErr>>
  BY DEF Fetch, GetSandbox, providerVars, storeVars, argVars, contVars
<1>0. pc[t] = "fetch" /\ pc[t] \in GetOrResumeSteps /\ onOk[t] = "touch"
  BY DEF Fetch, GetOrResumeSteps, HomeInv, Decides
<1>1. \/ /\ pc'[t] = Dispatch(t, Observed(box[t]))
         /\ box'[t] = box[t] /\ seen'[t] = Observed(box[t])
      \/ /\ pc'[t] = "find"
         /\ ~Exists(box[t]) \/ state[box[t]] = "destroyed"
  BY DEF Fetch, Goto, Hold, TypeOK, GetSandbox, Reliable
<1>2. Quiet
  BY <1>u DEF Quiet, providerVars
<1>3. \A q \in Threads \ {t} : Still(q)
  BY GetOrResumeShape, SubroutineOthers
<1>4. HomesKnown'
  BY <1>u, <1>0, <1>2, <1>3, KnownFrame
<1>5. (HomesOf(user[t]))' = HomesOf(user[t])
  BY <1>u DEF HomesOf, Alive
<1>6. HomesOf(user[t]) \subseteq {box[t]}
  BY <1>0 DEF HomeInv, Decides
<1>7. (Exists(box[t]) /\ state[box[t]] # "destroyed") \/ HomesOf(user[t]) = {}
  BY <1>6 DEF HomesOf, Alive, Exists
<1>8. Decides(t)'
  <2>1. CASE pc'[t] = Dispatch(t, Observed(box[t])) /\ box'[t] = box[t]
    <3>1. \/ pc'[t] = "create" /\ state[box[t]] = "destroyed"
          \/ pc'[t] \in {"start", "touch"}
      BY <1>0, <2>1 DEF Dispatch, Observed
    <3>. QED BY <1>u, <1>0, <1>5, <1>7, <3>1 DEF Decides
  <2>2. CASE pc'[t] = "find" /\ HomesOf(user[t]) = {}
    BY <1>u, <1>0, <1>5, <2>2 DEF Decides
  <2>. QED BY <1>1, <1>7, <2>1, <2>2
<1>9. OneSandboxPerUser'
  BY <1>2, QuietUnique DEF HomeInv
<1>. QED BY <1>2, <1>3, <1>4, <1>8, <1>9, StillDecides DEF HomeInv

\* The label search finds the user's sandbox, if there is one.
LEMMA FindKeeps ==
    ASSUME IInv, HomeInv, Reliable, NEW t \in Threads, Find(t)
    PROVE  HomeInv' /\ Quiet
<1>. USE DEF IInv
<1>u. UNCHANGED <<state, owner, store, user, target, onOk, onErr>>
  BY DEF Find, FindByLabel, providerVars, storeVars, argVars, contVars
<1>0. pc[t] = "find" /\ pc[t] \in GetOrResumeSteps /\ onOk[t] = "touch"
  BY DEF Find, GetOrResumeSteps, HomeInv, Decides
<1>1. PICK s \in Sandboxes \cup {NoSandbox} :
         /\ FindByLabel(user[t], s)
         /\ pc'[t] = IF s = NoSandbox THEN "create" ELSE "adopt"
         /\ box'[t] = s /\ seen'[t] = IF s = NoSandbox THEN "none" ELSE Observed(s)
  BY DEF Find, Goto, Hold, TypeOK
<1>2. Quiet
  BY <1>u DEF Quiet, providerVars
<1>3. \A q \in Threads \ {t} : Still(q)
  BY GetOrResumeShape, SubroutineOthers
<1>4. HomesKnown'
  BY <1>u, <1>0, <1>2, <1>3, KnownFrame
<1>5. (HomesOf(user[t]))' = HomesOf(user[t])
  BY <1>u DEF HomesOf, Alive
<1>6. \A h \in HomesOf(user[t]), x \in Sandboxes : owner[x] = user[t] => x = h
  BY <1>0 DEF HomeInv, Decides
<1>7. IF s = NoSandbox THEN \A x \in Sandboxes : owner[x] # user[t]
                       ELSE s \in Sandboxes /\ owner[s] = user[t]
  BY <1>1, ClientAssumption DEF FindByLabel, Labelled, LiveLabelled, Reliable
<1>8. Decides(t)'
  <2>1. CASE s = NoSandbox
    BY <1>u, <1>0, <1>1, <1>5, <1>7, <2>1 DEF Decides, HomesOf
  <2>2. CASE s # NoSandbox
    <3>1. HomesOf(user[t]) \subseteq {s}
      BY <1>6, <1>7, <2>2
    <3>2. Observed(s) = "destroyed" => state[s] = "destroyed"
      BY DEF Observed
    <3>. QED BY <1>u, <1>0, <1>1, <1>5, <1>7, <2>2, <3>1, <3>2 DEF Decides
  <2>. QED BY <2>1, <2>2
<1>9. OneSandboxPerUser'
  BY <1>2, QuietUnique DEF HomeInv
<1>. QED BY <1>2, <1>3, <1>4, <1>8, <1>9, StillDecides DEF HomeInv

\* store.Upsert after the label search and after Create.
LEMMA UpsertKeeps ==
    ASSUME IInv, HomeInv, NEW t \in Threads, Adopt(t) \/ Record(t)
    PROVE  HomeInv' /\ Quiet
<1>. USE DEF IInv
<1>u. UNCHANGED <<state, owner, user, box, seen, target, onOk, onErr>>
  BY DEF Adopt, Record, providerVars, resVars, argVars, contVars
<1>0. pc[t] \in {"adopt", "record"} /\ pc[t] \in GetOrResumeSteps /\ onOk[t] = "touch"
  BY DEF Adopt, Record, GetOrResumeSteps, HomeInv, Decides
<1>1. /\ store' = [store EXCEPT ![user[t]] = box[t]]
      /\ pc'[t] \in {Dispatch(t, seen[t]), onOk[t]}
      /\ pc[t] = "record" => pc'[t] = onOk[t]
  BY DEF Adopt, Record, Goto, TypeOK
<1>2. Quiet
  BY <1>u DEF Quiet, providerVars
<1>3. \A q \in Threads \ {t} : Still(q)
  BY GetOrResumeShape, SubroutineOthers
<1>4. user[t] \in Users
  BY <1>0, SoleFlight
<1>5. \A u : HomesOf(u)' = HomesOf(u)
  BY <1>u DEF HomesOf, Alive
<1>6. HomesOf(user[t]) \subseteq {box[t]}
  BY <1>0 DEF HomeInv, Decides
<1>7. HomesKnown'
  <2>. SUFFICES ASSUME NEW u \in Users, NEW s \in HomesOf(u)
                PROVE  KnownAt(u, s)'
    BY <1>5 DEF HomesKnown
  <2>1. CASE u = user[t]
    <3>1. store'[u] = box[t] /\ s = box[t]
      BY <1>1, <1>4, <1>6, <2>1 DEF TypeOK
    <3>. QED BY <3>1 DEF KnownAt
  <2>2. CASE u # user[t]
    <3>1. KnownAt(u, s)
      BY DEF HomeInv, HomesKnown
    <3>2. store'[u] = store[u]
      BY <1>1, <2>2 DEF TypeOK
    <3>. QED BY <1>u, <1>3, <2>2, <3>1, <3>2 DEF KnownAt, Still
  <2>. QED BY <2>1, <2>2
<1>8. Decides(t)'
  <2>1. CASE pc'[t] = "create"
    <3>1. seen[t] = "destroyed" /\ pc[t] = "adopt"
      BY <1>0, <1>1, <2>1 DEF Dispatch
    <3>2. HomesOf(user[t]) = {}
      BY <1>6, <3>1 DEF HomeInv, Decides, HomesOf, Alive
    <3>3. (HomesOf(user[t]))' = HomesOf(user[t])
      BY <1>u DEF HomesOf, Alive
    <3>. QED BY <1>u, <1>0, <2>1, <3>2, <3>3 DEF Decides
  <2>2. CASE pc'[t] \in {"start", "touch"}
    BY <1>u, <1>0, <2>2 DEF Decides
  <2>. QED BY <1>0, <1>1, <2>1, <2>2 DEF Dispatch
<1>9. OneSandboxPerUser'
  BY <1>2, QuietUnique DEF HomeInv
<1>. QED BY <1>2, <1>3, <1>7, <1>8, <1>9, StillDecides DEF HomeInv

\* Destroy: the provider's answer comes before the entry is forgotten.
LEMMA DestroyKeeps ==
    ASSUME IInv, HomeInv, Reliable, NEW t \in Threads, DestroyDelete(t) \/ DestroyUnstore(t)
    PROVE  HomeInv' /\ Quiet
<1>. USE DEF IInv
<1>u. UNCHANGED <<user, target, onOk, onErr, box, seen>>
  BY DEF DestroyDelete, DestroyUnstore, resVars, argVars, contVars
<1>0. pc[t] \in {"del", "unstore"} /\ onOk[t] = "got" /\ onErr[t] = "got"
  BY DEF DestroyDelete, DestroyUnstore, ReturnsMatch, ReturnsOf, DestroySteps
<1>1. Quiet
  <2>1. target[t] \in Sandboxes \cup {NoSandbox}
    BY DEF TypeOK
  <2>. QED BY <2>1, TransitionQuiet DEF DestroyDelete, DestroyUnstore, Quiet
<1>2. \A q \in Threads \ {t} : Still(q)
  BY HibernateDestroyShape, SubroutineOthers
<1>3. Decides(t)'
  <2>1. CASE pc'[t] = "unstore"
    <3>1. DestroyDelete(t) /\ DeleteSandbox(target[t], TRUE)
      BY <1>0, <2>1 DEF DestroyDelete, DestroyUnstore, Goto, TypeOK
    <3>2. target[t] \in Sandboxes => state'[target[t]] = "destroyed"
      BY <3>1 DEF DeleteSandbox, LiveDeleteSandbox, Transition, Reliable, TypeOK, ProviderTypeOK
    <3>. QED BY <1>u, <2>1, <3>2 DEF Decides, GetOrResumeSteps
  <2>2. CASE pc'[t] = "got"
    BY <2>2 DEF Decides, GetOrResumeSteps
  <2>. QED BY <1>0, <2>1, <2>2 DEF DestroyDelete, DestroyUnstore, Goto, TypeOK
<1>4. HomesKnown'
  <2>1. CASE DestroyDelete(t)
    BY <1>0, <1>1, <1>2, <2>1, KnownFrame DEF DestroyDelete, storeVars
  <2>2. CASE DestroyUnstore(t)
    <3>1. UNCHANGED <<state, owner>>
      BY <2>2 DEF DestroyUnstore, providerVars
    <3>2. target[t] \in Sandboxes => state[target[t]] = "destroyed"
      BY <2>2 DEF DestroyUnstore, HomeInv, Decides
    <3>. SUFFICES ASSUME NEW u \in Users, NEW s \in HomesOf(u)
                  PROVE  KnownAt(u, s)'
      BY <3>1 DEF HomesKnown, HomesOf, Alive
    <3>3. KnownAt(u, s)
      BY DEF HomeInv, HomesKnown
    <3>4. /\ store[u] = s => store'[u] = s
          /\ store[u] = NoSandbox => store'[u] = NoSandbox
      BY <2>2, <3>2 DEF DestroyUnstore, HomesOf, Alive
    <3>. QED BY <1>0, <1>2, <3>1, <3>3, <3>4 DEF KnownAt, Still
  <2>. QED BY <2>1, <2>2
<1>5. OneSandboxPerUser'
  BY <1>1, QuietUnique DEF HomeInv
<1>. QED BY <1>1, <1>2, <1>3, <1>4, <1>5, StillDecides DEF HomeInv

\* A sandbox is created only for a user known to have none, and no other call for
\* that user is under way that could create a second.
LEMMA CreateOnce ==
    ASSUME IInv, HomeInv, NEW t \in Threads, Create(t), NEW s \in Sandboxes, Makes(t, s),
           pc'[t] = "record", box'[t] = s
    PROVE  HomeInv'
<1>. USE DEF IInv
<1>u. UNCHANGED <<store, user, target, onOk, onErr>>
  BY DEF Create, storeVars, argVars, contVars
<1>0. pc[t] = "create" /\ pc[t] \in GetOrResumeSteps /\ onOk[t] = "touch"
  BY DEF Create, GetOrResumeSteps, HomeInv, Decides
<1>1. /\ user[t] \in Users
      /\ \A q \in Threads : pc[q] \in GetOrResumeSteps /\ user[q] = user[t] => q = t
  BY <1>0, SoleFlight
<1>2. HomesOf(user[t]) = {}
  BY <1>0 DEF HomeInv, Decides
<1>3. \A q \in Threads \ {t} : Still(q)
  BY GetOrResumeShape, SubroutineOthers
<1>4. /\ state[s] = "absent" /\ owner[s] \notin Users
      /\ state'[s] = "provisioning" /\ owner'[s] = user[t]
      /\ \A x \in Sandboxes \ {s} : state'[x] = state[x] /\ owner'[x] = owner[x]
  BY DEF Makes, Exists, OwnersKnown, TypeOK, ProviderTypeOK
<1>5. (HomesOf(user[t]))' = {s}
  BY <1>u, <1>2, <1>4 DEF HomesOf, Alive
<1>6. \A u \in Users \ {user[t]} : HomesOf(u)' = HomesOf(u)
  BY <1>4 DEF HomesOf, Alive
<1>7. OneSandboxPerUser'
  <2>. SUFFICES ASSUME NEW x \in Sandboxes, NEW y \in Sandboxes, Alive(x)', Alive(y)',
                       owner'[x] = owner'[y]
                PROVE  x = y
    BY DEF OneSandboxPerUser
  <2>1. CASE x = s \/ y = s
    <3>1. owner'[x] = user[t] /\ owner'[y] = user[t]
      BY <1>4, <2>1
    <3>2. x \in (HomesOf(user[t]))' /\ y \in (HomesOf(user[t]))'
      BY <1>u, <3>1 DEF HomesOf
    <3>. QED BY <1>5, <3>2
  <2>2. CASE x # s /\ y # s
    BY <1>4, <2>2 DEF HomeInv, OneSandboxPerUser, Alive
  <2>. QED BY <2>1, <2>2
<1>8. HomesKnown'
  <2>. SUFFICES ASSUME NEW u \in Users, NEW x \in HomesOf(u)'
                PROVE  KnownAt(u, x)'
    BY DEF HomesKnown
  <2>1. CASE u = user[t]
    <3>1. x = s
      <4>1. owner'[x] = user[t] /\ Alive(x)' /\ x \in Sandboxes
        BY <2>1 DEF HomesOf
      <4>2. x \in (HomesOf(user[t]))'
        BY <1>u, <4>1 DEF HomesOf
      <4>. QED BY <1>5, <4>2
    <3>. QED BY <1>u, <2>1, <3>1 DEF KnownAt
  <2>2. CASE u # user[t]
    <3>1. KnownAt(u, x)
      BY <1>6, <2>2 DEF HomeInv, HomesKnown
    <3>2. \A y \in Sandboxes : owner'[y] = u => owner[y] = u
      BY <1>4, <2>2
    <3>. QED BY <1>u, <1>3, <2>2, <3>1, <3>2 DEF KnownAt, Still
  <2>. QED BY <2>1, <2>2
<1>9. ASSUME NEW q \in Threads \ {t} PROVE Decides(q)'
  <2>0. Still(q) /\ Decides(q)
    BY <1>3 DEF HomeInv
  <2>1. CASE pc[q] \in GetOrResumeSteps
    <3>1. user[q] \in Users \ {user[t]}
      BY <1>1, <2>1, SoleFlight
    <3>2. (HomesOf(user[q]))' = HomesOf(user[q])
      BY <1>u, <1>6, <3>1
    <3>3. \A x \in Sandboxes : owner'[x] = user[q] => owner[x] = user[q]
      BY <1>4, <3>1
    <3>4. \A x \in Sandboxes : state[x] = "destroyed" => state'[x] = "destroyed"
      BY <1>4
    <3>. QED BY <2>0, <2>1, <3>2, <3>3, <3>4 DEF Decides, Still, GetOrResumeSteps
  <2>2. CASE pc[q] \notin GetOrResumeSteps
    <3>1. \A x \in Sandboxes : state[x] = "destroyed" => state'[x] = "destroyed"
      BY <1>4
    <3>. QED BY <2>0, <2>2, <3>1 DEF Decides, Still, GetOrResumeSteps
  <2>. QED BY <2>1, <2>2
<1>10. Decides(t)'
  BY <1>u, <1>0, <1>5 DEF Decides
<1>. QED BY <1>7, <1>8, <1>9, <1>10 DEF HomeInv

\* Create, whether the provider takes the request or not.
LEMMA CreateHome ==
    ASSUME IInv, HomeInv, Reliable, NEW t \in Threads, Create(t)
    PROVE  HomeInv' /\ (Quiet \/ \E s \in Sandboxes : Makes(t, s))
<1>. USE DEF IInv
<1>0. pc[t] = "create" /\ pc[t] \in GetOrResumeSteps /\ onOk[t] = "touch" /\ onErr[t] = "unfly"
  BY DEF Create, GetOrResumeSteps, HomeInv, Decides, ReturnsMatch, ReturnsOf
<1>1. \/ \E s \in Sandboxes : Makes(t, s) /\ pc'[t] = "record" /\ box'[t] = s
      \/ UNCHANGED providerVars /\ pc'[t] = "unfly"
  BY <1>0, ClientAssumption
     DEF Create, CreateSandbox, Created, Reliable, ReplyLost, Goto, Hold, Makes, TypeOK
<1>2. CASE \E s \in Sandboxes : Makes(t, s) /\ pc'[t] = "record" /\ box'[t] = s
  BY <1>2, CreateOnce
<1>3. CASE UNCHANGED providerVars /\ pc'[t] = "unfly"
  <2>1. Quiet
    BY <1>3 DEF Quiet
  <2>2. \A q \in Threads \ {t} : Still(q)
    BY GetOrResumeShape, SubroutineOthers
  <2>3. Idles(t)
    BY <1>0, <1>3 DEF Idles, Deciding, GetOrResumeSteps
  <2>4. UNCHANGED store
    BY DEF Create, storeVars
  <2>. QED BY <2>1, <2>2, <2>3, <2>4, QuietKeeps
<1>. QED BY <1>1, <1>2, <1>3

\* A process that remembers nothing finds each user's sandbox by its label, as
\* long as none has been deleted.
LEMMA RestartHome ==
    ASSUME IInv, HomeInv, Reliable, Restart, \A s \in Sandboxes : state[s] # "destroyed"
    PROVE  HomeInv' /\ Quiet
<1>. USE DEF IInv
<1>1. UNCHANGED <<state, owner>>
  BY DEF Restart, Reliable, providerVars
<1>2. Quiet
  BY <1>1 DEF Quiet, providerVars
<1>3. OneSandboxPerUser'
  BY <1>2, QuietUnique DEF HomeInv
<1>4. HomesKnown'
  <2>. SUFFICES ASSUME NEW u \in Users, NEW s \in HomesOf(u)
                PROVE  KnownAt(u, s)'
    BY <1>1 DEF HomesKnown, HomesOf, Alive
  <2>1. \A x \in Sandboxes : owner[x] = u => x = s
    BY DEF HomesOf, OwnersKnown, Exists, Alive, HomeInv, OneSandboxPerUser
  <2>. QED BY <1>1, <2>1 DEF KnownAt, Restart
<1>5. \A q \in Threads : Decides(q)'
  BY DEF Decides, Restart, GetOrResumeSteps
<1>. QED BY <1>2, <1>3, <1>4, <1>5 DEF HomeInv

-----------------------------------------------------------------------------
\* SingleFlight.Do and the pool's own steps.
LEMMA PoolHome ==
    ASSUME IInv, HomeInv, NEW t \in Threads,
           Enter(t) \/ TouchInternal(t) \/ MaybeEvict(t) \/ Unfly(t) \/ Forget(t)
    PROVE  HomeInv' /\ Quiet
<1>. USE DEF IInv
<1>1. UNCHANGED <<state, owner, store, user, box, seen>>
  BY DEF Enter, TouchInternal, MaybeEvict, Unfly, Forget, providerVars, storeVars, argVars, resVars
<1>2. /\ \E l : pc' = [pc EXCEPT ![t] = l]
      /\ UNCHANGED target \/ \E x : target' = [target EXCEPT ![t] = x]
      /\ UNCHANGED onOk \/ \E l : onOk' = [onOk EXCEPT ![t] = l]
  <2>1. CASE Enter(t)
    BY <2>1 DEF Enter, Goto, argVars, contVars
  <2>2. CASE TouchInternal(t)
    BY <2>2 DEF TouchInternal, Goto, argVars, contVars
  <2>3. CASE MaybeEvict(t)
    BY <2>3 DEF MaybeEvict, Goto, argVars, contVars
  <2>4. CASE Unfly(t)
    BY <2>4 DEF Unfly, Goto, argVars, contVars
  <2>5. CASE Forget(t)
    BY <2>5 DEF Forget, Goto, argVars, contVars
  <2>. QED BY <2>1, <2>2, <2>3, <2>4, <2>5
<1>3. \A q \in Threads \ {t} : Still(q)
  <2>1. pc' = [pc EXCEPT ![t] = pc'[t]]
    BY <1>2 DEF TypeOK
  <2>2. target' = [target EXCEPT ![t] = target'[t]]
    BY <1>2 DEF TypeOK
  <2>3. onOk' = [onOk EXCEPT ![t] = onOk'[t]]
    BY <1>2 DEF TypeOK
  <2>4. /\ user' = [user EXCEPT ![t] = user'[t]]
        /\ box'  = [box  EXCEPT ![t] = box'[t]]
        /\ seen' = [seen EXCEPT ![t] = seen'[t]]
    BY <1>1 DEF TypeOK
  <2>. QED BY <2>1, <2>2, <2>3, <2>4, OthersStill
<1>4. Idles(t)
  <2>1. pc[t] \in {"enter", "touch", "evict", "unfly", "forget"}
    BY DEF Enter, TouchInternal, MaybeEvict, Unfly, Forget
  <2>2. \/ pc'[t] = "lookup" /\ onOk'[t] = "touch"
        \/ pc'[t] \in {"wait", "evict", "unfly", "wake", "hib_get", "scan"}
    BY DEF Enter, TouchInternal, MaybeEvict, Unfly, Forget, Goto, TypeOK, ReturnsMatch, ReturnsOf
  <2>. QED BY <2>1, <2>2 DEF Idles, Deciding, GetOrResumeSteps
<1>5. Quiet
  BY <1>1 DEF Quiet, providerVars
<1>. QED BY <1>1, <1>3, <1>4, <1>5, QuietKeeps

\* wg.Done.
LEMMA WakeHome ==
    ASSUME IInv, HomeInv, NEW t \in Threads, Wake(t)
    PROVE  HomeInv' /\ Quiet
<1>. USE DEF IInv
<1>1. UNCHANGED <<state, owner, store, user, target, onOk>>
  BY DEF Wake, providerVars, storeVars, argVars, contVars
<1>2. ASSUME NEW q \in Threads PROVE Still(q) \/ Idles(q)
  <2>1. CASE q = t \/ (pc[q] = "wait" /\ waitOn[q] = t)
    <3>1. pc'[q] = "got" /\ pc[q] \in {"wake", "wait"}
      BY <2>1 DEF Wake
    <3>. QED BY <3>1 DEF Idles, Deciding, GetOrResumeSteps
  <2>2. CASE ~(q = t \/ (pc[q] = "wait" /\ waitOn[q] = t))
    <3>1. pc'[q] = pc[q] /\ box'[q] = box[q] /\ seen'[q] = seen[q]
      BY <2>2 DEF Wake
    <3>. QED BY <1>1, <3>1 DEF Still
  <2>. QED BY <2>1, <2>2
<1>3. Quiet
  BY <1>1 DEF Quiet, providerVars
<1>. QED BY <1>1, <1>2, <1>3, QuietKeeps

\* The handlers' and the idle scan's own steps.
LEMMA ServiceHome ==
    ASSUME IInv, HomeInv, NEW t \in Threads,
           \/ \E u \in Users : PostSandbox(t, u)
           \/ \E s \in Sandboxes : PostHibernate(t, s) \/ DeleteSandboxRequest(t, s)
           \/ Reply(t) \/ ScanStart(t) \/ ScanItem(t) \/ ScanEnd(t)
    PROVE  HomeInv' /\ Quiet
<1>. USE DEF IInv
<1>1. UNCHANGED <<state, owner, store>>
  BY DEF PostSandbox, PostHibernate, DeleteSandboxRequest, Reply, ScanStart, ScanItem, ScanEnd,
         providerVars, storeVars
<1>2. /\ UNCHANGED pc \/ \E l : pc' = [pc EXCEPT ![t] = l]
      /\ UNCHANGED user \/ \E u : user' = [user EXCEPT ![t] = u]
      /\ UNCHANGED <<box, seen>> \/ \E b, st : /\ box' = [box EXCEPT ![t] = b]
                                             /\ seen' = [seen EXCEPT ![t] = st]
      /\ UNCHANGED target \/ \E x : target' = [target EXCEPT ![t] = x]
      /\ UNCHANGED onOk \/ \E l : onOk' = [onOk EXCEPT ![t] = l]
  BY DEF PostSandbox, PostHibernate, DeleteSandboxRequest, Reply, ScanStart, ScanItem, ScanEnd,
         Retire, Goto, argVars, resVars, contVars
<1>3. \A q \in Threads \ {t} : Still(q)
  <2>1. /\ pc'   = [pc   EXCEPT ![t] = pc'[t]]
        /\ user' = [user EXCEPT ![t] = user'[t]]
    BY <1>2 DEF TypeOK
  <2>2. /\ box'  = [box  EXCEPT ![t] = box'[t]]
        /\ seen' = [seen EXCEPT ![t] = seen'[t]]
    BY <1>2 DEF TypeOK
  <2>3. /\ target' = [target EXCEPT ![t] = target'[t]]
        /\ onOk'   = [onOk   EXCEPT ![t] = onOk'[t]]
    BY <1>2 DEF TypeOK
  <2>. QED BY <2>1, <2>2, <2>3, OthersStill
<1>4. Idles(t)
  <2>1. pc[t] \in {"idle", "got", "scan"}
    BY DEF PostSandbox, PostHibernate, DeleteSandboxRequest, Reply, ScanStart, ScanItem, ScanEnd
  <2>2. pc'[t] \in {"enter", "hib_get", "del", "idle", "scan"}
    BY DEF PostSandbox, PostHibernate, DeleteSandboxRequest, Reply, ScanStart, ScanItem, ScanEnd,
           Retire, Goto, TypeOK
  <2>. QED BY <2>1, <2>2 DEF Idles, Deciding, GetOrResumeSteps
<1>5. Quiet
  BY <1>1 DEF Quiet, providerVars
<1>. QED BY <1>1, <1>3, <1>4, <1>5, QuietKeeps

\* The provider, the clock, and steps that change nothing.
LEMMA EnvironmentHome ==
    ASSUME IInv, HomeInv,
           \/ \E s \in Sandboxes : \/ ProviderCompletes(s) \/ ProviderAutoStops(s)
                                   \/ Age(s) \/ PoolTouch(s)
           \/ UNCHANGED vars
    PROVE  HomeInv' /\ Quiet
<1>1. Quiet
  BY EnvironmentQuiet DEF ProviderCompletes, ProviderAutoStops, Age, PoolTouch, vars,
     providerVars, Quiet
<1>2. UNCHANGED <<store, pc, user, box, seen, target, onOk>>
  BY DEF ProviderCompletes, ProviderAutoStops, Age, PoolTouch, vars, storeVars, threadVars
<1>3. \A q \in Threads : Still(q)
  BY <1>2 DEF Still
<1>. QED BY <1>1, <1>2, <1>3, QuietKeeps

\* Every step keeps HomeInv, and either gives a user a new sandbox, changes the
\* state of one sandbox or leaves the provider alone.
LEMMA StepHome ==
    ASSUME IInv, HomeInv, Reliable, [NextBeforeDelete]_vars
    PROVE  HomeInv' /\ (Quiet \/ \E t \in Threads, s \in Sandboxes : Makes(t, s))
<1>1. ASSUME NEW t \in Threads, PoolStep(t)
      PROVE  HomeInv' /\ (Quiet \/ \E s \in Sandboxes : Makes(t, s))
  BY <1>1, PoolHome, WakeHome, PassingKeeps, LookupKeeps, FetchKeeps, FindKeeps, UpsertKeeps,
     DestroyKeeps, CreateHome DEF PoolStep, OrchestratorStep
<1>2. ASSUME NEW t \in Handlers, HandlerRequest(t) \/ HandlerStep(t)
      PROVE  HomeInv' /\ (Quiet \/ \E s \in Sandboxes : Makes(t, s))
  <2>1. t \in Threads
    BY ServiceAssumption
  <2>2. CASE HandlerRequest(t)
    BY <2>1, <2>2, ServiceHome DEF HandlerRequest, Reliable
  <2>3. CASE HandlerStep(t)
    BY <1>1, <2>1, <2>3, ServiceHome DEF HandlerStep
  <2>. QED BY <1>2, <2>2, <2>3
<1>3. ASSUME NEW t \in Scanners, ScannerStep(t)
      PROVE  HomeInv' /\ (Quiet \/ \E s \in Sandboxes : Makes(t, s))
  <2>1. t \in Threads
    BY ServiceAssumption
  <2>. QED BY <1>1, <1>3, <2>1, ServiceHome DEF ScannerStep
<1>4. CASE \E s \in Sandboxes : \/ ProviderCompletes(s) \/ ProviderAutoStops(s)
                                \/ Age(s) \/ PoolTouch(s)
  BY <1>4, EnvironmentHome
<1>5. CASE Restart /\ \A s \in Sandboxes : state[s] # "destroyed"
  BY <1>5, RestartHome
<1>6. CASE UNCHANGED vars
  BY <1>6, EnvironmentHome
<1>7. Handlers \cup Scanners \subseteq Threads
  BY ServiceAssumption
<1>8. CASE Running
  BY <1>2, <1>3, <1>4, <1>7, <1>8 DEF Running
<1>. QED BY <1>5, <1>6, <1>8 DEF NextBeforeDelete

\* HomeInv holds while nobody has a sandbox.
LEMMA InitHome == Init => HomeInv
BY DEF Init, ProviderInit, OrchestratorInit, HomeInv, OneSandboxPerUser, Alive, HomesKnown,
       HomesOf, Decides, GetOrResumeSteps

\* A restart before a delete is a restart.
LEMMA BeforeDelete == [NextBeforeDelete]_vars => [Next]_vars
BY DEF NextBeforeDelete, Next

-----------------------------------------------------------------------------
(***************************************************************************)
(* The refinement of UserSandbox.                                          *)
(***************************************************************************)
\* CreateSandbox assigns the user a sandbox nobody has had.
LEMMA MakesAssigns ==
    ASSUME IInv, HomeInv, NEW t \in Threads, NEW s \in Sandboxes, Makes(t, s)
    PROVE  Promise!Assign(user[t], s) /\ user[t] \in Users
<1>. USE DEF IInv
<1>1. user[t] \in Users /\ HomesOf(user[t]) = {}
  BY SoleFlight DEF Makes, GetOrResumeSteps, HomeInv, Decides
<1>2. /\ state[s] = "absent" /\ owner[s] \notin Users
      /\ state'[s] = "provisioning" /\ owner'[s] = user[t]
      /\ \A x \in Sandboxes \ {s} : state'[x] = state[x] /\ owner'[x] = owner[x]
  BY DEF Makes, Exists, OwnersKnown, TypeOK, ProviderTypeOK
<1>3. home[user[t]] = {}
  BY <1>1 DEF home, HomesOf
<1>4. s \notin retired /\ \A v \in Users : s \notin home[v]
  BY <1>2 DEF retired, home
<1>5. home' = [home EXCEPT ![user[t]] = {s}]
  <2>1. home'[user[t]] = {s}
    BY <1>1, <1>2 DEF home, HomesOf, Alive
  <2>2. \A v \in Users \ {user[t]} : home'[v] = home[v]
    BY <1>2 DEF home, Alive
  <2>. QED BY <2>1, <2>2 DEF home
<1>6. up' = up \cup {user[t]}
  <2>1. \A v \in Users \ {user[t]} : home'[v] = home[v] /\ s \notin home[v]
    BY <1>1, <1>4, <1>5 DEF home
  <2>2. \A v \in Users \ {user[t]} : v \in up' <=> v \in up
    <3>1. \A v \in Users \ {user[t]} : \A y \in home[v] : y \in Sandboxes \ {s}
      BY <2>1 DEF home
    <3>. QED BY <1>2, <2>1, <3>1 DEF up
  <2>3. s \in home'[user[t]]
    BY <1>1, <1>5 DEF home
  <2>4. user[t] \in up'
    BY <1>1, <1>2, <2>3 DEF up
  <2>. QED BY <1>1, <2>2, <2>4 DEF up
<1>7. retired' = retired
  BY <1>2 DEF retired
<1>. QED BY <1>1, <1>3, <1>4, <1>5, <1>6, <1>7 DEF Promise!Assign

\* A change of state resumes, suspends or releases the sandbox of one user.
LEMMA TurnsPromised ==
    ASSUME IInv, HomeInv, Turns
    PROVE  \E u \in Users : Promise!Resume(u) \/ Promise!Suspend(u) \/ Promise!Release(u)
<1>. USE DEF IInv
<1>1. PICK s \in Sandboxes, x \in ProviderStates \ {"absent"} :
         Alive(s) /\ state' = [state EXCEPT ![s] = x]
  BY DEF Turns
<1>2. UNCHANGED owner
  BY DEF Turns
<1>. DEFINE u == owner[s]
<1>3. u \in Users
  BY <1>1 DEF OwnersKnown, Exists, Alive
<1>4. home[u] = {s}
  BY <1>1, <1>3 DEF home, HomeInv, OneSandboxPerUser
<1>5. state'[s] = x /\ \A y \in Sandboxes \ {s} : state'[y] = state[y]
  BY <1>1 DEF TypeOK, ProviderTypeOK
<1>6. \A v \in Users \ {u} : home'[v] = home[v] /\ (v \in up' <=> v \in up)
  <2>1. \A v \in Users \ {u} : home'[v] = home[v] /\ s \notin home[v]
    BY <1>2, <1>5 DEF home, Alive
  <2>. QED BY <1>5, <2>1 DEF up, home
<1>. HIDE DEF u
<1>7. CASE x \in {"provisioning", "running"}
  <2>1. home'[u] = {s}
    BY <1>1, <1>2, <1>4, <1>5, <1>7 DEF home, Alive
  <2>2. home' = home
    BY <1>4, <1>6, <2>1 DEF home
  <2>3. u \in up'
    BY <1>3, <1>5, <1>7, <2>1 DEF up
  <2>4. up' = up \cup {u}
    BY <1>3, <1>6, <2>3 DEF up
  <2>5. retired' = retired
    BY <1>1, <1>5, <1>7 DEF retired, Alive
  <2>. QED BY <1>3, <1>4, <2>2, <2>4, <2>5 DEF Promise!Resume
<1>8. CASE x \in {"stopping", "hibernated"}
  <2>1. home'[u] = {s}
    BY <1>1, <1>2, <1>4, <1>5, <1>8 DEF home, Alive
  <2>2. home' = home
    BY <1>4, <1>6, <2>1 DEF home
  <2>3. u \notin up'
    BY <1>5, <1>8, <2>1 DEF up
  <2>4. up' = up \ {u}
    BY <1>3, <1>6, <2>3 DEF up
  <2>5. retired' = retired
    BY <1>1, <1>5, <1>8 DEF retired, Alive
  <2>. QED BY <1>3, <2>2, <2>4, <2>5 DEF Promise!Suspend
<1>9. CASE x = "destroyed"
  <2>1. home'[u] = {}
    <3>1. \A y \in Sandboxes \ {s} : ~(Alive(y) /\ owner[y] = u)
      BY <1>3, <1>4 DEF home
    <3>2. \A y \in Sandboxes : ~(Alive(y)' /\ owner'[y] = u)
      BY <1>2, <1>5, <1>9, <3>1 DEF Alive
    <3>. QED BY <1>3, <3>2 DEF home
  <2>2. home' = [home EXCEPT ![u] = {}]
    BY <1>6, <2>1 DEF home
  <2>3. u \notin up'
    BY <2>1 DEF up
  <2>4. up' = up \ {u}
    BY <1>3, <1>6, <2>3 DEF up
  <2>5. retired' = retired \cup home[u]
    BY <1>1, <1>4, <1>5, <1>9 DEF retired, Alive
  <2>. QED BY <1>3, <1>4, <2>2, <2>4, <2>5 DEF Promise!Release
<1>. QED BY <1>7, <1>8, <1>9 DEF ProviderStates

\* A step that leaves the provider alone is invisible to the clients.
LEMMA SameProvider ==
    ASSUME UNCHANGED providerVars
    PROVE  UNCHANGED <<home, up, retired>>
BY DEF providerVars, home, up, retired, Alive

\* Every step is a step of UserSandbox or invisible to it.
LEMMA StepPromised ==
    ASSUME IInv, HomeInv, Reliable, [NextBeforeDelete]_vars
    PROVE  [Promise!Next]_<<home, up, retired>>
<1>1. Quiet \/ \E t \in Threads, s \in Sandboxes : Makes(t, s)
  BY StepHome
<1>2. CASE \E t \in Threads, s \in Sandboxes : Makes(t, s)
  BY <1>2, MakesAssigns DEF Promise!Next
<1>3. CASE Turns
  BY <1>3, TurnsPromised DEF Promise!Next
<1>4. CASE UNCHANGED providerVars
  BY <1>4, SameProvider
<1>. QED BY <1>1, <1>2, <1>3, <1>4 DEF Quiet

\* The service starts where UserSandbox does.
LEMMA InitPromised == Init => Promise!Init
BY DEF Init, ProviderInit, Promise!Init, home, up, retired, Alive

-----------------------------------------------------------------------------
\* Both invariants, in every reachable state.
LEMMA HomeInvariance ==
    ASSUME Reliable
    PROVE  SpecBeforeDelete => [](IInv /\ HomeInv)
<1>1. Init => IInv /\ HomeInv
  BY InitIInv, InitHome
<1>2. IInv /\ HomeInv /\ [NextBeforeDelete]_vars => (IInv /\ HomeInv)'
  BY NextKeeps, BeforeDelete, StepHome
<1>. QED BY <1>1, <1>2, PTL DEF SpecBeforeDelete

\* "One sandbox per user_id, persistent": with the REST client and no transport
\* faults no interleaving of requests, evictions, idle scans and restarts leaves a
\* user with two sandboxes, as long as nothing goes past the single flight
\* (POST .../resume) and no restart follows a delete.
THEOREM OneSandbox ==
    ASSUME Live, Faults = {}, "resume" \notin Ops
    PROVE  SpecBeforeDelete => []OneSandboxPerUser
<1>1. Reliable
  BY DEF Reliable
<1>2. IInv /\ HomeInv => OneSandboxPerUser
  BY DEF HomeInv
<1>. QED BY <1>1, <1>2, HomeInvariance, PTL

\* Under the same conditions the service implements UserSandbox: a user keeps the
\* sandbox it was given until a DELETE, and a deleted one never comes back.
THEOREM KeepsPromise ==
    ASSUME Live, Faults = {}, "resume" \notin Ops
    PROVE  SpecBeforeDelete => ImplementsUserSandbox
<1>1. Reliable
  BY DEF Reliable
<1>2. Init => Promise!Init
  BY InitPromised
<1>3. IInv /\ HomeInv /\ [NextBeforeDelete]_vars => [Promise!Next]_<<home, up, retired>>
  BY <1>1, StepPromised
<1>. QED BY <1>1, <1>2, <1>3, HomeInvariance, PTL
     DEF SpecBeforeDelete, ImplementsUserSandbox, Promise!Spec
=============================================================================
