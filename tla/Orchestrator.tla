---------------------------- MODULE Orchestrator ----------------------------
(***************************************************************************)
(* internal/orchestrator/sandbox.go: the Orchestrator with its in-memory   *)
(* SandboxStore.  Its methods GetOrResume (with Create), Hibernate and     *)
(* Destroy are subroutines that a thread (a goroutine of the service) runs *)
(* one provider call or one store call at a time; other threads interleave *)
(* between the calls, for nothing in the Orchestrator serialises them.     *)
(*                                                                         *)
(* A thread calls a subroutine by moving to its first step with its        *)
(* arguments in user or target; the subroutine leaves to onOk or onErr.    *)
(***************************************************************************)
EXTENDS DaytonaClient

CONSTANT Threads

VARIABLES
    store,   \* userToSandbox of the in-memory SandboxStore
    pc,      \* the step each thread is at
    user,    \* argument of the GetOrResume the thread is in
    box,     \* the sandbox GetOrResume has in hand, then its result
    seen,    \* the state of box as the provider reported it
    target,  \* argument of Hibernate and Destroy
    onOk,    \* where the subroutine returns without error
    onErr    \* where it returns with an error

storeVars == <<store>>
argVars   == <<user, target>>
resVars   == <<box, seen>>
contVars  == <<onOk, onErr>>
threadVars == <<pc, user, box, seen, target, onOk, onErr>>

OrchestratorInit ==
    /\ store  = [u \in Users |-> NoSandbox]
    /\ pc     = [t \in Threads |-> "idle"]
    /\ user   = [t \in Threads |-> NoUser]
    /\ box    = [t \in Threads |-> NoSandbox]
    /\ seen   = [t \in Threads |-> "none"]
    /\ target = [t \in Threads |-> NoSandbox]
    /\ onOk   = [t \in Threads |-> "idle"]
    /\ onErr  = [t \in Threads |-> "idle"]

ReadStates == {"none", "provisioning", "running", "hibernated", "destroyed"}

GetOrResumeSteps ==
    {"lookup", "fetch", "find", "adopt", "create", "record", "start", "started"}
HibernateSteps   == {"hib_get", "hib_stop", "stopped"}
DestroySteps     == {"del", "unstore"}

Goto(t, label) == pc' = [pc EXCEPT ![t] = label]

\* Result of GetOrResume: a sandbox and the state it was read in.
Hold(t, s, st) ==
    /\ box'  = [box  EXCEPT ![t] = s]
    /\ seen' = [seen EXCEPT ![t] = st]

-----------------------------------------------------------------------------
(***************************************************************************)
(* GetOrResume(user): store, then label search, then Create.               *)
(***************************************************************************)
Lookup(t) ==
    /\ pc[t] = "lookup"
    /\ Hold(t, store[user[t]], "none")
    /\ Goto(t, IF store[user[t]] = NoSandbox THEN "find" ELSE "fetch")
    /\ UNCHANGED <<providerVars, storeVars, argVars, contVars>>

\* Mutant: a hibernated sandbox is returned as it is.
Dispatch_NoStart(t, st) == IF st = "destroyed" THEN "create" ELSE onOk[t]

\* What GetOrResume does with a sandbox read in state st.
Dispatch(t, st) ==
    IF st = "destroyed" THEN "create"
    ELSE IF st = "hibernated" THEN "start"
    ELSE onOk[t]

Fetch(t) ==
    /\ pc[t] = "fetch"
    /\ \/ /\ GetSandbox(box[t], TRUE)
          /\ Hold(t, box[t], Observed(box[t]))
          /\ Goto(t, Dispatch(t, Observed(box[t])))
       \/ /\ GetSandbox(box[t], FALSE)
          /\ Hold(t, NoSandbox, "none")
          /\ Goto(t, "find")
    /\ UNCHANGED <<storeVars, argVars, contVars>>

Find(t) ==
    /\ pc[t] = "find"
    /\ \E s \in Sandboxes \cup {NoSandbox} :
          /\ FindByLabel(user[t], s)
          /\ Hold(t, s, IF s = NoSandbox THEN "none" ELSE Observed(s))
          /\ Goto(t, IF s = NoSandbox THEN "create" ELSE "adopt")
    /\ UNCHANGED <<storeVars, argVars, contVars>>

\* store.Upsert of the sandbox the label search returned.
Adopt(t) ==
    /\ pc[t] = "adopt"
    /\ store' = [store EXCEPT ![user[t]] = box[t]]
    /\ Goto(t, Dispatch(t, seen[t]))
    /\ UNCHANGED <<providerVars, argVars, resVars, contVars>>

\* Create, its retries included.  A refusal "not in a ready state" changes
\* nothing, so the retry loop ends as one call that succeeds or fails.
Create(t) ==
    /\ pc[t] = "create"
    /\ \E s \in Sandboxes \cup {NoSandbox}, ok \in BOOLEAN :
          /\ CreateSandbox(user[t], s, ok)
          /\ IF ok THEN /\ Hold(t, s, Created)
                        /\ Goto(t, "record")
                   ELSE /\ Hold(t, NoSandbox, "none")
                        /\ Goto(t, onErr[t])
    /\ UNCHANGED <<storeVars, argVars, contVars>>

\* store.Upsert of the sandbox just created.
Record(t) ==
    /\ pc[t] = "record"
    /\ store' = [store EXCEPT ![user[t]] = box[t]]
    /\ Goto(t, onOk[t])
    /\ UNCHANGED <<providerVars, argVars, resVars, contVars>>

Start(t) ==
    /\ pc[t] = "start"
    /\ \E ok \in BOOLEAN :
          /\ StartSandbox(box[t], ok)
          /\ IF ok THEN /\ Hold(t, box[t], "running")
                        /\ Goto(t, IF Live THEN "started" ELSE onOk[t])
                   ELSE /\ Hold(t, NoSandbox, "none")
                        /\ Goto(t, onErr[t])
    /\ UNCHANGED <<storeVars, argVars, contVars>>

\* The REST client reads the sandbox again after POST .../start and returns
\* whatever state that second request sees.
Started(t) ==
    /\ pc[t] = "started"
    /\ \/ /\ GetSandbox(box[t], TRUE)
          /\ Hold(t, box[t], Observed(box[t]))
          /\ Goto(t, onOk[t])
       \/ /\ GetSandbox(box[t], FALSE)
          /\ Hold(t, NoSandbox, "none")
          /\ Goto(t, onErr[t])
    /\ UNCHANGED <<storeVars, argVars, contVars>>

-----------------------------------------------------------------------------
(***************************************************************************)
(* Hibernate(target): idempotent on a hibernated sandbox, an error on a    *)
(* destroyed one.  The state is read by one call and changed by another.   *)
(***************************************************************************)
HibernateGet(t) ==
    /\ pc[t] = "hib_get"
    /\ \/ /\ GetSandbox(target[t], TRUE)
          /\ Goto(t, CASE Observed(target[t]) = "hibernated" -> onOk[t]
                       [] Observed(target[t]) = "destroyed"  -> onErr[t]
                       [] OTHER -> "hib_stop")
       \/ /\ GetSandbox(target[t], FALSE)
          /\ Goto(t, onErr[t])
    /\ UNCHANGED <<storeVars, argVars, resVars, contVars>>

HibernateStop(t) ==
    /\ pc[t] = "hib_stop"
    /\ \E ok \in BOOLEAN :
          /\ StopSandbox(target[t], ok)
          /\ Goto(t, IF ~ok THEN onErr[t] ELSE IF Live THEN "stopped" ELSE onOk[t])
    /\ UNCHANGED <<storeVars, argVars, resVars, contVars>>

\* The same after POST .../stop, of which only the error is used.
Stopped(t) ==
    /\ pc[t] = "stopped"
    /\ \E ok \in BOOLEAN :
          /\ GetSandbox(target[t], ok)
          /\ Goto(t, IF ok THEN onOk[t] ELSE onErr[t])
    /\ UNCHANGED <<storeVars, argVars, resVars, contVars>>

(***************************************************************************)
(* Destroy(target): delete at the provider, then forget every user whose   *)
(* entry names the sandbox.                                                *)
(***************************************************************************)
DestroyDelete(t) ==
    /\ pc[t] = "del"
    /\ \E ok \in BOOLEAN :
          /\ DeleteSandbox(target[t], ok)
          /\ Goto(t, IF ok THEN "unstore" ELSE onErr[t])
    /\ UNCHANGED <<storeVars, argVars, resVars, contVars>>

DestroyUnstore(t) ==
    /\ pc[t] = "unstore"
    /\ store' = [u \in Users |-> IF store[u] = target[t] THEN NoSandbox ELSE store[u]]
    /\ Goto(t, onOk[t])
    /\ UNCHANGED <<providerVars, argVars, resVars, contVars>>

OrchestratorStep(t) ==
    \/ Lookup(t) \/ Fetch(t) \/ Find(t) \/ Adopt(t)
    \/ Create(t) \/ Record(t) \/ Start(t) \/ Started(t)
    \/ HibernateGet(t) \/ HibernateStop(t) \/ Stopped(t)
    \/ DestroyDelete(t) \/ DestroyUnstore(t)
=============================================================================
