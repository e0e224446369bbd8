--------------------------- MODULE DaytonaClient ---------------------------
(***************************************************************************)
(* The sandbox provider as the orchestrator sees it through the interface  *)
(* DaytonaClient: the sandboxes that exist, the state of each one and the  *)
(* user it is labelled with.  The repository has two implementations and   *)
(* the constant Live selects one:                                          *)
(*                                                                         *)
(*   Live = FALSE   daytona_client_fake.go, the in-memory client that      *)
(*                  cmd/orchestrator/main.go uses without an API key;      *)
(*   Live = TRUE    daytona_client.go, the REST client.  Provider states   *)
(*                  are folded by NormalizeState, and start and stop only  *)
(*                  request a transition the provider completes later.     *)
(*                                                                         *)
(* A call may also fail in transport.  Faults is the set of ways it can:   *)
(* "request_lost" leaves the provider unchanged, "reply_lost" lets the     *)
(* call take effect although the caller gets an error.                     *)
(***************************************************************************)
CONSTANTS Users, Sandboxes, NoUser, NoSandbox, Live, Faults

ASSUME ClientAssumption ==
    /\ NoUser \notin Users
    /\ NoSandbox \notin Sandboxes
    /\ Live \in BOOLEAN
    /\ Faults \subseteq {"request_lost", "reply_lost"}

VARIABLES
    state,  \* state of each sandbox id at the provider
    owner   \* label openclaw.user_id of each existing sandbox

providerVars == <<state, owner>>

ProviderStates ==
    {"absent", "provisioning", "running", "stopping", "hibernated", "destroyed"}

ProviderTypeOK ==
    /\ state \in [Sandboxes -> ProviderStates]
    /\ owner \in [Sandboxes -> Users \cup {NoUser}]

ProviderInit ==
    /\ state = [s \in Sandboxes |-> "absent"]
    /\ owner = [s \in Sandboxes |-> NoUser]

Exists(s) == state[s] # "absent"

\* NormalizeState: what the orchestrator reads.  A sandbox that is stopping
\* is still reported as running.
Observed(s) == IF state[s] = "stopping" THEN "running" ELSE state[s]

RequestLost == "request_lost" \in Faults
ReplyLost   == "reply_lost" \in Faults

-----------------------------------------------------------------------------
(***************************************************************************)
(* The calls.  ok tells whether the caller gets a result or an error.      *)
(***************************************************************************)
GetSandbox(s, ok) ==
    /\ IF ok THEN s \in Sandboxes /\ Exists(s)
             ELSE \/ ~Exists(s)
                  \/ Live /\ state[s] = "destroyed"
                  \/ Faults # {}
    /\ UNCHANGED providerVars

\* Mutant: the label search compares the key and not the value.
LiveLabelled_AnyUser(u) == {s \in Sandboxes : owner[s] # NoUser}

\* The sandboxes a label search can return: the fake skips destroyed ones, the
\* REST client takes the first of the list that carries the label.
FakeLabelled(u) == {s \in Sandboxes : owner[s] = u /\ state[s] # "destroyed"}
LiveLabelled(u) == {s \in Sandboxes : owner[s] = u}
Labelled(u)     == IF Live THEN LiveLabelled(u) ELSE FakeLabelled(u)

\* Mutant: the label search is left out.
FindByLabel_Never(u, s) == s = NoSandbox /\ UNCHANGED providerVars

\* s = NoSandbox stands for both "nothing found" and an error: the caller
\* does not tell them apart.
FindByLabel(u, s) ==
    /\ \/ s \in Labelled(u)
       \/ s = NoSandbox /\ (Labelled(u) = {} \/ Faults # {})
    /\ UNCHANGED providerVars

\* A created sandbox runs at once on the fake and is "creating" on the REST
\* provider.  s is the id the provider allots; with none left it refuses.
Created == IF Live THEN "provisioning" ELSE "running"

CreateSandbox(u, s, ok) ==
    \/ /\ s \in Sandboxes /\ ~Exists(s)
       /\ ok \/ ReplyLost
       /\ state' = [state EXCEPT ![s] = Created]
       /\ owner' = [owner EXCEPT ![s] = u]
    \/ /\ s = NoSandbox /\ ~ok
       /\ RequestLost \/ \A x \in Sandboxes : Exists(x)
       /\ UNCHANGED providerVars

\* A call that changes the state of an existing sandbox to Effect when the
\* provider accepts it.
Transition(s, ok, Accepted, Effect) ==
    /\ \/ /\ Accepted
          /\ ok \/ ReplyLost
          /\ state' = [state EXCEPT ![s] = Effect]
       \/ /\ ~ok
          /\ ~Accepted \/ RequestLost
          /\ UNCHANGED state
    /\ UNCHANGED owner

\* The fake starts whatever exists, a destroyed sandbox too.
FakeStartSandbox(s, ok) == Transition(s, ok, Exists(s), "running")

LiveStartSandbox(s, ok) ==
    Transition(s, ok, state[s] \notin {"absent", "stopping", "destroyed"},
               IF state[s] = "running" THEN "running" ELSE "provisioning")

StartSandbox(s, ok) ==
    IF Live THEN LiveStartSandbox(s, ok) ELSE FakeStartSandbox(s, ok)

\* Likewise the fake stops whatever exists.
FakeStopSandbox(s, ok) == Transition(s, ok, Exists(s), "hibernated")

LiveStopSandbox(s, ok) ==
    Transition(s, ok, state[s] \notin {"absent", "provisioning", "destroyed"},
               IF state[s] = "running" THEN "stopping" ELSE state[s])

StopSandbox(s, ok) ==
    IF Live THEN LiveStopSandbox(s, ok) ELSE FakeStopSandbox(s, ok)

\* Deleting an unknown sandbox succeeds on the fake and changes nothing.
FakeDeleteSandbox(s, ok) ==
    IF Exists(s) THEN Transition(s, ok, TRUE, "destroyed")
    ELSE ok /\ UNCHANGED providerVars

LiveDeleteSandbox(s, ok) ==
    Transition(s, ok, state[s] \notin {"absent", "destroyed"}, "destroyed")

DeleteSandbox(s, ok) ==
    IF Live THEN LiveDeleteSandbox(s, ok) ELSE FakeDeleteSandbox(s, ok)

-----------------------------------------------------------------------------
(***************************************************************************)
(* What the live provider does on its own: it completes a start and a      *)
(* stop, and stops a sandbox whose autoStopInterval expired.               *)
(***************************************************************************)
CompleteStart(s) ==
    /\ state[s] = "provisioning"
    /\ state' = [state EXCEPT ![s] = "running"]
    /\ UNCHANGED owner

CompleteStop(s) ==
    /\ state[s] = "stopping"
    /\ state' = [state EXCEPT ![s] = "hibernated"]
    /\ UNCHANGED owner

AutoStop(s) ==
    /\ Live
    /\ state[s] = "running"
    /\ state' = [state EXCEPT ![s] = "stopping"]
    /\ UNCHANGED owner
=============================================================================
