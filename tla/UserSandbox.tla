---------------------------- MODULE UserSandbox ----------------------------
(***************************************************************************)
(* What the orchestrator promises, without threads, caches or providers:   *)
(* every user has at most one sandbox, keeps it across hibernation and     *)
(* restarts of the service, and loses it only to a DELETE, for good.       *)
(***************************************************************************)
CONSTANTS Users, Sandboxes

VARIABLES
    home,    \* the sandboxes of each user: none or one
    up,      \* users whose sandbox is running or on its way to
    retired  \* sandboxes that were deleted

Init ==
    /\ home = [u \in Users |-> {}]
    /\ up = {}
    /\ retired = {}

\* GetOrResume for a user without a sandbox: a new one, nobody else's.
Assign(u, s) ==
    /\ home[u] = {}
    /\ s \notin retired
    /\ \A v \in Users : s \notin home[v]
    /\ home' = [home EXCEPT ![u] = {s}]
    /\ up' = up \cup {u}
    /\ UNCHANGED retired

\* GetOrResume for a user whose sandbox is hibernated.
Resume(u) ==
    /\ home[u] # {}
    /\ up' = up \cup {u}
    /\ UNCHANGED <<home, retired>>

\* Hibernation by the idle scan, by eviction, on request or by the provider.
Suspend(u) ==
    /\ up' = up \ {u}
    /\ UNCHANGED <<home, retired>>

\* DELETE of the user's sandbox.
Release(u) ==
    /\ home[u] # {}
    /\ home' = [home EXCEPT ![u] = {}]
    /\ up' = up \ {u}
    /\ retired' = retired \cup home[u]

Next ==
    \E u \in Users :
        \/ \E s \in Sandboxes : Assign(u, s)
        \/ Resume(u)
        \/ Suspend(u)
        \/ Release(u)

Spec == Init /\ [][Next]_<<home, up, retired>>
=============================================================================
