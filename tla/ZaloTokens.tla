------------------------------ MODULE ZaloTokens ------------------------------
(***************************************************************************)
(* The Zalo access token (adapters/zalo): the refresh loop, a refresh      *)
(* asked for by hand, and sends that are refused after a long failure.     *)
(*                                                                         *)
(* A token pair is the number of its issue.  Zalo takes a refresh token    *)
(* once; what it answers may be lost, be an error, carry a short life, or  *)
(* be an access token alone, which leaves the refresh token as it was.     *)
(***************************************************************************)
EXTENDS Integers, Sequences, FiniteSetsExt

CONSTANTS
    Loops,              \* goroutines of Start
    Manual,             \* goroutines that call RefreshNow
    ValidityS, LeadS, DisableS,
    BackoffBase,        \* backoffBaseSeconds
    Lifetimes,          \* what expires_in may say
    MaxClock, MaxIssued

ASSUME TokenAssumption ==
    /\ LeadS \in Nat /\ LeadS > 0 /\ ValidityS > LeadS /\ DisableS \in Nat
    /\ BackoffBase # <<>> /\ MaxClock \in Nat /\ MaxIssued \in Nat

VARIABLES
    clock,
    token,              \* the TokenRefresher's fields
    current,            \* the loop that loopCancel cancels, or "none"
    refreshing,         \* goroutine -> [pc, until, cancelled, used, reply]
    awaited,            \* the loop a call of Stop waits for, or "none"
    issued, lost,       \* Zalo's last pair; whether its reply got lost
    putBack             \* an older pair was written over the stored one
tokenVars == <<clock, token, current, refreshing, awaited, issued, lost, putBack>>

Refreshers == Loops \union Manual
Quiet == [pc |-> "none", until |-> 0, cancelled |-> FALSE, used |-> 0, reply |-> "none", life |-> 0]

TokenInit ==
    /\ clock = 0 /\ issued = 0 /\ lost = FALSE /\ putBack = FALSE
    /\ token = [pair |-> 0, validityS |-> ValidityS, issuedAt |-> 0, failures |-> 0,
                firstFailureAt |-> -1, sendDisabled |-> FALSE]
    /\ current = "none" /\ awaited = "none"
    /\ refreshing = [g \in Refreshers |-> Quiet]

Tick == clock < MaxClock /\ clock' = clock + 1
        /\ UNCHANGED <<token, current, refreshing, awaited, issued, lost, putBack>>

NextWaitS ==
    IF token.failures = 0
    THEN Max({0, token.validityS - LeadS - (clock - token.issuedAt)})
    ELSE Min({BackoffBase[Min({token.failures, Len(BackoffBase)})], LeadS})

-----------------------------------------------------------------------------
(***************************************************************************)
(* Start, Stop and the loop.                                               *)
(***************************************************************************)
Start(g) ==
    /\ current = "none" /\ refreshing[g].pc = "none"
    /\ current' = g
    /\ refreshing' = [refreshing EXCEPT ![g].pc = "loop"]
    /\ UNCHANGED <<clock, token, awaited, issued, lost, putBack>>

StopLoop ==
    /\ current # "none" /\ awaited = "none"
    /\ current' = "none" /\ awaited' = current
    /\ refreshing' = [refreshing EXCEPT ![current].cancelled = TRUE]
    /\ UNCHANGED <<clock, token, issued, lost, putBack>>

StopDone ==
    /\ awaited # "none" /\ refreshing[awaited].pc = "ended"
    /\ awaited' = "none"
    /\ UNCHANGED <<clock, token, current, refreshing, issued, lost, putBack>>

Sleep(g) ==
    /\ refreshing[g].pc = "loop"
    /\ refreshing' = IF refreshing[g].cancelled
                     THEN [refreshing EXCEPT ![g].pc = "ended"]
                     ELSE [refreshing EXCEPT ![g].pc = "sleep", ![g].until = clock + NextWaitS]
    /\ UNCHANGED <<clock, token, current, awaited, issued, lost, putBack>>

Wake(g) ==
    /\ refreshing[g].pc = "sleep"
    /\ \/ refreshing[g].cancelled
          /\ refreshing' = [refreshing EXCEPT ![g].pc = "ended"]
       \/ ~refreshing[g].cancelled /\ clock >= refreshing[g].until
          /\ refreshing' = [refreshing EXCEPT ![g].pc = "ask", ![g].used = token.pair]
    /\ UNCHANGED <<clock, token, current, awaited, issued, lost, putBack>>

-----------------------------------------------------------------------------
(***************************************************************************)
(* RefreshNow.                                                             *)
(***************************************************************************)
RefreshNow(g) ==
    /\ g \in Manual /\ refreshing[g].pc = "none"
    /\ refreshing' = [refreshing EXCEPT ![g].pc = "ask", ![g].used = token.pair]
    /\ UNCHANGED <<clock, token, current, awaited, issued, lost, putBack>>

\* Zalo: the next pair, or an access token alone, for its last refresh token;
\* an error for another.
Ask(g) ==
    /\ refreshing[g].pc = "ask"
    /\ \/ /\ refreshing[g].used = issued /\ issued < MaxIssued
          /\ issued' = issued + 1
          /\ \/ /\ \E life \in Lifetimes :
                     refreshing' = [refreshing EXCEPT ![g].pc = "reply",
                                        ![g].reply = "pair", ![g].life = life]
                /\ UNCHANGED lost
             \/ lost' = TRUE
                /\ refreshing' = [refreshing EXCEPT ![g].pc = "reply", ![g].reply = "error"]
       \/ /\ refreshing[g].used = issued
          /\ \E life \in Lifetimes :
               refreshing' = [refreshing EXCEPT ![g].pc = "reply",
                                  ![g].reply = "access", ![g].life = life]
          /\ UNCHANGED <<issued, lost>>
       \/ refreshing' = [refreshing EXCEPT ![g].pc = "reply", ![g].reply = "error"]
          /\ UNCHANGED <<issued, lost>>
    /\ UNCHANGED <<clock, token, current, awaited, putBack>>

\* Without a refresh token in the answer, the stored one is read to be kept.
Reread(g) ==
    /\ refreshing[g].reply = "access"
    /\ refreshing' = [refreshing EXCEPT ![g].reply = "kept", ![g].used = token.pair]
    /\ UNCHANGED <<clock, token, current, awaited, issued, lost, putBack>>

\* A manual refresh is over for good, a loop goes on.
Again(g) == refreshing' = [refreshing EXCEPT
    ![g] = [Quiet EXCEPT !.pc = IF g \in Manual THEN "ended" ELSE "loop",
                         !.cancelled = refreshing[g].cancelled]]

\* onSuccess writes the refresh token it was called with, under the lock but
\* without a look at the one it replaces.
Written(g) == IF refreshing[g].reply = "pair" THEN refreshing[g].used + 1 ELSE refreshing[g].used
PutsBack(g) ==
    putBack' = (refreshing[g].reply = "kept" /\ (putBack \/ refreshing[g].used < token.pair))
Renewed(g, pair) ==
    [pair |-> pair, validityS |-> refreshing[g].life, issuedAt |-> clock,
     failures |-> 0, firstFailureAt |-> -1, sendDisabled |-> FALSE]

\* Mutant: the start of the failure is not forgotten.
OnSuccess_KeepFirst(g) ==
    /\ refreshing[g].reply \in {"pair", "kept"}
    /\ token' = [Renewed(g, Written(g)) EXCEPT !.firstFailureAt = token.firstFailureAt]
    /\ PutsBack(g) /\ Again(g)
    /\ UNCHANGED <<clock, current, awaited, issued, lost>>
\* Mutant: the refresh token is kept.
OnSuccess_OldRefresh(g) ==
    /\ refreshing[g].reply \in {"pair", "kept"}
    /\ token' = Renewed(g, refreshing[g].used)
    /\ PutsBack(g) /\ Again(g)
    /\ UNCHANGED <<clock, current, awaited, issued, lost>>
OnSuccess(g) ==
    /\ refreshing[g].reply \in {"pair", "kept"}
    /\ token' = Renewed(g, Written(g))
    /\ PutsBack(g) /\ Again(g)
    /\ UNCHANGED <<clock, current, awaited, issued, lost>>

OnFailure(g) ==
    LET first == IF token.firstFailureAt = -1 THEN clock ELSE token.firstFailureAt IN
    /\ refreshing[g].reply = "error"
    /\ token' = [token EXCEPT !.failures = @ + 1, !.firstFailureAt = first,
                              !.sendDisabled = @ \/ clock - first >= DisableS]
    /\ Again(g)
    /\ UNCHANGED <<clock, current, awaited, issued, lost, putBack>>

TokenNext ==
    \/ Tick \/ StopLoop \/ StopDone
    \/ \E g \in Loops : Start(g) \/ Sleep(g) \/ Wake(g)
    \/ \E g \in Refreshers : RefreshNow(g) \/ Ask(g) \/ Reread(g) \/ OnSuccess(g) \/ OnFailure(g)
TokenSpec == TokenInit /\ [][TokenNext]_tokenVars

-----------------------------------------------------------------------------
(***************************************************************************)
(* Properties.                                                             *)
(***************************************************************************)
\* Concurrent refreshes leave the refresher with a token that Zalo has replaced
\* in one way only, besides a reply that was lost: a refresh answered without a
\* refresh token wrote the one it had read before over a newer one (putBack).
\* Otherwise it holds the last one, or a refresh that will store it is under way
\* (RefreshNow, onSuccess).
TokenIsLatest ==
    \/ token.pair = issued \/ lost \/ putBack
    \/ \E g \in Refreshers :
         refreshing[g].reply = "pair" /\ refreshing[g].used + 1 = issued

\* Sends are refused only if no refresh has succeeded for as long as the
\* failure window, however late the failures of other refreshes are recorded
\* (onFailure, SendOutgoing).
DisabledOnlyAfterWindow ==
    token.sendDisabled => clock - token.issuedAt >= DisableS
================================================================================
