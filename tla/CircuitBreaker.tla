--------------------------- MODULE CircuitBreaker ---------------------------
(***************************************************************************)
(* The circuit breaker of the provider chain (runtime/fallback.go).  It    *)
(* has no lock: its comment asks callers to serialise their calls, so each *)
(* call is one step here.  What runs of the same daemon do between two     *)
(* calls interleaves.                                                      *)
(*                                                                         *)
(* Time is a counter that starts at 1 and stops at MaxTime.  A provider    *)
(* without an entry behaves like one with a closed entry and no failures.  *)
(***************************************************************************)
EXTENDS Naturals, Sequences

CONSTANTS
    Providers,
    FailureThreshold, WindowSeconds, CooldownSeconds,
    MaxTime     \* bound on the clock

ASSUME BreakerAssumption ==
    /\ FailureThreshold \in Nat \ {0}
    /\ WindowSeconds \in Nat \ {0} /\ CooldownSeconds \in Nat \ {0}
    /\ MaxTime \in Nat \ {0}

VARIABLES
    now,
    breaker     \* the breakerEntry of each provider

breakerVars == <<now, breaker>>

Times == 1..MaxTime

BreakerTypeOK ==
    /\ now \in Times
    /\ breaker \in [Providers -> [state    : {"closed", "open", "half_open"},
                                  failures : Seq(Times),
                                  openedAt : Times \cup {0},
                                  trial    : BOOLEAN]]

\* A new entry, and what RecordSuccess makes of any entry.
Closed == [state |-> "closed", failures |-> <<>>, openedAt |-> 0, trial |-> FALSE]

BreakerInit ==
    /\ now = 1
    /\ breaker = [p \in Providers |-> Closed]

-----------------------------------------------------------------------------
(***************************************************************************)
(* The methods, as functions of an entry.                                  *)
(***************************************************************************)
\* maybeHalfOpen.
HalfOpened(e) ==
    IF e.state = "open" /\ now - e.openedAt >= CooldownSeconds
    THEN [e EXCEPT !.state = "half_open", !.trial = FALSE, !.failures = <<>>]
    ELSE e

\* What IsOpen returns for an entry that is up to date.
Blocked(e) == e.state = "open" \/ (e.state = "half_open" /\ e.trial)

\* AttemptStarted.
Tried(e) == IF e.state = "half_open" THEN [e EXCEPT !.trial = TRUE] ELSE e

Opened(e) == [e EXCEPT !.state = "open", !.openedAt = now, !.trial = FALSE]

Recent(t) == t >= now - WindowSeconds

\* Mutant: the breaker opens one failure late.
FailedWorthy_OffByOne(e) ==
    LET failures == Append(SelectSeq(e.failures, Recent), now) IN
    IF e.state = "half_open" \/ Len(failures) > FailureThreshold
    THEN [Opened(e) EXCEPT !.failures = failures]
    ELSE [e EXCEPT !.failures = failures, !.trial = FALSE]

\* RecordFailure of a class that advances the chain.
FailedWorthy(e) ==
    LET failures == Append(SelectSeq(e.failures, Recent), now) IN
    IF e.state = "half_open" \/ Len(failures) >= FailureThreshold
    THEN [Opened(e) EXCEPT !.failures = failures]
    ELSE [e EXCEPT !.failures = failures, !.trial = FALSE]

\* Mutant: a class that does not count leaves a trial as it is.
FailedUnworthy_Ignored(e) == e

\* RecordFailure of any other class.
FailedUnworthy(e) == IF e.state = "half_open" THEN Opened(e) ELSE e

-----------------------------------------------------------------------------
\* IsOpen updates the entry and answers blocked.
IsOpen(p, blocked) ==
    /\ breaker' = [breaker EXCEPT ![p] = HalfOpened(@)]
    /\ blocked = Blocked(HalfOpened(breaker[p]))
    /\ UNCHANGED now

AttemptStarted(p) ==
    /\ breaker' = [breaker EXCEPT ![p] = Tried(@)]
    /\ UNCHANGED now

RecordSuccess(p) ==
    /\ breaker' = [breaker EXCEPT ![p] = Closed]
    /\ UNCHANGED now

RecordFailure(p, worthy) ==
    /\ breaker' = [breaker EXCEPT ![p] = IF worthy THEN FailedWorthy(@)
                                                   ELSE FailedUnworthy(@)]
    /\ UNCHANGED now

Tick ==
    /\ now < MaxTime
    /\ now' = now + 1
    /\ UNCHANGED breaker
=============================================================================
