----------------------------- MODULE ProviderHealth ---------------------------
(***************************************************************************)
(* telemetry's ProviderHealthTracker: a rolling window of the outcomes of  *)
(* a provider's calls.  The clock is read before the lock is taken, so     *)
(* samples may be appended out of the order of their times, and eviction   *)
(* stops at the first sample that is young enough.                         *)
(***************************************************************************)
EXTENDS Integers, Sequences, SequencesExt, FiniteSets

CONSTANTS
    Callers,                \* goroutines of RecordSuccess, RecordFailure, Snapshot
    WindowSeconds,
    Degraded, Unhealthy,    \* thresholds, in tenths
    MinSamples,
    MaxNow, MaxSamples

ASSUME HealthAssumption ==
    /\ WindowSeconds \in Nat /\ WindowSeconds > 0 /\ MinSamples \in Nat
    /\ Degraded \in Nat \ {0} /\ Unhealthy \in Degraded .. 10    \* a zero means the default
    /\ MaxNow \in Nat /\ MaxSamples \in Nat

VARIABLES
    now,
    caller,         \* goroutine -> [pc, op, now], what it read of the clock
    samples,        \* sequence of [at, failed, recorded]; recorded is the
                    \* time of the append, which the tracker does not keep
    history,        \* all samples since the last Reset
    outcome         \* of the last snapshot
healthVars == <<now, caller, samples, history, outcome>>

Resting == [pc |-> "idle", op |-> "none", now |-> 0]
HealthInit ==
    /\ now = 0 /\ samples = <<>> /\ history = <<>>
    /\ caller = [c \in Callers |-> Resting]
    /\ outcome = "healthy"

Advance == now < MaxNow /\ now' = now + 1 /\ UNCHANGED <<caller, samples, history, outcome>>

ReadClock(c) ==
    /\ caller[c].pc = "idle"
    /\ \E op \in {"success", "failure", "snapshot"} :
         /\ op # "snapshot" => Len(history) < MaxSamples
         /\ caller' = [caller EXCEPT ![c] = [pc |-> "lock", op |-> op, now |-> now]]
    /\ UNCHANGED <<now, samples, history, outcome>>

\* Mutant: a sample at the very edge of the window goes.
Evict_Edge(ss, t) ==
    LET young == {i \in DOMAIN ss : ss[i].at > t - WindowSeconds} IN
    IF young = {} THEN <<>>
    ELSE SubSeq(ss, CHOOSE i \in young : \A j \in young : i <= j, Len(ss))
Evict(ss, t) ==
    LET young == {i \in DOMAIN ss : ss[i].at >= t - WindowSeconds} IN
    IF young = {} THEN <<>>
    ELSE SubSeq(ss, CHOOSE i \in young : \A j \in young : i <= j, Len(ss))

\* The failure rate is compared as failures * 10 with the size in tenths.
Classified(ss) ==
    LET failures == Cardinality({i \in DOMAIN ss : ss[i].failed}) IN
    IF ss = <<>> THEN "healthy"
    ELSE IF Len(ss) >= MinSamples /\ failures * 10 >= Unhealthy * Len(ss) THEN "unhealthy"
    ELSE IF failures * 10 >= Degraded * Len(ss) THEN "degraded"
    ELSE "healthy"

Record(c) ==
    LET s == [at |-> caller[c].now, failed |-> caller[c].op = "failure", recorded |-> now] IN
    /\ caller[c].pc = "lock" /\ caller[c].op \in {"success", "failure"}
    /\ samples' = Evict(Append(samples, s), caller[c].now)
    /\ history' = Append(history, s)
    /\ caller' = [caller EXCEPT ![c] = Resting]
    /\ UNCHANGED <<now, outcome>>

Snapshot(c) ==
    /\ caller[c].pc = "lock" /\ caller[c].op = "snapshot"
    /\ samples' = Evict(samples, caller[c].now)
    /\ outcome' = Classified(samples')
    /\ caller' = [caller EXCEPT ![c] = Resting]
    /\ UNCHANGED <<now, history>>

Reset ==
    /\ samples' = <<>> /\ history' = <<>>
    /\ UNCHANGED <<now, caller, outcome>>

HealthNext == Advance \/ Reset \/ \E c \in Callers : ReadClock(c) \/ Record(c) \/ Snapshot(c)
HealthSpec == HealthInit /\ [][HealthNext]_healthVars

-----------------------------------------------------------------------------
(***************************************************************************)
(* Properties.                                                             *)
(***************************************************************************)
\* Whatever the order in which clocks are read and samples are recorded, a
\* snapshot counts every sample of the window that ends when it is taken, and
\* none that was recorded before the window it asked for; a provider is called
\* unhealthy on no older evidence (Snapshot, evictLocked, classify).
WindowIsCounted ==
    [][\A c \in Callers :
         caller[c].op = "snapshot" /\ caller[c].pc = "lock" /\ caller'[c].pc = "idle" =>
           /\ \A i \in DOMAIN history :
                history[i].at >= now - WindowSeconds => Contains(samples', history[i])
           /\ \A i \in DOMAIN samples' :
                samples'[i].recorded >= caller[c].now - WindowSeconds
           /\ outcome' = "unhealthy" =>
                \E i \in DOMAIN history :
                  history[i].failed /\ history[i].recorded >= caller[c].now - WindowSeconds]_healthVars
================================================================================
