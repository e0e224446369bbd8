----------------------------- MODULE AgentLoop ------------------------------
(***************************************************************************)
(* AgentLoop.Run of the runtime daemon (runtime/agent_loop.go): the        *)
(* single-provider path and the provider chain (ProviderChain.Turn of      *)
(* fallback.go), with the session cache (session_dal.go).  A run is a      *)
(* goroutine; runs share the cache and the breaker, and interleave between *)
(* any two calls on them.                                                  *)
(*                                                                         *)
(* A turn of a provider's CLI ends with one of three outcomes: "ok",       *)
(* "failover" (auth_expired, rate_limit, transient) or "terminal" (every   *)
(* other class, and panics).  Skills and the MCP bridge are left out.      *)
(* Fault "dal": a call on the session cache fails.                         *)
(***************************************************************************)
EXTENDS CircuitBreaker, SequencesExt, FiniteSets

CONSTANTS
    Runs,
    Threads, ThreadOf,   \* conversation of each run
    Config,              \* the providers of agent.yaml, as [id, fallbackOnly]
    Modes,               \* whether a chain is wired: "single", "chain"
    NoSession,
    Faults

ASSUME LoopAssumption ==
    /\ ThreadOf \in [Runs -> Threads]
    /\ Config \in Seq([id : Providers, fallbackOnly : BOOLEAN])
    /\ \E i \in DOMAIN Config : ~Config[i].fallbackOnly
    /\ Modes \subseteq {"single", "chain"} /\ Modes # {}

VARIABLES
    mode,
    sessions,   \* cached session of each conversation with each provider
    step,       \* where each run is
    pos,        \* place in the chain each run has reached
    run         \* what else each run holds

loopVars == <<mode, sessions, step, pos, run>>

Outcomes == {"ok", "failover", "terminal"}

\* A session id is known by the provider that issued it and the conversation.
Sessions == [provider : Providers, thread : Threads] \cup {NoSession}

NoRun == [bootstrap |-> FALSE, session |-> NoSession, outcome |-> "none", attempts |-> <<>>]

Steps == {"none", "dispatch", "lookup", "initialized", "check", "start", "session",
          "turn", "record", "save", "reply", "end", "done", "killed"}

LoopTypeOK ==
    /\ mode \in Modes
    /\ sessions \in [Threads -> [Providers -> Sessions]]
    /\ step \in [Runs -> Steps]
    /\ pos \in [Runs -> 1..(Len(Config) + 1)]
    /\ run \in [Runs -> [bootstrap : BOOLEAN, session : Sessions, outcome : Outcomes \cup {"none"},
                         attempts : Seq([provider : Providers,
                                         result : Outcomes \cup {"skipped"}])]]

LoopInit ==
    /\ mode \in Modes
    /\ sessions = [t \in Threads |-> [p \in Providers |-> NoSession]]
    /\ step = [r \in Runs |-> "none"]
    /\ pos = [r \in Runs |-> 1]
    /\ run = [r \in Runs |-> NoRun]

-----------------------------------------------------------------------------
IsPrimary(entry)  == ~entry.fallbackOnly
IsFallback(entry) == entry.fallbackOnly

\* Mutant: attempts follow the order of agent.yaml.
OrderedForDispatch_AsConfigured == Config

\* The entries of agent.yaml that are dispatched before the i-th.
Ahead(i) == {j \in DOMAIN Config : IF Config[j].fallbackOnly = Config[i].fallbackOnly
                                   THEN j < i ELSE IsPrimary(Config[j])}

\* OrderedForDispatch: fallback-only providers come after the others, and each
\* kind keeps its order.
OrderedForDispatch ==
    [n \in DOMAIN Config |->
        Config[CHOOSE i \in DOMAIN Config : Cardinality(Ahead(i)) = n - 1]]

\* The first provider that is not fallback-only.
PrimaryProvider ==
    Config[CHOOSE i \in DOMAIN Config : /\ IsPrimary(Config[i])
                                       /\ \A j \in 1..(i - 1) : IsFallback(Config[j])].id

\* The provider run r is about.
Provider(r) == IF mode = "single" THEN PrimaryProvider ELSE OrderedForDispatch[pos[r]].id

Cached(r, p) == sessions[ThreadOf[r]][p]

Goto(r, from, to) ==
    /\ step[r] = from
    /\ step' = [step EXCEPT ![r] = to]

\* Run begins.
Dispatch(r) ==
    /\ Goto(r, "dispatch", IF mode = "single" THEN "lookup" ELSE "initialized")
    /\ UNCHANGED <<mode, sessions, pos, run, breakerVars>>

\* runSingle: LookupSessionID.
LookupSession(r) ==
    /\ \/ /\ Goto(r, "lookup", "initialized")
          /\ run' = [run EXCEPT ![r].session = Cached(r, PrimaryProvider)]
       \/ "dal" \in Faults /\ Goto(r, "lookup", "reply") /\ UNCHANGED run
    /\ UNCHANGED <<mode, sessions, pos, breakerVars>>

\* IsInitialized of the primary provider decides on the bootstrap files.
IsInitialized(r) ==
    /\ \/ /\ Goto(r, "initialized", IF mode = "single" THEN "turn" ELSE "check")
          /\ run' = [run EXCEPT ![r].bootstrap = (Cached(r, PrimaryProvider) = NoSession)]
       \/ "dal" \in Faults /\ Goto(r, "initialized", "reply") /\ UNCHANGED run
    /\ UNCHANGED <<mode, sessions, pos, breakerVars>>

-----------------------------------------------------------------------------
\* The attempt of run r is over with a result that does not end the chain:
\* the next provider's turn, or an error if there is none.
Advance(r, result) ==
    /\ step' = [step EXCEPT ![r] = IF pos[r] < Len(Config) THEN "check" ELSE "reply"]
    /\ pos' = [pos EXCEPT ![r] = @ + 1]
    /\ run' = [run EXCEPT ![r].attempts = Append(@, [provider |-> Provider(r), result |-> result]),
                          ![r].session = NoSession, ![r].outcome = "none"]

\* The attempt of run r ends the chain.
Conclude(r, result, to) ==
    /\ step' = [step EXCEPT ![r] = to]
    /\ run' = [run EXCEPT ![r].attempts = Append(@, [provider |-> Provider(r), result |-> result]),
                          ![r].session = NoSession, ![r].outcome = "none"]
    /\ UNCHANGED pos

\* Turn, 1: a provider whose breaker is open is skipped.
Check(r) ==
    /\ step[r] = "check"
    /\ \/ IsOpen(Provider(r), TRUE) /\ Advance(r, "skipped")
       \/ IsOpen(Provider(r), FALSE) /\ Goto(r, "check", "start") /\ UNCHANGED <<pos, run>>
    /\ UNCHANGED <<mode, sessions>>

\* Turn, 2: the attempt is marked.
Start(r) ==
    /\ Goto(r, "start", "session")
    /\ AttemptStarted(Provider(r))
    /\ UNCHANGED <<mode, sessions, pos, run>>

\* The dispatcher looks the provider's session up; a failed lookup counts as
\* a transient failure of the provider.
LookupProviderSession(r) ==
    /\ \/ /\ Goto(r, "session", "turn")
          /\ run' = [run EXCEPT ![r].session = Cached(r, Provider(r))]
       \/ /\ "dal" \in Faults
          /\ Goto(r, "session", "record")
          /\ run' = [run EXCEPT ![r].outcome = "failover"]
    /\ UNCHANGED <<mode, sessions, pos, breakerVars>>

\* The turn of the CLI ends.  A cancelled one does not succeed.
Turn(r, cancelled) ==
    /\ \E o \in IF cancelled THEN Outcomes \ {"ok"} ELSE Outcomes :
          /\ Goto(r, "turn", IF mode = "chain" THEN "record"
                             ELSE IF o = "ok" THEN "save" ELSE "reply")
          /\ run' = [run EXCEPT ![r].outcome = o]
    /\ UNCHANGED <<mode, sessions, pos, breakerVars>>

\* Turn, 3 and 4: the outcome is recorded.
Record(r) ==
    /\ step[r] = "record"
    /\ \/ /\ run[r].outcome = "ok"
          /\ RecordSuccess(Provider(r))
          /\ Conclude(r, "ok", "save")
       \/ /\ run[r].outcome = "failover"
          /\ RecordFailure(Provider(r), TRUE)
          /\ Advance(r, "failover")
       \/ /\ run[r].outcome = "terminal"
          /\ RecordFailure(Provider(r), FALSE)
          /\ Conclude(r, "terminal", "reply")
    /\ UNCHANGED <<mode, sessions>>

\* Mutant: the new session is stored under the primary provider.
Save_Primary(r) ==
    /\ Goto(r, "save", "reply")
    /\ sessions' = [sessions EXCEPT ![ThreadOf[r]][PrimaryProvider] =
                        [provider |-> Provider(r), thread |-> ThreadOf[r]]]
    /\ UNCHANGED <<mode, pos, run, breakerVars>>

\* RecordTurn stores the session of the provider that answered, if the CLI
\* reported one; a failed store is only logged.
Save(r) ==
    /\ Goto(r, "save", "reply")
    /\ \/ sessions' = [sessions EXCEPT ![ThreadOf[r]][Provider(r)] =
                          [provider |-> Provider(r), thread |-> ThreadOf[r]]]
       \/ UNCHANGED sessions
    /\ UNCHANGED <<mode, pos, run, breakerVars>>

LoopStep(r, cancelled) ==
    \/ Dispatch(r) \/ LookupSession(r) \/ IsInitialized(r)
    \/ Check(r) \/ Start(r) \/ LookupProviderSession(r)
    \/ Turn(r, cancelled) \/ Record(r) \/ Save(r)
=============================================================================
