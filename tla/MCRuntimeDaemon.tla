-------------------------- MODULE MCRuntimeDaemon ---------------------------
(***************************************************************************)
(* Small instances of RuntimeDaemon for TLC: two providers, the fallback   *)
(* configured before the primary, and one conversation.  Either two agent  *)
(* runs meet a shutdown, a signal and the end of the input, or three runs  *)
(* of the chain go on without any of that, so that one can open a breaker  *)
(* and another hold its trial while the attempt of the third is late;      *)
(* scenario says which.                                                    *)
(***************************************************************************)
EXTENDS RuntimeDaemon, TLC

CONSTANTS Claude, Codex

VARIABLE scenario

MCThreadOf == [q \in Runs |-> CHOOSE t \in Threads : TRUE]
MCConfig   == << [id |-> Codex, fallbackOnly |-> TRUE],
                 [id |-> Claude, fallbackOnly |-> FALSE] >>

\* Agent runs differ in nothing but their names.
AgentRuns == Runs \ ShutdownRequests
RunsAlike == Permutations(AgentRuns)
Started   == {q \in AgentRuns : Sent(q)}

Within ==
    \/ scenario = "shutdown" /\ Cardinality(Started) <= 2
    \/ /\ scenario = "trial" /\ ~closed /\ ~shutting
       /\ \A q \in ShutdownRequests : ~Sent(q)
       /\ \A q \in AgentRuns : step[q] # "none" => Started = AgentRuns

MCInit == Init /\ scenario \in {"shutdown", "trial"} /\ (scenario = "trial" => mode = "chain")
MCSpec == MCInit /\ [][Next /\ scenario' = scenario /\ Within']_<<vars, scenario>>
=============================================================================
