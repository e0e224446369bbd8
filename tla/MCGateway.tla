----------------------------- MODULE MCGateway -----------------------------
(***************************************************************************)
(* Small instances of Gateway for TLC: all messages go to one channel,     *)
(* and an administrator registers one pair of a user and an agent.         *)
(***************************************************************************)
EXTENDS Gateway

MCOrigin == [m \in Messages |-> CHOOSE e \in Exts : TRUE]
MCAdminPairs == {<<CHOOSE u \in Users : TRUE, CHOOSE a \in Agents : TRUE>>}
=============================================================================
