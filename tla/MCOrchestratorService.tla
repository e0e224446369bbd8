----------------------- MODULE MCOrchestratorService -----------------------
(***************************************************************************)
(* Small instances of OrchestratorService for TLC.                         *)
(***************************************************************************)
EXTENDS OrchestratorService

Symmetry == Permutations(Handlers) \cup Permutations(Users) \cup Permutations(Sandboxes)
=============================================================================
