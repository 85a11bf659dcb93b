--------------------------- MODULE MCCoordinator ---------------------------
(* Two actions of every pair of classes, two crashes; a neighbour shares the
   turn's one block. *)
EXTENDS RecoveryCoordinator
MCCrowded == {[k \in Keys |-> "transactional"]}
MCBlocksOf == [w \in Workers |-> <<CHOOSE b \in Blocks : TRUE>>]
=============================================================================
