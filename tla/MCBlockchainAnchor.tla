------------------------- MODULE MCBlockchainAnchor -------------------------
(* Finite instances of BlockchainAnchor. *)
EXTENDS BlockchainAnchor, TLC

=============================================================================
