-------------------------- MODULE MCEscrowHistory --------------------------
(***************************************************************************)
(* Small instances of EscrowHistory.                                       *)
(***************************************************************************)
EXTENDS MCEscrow, EscrowHistory
=============================================================================
