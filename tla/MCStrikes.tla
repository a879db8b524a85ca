----------------------------- MODULE MCStrikes -----------------------------
(* Values for model-checking Strikes: those of MCHyperSched. *)
EXTENDS MCHyperSched, Strikes
=============================================================================
