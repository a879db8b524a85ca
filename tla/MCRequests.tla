----------------------------- MODULE MCRequests -----------------------------
(* Values for model-checking Requests. *)
EXTENDS Requests
=============================================================================
