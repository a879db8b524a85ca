---------------------------- MODULE MCFuncResult ----------------------------
(* Values for model-checking FuncResult. *)
EXTENDS FuncResult
=============================================================================
