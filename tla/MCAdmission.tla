---------------------------- MODULE MCAdmission ----------------------------
(* Values for model-checking Admission: execution times and deadlines. *)
EXTENDS Admission

\* requests with and without a deadline; tight and loose, and one deadline
\* that call_func refuses
NoneTwo == {0, 2}
TwoThreeFive == {2, 3, 5}
\* for equal deadlines of tasks of different lengths
UnderWay == {1, 2, 4}
Around == {2, 3, 6}
=============================================================================
