---------------------------- MODULE MCHyperSched ----------------------------
(* Values for model-checking HyperSched: where signals may be delivered. *)
EXTENDS HyperSched

AllPoints == LoopPoints \union TaskPoints
ChosenPoints == SafePoints \union {"picked"}
NoDeadlines == {}
TwoDeadlines == {1, 2}
OneDeadline == {1}
=============================================================================
