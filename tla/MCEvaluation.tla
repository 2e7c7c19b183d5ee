---------------------------- MODULE MCEvaluation -----------------------------
(* Two requests, of which one may hang. *)
EXTENDS Evaluation
CONSTANTS r1, r2
=============================================================================
