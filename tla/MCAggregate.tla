---------------------------- MODULE MCAggregate ----------------------------
(***************************************************************************)
(* Aggregation of every input of up to three rows, two segments to a job,  *)
(* over keys that are adjacent (a dense range), apart (no dense range) or  *)
(* NULL, and values of which two overflow an i64 that reaches from -2 to 1 *)
(* while a third brings the sum back into it.                              *)
(***************************************************************************)
EXTENDS Aggregate

MCKeys == {0, 1, 4}
MCVals == {-1, 1}
=============================================================================
