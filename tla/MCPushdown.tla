----------------------------- MODULE MCPushdown -----------------------------
(***************************************************************************)
(* Every left table of up to three rows with every right table of up to    *)
(* two, so that a left row may match none, one or both of the right rows   *)
(* and a group may have one or two join keys.  An i64 reaches from -2 to   *)
(* 1: two left rows of a key overflow.                                     *)
(***************************************************************************)
EXTENDS Pushdown

MCKeys == {1, 2}
MCVals == {-1, 1}
MCLabels == {1}
=============================================================================
