------------------------------- MODULE Where -------------------------------
(***************************************************************************)
(* What filtering by a condition promises: the rows for which the          *)
(* condition is true, neither false nor unknown, in their order, or an     *)
(* error if the condition is not accepted.                                 *)
(***************************************************************************)
EXTENDS SqlLogic

VARIABLES
  expr,     \* the condition
  answer    \* what came of it

NoAnswer == [state |-> "none", rows |-> <<>>]
Failure == [state |-> "error", rows |-> <<>>]
Answer(rows) == [state |-> "rows", rows |-> rows]

Init == answer = NoAnswer

Evaluate ==
  /\ answer = NoAnswer
  /\ answer' = IF IsAccepted(expr) THEN Answer(Selected(expr)) ELSE Failure
  /\ UNCHANGED expr

Spec == Init /\ [][Evaluate]_<<expr, answer>>
=============================================================================
