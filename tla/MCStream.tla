------------------------------ MODULE MCStream ------------------------------
(***************************************************************************)
(* Every query over every input of up to three batches and three rows,     *)
(* with NULL, tied and different keys.                                     *)
(***************************************************************************)
EXTENDS Stream

MCSortKeys == {1}
MCLimits == {0, 1, 2, 4}
=============================================================================
