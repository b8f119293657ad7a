------------------------------- MODULE MCJoin -------------------------------
(***************************************************************************)
(* The join of every left input of up to three rows with every right input *)
(* of up to two, of every kind.  An i64 reaches from -2 to 1 here and all  *)
(* of its values are keys, so that differences of keys wrap around.        *)
(***************************************************************************)
EXTENDS Join

MCKeys == -2..1
=============================================================================
