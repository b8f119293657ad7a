------------------------------- MODULE Places -------------------------------
(***************************************************************************)
(* The places of a sequence that have some property, in order: segments'   *)
(* starts, rows that match, rows nobody matched; and how many pieces a     *)
(* number of them is shared out in.                                        *)
(***************************************************************************)
EXTENDS Integers, Sequences, SequencesExt

\* The numbers 1..n that are in S, in order.
Ascending(S, n) == FlattenSeq([i \in 1..n |-> IF i \in S THEN <<i>> ELSE <<>>])

\* The elements of s at the places in S, in order.
Selected(s, S) == LET places == Ascending(S, Len(s))
                  IN  [k \in 1..Len(places) |-> s[places[k]]]

\* `div_ceil`
DivCeil(a, b) == (a + b - 1) \div b
=============================================================================
