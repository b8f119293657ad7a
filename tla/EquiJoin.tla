------------------------------ MODULE EquiJoin ------------------------------
(***************************************************************************)
(* What an equi-join answers, defined on its two inputs at once: no index, *)
(* no segments and no workers.  The parallel hash join (module Join) is    *)
(* shown to implement this module.                                         *)
(*                                                                         *)
(* Of a row only its key matters, so an input is the sequence of its keys, *)
(* and the answer a sequence of pairs of rows, in which 0 stands for the   *)
(* NULLs of an outer join.                                                 *)
(***************************************************************************)
EXTENDS Places

CONSTANT Null        \* the SQL NULL

VARIABLES left,      \* the keys of the left rows, in order
          right,     \* the keys of the right rows, in order
          kind,      \* JoinKind
          outcome    \* the answer, once there is one

Pending == [status |-> "pending", pairs |-> <<>>]

NoRow == 0

KeepsLeft == kind \in {"left", "full"}
KeepsRight == kind \in {"right", "full"}

Match(l, r) == left[l] # Null /\ left[l] = right[r]

-----------------------------------------------------------------------------
\* The right rows that match left row l, in order.
Hits(l) == Ascending({r \in 1..Len(right) : Match(l, r)}, Len(right))

\* What left row l contributes: its matches, or itself if it is kept alone.
PairsOf(l) ==
  IF Hits(l) # <<>> THEN [h \in 1..Len(Hits(l)) |-> <<l, Hits(l)[h]>>]
  ELSE IF KeepsLeft THEN << <<l, NoRow>> >>
  ELSE <<>>

\* What the left rows from..to contribute, in left order.
Pairs(from, to) == FlattenSeq([i \in 1..to - from + 1 |-> PairsOf(from + i - 1)])

\* The right rows that no row from..to of the left matches, in order.
Unmatched(from, to) ==
  Ascending({r \in 1..Len(right) : \A l \in from..to : ~Match(l, r)}, Len(right))

Answer ==
  LET alone == Unmatched(1, Len(left))
  IN  Pairs(1, Len(left)) \o IF KeepsRight
                             THEN [u \in 1..Len(alone) |-> <<NoRow, alone[u]>>]
                             ELSE <<>>

-----------------------------------------------------------------------------
Init == outcome = Pending

Execute == /\ outcome = Pending
           /\ outcome' = [status |-> "ok", pairs |-> Answer]
           /\ UNCHANGED <<left, right, kind>>

Spec == Init /\ [][Execute]_<<left, right, kind, outcome>>
=============================================================================
