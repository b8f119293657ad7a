------------------------------ MODULE Segments ------------------------------
(***************************************************************************)
(* How the rows of a relation are shared out among threads                 *)
(* (tpt-strata/src/aggregate.rs, used by the aggregation and the join).    *)
(*                                                                         *)
(* A relation is the rows 1..n of its batches, one batch after the other,  *)
(* and the set of rows at which a batch begins.                            *)
(***************************************************************************)
EXTENDS Places, FiniteSetsExt

\* `segments`: a batch is cut every `size` rows (SEGMENT_ROWS), from its own first
\* row.
SegmentStarts(n, starts, size) ==
  {i \in 1..n : \E b \in starts : /\ b <= i
                                  /\ \A c \in starts : c <= i => c <= b
                                  /\ (i - b) % size = 0}

Job == [from : Nat, to : Nat]

\* Mutant: the quotient is rounded down, and the last segments are in no job.
JobsRoundedDown(n, starts, size, threads) ==
  LET segs == Ascending(SegmentStarts(n, starts, size), n)
      useful == Min({threads, Len(segs)})
      per == Len(segs) \div useful
  IN  IF useful < 2
      THEN <<[from |-> 1, to |-> n]>>
      ELSE [j \in 1..useful |->
              [from |-> segs[(j - 1) * per + 1],
               to |-> IF j * per >= Len(segs) THEN n ELSE segs[j * per + 1] - 1]]

\* `segs.chunks(div_ceil(segs.len(), threads))`, or all rows in one job.
Jobs(n, starts, size, threads) ==
  LET segs == Ascending(SegmentStarts(n, starts, size), n)
      useful == Min({threads, Len(segs)})
      per == DivCeil(Len(segs), useful)
  IN  IF useful < 2
      THEN <<[from |-> 1, to |-> n]>>
      ELSE [j \in 1..DivCeil(Len(segs), per) |->
              [from |-> segs[(j - 1) * per + 1],
               to |-> IF j * per >= Len(segs) THEN n ELSE segs[j * per + 1] - 1]]
=============================================================================
