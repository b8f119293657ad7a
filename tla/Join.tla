-------------------------------- MODULE Join --------------------------------
(***************************************************************************)
(* The hash join of two inputs on one key (JoinExec in                     *)
(* tpt-strata/src/engine.rs) under the `parallel` feature.                 *)
(*                                                                         *)
(* The right input is indexed by key, in a table of slots when its keys    *)
(* are integers in a small range and in a hash map otherwise; runs of left *)
(* segments are probed by scoped threads; their results are joined in      *)
(* order, and the right rows nobody matched follow.  As in module          *)
(* EquiJoin, a row is its place in its input, which packed `(batch, row)`  *)
(* words order alike.                                                      *)
(***************************************************************************)
EXTENDS Segments, TLC

CONSTANTS
  Keys,           \* the join keys, integers
  Null,           \* the SQL NULL
  MaxInt,         \* the largest i64
  MaxLeft,        \* bound: rows of the left input
  MaxRight,       \* bound: rows of the right input
  SegmentRows,    \* SEGMENT_ROWS (1 << 16)
  Threads,        \* available_parallelism()
  SlotCap,        \* dense_index: 1 << 20 slots at most,
  SlotsPerRow,    \*   4 slots per right row
  SlotAllowance   \*   and 1024 more

I64 == -MaxInt - 1 .. MaxInt

ASSUME JoinAssumption ==
  /\ {MaxInt, MaxLeft, MaxRight, SlotCap, SlotsPerRow, SlotAllowance} \subseteq Nat
  /\ {Threads, SegmentRows} \subseteq Nat \ {0}
  /\ Keys \subseteq I64
  /\ Null \notin Int
  /\ SlotCap < 2 * (MaxInt + 1)

VARIABLES
  left,      \* the keys of the left rows, batch after batch
  starts,    \* the left rows at which a batch begins
  right,     \* the keys of the right rows, batch after batch
  kind,      \* JoinKind
  phase,     \* how far execute is
  index,     \* the index of the right rows
  indexed,   \* how many right rows it holds
  jobs,      \* the left rows of each worker
  at,        \* the row each worker probes next
  part,      \* the Probe of each worker, so far
  joined,    \* how many Probes have been merged
  probe,     \* their merge
  outcome    \* what execute returned, once it has

given == <<left, starts, right, kind>>
vars == <<given, phase, index, indexed, jobs, at, part, joined, probe, outcome>>

E == INSTANCE EquiJoin

NoRow == 0

Inputs(n) == UNION {[1..m -> Keys \cup {Null}] : m \in 0..n}

-----------------------------------------------------------------------------
\* The index.

RightKeys == {right[r] : r \in 1..Len(right)} \ {Null}

Span == Max(RightKeys) - Min(RightKeys) + 1

\* `dense_index`: there is a key, and a slot for each in its range is affordable.
Dense == /\ RightKeys # {}
         /\ Span <= SlotCap
         /\ Span <= SlotsPerRow * Len(right) + SlotAllowance

\* An index without rows: slots from the smallest key on, or a hash map, which
\* has a place for every key.
EmptyIndex == IF Dense
              THEN [dense |-> TRUE, lo |-> Min(RightKeys),
                    slots |-> [o \in 0..Span - 1 |-> <<>>]]
              ELSE [dense |-> FALSE, lo |-> 0, slots |-> [k \in Keys |-> <<>>]]

\* `wrapping_sub` of two i64, read as a u64.
WrappingSub(a, b) == (a - b) % (2 * (MaxInt + 1))

\* Mutant: the difference wraps at half the width.
WrappingSubNarrow(a, b) == (a - b) % (MaxInt + 1)

\* `hits`: the rows in the key's slot, if it has one.
HitsWith(Sub(_, _), key) ==
  IF key = Null THEN <<>>
  ELSE IF ~index.dense THEN index.slots[key]
  ELSE IF Sub(key, index.lo) \in DOMAIN index.slots
  THEN index.slots[Sub(key, index.lo)]
  ELSE <<>>

HitsNarrow(key) == HitsWith(WrappingSubNarrow, key)

Hits(key) == HitsWith(WrappingSub, key)

-----------------------------------------------------------------------------
\* Probing.

NoProbe == [pairs |-> <<>>, matched |-> [r \in 1..Len(right) |-> FALSE]]

\* One turn of `probe_segments`' loop, for left row l.
ProbeRow(p, l) ==
  LET hits == Hits(left[l])
  IN  IF hits # <<>>
      THEN [pairs |-> p.pairs \o [h \in 1..Len(hits) |-> <<l, hits[h]>>],
            matched |-> [r \in DOMAIN p.matched |->
                           p.matched[r] \/ \E h \in 1..Len(hits) : hits[h] = r]]
      ELSE [p EXCEPT !.pairs = IF E!KeepsLeft THEN Append(@, <<l, NoRow>>) ELSE @]

\* Mutant: the flags of the first worker are kept as they are.
JoinFirstFlags(p, q) == [pairs |-> p.pairs \o q.pairs,
                         matched |-> IF joined = 0 THEN q.matched ELSE p.matched]

\* One turn of `merge_probes`' loop.
JoinProbes(p, q) == [pairs |-> p.pairs \o q.pairs,
                     matched |-> [r \in DOMAIN q.matched |->
                                    p.matched[r] \/ q.matched[r]]]

\* The pairs of the right rows without a partner, in right order.
UnmatchedRight ==
  LET rows == Ascending({r \in 1..Len(right) : ~probe.matched[r]}, Len(right))
  IN  [u \in 1..Len(rows) |-> <<NoRow, rows[u]>>]

-----------------------------------------------------------------------------
\* `execute`.

Init == /\ left \in Inputs(MaxLeft)
        /\ starts \in SUBSET (1..Len(left)) /\ (left # <<>> => 1 \in starts)
        /\ right \in Inputs(MaxRight)
        /\ kind \in {"inner", "left", "right", "full"}
        /\ phase = "index"
        /\ index = EmptyIndex
        /\ indexed = 0
        /\ jobs = <<>>
        /\ at = <<>>
        /\ part = <<>>
        /\ joined = 0
        /\ probe = NoProbe
        /\ outcome = E!Pending

\* Mutant: rows are counted from zero, places in the input from one.
IndexRowFromZero ==
  LET row == indexed + 1
      key == right[row]
  IN  /\ phase = "index"
      /\ indexed < Len(right)
      /\ indexed' = row
      /\ index' = IF key = Null THEN index
                  ELSE [index EXCEPT !.slots[key - index.lo] = Append(@, row - 1)]
      /\ UNCHANGED <<given, phase, jobs, at, part, joined, probe, outcome>>

\* One turn of the loop that fills the index; NULL keys are not stored.
IndexRow ==
  LET row == indexed + 1
      key == right[row]
  IN  /\ phase = "index"
      /\ indexed < Len(right)
      /\ indexed' = row
      /\ index' = IF key = Null THEN index
                  ELSE [index EXCEPT !.slots[key - index.lo] = Append(@, row)]
      /\ UNCHANGED <<given, phase, jobs, at, part, joined, probe, outcome>>

\* `probe_all` starts its workers.
StartProbes ==
  LET js == Jobs(Len(left), starts, SegmentRows, Threads)
  IN  /\ phase = "index"
      /\ indexed = Len(right)
      /\ phase' = "probe"
      /\ jobs' = js
      /\ at' = [j \in 1..Len(js) |-> js[j].from]
      /\ part' = [j \in 1..Len(js) |-> NoProbe]
      /\ UNCHANGED <<given, index, indexed, joined, probe, outcome>>

\* Worker j probes its next row.
Probe(j) ==
  /\ phase = "probe"
  /\ at[j] <= jobs[j].to
  /\ part' = [part EXCEPT ![j] = ProbeRow(@, at[j])]
  /\ at' = [at EXCEPT ![j] = @ + 1]
  /\ UNCHANGED <<given, phase, index, indexed, jobs, joined, probe, outcome>>

\* The scope joins the workers in order, whichever ends first, and their Probes
\* are merged in that order.
JoinWorker ==
  /\ phase = "probe"
  /\ \A j \in 1..Len(jobs) : at[j] > jobs[j].to
  /\ joined < Len(jobs)
  /\ probe' = JoinProbes(probe, part[joined + 1])
  /\ joined' = joined + 1
  /\ UNCHANGED <<given, phase, index, indexed, jobs, at, part, outcome>>

\* The right rows without a partner follow, and the columns are gathered.
Output ==
  /\ phase = "probe"
  /\ jobs # <<>> /\ joined = Len(jobs)
  /\ phase' = "done"
  /\ outcome' = [status |-> "ok",
                 pairs |-> probe.pairs \o IF E!KeepsRight THEN UnmatchedRight ELSE <<>>]
  /\ UNCHANGED <<given, index, indexed, jobs, at, part, joined, probe>>

Done == phase = "done" /\ UNCHANGED vars

Next == \/ IndexRow
        \/ StartProbes
        \/ \E j \in 1..Len(jobs) : Probe(j)
        \/ JoinWorker
        \/ Output
        \/ Done

Spec == Init /\ [][Next]_vars

-----------------------------------------------------------------------------
\* Properties.

ProbeType == [pairs : Seq((0..MaxLeft) \X (0..MaxRight)),
              matched : [1..Len(right) -> BOOLEAN]]

\* The types of the variables of one execution.
TypeOK ==
  /\ left \in Inputs(MaxLeft)
  /\ starts \subseteq 1..Len(left)
  /\ right \in Inputs(MaxRight)
  /\ kind \in {"inner", "left", "right", "full"}
  /\ phase \in {"index", "probe", "done"}
  /\ index.dense \in BOOLEAN /\ index.lo \in I64
  /\ index.slots \in [DOMAIN index.slots -> Seq(1..MaxRight)]
  /\ indexed \in 0..MaxRight
  /\ jobs \in Seq(Job)
  /\ at \in [1..Len(jobs) -> 1..MaxLeft + 1]
  /\ part \in [1..Len(jobs) -> ProbeType]
  /\ joined \in 0..Len(jobs)
  /\ probe \in ProbeType
  /\ outcome.status \in {"pending", "ok"}

\* The rows with a key among the first n right rows, in order.
AreRowsOf(rows, key, n) ==
  /\ {rows[h] : h \in DOMAIN rows} = {r \in 1..n : key # Null /\ right[r] = key}
  /\ \A h, i \in DOMAIN rows : h < i => rows[h] < rows[i]

\* A lookup in the index finds the rows of exactly the looked-up key, whatever
\* the key: one far outside the slots' range, whose offset wraps around, finds
\* none, and so does NULL.
LookupIsExact ==
  phase # "index" => \A key \in Keys \cup {Null} : AreRowsOf(Hits(key), key, Len(right))

\* A worker's right-match flags, which decide whether a right row is given out
\* once more without a partner, are those of the rows it has probed, and the
\* merged flags those of all the rows of the workers merged.
FlagsAreExact ==
  LET Flags(from, to) == [r \in 1..Len(right) |-> \E l \in from..to : E!Match(l, r)]
  IN  /\ \A j \in 1..Len(jobs) : part[j].matched = Flags(jobs[j].from, at[j] - 1)
      /\ probe.matched = Flags(1, IF joined = 0 THEN 0 ELSE jobs[joined].to)

\* However the left input is cut and whichever index is chosen, the join's answer
\* is that of its definition: matched rows first, in left-row order, then the
\* unmatched rows of the right, each exactly once.
ImplementsEquiJoin == E!Spec
=============================================================================
