----------------------------- MODULE Aggregate -----------------------------
(***************************************************************************)
(* Grouped aggregation (tpt-strata/src/aggregate.rs) under the `parallel`  *)
(* feature.                                                                *)
(*                                                                         *)
(* The input is cut into segments, runs of segments are aggregated by jobs *)
(* on the thread pool, and the partial results are merged in job order.    *)
(* Three paths share this shape: the dense path (one integer key, integer  *)
(* SUMs in i64 and COUNTs) which gives up when a sum leaves i64, the       *)
(* general path (any key, sums in i128) and the global path (no key).      *)
(*                                                                         *)
(* A row is named by its place in the input: the order of `(batch, row)`   *)
(* pairs, and of the words `pack` makes of them, is the order of places.   *)
(* A job reads a row in one step, where the code finds the groups of a     *)
(* whole segment and then folds one aggregate after the other: aggregates  *)
(* do not touch one another's state.  pool::run appears here as what       *)
(* module ParallelMap says of it: jobs advance in any order, and their     *)
(* results are had together, in job order.                                 *)
(***************************************************************************)
EXTENDS Segments, TLC

CONSTANTS
  Keys,           \* the group keys, integers
  Vals,           \* the values, integers
  Null,           \* the SQL NULL
  MaxInt,         \* the largest i64 (sums in i128 are taken to be exact)
  MaxRows,        \* bound: rows of the input
  Literal,        \* the literal of HAVING
  SegmentRows,    \* SEGMENT_ROWS (1 << 16)
  Threads,        \* pool::threads()
  MinRows,        \* global_accumulate's MIN_ROWS (1 << 18)
  SlotCap,        \* int_key_range: 1 << 22 slots at most,
  SlotsPerRow,    \*   4 slots per row
  SlotAllowance,  \*   and 1024 more
  SortShare       \* dense_aggregate sorts when 16 * groups < rows

ASSUME AggregateAssumption ==
  /\ Keys \subseteq Int /\ IsFiniteSet(Keys)
  /\ Vals \subseteq Int
  /\ Null \notin Int
  /\ {MaxInt, MaxRows, MinRows, SlotCap, SlotsPerRow, SlotAllowance} \subseteq Nat
  /\ Literal \in Int
  /\ {Threads, SegmentRows, SortShare} \subseteq Nat \ {0}

VARIABLES
  input,    \* the rows of the input's batches, one batch after the other
  starts,   \* the rows at which a batch begins
  query,    \* the aggregates (see module GroupBy) and HAVING
  path,     \* which path is running
  phase,    \* how far it is
  jobs,     \* the rows of each job
  at,       \* the row each job reads next
  part,     \* the result of each job, so far
  cursor,   \* the partial, and the group of it, to be merged next
  merged,   \* the merged result, so far
  outcome   \* what execute returned, once it has

given == <<input, starts, query>>
vars == <<given, path, phase, jobs, at, part, cursor, merged, outcome>>

G == INSTANCE GroupBy

KeyOf(i) == G!KeyOf(i)

Rows == [key : Keys \cup {Null}, val : Vals \cup {Null}]

Inputs == UNION {[1..n -> Rows] : n \in 0..MaxRows}

Queries == [grouped : BOOLEAN, minmax : BOOLEAN, having : {"none", "sum", "count"}]

-----------------------------------------------------------------------------
\* Groups, and the tables that find them.

NoGroup == 0
NoRow == 0

NewGroup(row) == [first |-> row, sum |-> 0, saw |-> FALSE, count |-> 0, rows |-> 0,
                  least |-> NoRow, greatest |-> NoRow]

\* A table of slots for `span` keys from `lo` on, with no groups.  The NULL
\* group has a place of its own, and 0 where a key is kept (`push_null`).
Slots(lo, span) == [lo |-> lo, index |-> [o \in 0..span - 1 |-> NoGroup],
                    null |-> NoGroup, keys |-> <<>>, groups |-> <<>>,
                    overflow |-> FALSE]

\* A hash map from keys to groups is a table with a slot for every key.
HashMap == [Slots(0, 0) EXCEPT !.index = [k \in Keys |-> NoGroup]]

\* The one group of a global aggregate, which no row represents.
OneGroup == [Slots(0, 0) EXCEPT !.null = 1, !.keys = <<0>>, !.groups = <<NewGroup(NoRow)>>]

Find(t, key) == IF key = Null THEN t.null ELSE t.index[key - t.lo]

\* Mutant: a new NULL group gets no place among the keys.
WithGroupUnkeyed(t, key, row) ==
  IF Find(t, key) # NoGroup THEN t
  ELSE LET new == Len(t.groups) + 1
       IN  [t EXCEPT !.groups = Append(@, NewGroup(row)),
                     !.keys = IF key = Null THEN @ ELSE Append(@, key),
                     !.null = IF key = Null THEN new ELSE @,
                     !.index = [o \in DOMAIN @ |-> IF key # Null /\ o = key - t.lo
                                                   THEN new ELSE @[o]]]

\* The table with a group for the key, new groups last.
WithGroup(t, key, row) ==
  IF Find(t, key) # NoGroup THEN t
  ELSE LET new == Len(t.groups) + 1
       IN  [lo |-> t.lo,
            index |-> [o \in DOMAIN t.index |-> IF key # Null /\ o = key - t.lo
                                                THEN new ELSE t.index[o]],
            null |-> IF key = Null THEN new ELSE t.null,
            keys |-> Append(t.keys, IF key = Null THEN 0 ELSE key),
            groups |-> Append(t.groups, NewGroup(row)),
            overflow |-> t.overflow]

KeysIn(R) == {input[i].key : i \in R} \ {Null}

NoRange == [lo |-> 0, span |-> 0]

\* Mutant: the span of the keys is one too small.
KeyRangeShort ==
  LET keys == KeysIn(1..Len(input))
      span == Max(keys) - Min(keys)
  IN  IF \/ keys = {}
         \/ span > SlotCap
         \/ span > SlotsPerRow * Len(input) + SlotAllowance
      THEN NoRange
      ELSE [lo |-> Min(keys), span |-> span]

\* `int_key_range`: the smallest key and the span of the keys, when a slot
\* for each is affordable.
KeyRange ==
  LET keys == KeysIn(1..Len(input))
      span == Max(keys) - Min(keys) + 1
  IN  IF \/ keys = {}
         \/ span > SlotCap
         \/ span > SlotsPerRow * Len(input) + SlotAllowance
      THEN NoRange
      ELSE [lo |-> Min(keys), span |-> span]

\* The table a job of `run_segments` starts with, and the merge of its partials.
GeneralTable == IF ~query.grouped THEN OneGroup
                ELSE IF KeyRange = NoRange THEN HashMap
                ELSE Slots(KeyRange.lo, KeyRange.span)

\* `dense_worker` sizes its table by the keys of its own rows.
DenseTable(job) == LET keys == KeysIn(job.from..job.to)
                   IN  IF keys = {} THEN Slots(0, 0)
                       ELSE Slots(Min(keys), Max(keys) - Min(keys) + 1)

-----------------------------------------------------------------------------
\* Folding a row, and a partial's group, into a group.

Beats(max, new, old) == IF max THEN input[new].val > input[old].val
                        ELSE input[new].val < input[old].val

\* Mutant: on a tie the row that comes last is kept.
BestLast(max, old, new) ==
  IF new = NoRow \/ (old # NoRow /\ Beats(max, old, new)) THEN old ELSE new

\* Of a MIN's or a MAX's best row and another one: the earlier one, unless the
\* other beats it.
Best(max, old, new) ==
  IF new = NoRow \/ (old # NoRow /\ ~Beats(max, new, old)) THEN old ELSE new

\* `update_batch`: SUM, COUNT(value), MIN and MAX skip NULL.
Fold(g, i) ==
  IF input[i].val = Null THEN [g EXCEPT !.rows = @ + 1]
  ELSE [first |-> g.first,
        sum |-> g.sum + input[i].val,
        saw |-> TRUE,
        count |-> g.count + 1,
        rows |-> g.rows + 1,
        least |-> IF query.minmax THEN Best(FALSE, g.least, i) ELSE g.least,
        greatest |-> IF query.minmax THEN Best(TRUE, g.greatest, i) ELSE g.greatest]

\* `AggState::merge`.
Combine(g, h) == [first |-> g.first,
                  sum |-> g.sum + h.sum,
                  saw |-> g.saw \/ h.saw,
                  count |-> g.count + h.count,
                  rows |-> g.rows + h.rows,
                  least |-> Best(FALSE, g.least, h.least),
                  greatest |-> Best(TRUE, g.greatest, h.greatest)]

\* Mutant: a sum outside i64 saturates, and the flag is not raised.
Saturating(t, g, group) ==
  [t EXCEPT !.groups[g] = [group EXCEPT !.sum = Max({-MaxInt - 1, Min({MaxInt, @})})]]

\* `checked_add`: a sum outside i64 is not kept, it only raises the flag.
Checked(t, g, group) ==
  IF group.sum \in G!I64
  THEN [t EXCEPT !.groups[g] = group]
  ELSE [t EXCEPT !.groups[g] = [group EXCEPT !.sum = t.groups[g].sum],
                 !.overflow = TRUE]

-----------------------------------------------------------------------------
\* One row read by a job, and one group of a partial merged.

ReadInto(t, i) ==
  LET new == WithGroup(t, KeyOf(i), i)
      g == Find(new, KeyOf(i))
  IN  IF path = "dense" THEN Checked(new, g, Fold(new.groups[g], i))
      ELSE [new EXCEPT !.groups[g] = Fold(@, i)]

\* `merge_partials` reads the key of a group off its first row.
MergeGeneral(t, p, lg) ==
  LET h == p.groups[lg]
      key == KeyOf(h.first)
      new == WithGroup(t, key, h.first)
      g == Find(new, key)
  IN  [new EXCEPT !.groups[g] = Combine(@, h)]

\* `dense_aggregate` reads the key of a group off the worker's keys, and keeps
\* the earliest of the first rows.
MergeDense(t, p, lg) ==
  LET h == p.groups[lg]
      key == IF lg = p.null THEN Null ELSE p.keys[lg]
      new == WithGroup(t, key, h.first)
      g == Find(new, key)
  IN  Checked(new, g, [Combine(new.groups[g], h) EXCEPT !.first = Min({@, h.first})])

-----------------------------------------------------------------------------
\* The output.

\* The dense groups in first-seen order: sorted when they are few, else through
\* a table of all rows.
FirstSeenOrder(groups) ==
  LET byRow == [i \in 1..Len(input) |->
                  {g \in 1..Len(groups) : groups[g].first = i}]
      listed == Ascending({i \in 1..Len(input) : byRow[i] # {}}, Len(input))
      Sorts(order) ==
        /\ {order[g] : g \in 1..Len(groups)} = 1..Len(groups)
        /\ \A g, h \in 1..Len(groups) :
             g < h => groups[order[g]].first < groups[order[h]].first
      sorted == CHOOSE order \in [1..Len(groups) -> 1..Len(groups)] : Sorts(order)
  IN  IF Len(groups) * SortShare < Len(input)
      THEN [g \in 1..Len(groups) |-> groups[sorted[g]]]
      ELSE [g \in 1..Len(listed) |-> groups[CHOOSE x \in byRow[listed[g]] : TRUE]]

\* `having_on_sum`, `dense_having` and `kept_groups`.
Keeps(g) == CASE query.having = "none" -> TRUE
              [] query.having = "sum" -> g.saw /\ g.sum >= Literal
              [] query.having = "count" -> g.count >= Literal

Kept(groups) == Selected(groups, {g \in 1..Len(groups) : Keeps(groups[g])})

\* `dense_having` decides a HAVING on a SUM before the groups are output.
DenseGroups == LET groups == FirstSeenOrder(merged.groups)
               IN  IF query.having = "sum" THEN Kept(groups) ELSE groups

\* `AggState::finish` of a SUM.
SumFails(groups) == \E g \in 1..Len(groups) :
                      groups[g].saw /\ groups[g].sum \notin G!I64

\* `output`: HAVING builds the columns it reads for every group, then all
\* columns are built for the groups it keeps.
OutputOf(groups) ==
  LET kept == Kept(groups)
  IN  IF (query.having = "sum" /\ SumFails(groups)) \/ SumFails(kept)
      THEN [status |-> "overflow", rows |-> <<>>]
      ELSE [status |-> "ok", rows |-> kept]

-----------------------------------------------------------------------------
\* `execute`.

NoJobs == /\ jobs = <<>>
          /\ at = <<>>
          /\ part = <<>>
          /\ cursor = [job |-> 1, group |-> 1]
          /\ merged = Slots(0, 0)

Init == /\ input \in Inputs
        /\ starts \in SUBSET (1..Len(input)) /\ (input # <<>> => 1 \in starts)
        /\ query \in Queries
        /\ path = "none"
        /\ phase = "plan"
        /\ NoJobs
        /\ outcome = G!Pending

JobsOf(threads) == Jobs(Len(input), starts, SegmentRows, threads)

\* Jobs are sent to the pool, each with its own table; `into` is what their
\* results will be merged into.
Send(p, js, table(_), into) ==
  /\ path' = p
  /\ phase' = "jobs"
  /\ jobs' = js
  /\ at' = [j \in 1..Len(js) |-> js[j].from]
  /\ part' = [j \in 1..Len(js) |-> table(js[j])]
  /\ cursor' = [job |-> 1, group |-> 1]
  /\ merged' = into
  /\ UNCHANGED <<given, outcome>>

\* No key, and only SUMs and COUNTs: small inputs are read by one job.
PlanGlobal == /\ phase = "plan"
              /\ ~query.grouped /\ ~query.minmax
              /\ Send("global",
                      JobsOf(IF Len(input) < MinRows THEN 1 ELSE Threads),
                      LAMBDA job : OneGroup, OneGroup)

\* One integer key in an affordable range, and only SUMs and COUNTs.
PlanDense == /\ phase = "plan"
             /\ query.grouped /\ ~query.minmax
             /\ KeyRange # NoRange
             /\ Send("dense", JobsOf(Threads), DenseTable, Slots(KeyRange.lo, KeyRange.span))

SendGeneral == Send("general", JobsOf(Threads), LAMBDA job : GeneralTable, GeneralTable)

PlanGeneral == /\ phase = "plan"
               /\ query.minmax \/ (query.grouped /\ KeyRange = NoRange)
               /\ SendGeneral

ReadRow(j) == /\ phase = "jobs"
              /\ at[j] <= jobs[j].to
              /\ part' = [part EXCEPT ![j] = ReadInto(@, at[j])]
              /\ at' = [at EXCEPT ![j] = @ + 1]
              /\ UNCHANGED <<given, path, phase, jobs, cursor, merged, outcome>>

\* `pool::run` returns.  A lone partial of the general or the global path is
\* the result; the dense path merges it all the same.
Collect == /\ phase = "jobs"
           /\ \A j \in 1..Len(jobs) : at[j] > jobs[j].to
           /\ IF Len(jobs) = 1 /\ path # "dense"
              THEN phase' = "output" /\ merged' = part[1]
              ELSE phase' = "merge" /\ merged' = merged
           /\ UNCHANGED <<given, path, jobs, at, part, cursor, outcome>>

MergeGroup == /\ phase = "merge"
              /\ cursor.job <= Len(jobs)
              /\ cursor.group <= Len(part[cursor.job].groups)
              /\ merged' = IF path = "dense"
                           THEN MergeDense(merged, part[cursor.job], cursor.group)
                           ELSE MergeGeneral(merged, part[cursor.job], cursor.group)
              /\ cursor' = [cursor EXCEPT !.group = @ + 1]
              /\ UNCHANGED <<given, path, phase, jobs, at, part, outcome>>

\* A worker's overflow is the result's.
NextPartial == /\ phase = "merge"
               /\ cursor.job <= Len(jobs)
               /\ cursor.group > Len(part[cursor.job].groups)
               /\ merged' = [merged EXCEPT !.overflow = @ \/ part[cursor.job].overflow]
               /\ cursor' = [job |-> cursor.job + 1, group |-> 1]
               /\ UNCHANGED <<given, path, phase, jobs, at, part, outcome>>

Merged == /\ phase = "merge"
          /\ cursor.job > Len(jobs)
          /\ ~merged.overflow
          /\ phase' = "output"
          /\ UNCHANGED <<given, path, jobs, at, part, cursor, merged, outcome>>

\* The dense path gives up, and the general path starts over.
DenseGivesUp == /\ phase = "merge"
                /\ cursor.job > Len(jobs)
                /\ merged.overflow
                /\ SendGeneral

Output == /\ phase = "output"
          /\ outcome' = OutputOf(IF path = "dense" THEN DenseGroups ELSE merged.groups)
          /\ phase' = "done"
          /\ UNCHANGED <<given, path, jobs, at, part, cursor, merged>>

Done == phase = "done" /\ UNCHANGED vars

Next == \/ PlanGlobal
        \/ PlanDense
        \/ PlanGeneral
        \/ \E j \in 1..Len(jobs) : ReadRow(j)
        \/ Collect
        \/ MergeGroup
        \/ NextPartial
        \/ Merged
        \/ DenseGivesUp
        \/ Output
        \/ Done

Spec == Init /\ [][Next]_vars

-----------------------------------------------------------------------------
\* Properties.

GroupType == [first : 0..MaxRows, sum : Int, saw : BOOLEAN, count : 0..MaxRows,
              rows : 0..MaxRows, least : 0..MaxRows, greatest : 0..MaxRows]

\* A table whose slots, NULL group and keys name groups it has.
TableOK(t) == /\ t.lo \in Int
              /\ t.overflow \in BOOLEAN
              /\ t.groups \in Seq(GroupType)
              /\ t.keys \in Seq(Int) /\ Len(t.keys) = Len(t.groups)
              /\ t.null \in 0..Len(t.groups)
              /\ t.index \in [DOMAIN t.index -> 0..Len(t.groups)]

\* The types of the variables of one execution.
TypeOK ==
  /\ input \in Inputs
  /\ starts \subseteq 1..Len(input)
  /\ query \in Queries
  /\ path \in {"none", "dense", "general", "global"}
  /\ phase \in {"plan", "jobs", "merge", "output", "done"}
  /\ jobs \in Seq(Job)
  /\ at \in [1..Len(jobs) -> 1..MaxRows + 1]
  /\ DOMAIN part = 1..Len(jobs) /\ \A j \in DOMAIN part : TableOK(part[j])
  /\ TableOK(merged)
  /\ cursor \in [job : Nat \ {0}, group : Nat \ {0}]
  /\ outcome.status \in {"pending", "ok", "overflow"}

\* No slot is looked up outside its table, neither by a job among the keys it
\* has still to read nor by the merge among the groups it has still to merge
\* (an index out of bounds is a panic).
KeysHaveSlots ==
  LET InTable(t, key) == key = Null \/ key - t.lo \in DOMAIN t.index
  IN  /\ phase = "jobs" => \A j \in 1..Len(jobs) : \A i \in at[j]..jobs[j].to :
                             InTable(part[j], KeyOf(i))
      /\ phase = "merge" => \A j \in cursor.job..Len(jobs) :
                              \A g \in 1..Len(part[j].groups) :
                                InTable(merged, KeyOf(part[j].groups[g].first))

\* Whether a table has the groups of one sequential pass over the rows R, unless
\* a sum of the dense path has left i64.
IsOnePass(t, R) == t.overflow \/ t.groups = G!Groups(R)

\* Every partial is what one pass over the rows its job has read yields, and
\* the merge of the first partials what one pass over all their rows yields,
\* groups in first-seen order: "Partials over contiguous segments merge, in
\* order, into the same result as one sequential pass".
PartialsAreOnePass ==
  /\ phase = "jobs" => \A j \in 1..Len(jobs) : IsOnePass(part[j], jobs[j].from..at[j] - 1)
  /\ phase = "merge" /\ cursor.group = 1 =>
       IsOnePass(merged, IF cursor.job = 1 THEN {} ELSE 1..jobs[cursor.job - 1].to)

\* However the input is cut, shared out and merged, and whichever paths are
\* tried, the query's answer is that of its definition: the same groups in the
\* same order with the same values, and an overflow error exactly when a SUM
\* that is read lies outside i64.  The order is that of the first rows
\* (aggregate.rs 1497-1513, tests/dense_group.rs 43) and not that of the keys,
\* which docs/faq.md 106 still promises.
ImplementsGroupBy == G!Spec
=============================================================================
