------------------------------- MODULE Stream -------------------------------
(***************************************************************************)
(* The operators of a query without grouping, as they pull batches from    *)
(* one another (tpt-strata/src/engine.rs): a source, a filter over it, a   *)
(* sort if there is an ORDER BY, and a limit.                              *)
(*                                                                         *)
(* Source and filter yield a batch when one is pulled.  The sort does not  *)
(* stream: opening it reads its whole input, and it yields one batch.  The *)
(* limit is a loop around the pulls, and whoever executes the plan pulls   *)
(* from the limit until it ends.  A projection maps each batch to one with *)
(* the same rows and is left out.                                          *)
(***************************************************************************)
EXTENDS Places

CONSTANTS
  SortKeys,     \* the keys of ORDER BY, integers
  Null,         \* the SQL NULL, and no LIMIT
  MaxUsize,     \* the largest usize
  MaxBatches,   \* bound: batches of the input
  MaxRows,      \* bound: rows of the input
  Limits,       \* the offsets and limits of queries
  Threads,      \* pool::threads()
  MinRows       \* filter_rows' MIN_ROWS (1 << 18)

ASSUME StreamAssumption ==
  /\ SortKeys \subseteq Int /\ Null \notin Int
  /\ {MaxUsize, MaxBatches, MaxRows} \subseteq Nat
  /\ {Threads, MinRows} \subseteq Nat \ {0}
  /\ MaxRows <= MaxUsize
  /\ Limits \subseteq 0..MaxUsize

VARIABLES
  batches,    \* what the source yields
  query,      \* ORDER BY, OFFSET and LIMIT
  phase,      \* how far execute is
  pulled,     \* how many batches have been pulled from the source
  sorted,     \* the batches the sort has read, then the batch it yields
  toSkip,     \* LimitExec's to_skip
  remaining,  \* LimitExec's remaining
  out,        \* the rows of the batches the limit has yielded
  outcome     \* what execute returned, once it has

given == <<batches, query>>
vars == <<given, phase, pulled, sorted, toSkip, remaining, out, outcome>>

Q == INSTANCE RowQuery

Rows == [key : SortKeys \cup {Null}, pass : BOOLEAN]

Batches == [fails : {FALSE}, rows : UNION {[1..n -> Rows] : n \in 0..MaxRows}]
           \cup {[fails |-> TRUE, rows |-> <<>>]}

RowsIn(bs) == Len(FlattenSeq([b \in DOMAIN bs |-> bs[b].rows]))

Inputs == {bs \in UNION {[1..n -> Batches] : n \in 0..MaxBatches} : RowsIn(bs) <= MaxRows}

Queries == [sort : {"none", "asc", "desc"}, offset : Limits, limit : Limits \cup {Null}]

-----------------------------------------------------------------------------
\* The filter.

Passing(places) ==
  Selected(places, {k \in DOMAIN places : batches[places[k][1]].rows[places[k][2]].pass})

\* Mutant: a chunk ends where it should, but the last one is never begun.
FilterShort(b) ==
  LET n == Len(batches[b].rows)
      places == [r \in 1..n |-> <<b, r>>]
      per == n \div Threads
  IN  IF Threads < 2 \/ n < MinRows THEN Passing(places)
      ELSE FlattenSeq([c \in 1..Threads |->
                         Passing(SubSeq(places, (c - 1) * per + 1, c * per))])

\* `filter_rows`: the passing rows of batch b, by one thread, or by jobs of a
\* chunk each whose results pool::run gives back in job order.
Filter(b) ==
  LET n == Len(batches[b].rows)
      places == [r \in 1..n |-> <<b, r>>]
      per == DivCeil(n, Threads)
  IN  IF Threads < 2 \/ n < MinRows THEN Passing(places)
      ELSE FlattenSeq([c \in 1..DivCeil(n, per) |->
                         Passing(SubSeq(places, (c - 1) * per + 1, Min({c * per, n})))])

-----------------------------------------------------------------------------
\* The sort.

Key(p) == batches[p[1]].rows[p[2]].key

NullsFirst(a, b) == b # Null /\ (a = Null \/ a < b)

\* Mutant: rows of equal keys are not told apart.
ComesFirstByKey(p, q) == IF query.sort = "asc" THEN NullsFirst(Key(p), Key(q))
                         ELSE NullsFirst(Key(q), Key(p))

\* `cmp`: the order of the keys, reversed by DESC, NULLs included; then the order
\* of the input.
ComesFirst(p, q) ==
  IF Key(p) # Key(q)
  THEN IF query.sort = "asc" THEN NullsFirst(Key(p), Key(q)) ELSE NullsFirst(Key(q), Key(p))
  ELSE p[1] < q[1] \/ (p[1] = q[1] /\ p[2] < q[2])

\* The orders of the places P that a sort by ComesFirst may end in.
Orders(P) == {s \in SetToSeqs(P) : \A i, j \in DOMAIN s :
                                     i < j => ~ComesFirst(s[j], s[i])}

\* Mutant: the sum wraps around.
KeepWrapping == IF query.limit = Null THEN Null
                ELSE (query.offset + query.limit) % (MaxUsize + 1)

\* `top_k`: a saturating sum.
Keep == IF query.limit = Null THEN Null ELSE Min({query.offset + query.limit, MaxUsize})

\* What `select_nth_unstable_by` may leave in front: k places such that none of
\* the others comes before one of them.
Selections(P, k) == {S \in kSubset(k, P) : \A p \in S, q \in P \ S : ~ComesFirst(q, p)}

\* What the sort may make of the rows it has read.
Sortings(rows) ==
  LET P == ToSet(rows)
  IN  IF Keep # Null /\ Keep < Len(rows)
      THEN UNION {Orders(S) : S \in Selections(P, Keep)}
      ELSE Orders(P)

-----------------------------------------------------------------------------
\* `execute` of the plan.

Init == /\ batches \in Inputs
        /\ query \in Queries
        /\ phase = "open"
        /\ pulled = 0
        /\ sorted = <<>>
        /\ toSkip = query.offset
        /\ remaining = IF query.limit = Null THEN MaxUsize ELSE query.limit
        /\ out = <<>>
        /\ outcome = Q!Pending

Fail == /\ phase' = "done"
        /\ outcome' = [status |-> "error", rows |-> <<>>]

\* Opening the limit opens its input: a filter opens at once,
OpenFilter == /\ phase = "open" /\ query.sort = "none"
              /\ phase' = "pull"
              /\ UNCHANGED <<given, pulled, sorted, toSkip, remaining, out, outcome>>

\* a sort first pulls every batch of its input
SortReads == /\ phase = "open" /\ query.sort # "none"
             /\ pulled < Len(batches)
             /\ pulled' = pulled + 1
             /\ IF batches[pulled + 1].fails
                THEN Fail /\ sorted' = sorted
                ELSE sorted' = sorted \o Filter(pulled + 1) /\ UNCHANGED <<phase, outcome>>
             /\ UNCHANGED <<given, toSkip, remaining, out>>

\* and then sorts the rows.
OpenSort == /\ phase = "open" /\ query.sort # "none"
            /\ pulled = Len(batches)
            /\ sorted' \in Sortings(sorted)
            /\ phase' = "pull"
            /\ UNCHANGED <<given, pulled, toSkip, remaining, out, outcome>>

\* Mutant: the limit yields the batch that meets it as a whole.
PassOnRest(rows) ==
  LET skip == Min({toSkip, Len(rows)})
      take == Len(rows) - skip
  IN  /\ toSkip' = toSkip - skip
      /\ remaining' = remaining - take
      /\ out' = out \o SubSeq(rows, skip + 1, skip + take)

\* The limit passes on what it may of a batch with these rows: nothing, when it
\* is to be skipped as a whole.
PassOn(rows) ==
  LET skip == Min({toSkip, Len(rows)})
      take == Min({Len(rows) - skip, remaining})
  IN  /\ toSkip' = toSkip - skip
      /\ remaining' = remaining - take
      /\ out' = out \o SubSeq(rows, skip + 1, skip + take)

\* Mutant: the limit asks for a batch before it looks whether it needs one.
LimitPullsEagerly ==
  /\ phase = "pull" /\ query.sort = "none"
  /\ pulled < Len(batches)
  /\ pulled' = pulled + 1
  /\ IF batches[pulled + 1].fails
     THEN Fail /\ UNCHANGED <<toSkip, remaining, out>>
     ELSE PassOn(Filter(pulled + 1)) /\ UNCHANGED <<phase, outcome>>
  /\ UNCHANGED <<given, sorted>>

\* While rows remain to be kept the limit pulls a batch: a filtered one,
LimitPulls ==
  /\ phase = "pull" /\ query.sort = "none"
  /\ remaining > 0
  /\ pulled < Len(batches)
  /\ pulled' = pulled + 1
  /\ IF batches[pulled + 1].fails
     THEN Fail /\ UNCHANGED <<toSkip, remaining, out>>
     ELSE PassOn(Filter(pulled + 1)) /\ UNCHANGED <<phase, outcome>>
  /\ UNCHANGED <<given, sorted>>

\* or the sort's only one.
LimitTakesSorted ==
  /\ phase = "pull" /\ query.sort # "none"
  /\ remaining > 0
  /\ sorted # <<>>
  /\ PassOn(sorted)
  /\ sorted' = <<>>
  /\ UNCHANGED <<given, phase, pulled, outcome>>

\* The limit ends when no row remains to be kept or its input ends, and execute
\* returns what it has collected.
Collect ==
  /\ phase = "pull"
  /\ \/ remaining = 0
     \/ query.sort = "none" /\ pulled = Len(batches)
     \/ query.sort # "none" /\ sorted = <<>>
  /\ phase' = "done"
  /\ outcome' = [status |-> "ok", rows |-> out]
  /\ UNCHANGED <<given, pulled, sorted, toSkip, remaining, out>>

Done == phase = "done" /\ UNCHANGED vars

Next == \/ OpenFilter
        \/ SortReads
        \/ OpenSort
        \/ LimitPulls
        \/ LimitTakesSorted
        \/ Collect
        \/ Done

Spec == Init /\ [][Next]_vars

-----------------------------------------------------------------------------
\* Properties.

\* The types of the variables of one execution.
TypeOK ==
  /\ phase \in {"open", "pull", "done"}
  /\ pulled \in 0..Len(batches)
  /\ sorted \in Seq((1..MaxBatches) \X (1..MaxRows))
  /\ toSkip \in 0..MaxUsize
  /\ remaining \in 0..MaxUsize
  /\ out \in Seq((1..MaxBatches) \X (1..MaxRows))
  /\ outcome.status \in {"pending", "ok", "error"}

\* No batch is pulled from the source that the answer does not need: LIMIT
\* "stops reading input once it has enough rows", through the filter, and
\* LIMIT 0 reads nothing.  ORDER BY needs them all.
ReadsNoMore == pulled <= Q!Needed

\* The rows given out are those of the definition: the passing rows, in input
\* order or sorted with ties in input order, from the offset on and up to the
\* limit, although the sort keeps only the first offset + limit rows; and the
\* query fails exactly when a batch it has to read fails.
ImplementsRowQuery == Q!Spec
=============================================================================
