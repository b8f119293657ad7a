------------------------------ MODULE RowQuery ------------------------------
(***************************************************************************)
(* What a query without grouping answers (WHERE, ORDER BY, LIMIT, OFFSET), *)
(* defined on all its batches at once.  The operators that pull batches    *)
(* one at a time (module Stream) are shown to implement this module.       *)
(*                                                                         *)
(* A row has a sort key, which may be NULL, and passes the WHERE clause or *)
(* not; it is named by its place, the batch and the row within the batch.  *)
(* A batch may fail: its operator reports an error in its stead.           *)
(***************************************************************************)
EXTENDS Places

CONSTANTS Null,      \* the SQL NULL
          MaxUsize   \* the largest usize

VARIABLES batches,   \* the input
          query,     \* sort ("none", "asc" or "desc"), offset, and limit or Null
          outcome    \* the answer, once there is one

Pending == [status |-> "pending", rows |-> <<>>]

Limit == IF query.limit = Null THEN MaxUsize ELSE query.limit

Key(p) == batches[p[1]].rows[p[2]].key

-----------------------------------------------------------------------------
\* The places of batch b whose rows pass, in order.
Passing(b) == Selected([r \in 1..Len(batches[b].rows) |-> <<b, r>>],
                       {r \in 1..Len(batches[b].rows) : batches[b].rows[r].pass})

\* The passing rows of the first n batches, in order.
FirstRows(n) == FlattenSeq([b \in 1..n |-> Passing(b)])

\* NULL is smaller than every other key.
Smaller(a, b) == b # Null /\ (a = Null \/ a < b)

\* p comes before q, in the input and in the order of ORDER BY.
Earlier(p, q) == p[1] < q[1] \/ (p[1] = q[1] /\ p[2] < q[2])
Before(p, q) == \/ query.sort = "asc" /\ Smaller(Key(p), Key(q))
                \/ query.sort = "desc" /\ Smaller(Key(q), Key(p))
                \/ Key(p) = Key(q) /\ Earlier(p, q)

\* Each row of s at the place given by the number of rows that come before it.
Sorted(s) ==
  [i \in 1..Len(s) |-> CHOOSE p \in ToSet(s) :
                         Cardinality({q \in ToSet(s) : Before(q, p)}) = i - 1]

Window(s) == SubSeq(s, query.offset + 1, Min({Len(s), query.offset + Limit}))

-----------------------------------------------------------------------------
\* How many batches must be read: all to sort them, else as many as it takes
\* to find the rows to be skipped and the rows to be kept.
Needed ==
  IF query.sort # "none" THEN Len(batches)
  ELSE IF Limit = 0 THEN 0
  ELSE Min({Len(batches)} \cup
           {n \in 0..Len(batches) : Len(FirstRows(n)) >= query.offset + Limit})

\* A query fails if a batch that must be read fails: the first batches are read
\* until one fails or the rows suffice.
Fails == \E b \in 1..Len(batches) :
           /\ batches[b].fails
           /\ query.sort # "none" \/ (Limit # 0 /\ Len(FirstRows(b - 1)) < query.offset + Limit)

Rows == LET all == FirstRows(Len(batches))
        IN  Window(IF query.sort = "none" THEN all ELSE Sorted(all))

Answer == IF Fails THEN [status |-> "error", rows |-> <<>>]
          ELSE [status |-> "ok", rows |-> Rows]

-----------------------------------------------------------------------------
Init == outcome = Pending

Execute == /\ outcome = Pending
           /\ outcome' = Answer
           /\ UNCHANGED <<batches, query>>

Spec == Init /\ [][Execute]_<<batches, query, outcome>>
=============================================================================
