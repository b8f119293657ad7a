------------------------------ MODULE Pushdown ------------------------------
(***************************************************************************)
(* The rewriting of a grouped inner join (`pushdown_join` and              *)
(* `final_aggregates` in tpt-strata/src/sql.rs): the left side is          *)
(* aggregated by its join key, the partial results are joined with the     *)
(* right side, and the joined partials are aggregated once more.           *)
(*                                                                         *)
(* The operators are what modules GroupBy and EquiJoin say of them; this   *)
(* module composes them as the plan does.  The query is one of             *)
(* module GroupedJoin, without WHERE and DISTINCT, grouped by a column of  *)
(* the right table and aggregating an integer column of the left one;      *)
(* any other query is planned as an ordinary join.                         *)
(***************************************************************************)
EXTENDS Integers, Sequences, FiniteSets

CONSTANTS Keys,      \* the join keys
          Vals,      \* the values of the left column
          Labels,    \* the values of the right column
          Null,      \* the SQL NULL
          MaxInt,    \* the largest i64
          Literal,   \* what HAVING compares with
          Kinds,     \* the kinds of join
          MaxLeft,   \* bound: rows of the left table
          MaxRight   \* bound: rows of the right table

ASSUME PushdownAssumption ==
  /\ Keys \subseteq Int /\ Vals \subseteq Int /\ Labels \subseteq Int
  /\ Null \notin Int
  /\ {MaxInt, MaxLeft, MaxRight} \subseteq Nat
  /\ Literal \in Int
  /\ Kinds \subseteq {"inner", "left", "right", "full"}

VARIABLES
  left,      \* the left rows: key and val
  right,     \* the right rows: key and label
  query,     \* the kind of join and HAVING
  phase,     \* which operator of the plan is next
  partial,   \* the groups of the partial aggregate, one per join key
  pairs,     \* the joined rows: a group and a right row each
  outcome    \* what the query answered, once it has

given == <<left, right, query>>
vars == <<given, phase, partial, pairs, outcome>>

J == INSTANCE GroupedJoin

LeftRows == [key : Keys \cup {Null}, val : Vals \cup {Null}]
RightRows == [key : Keys \cup {Null}, label : Labels \cup {Null}]

Tables(rows, n) == UNION {[1..m -> rows] : m \in 0..n}

-----------------------------------------------------------------------------
\* The operators of the rewritten plan.

\* The partial aggregate groups the left rows by the join key.
P == INSTANCE GroupBy WITH
       input <- left,
       query <- [grouped |-> TRUE, minmax |-> TRUE, having |-> "none"]

\* The join's left input has a row per group, whose key is the group's.
PJ == INSTANCE EquiJoin WITH
        left <- [g \in 1..Len(partial) |-> left[partial[g].first].key],
        right <- [r \in 1..Len(right) |-> right[r].key],
        kind <- query.kind

\* The partial aggregate's output for group g.
Partial(g) == [sum |-> IF g.saw THEN g.sum ELSE Null,
               count |-> g.count,
               rows |-> g.rows,
               least |-> J!Val(g.least),
               greatest |-> J!Val(g.greatest)]

\* One of its columns, and the label, in the rows of the join.
Column(column) ==
  [p \in 1..Len(pairs) |-> [key |-> right[pairs[p][2]].label,
                            val |-> Partial(partial[pairs[p][1]])[column]]]

\* The final aggregates of each column.
Query == [grouped |-> TRUE, minmax |-> TRUE, having |-> query.having]

OfSum == INSTANCE GroupBy WITH input <- Column("sum"), query <- Query
OfCount == INSTANCE GroupBy WITH input <- Column("count"), query <- Query
OfRows == INSTANCE GroupBy WITH input <- Column("rows"), query <- Query
OfLeast == INSTANCE GroupBy WITH input <- Column("least"), query <- Query
OfGreatest == INSTANCE GroupBy WITH input <- Column("greatest"), query <- Query

All == 1..Len(pairs)

Value(column, row) == IF row = 0 THEN Null ELSE Column(column)[row].val

\* Mutant: a COUNT is finished by a COUNT.
FinalRecounted ==
  LET sum == OfSum!Groups(All)
      count == OfCount!Groups(All)
      rows == OfRows!Groups(All)
      least == OfLeast!Groups(All)
      greatest == OfGreatest!Groups(All)
  IN  [g \in 1..Len(sum) |-> [first |-> sum[g].first, sum |-> sum[g].sum, saw |-> sum[g].saw,
                              count |-> count[g].count, rows |-> rows[g].count,
                              least |-> least[g].least, greatest |-> greatest[g].greatest]]

\* `final_aggregates`: a partial COUNT is summed, and the others combine as they
\* are.
Final ==
  LET sum == OfSum!Groups(All)
      count == OfCount!Groups(All)
      rows == OfRows!Groups(All)
      least == OfLeast!Groups(All)
      greatest == OfGreatest!Groups(All)
  IN  [g \in 1..Len(sum) |-> [first |-> sum[g].first, sum |-> sum[g].sum, saw |-> sum[g].saw,
                              count |-> count[g].sum, rows |-> rows[g].sum,
                              least |-> least[g].least, greatest |-> greatest[g].greatest]]

Seen(g) == [label |-> Column("sum")[g.first].key,
            sum |-> IF g.saw THEN g.sum ELSE Null,
            count |-> g.count,
            rows |-> g.rows,
            least |-> Value("least", g.least),
            greatest |-> Value("greatest", g.greatest)]

-----------------------------------------------------------------------------
Init == /\ left \in Tables(LeftRows, MaxLeft)
        /\ right \in Tables(RightRows, MaxRight)
        /\ query \in [kind : Kinds, having : {"none", "sum", "count"}]
        /\ phase = "plan"
        /\ partial = <<>>
        /\ pairs = <<>>
        /\ outcome = J!Pending

Answer(status, rows) == /\ phase' = "done"
                        /\ outcome' = [status |-> status, rows |-> rows]

\* Mutant: a join of any kind is rewritten.
PlanPushdownOfAny == /\ phase = "plan"
                     /\ phase' = "partial"
                     /\ UNCHANGED <<given, partial, pairs, outcome>>

\* `pushdown_join` rewrites inner joins only.
PlanPushdown == /\ phase = "plan"
                /\ query.kind = "inner"
                /\ phase' = "partial"
                /\ UNCHANGED <<given, partial, pairs, outcome>>

\* The ordinary plan: join, then aggregate.
JoinFirst == /\ phase = "plan"
             /\ query.kind # "inner"
             /\ Answer(J!Answer.status, J!Answer.rows)
             /\ UNCHANGED <<given, partial, pairs>>

\* The partial aggregate is an aggregate like any other: a SUM outside i64 ends
\* the query.
AggregateLeft == /\ phase = "partial"
                 /\ IF P!Answer.status = "overflow"
                    THEN Answer("overflow", <<>>) /\ partial' = partial
                    ELSE /\ partial' = P!Answer.rows
                         /\ phase' = "join"
                         /\ outcome' = outcome
                 /\ UNCHANGED <<given, pairs>>

JoinPartials == /\ phase = "join"
                /\ pairs' = PJ!Answer
                /\ phase' = "final"
                /\ UNCHANGED <<given, partial, outcome>>

\* The aggregate on top, with HAVING.
AggregateJoined ==
  LET all == Final
      kept == OfSum!Kept(all)
  IN  /\ phase = "final"
      /\ IF (query.having = "sum" /\ OfSum!Overflows(all)) \/ OfSum!Overflows(kept)
         THEN Answer("overflow", <<>>)
         ELSE Answer("ok", [i \in 1..Len(kept) |-> Seen(kept[i])])
      /\ UNCHANGED <<given, partial, pairs>>

Done == phase = "done" /\ UNCHANGED vars

Next == \/ PlanPushdown
        \/ JoinFirst
        \/ AggregateLeft
        \/ JoinPartials
        \/ AggregateJoined
        \/ Done

Spec == Init /\ [][Next]_vars

-----------------------------------------------------------------------------
\* Properties.

\* The joined rows name a group and a right row each: no row of a rewritten plan
\* lacks a side, which would be a NULL where the ordinary plan has a value.
TypeOK ==
  /\ phase \in {"plan", "partial", "join", "final", "done"}
  /\ partial \in Seq([first : 1..MaxLeft, sum : P!I64, saw : BOOLEAN, count : 0..MaxLeft,
                      rows : 1..MaxLeft, least : 0..MaxLeft, greatest : 0..MaxLeft])
  /\ pairs \in Seq((1..Len(partial)) \X (1..Len(right)))
  /\ outcome.status \in {"pending", "ok", "overflow"}

\* The rewritten query answers as the ordinary one does: the same groups in the
\* same order ("each left value is counted once per matching right row, and a
\* partial SUM, COUNT or MIN/MAX over a join key combines the same way"), with the
\* one exception that it may fail because of the SUM of one join key.  The order
\* is first-seen order in both plans, as in GroupBy, and not by key.
ImplementsGroupedJoin == J!Spec

\* What the comment on `pushdown_join` says of the rewritten query: "Then the
\* result is the same as joining first".
SameAsJoiningFirst == phase = "done" => outcome = J!Answer
=============================================================================
