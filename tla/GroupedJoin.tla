----------------------------- MODULE GroupedJoin -----------------------------
(***************************************************************************)
(* What a query                                                            *)
(*   SELECT label, SUM(val), COUNT(val), COUNT( * ), MIN(val), MAX(val)    *)
(*   FROM left JOIN right ON left.key = right.key GROUP BY label HAVING .. *)
(* answers: the inputs are joined (module EquiJoin) and the joined rows    *)
(* grouped (module GroupBy).  The rewriting of such a query (module        *)
(* Pushdown) is compared with this module.                                 *)
(***************************************************************************)
EXTENDS Integers, Sequences

CONSTANTS Null,      \* the SQL NULL
          MaxInt,    \* the largest i64
          Literal    \* what HAVING compares with

VARIABLES left,      \* the left rows: key and val
          right,     \* the right rows: key and label
          query,     \* the kind of join and HAVING
          outcome    \* the answer, once there is one

Pending == [status |-> "pending", rows |-> <<>>]

E == INSTANCE EquiJoin WITH left <- [l \in 1..Len(left) |-> left[l].key],
                            right <- [r \in 1..Len(right) |-> right[r].key],
                            kind <- query.kind

Val(l) == IF l = 0 THEN Null ELSE left[l].val
Label(r) == IF r = 0 THEN Null ELSE right[r].label

Joined == LET pairs == E!Answer
          IN  [p \in 1..Len(pairs) |-> [left |-> pairs[p][1],
                                        key |-> Label(pairs[p][2]),
                                        val |-> Val(pairs[p][1])]]

Query == [grouped |-> TRUE, minmax |-> TRUE, having |-> query.having]

G == INSTANCE GroupBy WITH input <- Joined, query <- Query
L == INSTANCE GroupBy WITH input <- left, query <- Query

-----------------------------------------------------------------------------
\* What is seen of a group: MIN and MAX are values, not rows.
Seen(rows, g) == [label |-> rows[g.first].key,
                  sum |-> IF g.saw THEN g.sum ELSE Null,
                  count |-> g.count,
                  rows |-> g.rows,
                  least |-> IF g.least = 0 THEN Null ELSE rows[g.least].val,
                  greatest |-> IF g.greatest = 0 THEN Null ELSE rows[g.greatest].val]

Answer == LET rows == Joined
              answer == G!Answer
          IN  [status |-> answer.status,
               rows |-> [i \in 1..Len(answer.rows) |-> Seen(rows, answer.rows[i])]]

\* Whether the SUM over the left rows of one join key lies outside i64, be the
\* key matched or not.
KeyOverflows ==
  L!Overflows(L!Groups(1..Len(left)))

-----------------------------------------------------------------------------
Init == outcome = Pending

Execute == /\ outcome = Pending
           /\ outcome' = Answer
           /\ UNCHANGED <<left, right, query>>

\* Permitted for an inner join: the query fails because of the SUM of a join key.
ExecuteByKey == /\ outcome = Pending
                /\ query.kind = "inner"
                /\ KeyOverflows
                /\ outcome' = [status |-> "overflow", rows |-> <<>>]
                /\ UNCHANGED <<left, right, query>>

Spec == Init /\ [][Execute \/ ExecuteByKey]_<<left, right, query, outcome>>
=============================================================================
