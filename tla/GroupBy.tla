------------------------------ MODULE GroupBy ------------------------------
(***************************************************************************)
(* What a GROUP BY query answers, defined on its whole input at once: no   *)
(* segments, no jobs, no slot tables and no merging.  The parallel         *)
(* aggregation (module Aggregate) is shown to implement this module.       *)
(*                                                                         *)
(* A row has a key and a value, either of which may be NULL.  A query      *)
(* computes SUM, COUNT of the value and COUNT( * ), and, when              *)
(* query.minmax holds, MIN and MAX of the value, for each key or, when     *)
(* query.grouped does not hold, over all rows.                             *)
(*                                                                         *)
(* The groups come in the order in which their keys are first seen.  That  *)
(* is what the code does on purpose (CHANGELOG.md 101-102).  The line in   *)
(* docs/faq.md 106 is older: "Grouped results come out sorted by group key *)
(* unless you ask for another order" is false of the code and of this      *)
(* module.                                                                 *)
(***************************************************************************)
EXTENDS Places, FiniteSetsExt

CONSTANTS Null,      \* the SQL NULL
          MaxInt,    \* the largest i64
          Literal    \* what HAVING compares with

VARIABLES input,     \* the rows, in input order
          query,     \* which aggregates and which HAVING
          outcome    \* the answer, once there is one

Pending == [status |-> "pending", rows |-> <<>>]

\* A global aggregate is a grouping by a key that is NULL in every row.
KeyOf(i) == IF query.grouped THEN input[i].key ELSE Null

I64 == -MaxInt - 1 .. MaxInt

-----------------------------------------------------------------------------
Valued(R) == {i \in R : input[i].val # Null}

\* The row, among R, of the smallest (greatest) value, the earliest of equals;
\* 0 when every value is NULL.
Least(R) ==
  IF Valued(R) = {} THEN 0
  ELSE LET least == Min({input[i].val : i \in Valued(R)})
       IN  Min({i \in R : input[i].val = least})

Greatest(R) ==
  IF Valued(R) = {} THEN 0
  ELSE LET greatest == Max({input[i].val : i \in Valued(R)})
       IN  Min({i \in R : input[i].val = greatest})

\* The values of the rows at the places R, added up.
Total(rows, R) ==
  LET upTo[n \in 0..Len(rows)] ==
        IF n = 0 THEN 0
        ELSE upTo[n - 1] + IF n \in R THEN rows[n].val ELSE 0
  IN  upTo[Len(rows)]

Sum(R) == Total(input, Valued(R))

\* What the aggregates are over the rows R of one group, first seen at row f.
Group(f, R) == [first |-> f,
                sum |-> Sum(R),
                saw |-> Valued(R) # {},
                count |-> Cardinality(Valued(R)),
                rows |-> Cardinality(R),
                least |-> IF query.minmax THEN Least(R) ELSE 0,
                greatest |-> IF query.minmax THEN Greatest(R) ELSE 0]

\* The rows of R that are the first of their key, and all the rows of that key.
Firsts(R) == {f \in R : \A i \in R : KeyOf(i) = KeyOf(f) => f <= i}
SameKey(f, R) == {i \in R : KeyOf(i) = KeyOf(f)}

\* The groups of the rows R, in the order in which their keys are first seen.
Groups(R) == IF query.grouped
             THEN LET f == Ascending(Firsts(R), Len(input))
                  IN  [g \in 1..Len(f) |-> Group(f[g], SameKey(f[g], R))]
             ELSE <<Group(0, R)>>

-----------------------------------------------------------------------------
\* HAVING: nothing, SUM(value) >= Literal or COUNT(value) >= Literal.
Keeps(g) == CASE query.having = "none" -> TRUE
              [] query.having = "sum" -> g.saw /\ g.sum >= Literal
              [] query.having = "count" -> g.count >= Literal

Kept(groups) == Selected(groups, {g \in 1..Len(groups) : Keeps(groups[g])})

\* SUM cannot be given as an i64.  A HAVING that reads it reads it for every
\* group; otherwise only the groups that are kept have their SUM read.
Overflows(groups) == \E g \in 1..Len(groups) :
                       groups[g].saw /\ groups[g].sum \notin I64

Answer == LET all == Groups(1..Len(input))
              kept == Kept(all)
          IN  IF (query.having = "sum" /\ Overflows(all)) \/ Overflows(kept)
              THEN [status |-> "overflow", rows |-> <<>>]
              ELSE [status |-> "ok", rows |-> kept]

-----------------------------------------------------------------------------
Init == outcome = Pending

Execute == /\ outcome = Pending
           /\ outcome' = Answer
           /\ UNCHANGED <<input, query>>

Spec == Init /\ [][Execute]_<<input, query, outcome>>
=============================================================================
