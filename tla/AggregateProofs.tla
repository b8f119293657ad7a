--------------------------- MODULE AggregateProofs ---------------------------
(***************************************************************************)
(* The aggregation is right for every input, every way of cutting it into  *)
(* batches and segments, and every number of threads: no slot is missing,  *)
(* every partial is that of one pass over its rows, partials merge into    *)
(* that of one pass over all rows, and the answer is the one module        *)
(* GroupBy defines.                                                        *)
(*                                                                         *)
(* The argument is about one predicate, IsTable(t, R): the table t has the *)
(* groups of the rows R, in the order in which their keys are first seen,  *)
(* finds each where it is, and has R's rows folded into them.  Reading a   *)
(* row (ReadIs) and merging a group of a later partial (MergeIs) extend R, *)
(* a table of R with the right sums has the groups of the definition       *)
(* (TableIsOnePass), and sums are right (Exact) unless the overflow flag   *)
(* is raised, in which case the dense path's result is thrown away.        *)
(***************************************************************************)
EXTENDS Aggregate, Induction

-----------------------------------------------------------------------------
\* What the definition says of sets of rows.

\* The inputs, which stay as they are.
Given ==
  /\ input \in Seq(Rows) /\ Len(input) <= MaxRows /\ input \in Inputs
  /\ starts \in SUBSET (1..Len(input)) /\ (input # <<>> => 1 \in starts)
  /\ query \in Queries

\* What the two modules share is the same in both.
LEMMA SameFlatten == \A ss : G!FlattenSeq(ss) = FlattenSeq(ss)
BY DEF FlattenSeq, G!FlattenSeq

\* So are the places that it lists.
LEMMA SameAscending == \A S, n : G!Ascending(S, n) = Ascending(S, n)
BY SameFlatten DEF Ascending, G!Ascending

\* And what is selected by them.
LEMMA SameSelected == \A s, S : G!Selected(s, S) = Selected(s, S)
BY SameAscending DEF Selected, G!Selected

\* The rows, and their keys and values.
LEMMA RowFacts ==
  ASSUME Given
  PROVE  /\ Len(input) \in Nat /\ MaxRows \in Nat /\ Len(input) <= MaxRows
         /\ \A i \in 1..Len(input) : /\ input[i].key \in Keys \cup {Null}
                                     /\ input[i].val \in Vals \cup {Null}
                                     /\ input[i].val # Null => input[i].val \in Int
                                     /\ KeyOf(i) \in Keys \cup {Null}
         /\ Keys \subseteq Int /\ Null \notin Int
         /\ query.grouped \in BOOLEAN /\ query.minmax \in BOOLEAN
         /\ ~query.grouped => \A i : KeyOf(i) = Null
<1>1. input \in Seq(Rows) /\ Len(input) <= MaxRows /\ query \in Queries
  BY DEF Given
<1>2. Keys \subseteq Int /\ Vals \subseteq Int /\ Null \notin Int /\ MaxRows \in Nat
  BY AggregateAssumption
<1>3. \A i \in 1..Len(input) : input[i] \in Rows
  BY <1>1
<1>4. \A i \in 1..Len(input) : input[i].key \in Keys \cup {Null} /\ input[i].val \in Vals \cup {Null}
  BY <1>3 DEF Rows
<1>5. query.grouped \in BOOLEAN /\ query.minmax \in BOOLEAN
  BY <1>1 DEF Queries
<1>6. \A i : KeyOf(i) = IF query.grouped THEN input[i].key ELSE Null
  BY DEF KeyOf, G!KeyOf
<1>7. \A i \in 1..Len(input) : input[i].val # Null => input[i].val \in Int
  BY <1>2, <1>4
<1>8. \A i \in 1..Len(input) : KeyOf(i) \in Keys \cup {Null}
  BY <1>4, <1>6
<1>9. Len(input) \in Nat
  BY <1>1
<1> QED
  BY ONLY <1>1, <1>2, <1>4, <1>5, <1>6, <1>7, <1>8, <1>9

-----------------------------------------------------------------------------
\* Sums.

\* s[i] is the sum of the values of the rows of R up to row i.
Sums(s, R) ==
  /\ s \in [0..Len(input) -> Int]
  /\ s[0] = 0
  /\ \A i \in 1..Len(input) : s[i] = s[i - 1] + IF i \in G!Valued(R) THEN input[i].val ELSE 0

\* The recursion of Sum is well-founded, and adds them all up.
LEMMA SumIs ==
  ASSUME Given, NEW R \in SUBSET (1..Len(input))
  PROVE  \E s : Sums(s, R) /\ G!Sum(R) = s[Len(input)]
<1> DEFINE n == Len(input)
           more(i) == IF i \in G!Valued(R) THEN input[i].val ELSE 0
           Step == [i \in 1..n |-> [x \in Int |-> x + more(i)]]
           Body(f) == [i \in 0..n |-> IF i = 0 THEN 0 ELSE f[i - 1] + more(i)]
           upTo == CHOOSE f : f = Body(f)
<1>1. n \in Nat /\ 0 \in Int
  BY RowFacts
<1>2. \A i \in 1..n : more(i) \in Int
  BY RowFacts DEF G!Valued
<1>3. Step \in [1..n -> [Int -> Int]]
  <2> HIDE DEF more, n
  <2> QED
    BY <1>2
<1>4. PICK c \in [0..n -> Int] : c[0] = 0 /\ \A i \in 1..n : c[i] = Step[i][c[i - 1]]
  <2> HIDE DEF n, Step
  <2>1. \E c \in [0..n -> Int] : Follows(c, n, 0, Step)
    BY <1>1, <1>3, Recursion
  <2> QED
    BY <2>1 DEF Follows
<1> HIDE DEF more
<1>5. ASSUME NEW i \in 1..n
      PROVE  i - 1 \in 0..n /\ c[i] = c[i - 1] + more(i)
  <2>1. i - 1 \in 0..n
    BY <1>1
  <2>2. c[i - 1] \in Int
    BY <2>1
  <2>3. Step[i][c[i - 1]] = c[i - 1] + more(i)
    BY <2>2
  <2> QED
    BY <1>4, <2>1, <2>3
<1>6. c = Body(c)
  <2>1. c = [i \in 0..n |-> c[i]]
    OBVIOUS
  <2>2. \A i \in 0..n : c[i] = IF i = 0 THEN 0 ELSE c[i - 1] + more(i)
    <3>1. \A i \in 0..n : i # 0 => i \in 1..n
      BY <1>1
    <3> HIDE DEF n
    <3> QED
      BY <1>4, <1>5, <3>1
  <2> HIDE DEF n
  <2> QED
    BY <2>1, <2>2
<1>7. upTo = Body(upTo)
  <2> HIDE DEF Body
  <2> QED
    BY <1>6
<1>8. G!Sum(R) = upTo[n]
  BY DEF G!Sum, G!Total, more
<1>9. /\ upTo[0] = 0
      /\ \A i \in 1..n : upTo[i] = upTo[i - 1] + more(i)
      /\ upTo = [i \in 0..n |-> upTo[i]]
  <2> HIDE DEF upTo
  <2>1. \A i \in 0..n : upTo[i] = IF i = 0 THEN 0 ELSE upTo[i - 1] + more(i)
    BY <1>7
  <2>2. 0 \in 0..n /\ \A i \in 1..n : i \in 0..n /\ i # 0
    BY <1>1
  <2>3. upTo = [i \in 0..n |-> upTo[i]]
    BY <1>7
  <2> HIDE DEF n
  <2> QED
    BY <2>1, <2>2, <2>3
<1> HIDE DEF upTo, Step, Body
<1> DEFINE T == {i \in 0..n : upTo[i] = c[i]}
<1>10. 0 \in T
  BY <1>1, <1>4, <1>9
<1>11. Inductive(T, 0, n)
  <2> SUFFICES ASSUME NEW i \in 0..(n - 1), upTo[i] = c[i]
               PROVE  i + 1 \in 0..n /\ upTo[i + 1] = c[i + 1]
    BY DEF Inductive
  <2>1. i + 1 \in 0..n /\ i + 1 \in 1..n /\ (i + 1) - 1 = i
    BY <1>1
  <2>2. c[i + 1] = c[i] + more(i + 1) /\ upTo[i + 1] = upTo[i] + more(i + 1)
    <3> HIDE DEF n
    <3> QED
      BY <1>5, <1>9, <2>1
  <2> QED
    BY <2>1, <2>2
<1>12. \A i \in 0..n : upTo[i] = c[i]
  <2>1. \A i \in 0..n : i \in T
    <3> HIDE DEF T
    <3> QED
      BY <1>1, <1>10, <1>11, IntervalInduction
  <2> QED
    BY <2>1
<1>13. upTo \in [0..n -> Int]
  <2> HIDE DEF n
  <2> QED
    BY <1>9, <1>12
<1>14. Sums(upTo, R)
  BY <1>9, <1>13 DEF Sums, more
<1> QED
  BY <1>8, <1>14

\* Sums are integers, that of no rows is 0.
LEMMA SumFacts ==
  ASSUME Given, NEW R \in SUBSET (1..Len(input))
  PROVE  /\ G!Sum(R) \in Int
         /\ G!Valued(R) = {} => G!Sum(R) = 0
<1> DEFINE n == Len(input)
<1>1. n \in Nat
  BY RowFacts
<1>2. PICK s : Sums(s, R) /\ G!Sum(R) = s[n]
  BY SumIs
<1>3. s \in [0..n -> Int] /\ s[0] = 0
  BY <1>2 DEF Sums
<1>4. G!Sum(R) \in Int
  <2>1. n \in 0..n
    BY <1>1
  <2> HIDE DEF n
  <2> QED
    BY <1>2, <1>3, <2>1
<1>5. ASSUME G!Valued(R) = {}
      PROVE  G!Sum(R) = 0
  <2> DEFINE T == {i \in 0..n : s[i] = 0}
  <2>1. 0 \in T
    BY <1>1, <1>3
  <2>2. Inductive(T, 0, n)
    <3> SUFFICES ASSUME NEW i \in 0..(n - 1), s[i] = 0
                 PROVE  i + 1 \in 0..n /\ s[i + 1] = 0
      BY DEF Inductive
    <3>1. i + 1 \in 0..n /\ i + 1 \in 1..n /\ (i + 1) - 1 = i
      BY <1>1
    <3>2. s[i + 1] = s[i] + 0
      BY <1>2, <1>5, <3>1 DEF Sums
    <3> QED
      BY <3>1, <3>2
  <2>3. n \in T
    <3>1. 0 \in Int /\ n \in Int /\ n \in 0..n
      BY <1>1
    <3> HIDE DEF T, n
    <3> QED
      BY <2>1, <2>2, <3>1, IntervalInduction
  <2> QED
    BY <1>2, <2>3
<1> QED
  BY <1>4, <1>5

\* The sum of rows of two kinds is that of the one and that of the other.
LEMMA SumsAdd ==
  ASSUME Given, NEW A \in SUBSET (1..Len(input)), NEW B \in SUBSET (1..Len(input)), A \cap B = {}
  PROVE  G!Sum(A \cup B) = G!Sum(A) + G!Sum(B)
<1> DEFINE n == Len(input)
<1>1. n \in Nat
  BY RowFacts
<1>2. PICK a : Sums(a, A) /\ G!Sum(A) = a[n]
  BY SumIs
<1>3. PICK b : Sums(b, B) /\ G!Sum(B) = b[n]
  BY SumIs
<1>4. PICK c : Sums(c, A \cup B) /\ G!Sum(A \cup B) = c[n]
  BY SumIs, A \cup B \in SUBSET (1..Len(input))
<1> DEFINE T == {i \in 0..n : c[i] = a[i] + b[i]}
<1>5. 0 \in T
  BY <1>1, <1>2, <1>3, <1>4 DEF Sums
<1>6. Inductive(T, 0, n)
  <2> SUFFICES ASSUME NEW i \in 0..(n - 1), c[i] = a[i] + b[i]
               PROVE  i + 1 \in 0..n /\ c[i + 1] = a[i + 1] + b[i + 1]
    BY DEF Inductive
  <2> DEFINE k == i + 1
  <2>1. k \in 0..n /\ k \in 1..n /\ k - 1 = i /\ i \in 0..n
    BY <1>1
  <2> HIDE DEF k
  <2>2. a[i] \in Int /\ b[i] \in Int
    BY <1>2, <1>3, <2>1 DEF Sums
  <2>3. /\ a[k] = a[i] + IF k \in G!Valued(A) THEN input[k].val ELSE 0
        /\ b[k] = b[i] + IF k \in G!Valued(B) THEN input[k].val ELSE 0
        /\ c[k] = c[i] + IF k \in G!Valued(A \cup B) THEN input[k].val ELSE 0
    BY <1>2, <1>3, <1>4, <2>1 DEF Sums
  <2>4. /\ k \in G!Valued(A \cup B) <=> k \in G!Valued(A) \/ k \in G!Valued(B)
        /\ ~(k \in G!Valued(A) /\ k \in G!Valued(B))
    BY DEF G!Valued
  <2>5. k \in G!Valued(A \cup B) => input[k].val \in Int
    BY <2>1, RowFacts DEF G!Valued
  <2> DEFINE v == input[k].val
  <2> HIDE DEF v
  <2>6. c[k] = a[k] + b[k]
    BY <2>2, <2>3, <2>4, <2>5 DEF v
  <2> QED
    BY <2>1, <2>6 DEF k
<1>7. n \in T
  <2>1. 0 \in Int /\ n \in Int /\ n \in 0..n
    BY <1>1
  <2> HIDE DEF T, n
  <2> QED
    BY <1>5, <1>6, <2>1, IntervalInduction
<1> QED
  BY <1>2, <1>3, <1>4, <1>7

\* The sum of one row.
LEMMA SumOfOne ==
  ASSUME Given, NEW i \in 1..Len(input)
  PROVE  G!Sum({i}) = IF input[i].val = Null THEN 0 ELSE input[i].val
<1> DEFINE n == Len(input)
           v == IF input[i].val = Null THEN 0 ELSE input[i].val
<1>1. n \in Nat /\ v \in Int
  BY RowFacts
<1>2. PICK s : Sums(s, {i}) /\ G!Sum({i}) = s[n]
  BY SumIs, {i} \in SUBSET (1..Len(input))
<1>3. \A k \in 1..n : s[k] = s[k - 1] + IF k = i THEN v ELSE 0
  BY <1>2 DEF Sums, G!Valued
<1>4. s[0] = 0 /\ s \in [0..n -> Int]
  BY <1>2 DEF Sums
<1> HIDE DEF v
<1> DEFINE T == {k \in 0..n : s[k] = IF k < i THEN 0 ELSE v}
<1>5. 0 \in T
  BY <1>1, <1>4
<1>6. Inductive(T, 0, n)
  <2> SUFFICES ASSUME NEW k \in 0..(n - 1), s[k] = IF k < i THEN 0 ELSE v
               PROVE  k + 1 \in 0..n /\ s[k + 1] = IF k + 1 < i THEN 0 ELSE v
    BY DEF Inductive
  <2>1. k + 1 \in 0..n /\ k + 1 \in 1..n /\ (k + 1) - 1 = k
    BY <1>1
  <2>2. s[k + 1] = s[k] + IF k + 1 = i THEN v ELSE 0
    BY <1>3, <2>1
  <2>3. s[k + 1] = IF k + 1 < i THEN 0 ELSE v
    BY <1>1, <2>2
  <2> QED
    BY <2>1, <2>3
<1>7. n \in T
  <2>1. 0 \in Int /\ n \in Int /\ n \in 0..n
    BY <1>1
  <2> HIDE DEF T, n
  <2> QED
    BY <1>5, <1>6, <2>1, IntervalInduction
<1> QED
  BY <1>1, <1>2, <1>7 DEF v

-----------------------------------------------------------------------------
\* MIN and MAX.

\* What the two modules share is the same in both.
LEMMA SameExtremes ==
  /\ \A S : G!Min(S) = Min(S)
  /\ \A S : G!Max(S) = Max(S)
  /\ \A S : G!Cardinality(S) = Cardinality(S)
BY DEF G!Min, G!Max, Min, Max, Cardinality, G!Cardinality

\* x is the row of the smallest (largest) value of R, the earliest of equals.
IsBest(max, x, R) ==
  IF G!Valued(R) = {} THEN x = NoRow
  ELSE /\ x \in G!Valued(R)
       /\ \A r \in G!Valued(R) : /\ ~Beats(max, r, x)
                                 /\ input[r].val = input[x].val => x <= r

\* The values of rows with a value.
LEMMA ValuedFacts ==
  ASSUME Given, NEW R \in SUBSET (1..Len(input))
  PROVE  /\ G!Valued(R) \subseteq R
         /\ \A r \in G!Valued(R) : r \in 1..Len(input) /\ r \in Nat /\ r > 0 /\ input[r].val \in Int
         /\ \A r \in R : r \notin G!Valued(R) => input[r].val = Null
<1>1. Len(input) \in Nat
  BY ONLY Given, RowFacts
<1>2. \A r \in 1..Len(input) : r \in Nat /\ r > 0
  BY ONLY <1>1
<1>3. \A r \in 1..Len(input) : input[r].val # Null => input[r].val \in Int
  BY ONLY Given, RowFacts
<1>4. \A r : r \in G!Valued(R) <=> r \in R /\ input[r].val # Null
  BY ONLY DEF G!Valued
<1> QED
  BY ONLY <1>2, <1>3, <1>4, R \in SUBSET (1..Len(input))

\* The definition of MIN.
LEMMA LeastIs ==
  ASSUME Given, NEW R \in SUBSET (1..Len(input))
  PROVE  IsBest(FALSE, G!Least(R), R)
<1> DEFINE n == Len(input)
           V == G!Valued(R)
           v == [i \in 1..n |-> IF i \in V THEN input[i].val ELSE 0]
           S == {input[r].val : r \in V}
           least == Min(S)
           W == {i \in R : input[i].val = least}
<1>1. /\ n \in Nat /\ V \subseteq 1..n /\ V \subseteq R
      /\ \A r \in V : input[r].val \in Int /\ r \in Nat
      /\ \A r \in R : r \notin V => input[r].val = Null
  BY RowFacts, ValuedFacts
<1>2. CASE V = {}
  BY <1>2 DEF IsBest, G!Least, NoRow
<1>3. CASE V # {}
  <2>1. v \in [1..n -> Int] /\ {v[r] : r \in V} = S
    <3> HIDE DEF V, n
    <3>1. v \in [1..n -> Int] /\ \A r \in V : v[r] = input[r].val
      BY <1>1
    <3> HIDE DEF v
    <3> QED
      BY <3>1
  <2> HIDE DEF v, V, n
  <2>2. least \in S /\ \A x \in S : least <= x
    BY <1>1, <1>3, <2>1, Extremes
  <2>3. least \in Int
    BY <1>1, <2>2
  <2>4. W \subseteq V /\ W # {}
    <3>1. Null \notin Int
      BY RowFacts
    <3> HIDE DEF least
    <3> QED
      BY <1>1, <2>2, <2>3, <3>1
  <2>5. G!Least(R) = Min(W)
    BY <1>3, SameExtremes DEF G!Least, V
  <2>6. Min(W) \in W /\ \A x \in W : Min(W) <= x
    <3>1. W \in SUBSET Nat
      BY <1>1, <2>4
    <3> HIDE DEF W
    <3> QED
      BY <2>4, <3>1, LeastPlace
  <2> DEFINE m == Min(W)
  <2>7. m \in V /\ input[m].val = least /\ \A x \in W : m <= x
    <3> HIDE DEF least
    <3> QED
      BY <2>4, <2>6
  <2> HIDE DEF m, W
  <2>8. ASSUME NEW r \in V
        PROVE  /\ ~(input[r].val < input[m].val)
               /\ input[r].val = input[m].val => m <= r
    <3>1. input[r].val \in S /\ input[r].val \in Int
      BY <1>1
    <3>2. least <= input[r].val
      BY <2>2, <3>1
    <3>3. input[r].val = least => r \in W
      BY <1>1 DEF W
    <3> HIDE DEF least
    <3> QED
      BY <2>3, <2>7, <3>1, <3>2, <3>3
  <2>9. IsBest(FALSE, m, R)
    BY <1>3, <2>7, <2>8 DEF IsBest, Beats, V
  <2> QED
    BY <2>5, <2>9 DEF m
<1> QED
  BY <1>2, <1>3

\* The definition of MAX.
LEMMA GreatestIs ==
  ASSUME Given, NEW R \in SUBSET (1..Len(input))
  PROVE  IsBest(TRUE, G!Greatest(R), R)
<1> DEFINE n == Len(input)
           V == G!Valued(R)
           v == [i \in 1..n |-> IF i \in V THEN input[i].val ELSE 0]
           S == {input[r].val : r \in V}
           greatest == Max(S)
           W == {i \in R : input[i].val = greatest}
<1>1. /\ n \in Nat /\ V \subseteq 1..n /\ V \subseteq R
      /\ \A r \in V : input[r].val \in Int /\ r \in Nat
      /\ \A r \in R : r \notin V => input[r].val = Null
  BY RowFacts, ValuedFacts
<1>2. CASE V = {}
  BY <1>2 DEF IsBest, G!Greatest, NoRow
<1>3. CASE V # {}
  <2>1. v \in [1..n -> Int] /\ {v[r] : r \in V} = S
    <3> HIDE DEF V, n
    <3>1. v \in [1..n -> Int] /\ \A r \in V : v[r] = input[r].val
      BY <1>1
    <3> HIDE DEF v
    <3> QED
      BY <3>1
  <2> HIDE DEF v, V, n
  <2>2. greatest \in S /\ \A x \in S : greatest >= x
    BY <1>1, <1>3, <2>1, Extremes
  <2>3. greatest \in Int
    BY <1>1, <2>2
  <2>4. W \subseteq V /\ W # {}
    <3>1. Null \notin Int
      BY RowFacts
    <3> HIDE DEF greatest
    <3> QED
      BY <1>1, <2>2, <2>3, <3>1
  <2>5. G!Greatest(R) = Min(W)
    BY <1>3, SameExtremes DEF G!Greatest, V
  <2>6. Min(W) \in W /\ \A x \in W : Min(W) <= x
    <3>1. W \in SUBSET Nat
      BY <1>1, <2>4
    <3> HIDE DEF W
    <3> QED
      BY <2>4, <3>1, LeastPlace
  <2> DEFINE m == Min(W)
  <2>7. m \in V /\ input[m].val = greatest /\ \A x \in W : m <= x
    <3> HIDE DEF greatest
    <3> QED
      BY <2>4, <2>6
  <2> HIDE DEF m, W
  <2>8. ASSUME NEW r \in V
        PROVE  /\ ~(input[r].val > input[m].val)
               /\ input[r].val = input[m].val => m <= r
    <3>1. input[r].val \in S /\ input[r].val \in Int
      BY <1>1
    <3>2. greatest >= input[r].val
      BY <2>2, <3>1
    <3>3. input[r].val = greatest => r \in W
      BY <1>1 DEF W
    <3> HIDE DEF greatest
    <3> QED
      BY <2>3, <2>7, <3>1, <3>2, <3>3
  <2>9. IsBest(TRUE, m, R)
    BY <1>3, <2>7, <2>8 DEF IsBest, Beats, V
  <2> QED
    BY <2>5, <2>9 DEF m
<1> QED
  BY <1>2, <1>3

\* There is one best row.
LEMMA BestIsUnique ==
  ASSUME Given, NEW R \in SUBSET (1..Len(input)), NEW max \in BOOLEAN, NEW x, NEW y,
         IsBest(max, x, R), IsBest(max, y, R)
  PROVE  x = y
<1>1. CASE G!Valued(R) = {}
  BY <1>1 DEF IsBest
<1>2. CASE G!Valued(R) # {}
  <2>1. /\ x \in G!Valued(R) /\ y \in G!Valued(R)
        /\ ~Beats(max, y, x) /\ ~Beats(max, x, y)
        /\ input[y].val = input[x].val => x <= y /\ y <= x
    BY <1>2 DEF IsBest
  <2>2. x \in Nat /\ y \in Nat /\ input[x].val \in Int /\ input[y].val \in Int
    BY <2>1, ValuedFacts
  <2>3. input[x].val = input[y].val
    BY <2>1, <2>2 DEF Beats
  <2> QED
    BY <2>1, <2>2, <2>3
<1> QED
  BY <1>1, <1>2

\* Best keeps the best of what came earlier and what comes later.
LEMMA BestOfBoth ==
  ASSUME Given, NEW max \in BOOLEAN, NEW x, NEW y,
         NEW A \in SUBSET (1..Len(input)), NEW B \in SUBSET (1..Len(input)),
         \A a \in A, b \in B : a < b, IsBest(max, x, A), IsBest(max, y, B)
  PROVE  IsBest(max, Best(max, x, y), A \cup B)
<1> DEFINE V == G!Valued(A)
           W == G!Valued(B)
<1>1. G!Valued(A \cup B) = V \cup W
  BY DEF G!Valued
<1>2. /\ \A r \in V : r \in Nat /\ r > 0 /\ input[r].val \in Int /\ r \in A
      /\ \A r \in W : r \in Nat /\ r > 0 /\ input[r].val \in Int /\ r \in B
  BY ValuedFacts
<1>3. \A a \in V, b \in W : a < b
  BY <1>2
<1>4. /\ V = {} => x = 0
      /\ V # {} => /\ x \in V
                   /\ \A r \in V : ~Beats(max, r, x) /\ (input[r].val = input[x].val => x <= r)
      /\ W = {} => y = 0
      /\ W # {} => /\ y \in W
                   /\ \A r \in W : ~Beats(max, r, y) /\ (input[r].val = input[y].val => y <= r)
  BY DEF IsBest, NoRow
<1> HIDE DEF V, W
<1>5. CASE W = {}
  <2>1. Best(max, x, y) = x /\ V \cup W = V
    BY <1>4, <1>5 DEF Best, NoRow
  <2> QED
    BY <1>1, <2>1 DEF IsBest, V
<1>6. CASE V = {} /\ W # {}
  <2>1. Best(max, x, y) = y /\ V \cup W = W
    BY <1>2, <1>4, <1>6 DEF Best, NoRow
  <2> QED
    BY <1>1, <2>1 DEF IsBest, W
<1>7. CASE V # {} /\ W # {}
  <2>1. /\ x \in V /\ y \in W /\ x # 0 /\ y # 0 /\ x < y
        /\ x \in Nat /\ y \in Nat /\ input[x].val \in Int /\ input[y].val \in Int
    BY <1>2, <1>3, <1>4, <1>7
  <2>2. CASE Beats(max, y, x)
    <3>1. Best(max, x, y) = y
      BY <2>1, <2>2 DEF Best, NoRow
    <3>2. ASSUME NEW r \in V
          PROVE  ~Beats(max, r, y) /\ (input[r].val = input[y].val => y <= r)
      <4>1. input[r].val \in Int /\ ~Beats(max, r, x)
        BY <1>2, <1>4
      <4> QED
        BY <2>1, <2>2, <4>1 DEF Beats
    <3>3. \A r \in V \cup W : ~Beats(max, r, y) /\ (input[r].val = input[y].val => y <= r)
      BY <1>4, <1>7, <3>2
    <3> QED
      BY <1>1, <2>1, <3>1, <3>3 DEF IsBest
  <2>3. CASE ~Beats(max, y, x)
    <3>1. Best(max, x, y) = x
      BY <2>1, <2>3 DEF Best, NoRow
    <3>2. ASSUME NEW r \in W
          PROVE  ~Beats(max, r, x) /\ (input[r].val = input[x].val => x <= r)
      <4>1. input[r].val \in Int /\ ~Beats(max, r, y) /\ x < r /\ r \in Nat
        BY <1>2, <1>3, <1>4, <2>1
      <4> QED
        BY <2>1, <2>3, <4>1 DEF Beats
    <3>3. \A r \in V \cup W : ~Beats(max, r, x) /\ (input[r].val = input[x].val => x <= r)
      BY <1>4, <1>7, <3>2
    <3> QED
      BY <1>1, <2>1, <3>1, <3>3 DEF IsBest
  <2> QED
    BY <2>2, <2>3
<1> QED
  BY <1>5, <1>6, <1>7

-----------------------------------------------------------------------------
\* Groups.

\* h is the group of the rows R, first seen at row f, but perhaps for its sum.
IsGroup(h, f, R) ==
  /\ h = [first |-> f,
          sum |-> h.sum,
          saw |-> G!Valued(R) # {},
          count |-> Cardinality(G!Valued(R)),
          rows |-> Cardinality(R),
          least |-> IF query.minmax THEN G!Least(R) ELSE 0,
          greatest |-> IF query.minmax THEN G!Greatest(R) ELSE 0]
  /\ h.sum \in Int

\* With the right sum it is the one of the definition.
LEMMA GroupIs ==
  ASSUME NEW h, NEW f, NEW R, IsGroup(h, f, R), h.sum = G!Sum(R)
  PROVE  h = G!Group(f, R)
BY SameExtremes DEF IsGroup, G!Group

\* Numbers of rows.
LEMMA RowCounts ==
  ASSUME Given, NEW R \in SUBSET (1..Len(input))
  PROVE  /\ Cardinality(R) \in 0..MaxRows /\ IsFiniteSet(R)
         /\ Cardinality(G!Valued(R)) \in 0..MaxRows /\ IsFiniteSet(G!Valued(R))
<1> DEFINE n == Len(input)
<1>1. n \in Nat /\ MaxRows \in Nat /\ n <= MaxRows /\ G!Valued(R) \in SUBSET (1..n)
  BY RowFacts, ValuedFacts
<1> HIDE DEF n
<1>2. IsFiniteSet(1..n) /\ Cardinality(1..n) = n
  <2>1. IsFiniteSet(1..n) /\ Cardinality(1..n) = IF 1 > n THEN 0 ELSE n - 1 + 1
    BY <1>1, FS_Interval
  <2> QED
    BY <1>1, <2>1
<1>3. ASSUME NEW S \in SUBSET (1..n)
      PROVE  Cardinality(S) \in 0..MaxRows /\ IsFiniteSet(S)
  <2>1. IsFiniteSet(S) /\ Cardinality(S) <= n
    BY <1>2, FS_Subset
  <2>2. Cardinality(S) \in Nat
    BY <2>1, FS_CardinalityType
  <2> QED
    BY <1>1, <2>1, <2>2
<1> QED
  BY <1>1, <1>3 DEF n

\* A group has the types it should.
LEMMA GroupTyped ==
  ASSUME Given, NEW h, NEW f \in 0..Len(input), NEW R \in SUBSET (1..Len(input)), IsGroup(h, f, R)
  PROVE  h \in GroupType
<1>1. Len(input) \in Nat /\ MaxRows \in Nat /\ Len(input) <= MaxRows
  BY RowFacts
<1>2. f \in 0..MaxRows
  BY <1>1
<1>3. Cardinality(R) \in 0..MaxRows /\ Cardinality(G!Valued(R)) \in 0..MaxRows
  BY RowCounts
<1>4. \A x, max : IsBest(max, x, R) => x \in 0..MaxRows
  <2>1. G!Valued(R) \subseteq 1..Len(input)
    BY ValuedFacts
  <2>2. G!Valued(R) \subseteq 0..MaxRows
    BY <1>1, <2>1
  <2> QED
    BY <1>1, <2>2 DEF IsBest, NoRow
<1>5. G!Least(R) \in 0..MaxRows /\ G!Greatest(R) \in 0..MaxRows
  BY <1>4, LeastIs, GreatestIs
<1>6. /\ h.first \in 0..MaxRows /\ h.sum \in Int /\ h.saw \in BOOLEAN
      /\ h.count \in 0..MaxRows /\ h.rows \in 0..MaxRows
      /\ h.least \in 0..MaxRows /\ h.greatest \in 0..MaxRows
  <2>1. 0 \in 0..MaxRows
    BY <1>1
  <2> DEFINE saw == G!Valued(R) # {}
             least == IF query.minmax THEN G!Least(R) ELSE 0
             greatest == IF query.minmax THEN G!Greatest(R) ELSE 0
  <2>2. least \in 0..MaxRows /\ greatest \in 0..MaxRows /\ saw \in BOOLEAN
    BY <1>5, <2>1
  <2>3. /\ h = [first |-> f, sum |-> h.sum, saw |-> saw, count |-> Cardinality(G!Valued(R)),
                rows |-> Cardinality(R), least |-> least, greatest |-> greatest]
        /\ h.sum \in Int
    BY DEF IsGroup
  <2> HIDE DEF saw, least, greatest
  <2>4. /\ h.first = f /\ h.saw = saw /\ h.count = Cardinality(G!Valued(R))
        /\ h.rows = Cardinality(R) /\ h.least = least /\ h.greatest = greatest
    BY <2>3
  <2> QED
    BY <1>2, <1>3, <2>2, <2>3, <2>4
<1>7. h = [first |-> h.first, sum |-> h.sum, saw |-> h.saw, count |-> h.count,
           rows |-> h.rows, least |-> h.least, greatest |-> h.greatest]
  BY DEF IsGroup
<1> QED
  BY ONLY <1>6, <1>7 DEF GroupType

\* A new group is that of no rows.
LEMMA NewGroupIs ==
  ASSUME Given, NEW f
  PROVE  IsGroup(NewGroup(f), f, {}) /\ NewGroup(f).sum = G!Sum({}) /\ NewGroup(f).first = f
<1>1. G!Valued({}) = {} /\ {} \in SUBSET (1..Len(input))
  BY DEF G!Valued
<1>2. G!Least({}) = 0 /\ G!Greatest({}) = 0
  BY <1>1 DEF G!Least, G!Greatest
<1>3. Cardinality({}) = 0 /\ G!Sum({}) = 0
  BY <1>1, FS_EmptySet, SumFacts
<1>4. /\ NewGroup(f) = [first |-> f, sum |-> 0, saw |-> FALSE, count |-> 0, rows |-> 0,
                         least |-> 0, greatest |-> 0]
      /\ NewGroup(f).sum = 0 /\ NewGroup(f).first = f
  BY DEF NewGroup, NoRow
<1>5. (G!Valued({}) # {}) = FALSE
  BY <1>1
<1>6. IsGroup(NewGroup(f), f, {})
  <2> DEFINE saw == G!Valued({}) # {}
             count == Cardinality(G!Valued({}))
             least == IF query.minmax THEN G!Least({}) ELSE 0
             greatest == IF query.minmax THEN G!Greatest({}) ELSE 0
  <2>1. saw = FALSE /\ count = 0
    BY <1>1, <1>3, <1>5
  <2>2. least = 0 /\ greatest = 0
    BY <1>2
  <2> HIDE DEF saw, count, least, greatest
  <2>3. NewGroup(f) = [first |-> f, sum |-> NewGroup(f).sum, saw |-> saw, count |-> count,
                       rows |-> Cardinality({}), least |-> least, greatest |-> greatest]
    BY <1>3, <1>4, <2>1, <2>2
  <2>4. NewGroup(f).sum \in Int
    BY <1>4
  <2> QED
    BY <2>3, <2>4 DEF IsGroup, saw, count, least, greatest
<1> QED
  BY <1>3, <1>4, <1>6

\* Two groups combine to that of the rows of both.
LEMMA CombineIs ==
  ASSUME Given, NEW g, NEW h, NEW f, NEW e,
         NEW A \in SUBSET (1..Len(input)), NEW B \in SUBSET (1..Len(input)),
         \A a \in A, b \in B : a < b, IsGroup(g, f, A), IsGroup(h, e, B)
  PROVE  /\ IsGroup(Combine(g, h), f, A \cup B)
         /\ Combine(g, h).sum = g.sum + h.sum
         /\ g.sum = G!Sum(A) /\ h.sum = G!Sum(B) => Combine(g, h).sum = G!Sum(A \cup B)
<1> DEFINE V == G!Valued(A)
           W == G!Valued(B)
           C == A \cup B
<1>1. G!Valued(C) = V \cup W /\ V \subseteq A /\ W \subseteq B
  BY DEF G!Valued
<1>2. A \cap B = {} /\ V \cap W = {}
  <2>1. \A a \in 1..Len(input) : ~(a < a)
    BY RowFacts
  <2> QED
    BY <1>1, <2>1
<1>3. Cardinality(A \cup B) = Cardinality(A) + Cardinality(B)
  <2>1. IsFiniteSet(A) /\ IsFiniteSet(B) /\ Cardinality(A) \in Nat /\ Cardinality(B) \in Nat
    <3>1. /\ Cardinality(A) \in 0..MaxRows /\ IsFiniteSet(A)
          /\ Cardinality(B) \in 0..MaxRows /\ IsFiniteSet(B)
      BY RowCounts
    <3>2. 0..MaxRows \subseteq Nat
      BY RowFacts
    <3> QED
      BY <3>1, <3>2
  <2>2. Cardinality(A \cup B) = Cardinality(A) + Cardinality(B) - Cardinality({})
    BY <1>2, <2>1, FS_Union
  <2> QED
    BY <2>1, <2>2, FS_EmptySet
<1>4. Cardinality(V \cup W) = Cardinality(V) + Cardinality(W)
  <2>1. IsFiniteSet(V) /\ IsFiniteSet(W) /\ Cardinality(V) \in Nat /\ Cardinality(W) \in Nat
    <3>1. /\ Cardinality(V) \in 0..MaxRows /\ IsFiniteSet(V)
          /\ Cardinality(W) \in 0..MaxRows /\ IsFiniteSet(W)
      BY RowCounts
    <3>2. 0..MaxRows \subseteq Nat
      BY RowFacts
    <3> QED
      BY <3>1, <3>2
  <2> HIDE DEF V, W
  <2>2. Cardinality(V \cup W) = Cardinality(V) + Cardinality(W) - Cardinality({})
    BY <1>2, <2>1, FS_Union
  <2> QED
    BY <2>1, <2>2, FS_EmptySet
<1>5. /\ Best(FALSE, G!Least(A), G!Least(B)) = G!Least(C)
      /\ Best(TRUE, G!Greatest(A), G!Greatest(B)) = G!Greatest(C)
  <2>1. C \in SUBSET (1..Len(input))
    OBVIOUS
  <2>2. IsBest(FALSE, G!Least(A), A) /\ IsBest(FALSE, G!Least(B), B) /\ IsBest(FALSE, G!Least(C), C)
    BY <2>1, LeastIs
  <2>3. IsBest(TRUE, G!Greatest(A), A) /\ IsBest(TRUE, G!Greatest(B), B)
        /\ IsBest(TRUE, G!Greatest(C), C)
    BY <2>1, GreatestIs
  <2>4. IsBest(FALSE, Best(FALSE, G!Least(A), G!Least(B)), C)
    BY <2>2, BestOfBoth
  <2>5. IsBest(TRUE, Best(TRUE, G!Greatest(A), G!Greatest(B)), C)
    BY <2>3, BestOfBoth
  <2> HIDE DEF C
  <2> QED
    BY <2>1, <2>2, <2>3, <2>4, <2>5, BestIsUnique
<1>6. /\ Best(FALSE, 0, 0) = 0 /\ Best(TRUE, 0, 0) = 0
  BY DEF Best, NoRow
<1>7. G!Sum(C) = G!Sum(A) + G!Sum(B)
  BY <1>2, SumsAdd
<1>8. /\ g = [first |-> f, sum |-> g.sum, saw |-> V # {}, count |-> Cardinality(V),
              rows |-> Cardinality(A), least |-> IF query.minmax THEN G!Least(A) ELSE 0,
              greatest |-> IF query.minmax THEN G!Greatest(A) ELSE 0]
      /\ h = [first |-> e, sum |-> h.sum, saw |-> W # {}, count |-> Cardinality(W),
              rows |-> Cardinality(B), least |-> IF query.minmax THEN G!Least(B) ELSE 0,
              greatest |-> IF query.minmax THEN G!Greatest(B) ELSE 0]
      /\ g.sum \in Int /\ h.sum \in Int
  BY DEF IsGroup
<1> HIDE DEF V, W, C
<1>9. Combine(g, h) = [first |-> g.first, sum |-> g.sum + h.sum, saw |-> g.saw \/ h.saw,
                       count |-> g.count + h.count, rows |-> g.rows + h.rows,
                       least |-> Best(FALSE, g.least, h.least),
                       greatest |-> Best(TRUE, g.greatest, h.greatest)]
  BY DEF Combine
<1>10. /\ g.first = f /\ (g.saw \/ h.saw) = (V \cup W # {})
       /\ g.count + h.count = Cardinality(V \cup W)
       /\ g.rows + h.rows = Cardinality(A \cup B)
  <2>1. g.first = f /\ g.saw = (V # {}) /\ h.saw = (W # {}) /\ g.count = Cardinality(V)
        /\ h.count = Cardinality(W) /\ g.rows = Cardinality(A) /\ h.rows = Cardinality(B)
    BY <1>8
  <2>2. (V # {} \/ W # {}) = (V \cup W # {})
    OBVIOUS
  <2> QED
    BY <1>3, <1>4, <2>1, <2>2
<1>11. /\ Best(FALSE, g.least, h.least) = IF query.minmax THEN G!Least(C) ELSE 0
       /\ Best(TRUE, g.greatest, h.greatest) = IF query.minmax THEN G!Greatest(C) ELSE 0
  <2>1. /\ g.least = (IF query.minmax THEN G!Least(A) ELSE 0)
        /\ h.least = (IF query.minmax THEN G!Least(B) ELSE 0)
        /\ g.greatest = (IF query.minmax THEN G!Greatest(A) ELSE 0)
        /\ h.greatest = (IF query.minmax THEN G!Greatest(B) ELSE 0)
    BY <1>8
  <2> QED
    BY <1>5, <1>6, <2>1
<1>12. Combine(g, h).sum = g.sum + h.sum
  BY <1>9
<1>13. IsGroup(Combine(g, h), f, C)
  <2>1. Combine(g, h).sum \in Int
    BY <1>8, <1>12
  <2> QED
    BY <1>1, <1>9, <1>10, <1>11, <1>12, <2>1 DEF IsGroup, C
<1> QED
  BY <1>7, <1>12, <1>13 DEF C

\* The group of one row.
Single(i) == [first |-> i, sum |-> IF input[i].val = Null THEN 0 ELSE input[i].val,
              saw |-> input[i].val # Null,
              count |-> IF input[i].val = Null THEN 0 ELSE 1,
              rows |-> 1,
              least |-> IF query.minmax /\ input[i].val # Null THEN i ELSE 0,
              greatest |-> IF query.minmax /\ input[i].val # Null THEN i ELSE 0]

\* It is the group of the set of that row, with the right sum.
LEMMA SingleIs ==
  ASSUME Given, NEW i \in 1..Len(input)
  PROVE  IsGroup(Single(i), i, {i}) /\ Single(i).sum = G!Sum({i})
<1>1. {i} \in SUBSET (1..Len(input)) /\ i \in Nat
  BY RowFacts
<1>2. G!Valued({i}) = IF input[i].val = Null THEN {} ELSE {i}
  BY DEF G!Valued
<1>3. Cardinality({i}) = 1 /\ Cardinality({}) = 0
  BY FS_Singleton, FS_EmptySet
<1>4. /\ G!Least({i}) = IF input[i].val = Null THEN 0 ELSE i
      /\ G!Greatest({i}) = IF input[i].val = Null THEN 0 ELSE i
  <2>1. IsBest(FALSE, G!Least({i}), {i}) /\ IsBest(TRUE, G!Greatest({i}), {i})
    BY <1>1, LeastIs, GreatestIs
  <2>2. CASE input[i].val = Null
    BY <1>2, <2>1, <2>2 DEF IsBest, NoRow
  <2>3. CASE input[i].val # Null
    <3>1. G!Valued({i}) = {i} /\ G!Valued({i}) # {}
      BY <1>2, <2>3
    <3>2. G!Least({i}) \in {i} /\ G!Greatest({i}) \in {i}
      BY <2>1, <3>1 DEF IsBest
    <3> QED
      BY <2>3, <3>2
  <2> QED
    BY <2>2, <2>3
<1>5. G!Sum({i}) = IF input[i].val = Null THEN 0 ELSE input[i].val
  BY SumOfOne
<1>6. Single(i).sum \in Int
  <2>1. Single(i).sum = IF input[i].val = Null THEN 0 ELSE input[i].val
    BY DEF Single
  <2> QED
    BY <2>1, RowFacts
<1>7. Single(i) = [first |-> i, sum |-> Single(i).sum, saw |-> G!Valued({i}) # {},
                   count |-> Cardinality(G!Valued({i})), rows |-> Cardinality({i}),
                   least |-> IF query.minmax THEN G!Least({i}) ELSE 0,
                   greatest |-> IF query.minmax THEN G!Greatest({i}) ELSE 0]
  <2>1. CASE input[i].val = Null
    BY <1>2, <1>3, <1>4, <2>1 DEF Single
  <2>2. CASE input[i].val # Null
    BY <1>2, <1>3, <1>4, <2>2 DEF Single
  <2> QED
    BY <2>1, <2>2
<1> QED
  BY <1>5, <1>6, <1>7 DEF IsGroup, Single

\* Folding a row into a group is combining the row's group with it.
LEMMA FoldIs ==
  ASSUME Given, NEW g, NEW f, NEW A \in SUBSET (1..Len(input)), NEW i \in 1..Len(input),
         \A a \in A : a < i, IsGroup(g, f, A)
  PROVE  /\ IsGroup(Fold(g, i), f, A \cup {i})
         /\ Fold(g, i).first = f
         /\ g.sum = G!Sum(A) => Fold(g, i).sum = G!Sum(A \cup {i})
<1>1. /\ g = [first |-> f, sum |-> g.sum, saw |-> g.saw, count |-> g.count,
              rows |-> g.rows, least |-> g.least, greatest |-> g.greatest]
      /\ g.sum \in Int /\ g.count \in Int /\ g.saw \in BOOLEAN /\ i # 0
      /\ ~query.minmax => g.least = 0 /\ g.greatest = 0
  <2>1. Cardinality(G!Valued(A)) \in 0..MaxRows /\ MaxRows \in Nat
    BY RowCounts, RowFacts
  <2>2. g.count = Cardinality(G!Valued(A)) /\ g.saw = (G!Valued(A) # {}) /\ g.sum \in Int
        /\ (~query.minmax => g.least = 0 /\ g.greatest = 0)
    BY DEF IsGroup
  <2>3. g = [first |-> f, sum |-> g.sum, saw |-> g.saw, count |-> g.count,
             rows |-> g.rows, least |-> g.least, greatest |-> g.greatest]
    BY DEF IsGroup
  <2>4. i # 0 /\ g.count \in Int
    BY <2>1, <2>2
  <2> QED
    BY <2>2, <2>3, <2>4
<1>2. Fold(g, i) = Combine(g, Single(i))
  <2>0. g.first = f
    BY <1>1
  <2>1. Combine(g, Single(i)) =
          [first |-> f, sum |-> g.sum + Single(i).sum, saw |-> g.saw \/ Single(i).saw,
           count |-> g.count + Single(i).count, rows |-> g.rows + Single(i).rows,
           least |-> Best(FALSE, g.least, Single(i).least),
           greatest |-> Best(TRUE, g.greatest, Single(i).greatest)]
    BY <2>0 DEF Combine
  <2>2. CASE input[i].val = Null
    <3>1. Single(i) = [first |-> i, sum |-> 0, saw |-> FALSE, count |-> 0, rows |-> 1,
                       least |-> 0, greatest |-> 0]
      BY <2>2 DEF Single
    <3>2. /\ Best(FALSE, g.least, 0) = g.least /\ Best(TRUE, g.greatest, 0) = g.greatest
      BY DEF Best, NoRow
    <3>3. Fold(g, i) = [first |-> f, sum |-> g.sum, saw |-> g.saw, count |-> g.count,
                        rows |-> g.rows + 1, least |-> g.least, greatest |-> g.greatest]
      BY <1>1, <2>2 DEF Fold
    <3>4. /\ Single(i).sum = 0 /\ Single(i).saw = FALSE /\ Single(i).count = 0
          /\ Single(i).rows = 1 /\ Single(i).least = 0 /\ Single(i).greatest = 0
      BY <3>1
    <3>5. g.sum + 0 = g.sum /\ g.count + 0 = g.count /\ (g.saw \/ FALSE) = g.saw
      BY <1>1
    <3> QED
      BY <2>1, <3>2, <3>3, <3>4, <3>5
  <2>3. CASE input[i].val # Null
    <3>1. Single(i) = [first |-> i, sum |-> input[i].val, saw |-> TRUE, count |-> 1, rows |-> 1,
                       least |-> IF query.minmax THEN i ELSE 0,
                       greatest |-> IF query.minmax THEN i ELSE 0]
      BY <2>3 DEF Single
    <3>2. /\ Best(FALSE, 0, 0) = 0 /\ Best(TRUE, 0, 0) = 0
      BY DEF Best, NoRow
    <3>3. Fold(g, i) = [first |-> f, sum |-> g.sum + input[i].val, saw |-> TRUE,
                        count |-> g.count + 1, rows |-> g.rows + 1,
                        least |-> IF query.minmax THEN Best(FALSE, g.least, i) ELSE g.least,
                        greatest |-> IF query.minmax THEN Best(TRUE, g.greatest, i) ELSE g.greatest]
      BY <2>0, <2>3 DEF Fold
    <3>4. /\ (g.saw \/ TRUE) = TRUE
          /\ Best(FALSE, g.least, Single(i).least)
               = IF query.minmax THEN Best(FALSE, g.least, i) ELSE g.least
          /\ Best(TRUE, g.greatest, Single(i).greatest)
               = IF query.minmax THEN Best(TRUE, g.greatest, i) ELSE g.greatest
      <4>1. Single(i).least = (IF query.minmax THEN i ELSE 0)
            /\ Single(i).greatest = (IF query.minmax THEN i ELSE 0)
        BY <3>1
      <4>2. CASE query.minmax
        BY <4>1, <4>2
      <4>3. CASE ~query.minmax
        <5>1. g.least = 0 /\ g.greatest = 0 /\ Single(i).least = 0 /\ Single(i).greatest = 0
          BY <1>1, <4>1, <4>3
        <5> QED
          BY <3>2, <4>3, <5>1
      <4> QED
        BY <4>2, <4>3
    <3>5. Single(i).sum = input[i].val /\ Single(i).saw = TRUE /\ Single(i).count = 1
          /\ Single(i).rows = 1
      BY <3>1
    <3> QED
      BY <2>1, <3>3, <3>4, <3>5
  <2> QED
    BY <2>2, <2>3
<1>3. \A a \in A, b \in {i} : a < b
  OBVIOUS
<1>4. IsGroup(Single(i), i, {i}) /\ Single(i).sum = G!Sum({i}) /\ {i} \in SUBSET (1..Len(input))
  BY SingleIs
<1>5. /\ IsGroup(Combine(g, Single(i)), f, A \cup {i})
      /\ g.sum = G!Sum(A) => Combine(g, Single(i)).sum = G!Sum(A \cup {i})
  BY <1>3, <1>4, CombineIs
<1>6. g.first = f
  BY DEF IsGroup
<1>7. Combine(g, Single(i)).first = f
  BY <1>6 DEF Combine
<1> QED
  BY <1>2, <1>5, <1>7

-----------------------------------------------------------------------------
\* Tables.

\* Whether a look-up of the key stays inside the table.
InTable(t, key) == key = Null \/ key - t.lo \in DOMAIN t.index

\* The key of the table's group g.
KeyIn(t, g) == KeyOf(t.groups[g].first)

Table(lo, index, null, keys, groups, overflow) ==
  [lo |-> lo, index |-> index, null |-> null, keys |-> keys, groups |-> groups,
   overflow |-> overflow]

\* The table has its fields.
Recorded(t) == /\ t = Table(t.lo, t.index, t.null, t.keys, t.groups, t.overflow)
               /\ TableOK(t)

\* Groups are in the order of their first rows, and have different keys.
Ordered(t) == \A g, h \in 1..Len(t.groups) :
                g < h => t.groups[g].first < t.groups[h].first

Distinct(t) == \A g, h \in 1..Len(t.groups) : KeyIn(t, g) = KeyIn(t, h) => g = h

\* A group's first row is the first one of its key; the group of a query
\* without a key has none.
Headed(t, R) == IF query.grouped
                THEN \A g \in 1..Len(t.groups) :
                       t.groups[g].first \in G!Firsts(R)
                ELSE Len(t.groups) = 1 /\ t.groups[1].first = 0

\* Every row has a group.
Seen(t, R) == \A r \in R : \E g \in 1..Len(t.groups) : KeyOf(r) = KeyIn(t, g)

\* A key is found where its group is, and only if it has one.
Finds(t) == \A key \in Keys \cup {Null} : InTable(t, key) =>
              /\ Find(t, key) \in 0..Len(t.groups)
              /\ Find(t, key) = NoGroup => \A g \in 1..Len(t.groups) : KeyIn(t, g) # key
              /\ Find(t, key) # NoGroup => KeyIn(t, Find(t, key)) = key

Keyed(t) == \A g \in 1..Len(t.groups) :
              t.keys[g] = IF KeyIn(t, g) = Null THEN 0 ELSE KeyIn(t, g)

\* The table has the groups of the rows R.
HasGroupsOf(t, R) == /\ Recorded(t) /\ Ordered(t) /\ Distinct(t)
                     /\ Headed(t, R) /\ Seen(t, R)
                     /\ Finds(t) /\ Keyed(t)

\* The rows R are folded into them, sums apart.
Folded(t, R) == \A g \in 1..Len(t.groups) :
                  IsGroup(t.groups[g], t.groups[g].first, G!SameKey(t.groups[g].first, R))

IsTable(t, R) == HasGroupsOf(t, R) /\ Folded(t, R)

\* The sums are those of the rows R, and are in i64.
Exact(t, R) == \A g \in 1..Len(t.groups) :
                 t.groups[g].sum = G!Sum(G!SameKey(t.groups[g].first, R))

InWidth(t) == \A g \in 1..Len(t.groups) : t.groups[g].sum \in G!I64

\* Both have the same slots.
SameSlots(t, u) == u.lo = t.lo /\ DOMAIN u.index = DOMAIN t.index

\* What the fields of a table are.
LEMMA TableFacts ==
  ASSUME NEW t, Recorded(t)
  PROVE  /\ t.lo \in Int /\ t.overflow \in BOOLEAN
         /\ t.groups \in Seq(GroupType) /\ Len(t.groups) \in Nat
         /\ \A g \in 1..Len(t.groups) : t.groups[g] \in GroupType
         /\ t.keys \in Seq(Int) /\ Len(t.keys) = Len(t.groups)
         /\ t.null \in 0..Len(t.groups)
         /\ t.index \in [DOMAIN t.index -> 0..Len(t.groups)]
BY DEF Recorded, TableOK

\* The fields of a table made of them.
LEMMA FieldsOf ==
  ASSUME NEW lo, NEW index, NEW null, NEW keys, NEW groups, NEW overflow,
         NEW t, t = Table(lo, index, null, keys, groups, overflow)
  PROVE  /\ t.lo = lo /\ t.index = index /\ t.null = null /\ t.keys = keys
         /\ t.groups = groups /\ t.overflow = overflow
BY DEF Table

\* A key that has no group.
Lacks(t, key) == \A g \in 1..Len(t.groups) : KeyIn(t, g) # key

\* The table with a new group, in terms of its fields.
LEMMA NewGroupFields ==
  ASSUME Given, NEW t, NEW key \in Keys \cup {Null}, NEW f \in 0..Len(input),
         Recorded(t), InTable(t, key), Find(t, key) = NoGroup
  PROVE  LET new == Len(t.groups) + 1
         IN  WithGroup(t, key, f) =
               Table(t.lo,
                     [o \in DOMAIN t.index |-> IF key # Null /\ o = key - t.lo
                                               THEN new ELSE t.index[o]],
                     IF key = Null THEN new ELSE t.null,
                     Append(t.keys, IF key = Null THEN 0 ELSE key),
                     Append(t.groups, NewGroup(f)),
                     t.overflow)
BY DEF WithGroup, Table

\* The rows B of a key, first seen at row f, may be folded into the table of the
\* rows R next.
Fits(t, R, B, key, f) ==
  /\ \A b \in B : KeyOf(b) = key
  /\ query.grouped => f \in B /\ \A b \in B : f <= b
  /\ \A r \in R, b \in B : KeyOf(r) = key => r < b
  /\ Find(t, key) = NoGroup => \A g \in 1..Len(t.groups) : t.groups[g].first < f

\* The table u is ready for them, in its group g.
Ready(t, u, R, B, key, f, g) ==
  /\ HasGroupsOf(u, R \cup B) /\ Folded(u, R) /\ SameSlots(t, u)
  /\ g \in 1..Len(u.groups) /\ KeyIn(u, g) = key
  /\ query.grouped => u.groups[g].first <= f
  /\ u.overflow = t.overflow
  /\ Exact(t, R) => Exact(u, R)
  /\ InWidth(t) => InWidth(u)

\* It is when the key has a group.
LEMMA GroupThere ==
  ASSUME Given, NEW t, NEW R \in SUBSET (1..Len(input)), NEW B \in SUBSET (1..Len(input)),
         NEW key \in Keys \cup {Null}, NEW f \in 0..Len(input), KeyOf(f) = key,
         IsTable(t, R), InTable(t, key), Fits(t, R, B, key, f), Find(t, key) # NoGroup
  PROVE  Ready(t, t, R, B, key, f, Find(t, key))
<1> DEFINE g == Find(t, key)
           N == Len(t.groups)
<1>1. Recorded(t) /\ Ordered(t) /\ Distinct(t) /\ Headed(t, R) /\ Seen(t, R) /\ Finds(t)
      /\ Keyed(t) /\ Folded(t, R)
  BY DEF IsTable, HasGroupsOf
<1>2. N \in Nat
  BY <1>1, TableFacts
<1>3. g \in 1..N /\ KeyIn(t, g) = key
  <2>1. g \in 0..N /\ g # NoGroup /\ KeyIn(t, g) = key
    BY <1>1 DEF Finds
  <2> QED
    BY <1>2, <2>1 DEF NoGroup
<1>4. \A r \in R, b \in B : KeyOf(r) = key => r < b
  BY DEF Fits
<1>5. \A b \in B : KeyOf(b) = key
  BY DEF Fits
<1> HIDE DEF g
<1>6. Headed(t, R \cup B)
  <2>1. CASE query.grouped
    <3>1. ASSUME NEW h \in 1..N
          PROVE  t.groups[h].first \in G!Firsts(R \cup B)
      <4> DEFINE e == t.groups[h].first
      <4>1. e \in R /\ \A i \in R : KeyOf(i) = KeyOf(e) => e <= i
        BY <1>1, <2>1 DEF Headed, G!Firsts, KeyOf
      <4>2. \A i \in B : KeyOf(i) = KeyOf(e) => e <= i
        <5>1. \A i \in B : KeyOf(i) = KeyOf(e) => e < i
          BY <1>4, <1>5, <4>1
        <5>2. \A i \in B : i \in Int
          OBVIOUS
        <5>3. e \in Int
          <6>1. \A r \in R : r \in Int
            OBVIOUS
          <6> HIDE DEF e
          <6> QED
            BY <4>1, <6>1
        <5> HIDE DEF e
        <5> QED
          BY <5>1, <5>2, <5>3
      <4> HIDE DEF e
      <4>3. e \in G!Firsts(R \cup B)
        BY <4>1, <4>2 DEF G!Firsts, KeyOf
      <4> QED
        BY <4>3 DEF e
    <3> QED
      BY <2>1, <3>1 DEF Headed
  <2>2. CASE ~query.grouped
    BY <1>1, <2>2 DEF Headed
  <2> QED
    BY <2>1, <2>2
<1>7. Seen(t, R \cup B)
  BY <1>1, <1>3, <1>5 DEF Seen
<1>8. query.grouped => t.groups[g].first <= f
  <2>1. SUFFICES ASSUME query.grouped
                 PROVE  t.groups[g].first <= f
    OBVIOUS
  <2>2. t.groups[g].first \in R /\ KeyOf(t.groups[g].first) = key
    BY <1>1, <1>3, <2>1 DEF Headed, G!Firsts, KeyIn
  <2>3. f \in B
    BY <2>1 DEF Fits
  <2> DEFINE e == t.groups[g].first
  <2>4. \A r \in R : r \in Int
    OBVIOUS
  <2> HIDE DEF e
  <2>5. e < f
    BY <1>4, <2>2, <2>3 DEF e
  <2>6. e \in Int
    BY <2>2, <2>4 DEF e
  <2>7. e <= f
    BY <2>5, <2>6
  <2> QED
    BY <2>7 DEF e
<1> QED
  BY <1>1, <1>3, <1>6, <1>7, <1>8 DEF Ready, HasGroupsOf, SameSlots, g

\* And when it has none.
LEMMA GroupAdded ==
  ASSUME Given, NEW t, NEW R \in SUBSET (1..Len(input)), NEW B \in SUBSET (1..Len(input)),
         NEW key \in Keys \cup {Null}, NEW f \in 0..Len(input), KeyOf(f) = key,
         IsTable(t, R), InTable(t, key), Fits(t, R, B, key, f), Find(t, key) = NoGroup
  PROVE  Ready(t, WithGroup(t, key, f), R, B, key, f, Find(WithGroup(t, key, f), key))
<1> DEFINE u == WithGroup(t, key, f)
           N == Len(t.groups)
           index == [o \in DOMAIN t.index |-> IF key # Null /\ o = key - t.lo
                                              THEN N + 1 ELSE t.index[o]]
           null == IF key = Null THEN N + 1 ELSE t.null
           keys == Append(t.keys, IF key = Null THEN 0 ELSE key)
           groups == Append(t.groups, NewGroup(f))
<1>1. Recorded(t) /\ Ordered(t) /\ Distinct(t) /\ Headed(t, R) /\ Seen(t, R) /\ Finds(t)
      /\ Keyed(t) /\ Folded(t, R)
  BY DEF IsTable, HasGroupsOf
<1>2. /\ t.lo \in Int /\ t.overflow \in BOOLEAN
      /\ t.groups \in Seq(GroupType) /\ N \in Nat
      /\ \A g \in 1..N : t.groups[g] \in GroupType
      /\ t.keys \in Seq(Int) /\ Len(t.keys) = N
      /\ t.null \in 0..N
      /\ t.index \in [DOMAIN t.index -> 0..N]
  BY <1>1, TableFacts
<1>3. Lacks(t, key)
  BY <1>1 DEF Finds, Lacks
<1>4. query.grouped /\ query.grouped \in BOOLEAN
  <2>1. SUFFICES ASSUME ~query.grouped
                 PROVE  FALSE
    BY RowFacts
  <2>2. N = 1 /\ KeyIn(t, 1) = Null /\ key = Null
    BY <1>1, <2>1, RowFacts DEF Headed, KeyIn
  <2> QED
    BY <1>3, <2>2 DEF Lacks
<1>5. f \in B /\ (\A b \in B : f <= b) /\ (\A g \in 1..N : t.groups[g].first < f)
      /\ (\A b \in B : KeyOf(b) = key)
  BY <1>4 DEF Fits
<1>6. u = Table(t.lo, index, null, keys, groups, t.overflow)
  BY <1>1, NewGroupFields
<1> HIDE DEF u
<1>7. /\ u.lo = t.lo /\ u.index = index /\ u.null = null /\ u.keys = keys
      /\ u.groups = groups /\ u.overflow = t.overflow
  <2> HIDE DEF index, null, keys, groups, N
  <2> QED
    BY ONLY <1>6 DEF Table
<1>8. /\ NewGroup(f).first = f /\ IsGroup(NewGroup(f), f, {}) /\ NewGroup(f).sum = G!Sum({})
      /\ NewGroup(f) \in GroupType
  <2>1. IsGroup(NewGroup(f), f, {}) /\ NewGroup(f).sum = G!Sum({}) /\ NewGroup(f).first = f
    BY NewGroupIs
  <2>2. {} \in SUBSET (1..Len(input))
    OBVIOUS
  <2>3. NewGroup(f) \in GroupType
    BY <2>1, <2>2, GroupTyped
  <2> QED
    BY <2>1, <2>3
<1>9. /\ groups \in Seq(GroupType) /\ Len(groups) = N + 1
      /\ \A g \in 1..N : groups[g] = t.groups[g]
      /\ groups[N + 1] = NewGroup(f)
  <2> DEFINE last == NewGroup(f)
  <2> HIDE DEF last
  <2>1. last \in GroupType
    BY <1>8 DEF last
  <2>2. /\ Append(t.groups, last) \in Seq(GroupType) /\ Len(Append(t.groups, last)) = N + 1
        /\ \A g \in 1..N : Append(t.groups, last)[g] = t.groups[g]
        /\ Append(t.groups, last)[N + 1] = last
    BY <1>2, <2>1
  <2> QED
    BY <2>2 DEF last
<1>10. /\ keys \in Seq(Int) /\ Len(keys) = N + 1
       /\ \A g \in 1..N : keys[g] = t.keys[g]
       /\ keys[N + 1] = IF key = Null THEN 0 ELSE key
  <2> DEFINE last == IF key = Null THEN 0 ELSE key
  <2>1. last \in Int
    BY RowFacts
  <2> HIDE DEF last
  <2>2. /\ Append(t.keys, last) \in Seq(Int) /\ Len(Append(t.keys, last)) = N + 1
        /\ \A g \in 1..N : Append(t.keys, last)[g] = t.keys[g]
        /\ Append(t.keys, last)[N + 1] = last
    BY <1>2, <2>1
  <2> QED
    BY <2>2 DEF last
<1>11. index \in [DOMAIN t.index -> 0..(N + 1)] /\ DOMAIN index = DOMAIN t.index
  <2>1. \A o \in DOMAIN t.index : t.index[o] \in 0..(N + 1)
    BY <1>2
  <2>2. N + 1 \in 0..(N + 1)
    BY <1>2
  <2> QED
    BY <2>1, <2>2
<1>12. null \in 0..(N + 1)
  BY <1>2
<1> HIDE DEF index, null, keys, groups, N
<1>13. /\ Len(u.groups) = N + 1
       /\ \A g \in 1..N : u.groups[g] = t.groups[g] /\ KeyIn(u, g) = KeyIn(t, g)
                          /\ KeyIn(u, g) # key /\ u.keys[g] = t.keys[g]
                          /\ t.groups[g].first < f
       /\ u.groups[N + 1] = NewGroup(f) /\ KeyIn(u, N + 1) = key
       /\ u.groups[N + 1].first = f
       /\ u.keys[N + 1] = IF key = Null THEN 0 ELSE key
       /\ \A g \in 1..(N + 1) : g \in 1..N \/ g = N + 1
       /\ N \in Nat /\ N + 1 \in 1..(N + 1) /\ \A g \in 1..N : g \in 1..(N + 1)
  <2>1. \A g \in 1..N : KeyIn(t, g) # key
    BY <1>3 DEF Lacks, N
  <2>2. \A g \in 1..N : t.groups[g].first < f
    BY <1>5 DEF N
  <2>3. Len(u.groups) = N + 1 /\ u.groups[N + 1] = NewGroup(f)
    BY <1>7, <1>9
  <2>4. \A g \in 1..N : u.groups[g] = t.groups[g] /\ u.keys[g] = t.keys[g]
    BY <1>7, <1>9, <1>10
  <2>5. N \in Nat
    BY <1>2 DEF N
  <2>6. \A g \in 1..(N + 1) : g \in 1..N \/ g = N + 1
    BY <2>5
  <2>7. N + 1 \in 1..(N + 1) /\ \A g \in 1..N : g \in 1..(N + 1)
    BY <2>5
  <2>8. \A g \in 1..N : KeyIn(u, g) = KeyIn(t, g)
    BY <2>4 DEF KeyIn
  <2>9. KeyIn(u, N + 1) = key /\ u.groups[N + 1].first = f
    BY <1>8, <2>3 DEF KeyIn
  <2>10. u.keys[N + 1] = IF key = Null THEN 0 ELSE key
    BY <1>7, <1>10
  <2> QED
    BY ONLY <2>1, <2>2, <2>3, <2>4, <2>5, <2>6, <2>7, <2>8, <2>9, <2>10
<1>14. Recorded(u)
  <2>1. u = Table(u.lo, u.index, u.null, u.keys, u.groups, u.overflow)
    BY <1>6, <1>7
  <2>2. /\ u.lo \in Int /\ u.overflow \in BOOLEAN /\ u.groups \in Seq(GroupType)
        /\ u.keys \in Seq(Int) /\ Len(u.keys) = Len(u.groups)
        /\ u.null \in 0..Len(u.groups)
        /\ u.index \in [DOMAIN u.index -> 0..Len(u.groups)]
    BY <1>2, <1>7, <1>9, <1>10, <1>11, <1>12
  <2> QED
    BY <2>1, <2>2 DEF Recorded, TableOK
<1>15. Ordered(u)
  <2>1. ASSUME NEW g \in 1..(N + 1), NEW h \in 1..(N + 1), g < h
        PROVE  u.groups[g].first < u.groups[h].first
    <3>1. g \in 1..N
      BY <1>13, <2>1
    <3>2. CASE h \in 1..N
      <4>1. t.groups[g].first < t.groups[h].first
        BY <1>1, <2>1, <3>1, <3>2 DEF Ordered, N
      <4> QED
        BY <1>13, <3>1, <3>2, <4>1
    <3>3. CASE h = N + 1
      BY <1>13, <3>1, <3>3
    <3> QED
      BY <1>13, <3>2, <3>3
  <2> QED
    BY <1>13, <2>1 DEF Ordered
<1>16. Distinct(u)
  <2>1. ASSUME NEW g \in 1..(N + 1), NEW h \in 1..(N + 1), KeyIn(u, g) = KeyIn(u, h)
        PROVE  g = h
    <3>1. CASE g \in 1..N /\ h \in 1..N
      BY <1>1, <1>13, <2>1, <3>1 DEF Distinct, N
    <3>2. CASE g = N + 1 \/ h = N + 1
      BY <1>13, <2>1, <3>2
    <3> QED
      BY <1>13, <3>1, <3>2
  <2> QED
    BY <1>13, <2>1 DEF Distinct
<1>17. Headed(u, R \cup B)
  <2>0. (\A r \in R : r \in Int) /\ (\A r \in B : r \in Int)
    OBVIOUS
  <2>1. ASSUME NEW h \in 1..(N + 1)
        PROVE  u.groups[h].first \in G!Firsts(R \cup B)
    <3>1. CASE h \in 1..N
      <4> DEFINE e == t.groups[h].first
      <4>1. e \in R /\ \A i \in R : KeyOf(i) = KeyOf(e) => e <= i
        BY <1>1, <1>4, <3>1 DEF Headed, G!Firsts, KeyOf, N
      <4>2. \A i \in B : KeyOf(i) # KeyOf(e)
        <5>1. KeyOf(e) # key
          BY <1>13, <3>1 DEF KeyIn
        <5> QED
          BY <1>5, <5>1
      <4>3. u.groups[h].first = e
        BY <1>13, <3>1
      <4> HIDE DEF e
      <4> QED
        BY <4>1, <4>2, <4>3 DEF G!Firsts, KeyOf
    <3>2. CASE h = N + 1
      <4>1. \A r \in R : KeyOf(r) # key
        BY <1>1, <1>3 DEF Seen, Lacks
      <4>2. f \in R \cup B /\ \A i \in R \cup B : KeyOf(i) = KeyOf(f) => f <= i
        BY <1>5, <4>1
      <4>3. u.groups[h].first = f
        BY <1>13, <3>2
      <4> QED
        BY <4>2, <4>3 DEF G!Firsts, KeyOf
    <3> QED
      BY <1>13, <3>1, <3>2
  <2> QED
    BY <1>4, <1>13, <2>1 DEF Headed
<1>18. Seen(u, R \cup B)
  <2>1. ASSUME NEW r \in R
        PROVE  \E g \in 1..(N + 1) : KeyOf(r) = KeyIn(u, g)
    <3>1. PICK g \in 1..N : KeyOf(r) = KeyIn(t, g)
      BY <1>1 DEF Seen, N
    <3> QED
      BY <1>13, <3>1
  <2>2. ASSUME NEW r \in B
        PROVE  \E g \in 1..(N + 1) : KeyOf(r) = KeyIn(u, g)
    BY <1>5, <1>13
  <2> QED
    BY <1>13, <2>1, <2>2 DEF Seen
<1>19. ASSUME NEW k \in Keys \cup {Null}
       PROVE  /\ InTable(u, k) = InTable(t, k)
              /\ InTable(u, k) => Find(u, k) = IF k = key THEN N + 1 ELSE Find(t, k)
  <2>1. InTable(u, k) = InTable(t, k)
    BY <1>7, <1>11 DEF InTable
  <2>2. ASSUME InTable(u, k)
        PROVE  Find(u, k) = IF k = key THEN N + 1 ELSE Find(t, k)
    <3>1. CASE k = Null
      <4>1. Find(u, k) = null /\ Find(t, k) = t.null
        BY <1>7, <3>1 DEF Find
      <4> QED
        BY <3>1, <4>1 DEF null
    <3>2. CASE k # Null
      <4>1. k \in Int /\ t.lo \in Int /\ k - t.lo \in DOMAIN t.index /\ (key # Null => key \in Int)
        BY <1>2, <2>1, <2>2, <3>2, RowFacts DEF InTable
      <4>2. Find(u, k) = index[k - t.lo] /\ Find(t, k) = t.index[k - t.lo]
        BY <1>7, <3>2 DEF Find
      <4>3. index[k - t.lo] = IF key # Null /\ k - t.lo = key - t.lo THEN N + 1
                              ELSE t.index[k - t.lo]
        BY <4>1 DEF index
      <4>4. (key # Null /\ k - t.lo = key - t.lo) = (k = key)
        BY <3>2, <4>1
      <4> QED
        BY <4>2, <4>3, <4>4
    <3> QED
      BY <3>1, <3>2
  <2> QED
    BY <2>1, <2>2
<1>20. Finds(u)
  <2>1. ASSUME NEW k \in Keys \cup {Null}, InTable(u, k)
        PROVE  /\ Find(u, k) \in 0..(N + 1)
               /\ Find(u, k) = NoGroup => \A g \in 1..(N + 1) : KeyIn(u, g) # k
               /\ Find(u, k) # NoGroup => KeyIn(u, Find(u, k)) = k
    <3>1. CASE k = key
      <4>1. Find(u, k) = N + 1 /\ N + 1 # NoGroup /\ N + 1 \in 0..(N + 1)
        BY <1>13, <1>19, <2>1, <3>1 DEF NoGroup
      <4> QED
        BY <1>13, <3>1, <4>1
    <3>2. CASE k # key
      <4>1. Find(u, k) = Find(t, k) /\ InTable(t, k)
        BY <1>19, <2>1, <3>2
      <4>2. /\ Find(t, k) \in 0..N
            /\ Find(t, k) = NoGroup => \A g \in 1..N : KeyIn(t, g) # k
            /\ Find(t, k) # NoGroup => KeyIn(t, Find(t, k)) = k
        BY <1>1, <4>1 DEF Finds, N
      <4>3. Find(t, k) \in 0..(N + 1)
        BY <1>13, <4>2
      <4>4. ASSUME Find(u, k) = NoGroup, NEW g \in 1..(N + 1)
            PROVE  KeyIn(u, g) # k
        BY <1>13, <3>2, <4>1, <4>2, <4>4
      <4>5. ASSUME Find(u, k) # NoGroup
            PROVE  KeyIn(u, Find(u, k)) = k
        <5>1. Find(t, k) \in 1..N
          BY <1>13, <4>1, <4>2, <4>5 DEF NoGroup
        <5> QED
          BY <1>13, <4>1, <4>2, <4>5, <5>1
      <4> QED
        BY <4>1, <4>3, <4>4, <4>5
    <3> QED
      BY <3>1, <3>2
  <2> QED
    BY <1>13, <2>1 DEF Finds
<1>21. Keyed(u)
  <2>1. ASSUME NEW g \in 1..(N + 1)
        PROVE  u.keys[g] = IF KeyIn(u, g) = Null THEN 0 ELSE KeyIn(u, g)
    <3>1. CASE g \in 1..N
      <4>1. t.keys[g] = IF KeyIn(t, g) = Null THEN 0 ELSE KeyIn(t, g)
        BY <1>1, <3>1 DEF Keyed, N
      <4> QED
        BY <1>13, <3>1, <4>1
    <3>2. CASE g = N + 1
      BY <1>13, <3>2
    <3> QED
      BY <1>13, <3>1, <3>2
  <2> QED
    BY <1>13, <2>1 DEF Keyed
<1>22. G!SameKey(f, R) = {}
  <2>1. \A r \in R : KeyOf(r) # key
    BY <1>1, <1>3 DEF Seen, Lacks
  <2> QED
    BY <2>1 DEF G!SameKey, KeyOf
<1>23. Folded(u, R)
  <2>1. ASSUME NEW g \in 1..(N + 1)
        PROVE  IsGroup(u.groups[g], u.groups[g].first, G!SameKey(u.groups[g].first, R))
    <3>1. CASE g \in 1..N
      <4>1. IsGroup(t.groups[g], t.groups[g].first, G!SameKey(t.groups[g].first, R))
        BY <1>1, <3>1 DEF Folded, N
      <4>2. u.groups[g] = t.groups[g]
        BY <1>13, <3>1
      <4> QED
        BY <4>1, <4>2
    <3>2. CASE g = N + 1
      <4>1. u.groups[g] = NewGroup(f) /\ u.groups[g].first = f
        BY <1>13, <3>2
      <4> QED
        BY <1>8, <1>22, <4>1
    <3> QED
      BY <1>13, <3>1, <3>2
  <2> QED
    BY <1>13, <2>1 DEF Folded
<1>24. Exact(t, R) => Exact(u, R)
  <2>1. ASSUME Exact(t, R), NEW g \in 1..(N + 1)
        PROVE  u.groups[g].sum = G!Sum(G!SameKey(u.groups[g].first, R))
    <3>1. CASE g \in 1..N
      <4>1. t.groups[g].sum = G!Sum(G!SameKey(t.groups[g].first, R))
        BY <2>1, <3>1 DEF Exact, N
      <4>2. u.groups[g] = t.groups[g]
        BY <1>13, <3>1
      <4> QED
        BY <4>1, <4>2
    <3>2. CASE g = N + 1
      <4>1. u.groups[g] = NewGroup(f) /\ u.groups[g].first = f
        BY <1>13, <3>2
      <4> QED
        BY <1>8, <1>22, <4>1
    <3> QED
      BY <1>13, <3>1, <3>2
  <2> QED
    BY <1>13, <2>1 DEF Exact
<1>25. InWidth(t) => InWidth(u)
  <2>1. NewGroup(f).sum = 0 /\ 0 \in G!I64
    <3>1. NewGroup(f).sum = 0
      BY DEF NewGroup
    <3>2. MaxInt \in Nat
      BY AggregateAssumption
    <3>3. 0 \in G!I64
      BY <3>2 DEF G!I64
    <3> QED
      BY <3>1, <3>3
  <2>2. ASSUME InWidth(t), NEW g \in 1..(N + 1)
        PROVE  u.groups[g].sum \in G!I64
    <3>1. CASE g \in 1..N
      <4>1. t.groups[g].sum \in G!I64
        BY <2>2, <3>1 DEF InWidth, N
      <4> QED
        BY <1>13, <3>1, <4>1
    <3>2. CASE g = N + 1
      BY <1>13, <2>1, <3>2
    <3> QED
      BY <1>13, <3>1, <3>2
  <2> QED
    BY <1>13, <2>2 DEF InWidth
<1>26. SameSlots(t, u) /\ u.overflow = t.overflow
  BY <1>7, <1>11 DEF SameSlots
<1>27. Find(u, key) = N + 1
  <2>1. InTable(u, key)
    BY <1>19
  <2> QED
    BY <1>19, <2>1
<1>28. N + 1 \in 1..Len(u.groups) /\ KeyIn(u, N + 1) = key /\ u.groups[N + 1].first <= f
  <2>1. f <= f
    BY f \in Int
  <2> QED
    BY <1>13, <2>1
<1>29. HasGroupsOf(u, R \cup B)
  BY <1>14, <1>15, <1>16, <1>17, <1>18, <1>20, <1>21 DEF HasGroupsOf
<1>30. Ready(t, u, R, B, key, f, N + 1)
  BY <1>23, <1>24, <1>25, <1>26, <1>28, <1>29 DEF Ready
<1> QED
  BY <1>27, <1>30 DEF u

\* The table t with m for its group g, and a flag.
With(t, g, m, overflow) ==
  Table(t.lo, t.index, t.null, t.keys, [t.groups EXCEPT ![g] = m], overflow)

\* The same, as the program writes it.
Put(t, g, m) == [t EXCEPT !.groups[g] = m]
PutAndFlag(t, g, m, overflow) == [t EXCEPT !.groups[g] = m, !.overflow = overflow]

\* Both ways of writing it are the same.
LEMMA WithIs ==
  ASSUME NEW t, Recorded(t), NEW g, NEW m, NEW overflow
  PROVE  /\ Put(t, g, m) = With(t, g, m, t.overflow)
         /\ PutAndFlag(t, g, m, overflow) = With(t, g, m, overflow)
<1>1. t = [lo |-> t.lo, index |-> t.index, null |-> t.null, keys |-> t.keys,
           groups |-> t.groups, overflow |-> t.overflow]
  BY DEF Recorded, Table
<1>2. [t EXCEPT !.groups[g] = m] = With(t, g, m, t.overflow)
  BY <1>1 DEF With, Table
<1>3. [t EXCEPT !.groups[g] = m, !.overflow = overflow] = With(t, g, m, overflow)
  <2> DEFINE u == [t EXCEPT !.groups[g] = m]
             groups == [t.groups EXCEPT ![g] = m]
  <2>1. [t EXCEPT !.groups[g] = m, !.overflow = overflow] = [u EXCEPT !.overflow = overflow]
    BY <1>1
  <2>2. u = [lo |-> t.lo, index |-> t.index, null |-> t.null, keys |-> t.keys,
             groups |-> groups, overflow |-> t.overflow]
    BY <1>2 DEF With, Table
  <2> HIDE DEF u, groups
  <2>3. [u EXCEPT !.overflow = overflow]
          = [lo |-> t.lo, index |-> t.index, null |-> t.null, keys |-> t.keys,
             groups |-> groups, overflow |-> overflow]
    BY <2>2
  <2> QED
    BY <2>1, <2>3 DEF With, Table, groups
<1> QED
  BY <1>2, <1>3 DEF Put, PutAndFlag

\* The first rows of a table's groups, and their keys.
LEMMA FirstFacts ==
  ASSUME Given, NEW t, NEW R \in SUBSET (1..Len(input)), Recorded(t), Headed(t, R),
         NEW g \in 1..Len(t.groups)
  PROVE  /\ t.groups[g].first \in 0..Len(input)
         /\ KeyIn(t, g) \in Keys \cup {Null}
         /\ query.grouped => /\ t.groups[g].first \in R
                             /\ \A r \in R : KeyOf(r) = KeyIn(t, g) => t.groups[g].first <= r
         /\ ~query.grouped => /\ Len(t.groups) = 1 /\ g = 1 /\ t.groups[1].first = 0
                              /\ KeyIn(t, g) = Null /\ \A i : KeyOf(i) = Null
<1>1. Len(t.groups) \in Nat /\ Len(input) \in Nat
  BY TableFacts, RowFacts
<1>2. CASE query.grouped
  <2> DEFINE e == t.groups[g].first
  <2>1. e \in R /\ \A i \in R : KeyOf(i) = KeyOf(e) => e <= i
    BY <1>2 DEF Headed, G!Firsts, KeyOf
  <2>2. e \in 1..Len(input)
    <3>1. R \subseteq 1..Len(input)
      OBVIOUS
    <3> HIDE DEF e
    <3> QED
      BY <2>1, <3>1
  <2> HIDE DEF e
  <2>3. KeyOf(e) \in Keys \cup {Null} /\ e \in 0..Len(input)
    <3>1. KeyOf(e) \in Keys \cup {Null}
      BY <2>2, RowFacts
    <3> QED
      BY <1>1, <2>2, <3>1
  <2>4. KeyIn(t, g) = KeyOf(e)
    BY DEF e, KeyIn
  <2>5. /\ e \in 0..Len(input) /\ KeyIn(t, g) \in Keys \cup {Null}
        /\ e \in R /\ \A r \in R : KeyOf(r) = KeyIn(t, g) => e <= r
    BY <2>1, <2>3, <2>4
  <2> QED
    BY <1>2, <2>5 DEF e
<1>3. CASE ~query.grouped
  <2>0. Len(t.groups) = 1 /\ t.groups[1].first = 0
    BY ONLY <1>3, Headed(t, R) DEF Headed
  <2>1. Len(t.groups) = 1 /\ t.groups[1].first = 0 /\ g = 1
    BY <2>0
  <2>2. \A i : KeyOf(i) = Null
    BY <1>3, RowFacts
  <2>3. 0 \in 0..Len(input)
    BY <1>1
  <2>4. KeyIn(t, g) = Null
    BY <2>2 DEF KeyIn
  <2> QED
    BY <1>3, <2>1, <2>2, <2>3, <2>4
<1> QED
  BY <1>2, <1>3

\* m is the group g of the table t, of the key, with the rows B folded in.
Takes(t, R, B, key, g, m) ==
  /\ \A b \in B : KeyOf(b) = key
  /\ IsGroup(m, t.groups[g].first, G!SameKey(t.groups[g].first, R) \cup B)

\* With the right sum.
Adds(t, R, B, g, m) == m.sum = G!Sum(G!SameKey(t.groups[g].first, R) \cup B)

\* The table u is the table t with the rows B folded in as well.
Taken(t, u, R, B, g, m) ==
  /\ IsTable(u, R \cup B) /\ SameSlots(t, u)
  /\ Exact(t, R) /\ Adds(t, R, B, g, m) => Exact(u, R \cup B)
  /\ InWidth(t) /\ m.sum \in G!I64 => InWidth(u)

\* A group whose rows B are folded into the table of the rows R.
LEMMA GroupSet ==
  ASSUME Given, NEW t, NEW R \in SUBSET (1..Len(input)), NEW B \in SUBSET (1..Len(input)),
         HasGroupsOf(t, R \cup B), Folded(t, R),
         NEW g \in 1..Len(t.groups), NEW m, NEW overflow \in BOOLEAN,
         Takes(t, R, B, KeyIn(t, g), g, m)
  PROVE  /\ Taken(t, With(t, g, m, overflow), R, B, g, m)
         /\ With(t, g, m, overflow).overflow = overflow
<1>0. /\ \A b \in B : KeyOf(b) = KeyIn(t, g)
      /\ IsGroup(m, t.groups[g].first, G!SameKey(t.groups[g].first, R) \cup B)
  BY DEF Takes
<1> DEFINE u == With(t, g, m, overflow)
           N == Len(t.groups)
           groups == [t.groups EXCEPT ![g] = m]
           S == R \cup B
<1>1. Recorded(t) /\ Ordered(t) /\ Distinct(t) /\ Headed(t, S) /\ Seen(t, S) /\ Finds(t)
      /\ Keyed(t)
  BY DEF HasGroupsOf
<1>2. /\ t.lo \in Int /\ t.groups \in Seq(GroupType) /\ N \in Nat
      /\ t.keys \in Seq(Int) /\ Len(t.keys) = N
      /\ t.null \in 0..N /\ t.index \in [DOMAIN t.index -> 0..N]
  BY <1>1, TableFacts
<1>3. t.groups[g].first \in 0..Len(input)
  <2>1. S \in SUBSET (1..Len(input))
    OBVIOUS
  <2> HIDE DEF S
  <2> QED
    BY <1>1, <2>1, FirstFacts
<1>4. m \in GroupType /\ m.first = t.groups[g].first
  <2> DEFINE A == G!SameKey(t.groups[g].first, R) \cup B
             f == t.groups[g].first
  <2>1. A \in SUBSET (1..Len(input))
    BY DEF G!SameKey
  <2>2. IsGroup(m, f, A) /\ f \in 0..Len(input)
    BY <1>0, <1>3
  <2> HIDE DEF A, f
  <2>3. m \in GroupType
    BY <2>1, <2>2, GroupTyped
  <2>4. m.first = f
    BY <2>2 DEF IsGroup
  <2> QED
    BY <2>3, <2>4 DEF f
<1>5. /\ u.lo = t.lo /\ u.index = t.index /\ u.null = t.null /\ u.keys = t.keys
      /\ u.groups = groups /\ u.overflow = overflow
      /\ u = Table(u.lo, u.index, u.null, u.keys, u.groups, u.overflow)
  <2>1. u = Table(t.lo, t.index, t.null, t.keys, groups, overflow)
    BY DEF With
  <2> HIDE DEF u, groups, N
  <2> QED
    BY ONLY <2>1 DEF Table
<1>6. /\ groups \in Seq(GroupType) /\ Len(groups) = N /\ groups[g] = m
      /\ \A h \in 1..N : h # g => groups[h] = t.groups[h]
  BY <1>2, <1>4
<1> HIDE DEF u, groups, N
<1>7. /\ Len(u.groups) = N /\ u.groups[g] = m /\ g \in 1..N
      /\ \A h \in 1..N : /\ h # g => u.groups[h] = t.groups[h]
                         /\ u.groups[h].first = t.groups[h].first
                         /\ KeyIn(u, h) = KeyIn(t, h)
  <2>1. Len(u.groups) = N /\ u.groups[g] = m /\ g \in 1..N
    BY <1>5, <1>6 DEF N
  <2>2. \A h \in 1..N : h # g => u.groups[h] = t.groups[h]
    BY <1>5, <1>6
  <2>3. \A h \in 1..N : u.groups[h].first = t.groups[h].first
    BY <1>4, <2>1, <2>2
  <2> QED
    BY <2>1, <2>2, <2>3 DEF KeyIn
<1>8. Recorded(u)
  BY <1>2, <1>5, <1>6 DEF Recorded, TableOK, N
<1>9. Ordered(u) /\ Distinct(u) /\ Headed(u, S) /\ Seen(u, S)
  <2>1. Ordered(u)
    BY <1>1, <1>7 DEF Ordered, N
  <2>2. Distinct(u)
    BY <1>1, <1>7 DEF Distinct, N
  <2>3. Headed(u, S)
    <3>1. CASE query.grouped
      BY <1>1, <1>7, <3>1 DEF Headed, N
    <3>2. CASE ~query.grouped
      <4>1. N = 1 /\ t.groups[1].first = 0
        BY <1>1, <3>2 DEF Headed, N
      <4>2. 1 \in 1..N
        BY <4>1
      <4> QED
        BY <1>7, <3>2, <4>1, <4>2 DEF Headed
    <3> QED
      BY <3>1, <3>2
  <2>4. Seen(u, S)
    BY <1>1, <1>7 DEF Seen, N
  <2> QED
    BY <2>1, <2>2, <2>3, <2>4
<1>10. Finds(u)
  <2>1. ASSUME NEW k \in Keys \cup {Null}, InTable(u, k)
        PROVE  /\ Find(u, k) \in 0..N
               /\ Find(u, k) = NoGroup => \A h \in 1..N : KeyIn(u, h) # k
               /\ Find(u, k) # NoGroup => KeyIn(u, Find(u, k)) = k
    <3>1. InTable(t, k) /\ Find(u, k) = Find(t, k)
      BY <1>5, <2>1 DEF InTable, Find
    <3>2. /\ Find(t, k) \in 0..N
          /\ Find(t, k) = NoGroup => \A h \in 1..N : KeyIn(t, h) # k
          /\ Find(t, k) # NoGroup => KeyIn(t, Find(t, k)) = k
      BY <1>1, <3>1 DEF Finds, N
    <3>3. Find(t, k) # NoGroup => Find(t, k) \in 1..N
      BY <1>2, <3>2 DEF NoGroup, N
    <3> QED
      BY <1>7, <3>1, <3>2, <3>3
  <2> QED
    BY <1>7, <2>1 DEF Finds
<1>11. Keyed(u)
  <2>1. ASSUME NEW h \in 1..N
        PROVE  u.keys[h] = IF KeyIn(u, h) = Null THEN 0 ELSE KeyIn(u, h)
    <3>1. t.keys[h] = IF KeyIn(t, h) = Null THEN 0 ELSE KeyIn(t, h)
      BY <1>1 DEF Keyed, N
    <3> QED
      BY <1>5, <1>7, <3>1
  <2> QED
    BY <1>7, <2>1 DEF Keyed
<1>12. ASSUME NEW h \in 1..N
       PROVE  G!SameKey(u.groups[h].first, S) =
                IF h = g THEN G!SameKey(t.groups[g].first, R) \cup B
                ELSE G!SameKey(t.groups[h].first, R)
  <2>1. u.groups[h].first = t.groups[h].first
    BY <1>7
  <2>2. CASE h = g
    <3>1. \A b \in B : KeyOf(b) = KeyOf(t.groups[g].first)
      BY <1>0 DEF KeyIn
    <3> QED
      BY <2>1, <2>2, <3>1 DEF G!SameKey, KeyOf
  <2>3. CASE h # g
    <3>1. \A b \in B : KeyOf(b) # KeyOf(t.groups[h].first)
      <4>1. KeyIn(t, h) # KeyIn(t, g)
        BY <1>1, <2>3 DEF Distinct, N
      <4> QED
        BY <1>0, <4>1 DEF KeyIn
    <3> QED
      BY <2>1, <2>3, <3>1 DEF G!SameKey, KeyOf
  <2> QED
    BY <2>2, <2>3
<1> HIDE DEF S
<1>13. Folded(u, S)
  <2>1. ASSUME NEW h \in 1..N
        PROVE  IsGroup(u.groups[h], u.groups[h].first, G!SameKey(u.groups[h].first, S))
    <3>1. u.groups[h].first = t.groups[h].first
      BY <1>7
    <3>2. CASE h = g
      <4>1. /\ u.groups[h] = m /\ u.groups[h].first = t.groups[g].first
            /\ G!SameKey(u.groups[h].first, S) = G!SameKey(t.groups[g].first, R) \cup B
        BY <1>7, <1>12, <3>1, <3>2
      <4> QED
        BY ONLY <1>0, <4>1
    <3>3. CASE h # g
      <4>1. IsGroup(t.groups[h], t.groups[h].first, G!SameKey(t.groups[h].first, R))
        BY DEF Folded, N
      <4> QED
        BY <1>7, <1>12, <3>1, <3>3, <4>1
    <3> QED
      BY <3>2, <3>3
  <2> QED
    BY <1>7, <2>1 DEF Folded
<1>14. ASSUME Exact(t, R), Adds(t, R, B, g, m)
       PROVE  Exact(u, S)
  <2>0. m.sum = G!Sum(G!SameKey(t.groups[g].first, R) \cup B)
    BY <1>14 DEF Adds
  <2>1. ASSUME NEW h \in 1..N
        PROVE  u.groups[h].sum = G!Sum(G!SameKey(u.groups[h].first, S))
    <3>1. CASE h = g
      <4>1. u.groups[h] = m
            /\ G!SameKey(u.groups[h].first, S) = G!SameKey(t.groups[g].first, R) \cup B
        BY <1>7, <1>12, <3>1
      <4> QED
        BY ONLY <2>0, <4>1
    <3>2. CASE h # g
      <4>1. t.groups[h].sum = G!Sum(G!SameKey(t.groups[h].first, R))
        BY <1>14 DEF Exact, N
      <4> QED
        BY <1>7, <1>12, <3>2, <4>1
    <3> QED
      BY <3>1, <3>2
  <2> QED
    BY <1>7, <2>1 DEF Exact
<1>15. ASSUME InWidth(t), m.sum \in G!I64
       PROVE  InWidth(u)
  <2>1. ASSUME NEW h \in 1..N
        PROVE  u.groups[h].sum \in G!I64
    <3>1. CASE h = g
      BY <1>7, <1>15, <3>1
    <3>2. CASE h # g
      BY <1>7, <1>15, <3>2 DEF InWidth, N
    <3> QED
      BY <3>1, <3>2
  <2> QED
    BY <1>7, <2>1 DEF InWidth
<1>16. SameSlots(t, u) /\ u.overflow = overflow
  BY <1>5 DEF SameSlots
<1>17. IsTable(u, S)
  BY <1>8, <1>9, <1>10, <1>11, <1>13 DEF IsTable, HasGroupsOf
<1> QED
  BY <1>14, <1>15, <1>16, <1>17 DEF Taken, u, S

-----------------------------------------------------------------------------
\* A row read, and a group merged.

\* A table gets ready for the rows of any key it has a slot for.
LEMMA GroupReady ==
  ASSUME Given, NEW t, NEW R \in SUBSET (1..Len(input)), NEW B \in SUBSET (1..Len(input)),
         NEW key \in Keys \cup {Null}, NEW f \in 0..Len(input), KeyOf(f) = key,
         IsTable(t, R), InTable(t, key), Fits(t, R, B, key, f)
  PROVE  LET u == WithGroup(t, key, f)
         IN  Ready(t, u, R, B, key, f, Find(u, key))
<1>1. CASE Find(t, key) # NoGroup
  <2>1. WithGroup(t, key, f) = t
    BY <1>1 DEF WithGroup
  <2>2. Ready(t, t, R, B, key, f, Find(t, key))
    BY <1>1, GroupThere
  <2> QED
    BY <2>1, <2>2
<1>2. CASE Find(t, key) = NoGroup
  BY <1>2, GroupAdded
<1> QED
  BY <1>1, <1>2

\* A group replaced, on a path that does not check sums.
LEMMA GroupPut ==
  ASSUME Given, NEW t, NEW new, NEW R \in SUBSET (1..Len(input)),
         NEW B \in SUBSET (1..Len(input)), NEW key, NEW f, NEW g, NEW m,
         Ready(t, new, R, B, key, f, g), Takes(new, R, B, key, g, m)
  PROVE  LET u == Put(new, g, m)
         IN  /\ IsTable(u, R \cup B) /\ SameSlots(t, u) /\ u.overflow = t.overflow
             /\ Exact(t, R) /\ Adds(new, R, B, g, m) => Exact(u, R \cup B)
             /\ InWidth(t) /\ m.sum \in G!I64 => InWidth(u)
<1>1. /\ HasGroupsOf(new, R \cup B) /\ Folded(new, R) /\ SameSlots(t, new)
      /\ g \in 1..Len(new.groups) /\ KeyIn(new, g) = key /\ new.overflow = t.overflow
      /\ (Exact(t, R) => Exact(new, R)) /\ (InWidth(t) => InWidth(new))
  BY DEF Ready
<1>2. Recorded(new) /\ new.overflow \in BOOLEAN
  BY <1>1, TableFacts DEF HasGroupsOf
<1>3. Put(new, g, m) = With(new, g, m, new.overflow)
  BY <1>2, WithIs
<1>4. Takes(new, R, B, KeyIn(new, g), g, m)
  BY <1>1
<1> DEFINE u == With(new, g, m, new.overflow)
<1>5. Taken(new, u, R, B, g, m) /\ u.overflow = new.overflow
  BY <1>1, <1>2, <1>4, GroupSet
<1> HIDE DEF u
<1>6. SameSlots(t, u)
  BY <1>1, <1>5 DEF Taken, SameSlots
<1> QED
  BY <1>1, <1>3, <1>5, <1>6 DEF Taken, u

\* A group's sum kept instead of the new one.
LEMMA SumKept ==
  ASSUME NEW m, NEW f, NEW R, IsGroup(m, f, R), NEW s \in Int
  PROVE  IsGroup([m EXCEPT !.sum = s], f, R) /\ [m EXCEPT !.sum = s].sum = s
<1> DEFINE saw == G!Valued(R) # {}
           count == Cardinality(G!Valued(R))
           rows == Cardinality(R)
           least == IF query.minmax THEN G!Least(R) ELSE 0
           greatest == IF query.minmax THEN G!Greatest(R) ELSE 0
           k == [m EXCEPT !.sum = s]
<1>1. m = [first |-> f, sum |-> m.sum, saw |-> saw, count |-> count, rows |-> rows,
           least |-> least, greatest |-> greatest]
  BY DEF IsGroup
<1> HIDE DEF saw, count, rows, least, greatest
<1>2. k = [first |-> f, sum |-> s, saw |-> saw, count |-> count, rows |-> rows,
           least |-> least, greatest |-> greatest]
  BY <1>1
<1> HIDE DEF k
<1>3. k.sum = s
  BY <1>2
<1>4. k = [first |-> f, sum |-> k.sum, saw |-> saw, count |-> count, rows |-> rows,
           least |-> least, greatest |-> greatest]
  BY <1>2, <1>3
<1>5. IsGroup(k, f, R)
  BY <1>3, <1>4 DEF IsGroup, saw, count, rows, least, greatest
<1> QED
  BY <1>3, <1>5 DEF k

\* And on the path that does.
LEMMA GroupChecked ==
  ASSUME Given, NEW t, NEW new, NEW R \in SUBSET (1..Len(input)),
         NEW B \in SUBSET (1..Len(input)), NEW key, NEW f, NEW g, NEW m,
         Ready(t, new, R, B, key, f, g), Takes(new, R, B, key, g, m)
  PROVE  LET u == Checked(new, g, m)
         IN  /\ IsTable(u, R \cup B) /\ SameSlots(t, u) /\ (t.overflow => u.overflow)
             /\ Exact(t, R) /\ Adds(new, R, B, g, m) => u.overflow \/ Exact(u, R \cup B)
             /\ InWidth(t) => InWidth(u)
<1>1. CASE m.sum \in G!I64
  <2>1. Checked(new, g, m) = Put(new, g, m)
    BY <1>1 DEF Checked, Put
  <2> DEFINE u == Put(new, g, m)
  <2>2. /\ IsTable(u, R \cup B) /\ SameSlots(t, u) /\ u.overflow = t.overflow
        /\ Exact(t, R) /\ Adds(new, R, B, g, m) => Exact(u, R \cup B)
        /\ InWidth(t) /\ m.sum \in G!I64 => InWidth(u)
    BY GroupPut
  <2> HIDE DEF u
  <2> QED
    BY <1>1, <2>1, <2>2 DEF u
<1>2. CASE m.sum \notin G!I64
  <2> DEFINE s == new.groups[g].sum
             k == [m EXCEPT !.sum = s]
             u == With(new, g, k, TRUE)
  <2>1. /\ HasGroupsOf(new, R \cup B) /\ Folded(new, R) /\ SameSlots(t, new)
        /\ g \in 1..Len(new.groups) /\ KeyIn(new, g) = key
        /\ (InWidth(t) => InWidth(new))
    BY DEF Ready
  <2>2. Recorded(new)
    BY <2>1 DEF HasGroupsOf
  <2>3. s \in Int
    BY <2>1 DEF Folded, IsGroup
  <2>4. /\ \A b \in B : KeyOf(b) = key
        /\ IsGroup(m, new.groups[g].first, G!SameKey(new.groups[g].first, R) \cup B)
    BY DEF Takes
  <2> HIDE DEF s
  <2>5. IsGroup(k, new.groups[g].first, G!SameKey(new.groups[g].first, R) \cup B) /\ k.sum = s
    BY <2>3, <2>4, SumKept
  <2>6. Checked(new, g, m) = PutAndFlag(new, g, k, TRUE)
    BY <1>2 DEF Checked, PutAndFlag, s
  <2> HIDE DEF k
  <2>7. Checked(new, g, m) = u
    BY <2>2, <2>6, WithIs
  <2>8. Taken(new, u, R, B, g, k) /\ u.overflow = TRUE
    <3>1. Takes(new, R, B, KeyIn(new, g), g, k) /\ TRUE \in BOOLEAN
      BY <2>1, <2>4, <2>5 DEF Takes
    <3> QED
      BY <2>1, <3>1, GroupSet
  <2> HIDE DEF u
  <2>9. SameSlots(t, u)
    BY <2>1, <2>8 DEF Taken, SameSlots
  <2>10. InWidth(t) => InWidth(u)
    <3>1. InWidth(new) => k.sum \in G!I64
      BY <2>1, <2>5 DEF InWidth, s
    <3> QED
      BY <2>1, <2>8, <3>1 DEF Taken
  <2> QED
    BY <2>7, <2>8, <2>9, <2>10 DEF Taken
<1> QED
  BY <1>1, <1>2

\* The rows of the key that are in the table, and that come before the new ones.
Earlier(t, new, R, B, g) ==
  LET A == G!SameKey(new.groups[g].first, R)
  IN  /\ A \in SUBSET (1..Len(input))
      /\ \A a \in A, b \in B : a < b
      /\ IsGroup(new.groups[g], new.groups[g].first, A)
      /\ Exact(t, R) => new.groups[g].sum = G!Sum(A)

\* They are when the table is ready for the new ones.
LEMMA EarlierRows ==
  ASSUME Given, NEW t, NEW new, NEW R \in SUBSET (1..Len(input)),
         NEW B \in SUBSET (1..Len(input)), NEW key, NEW f, NEW g,
         Ready(t, new, R, B, key, f, g), Fits(t, R, B, key, f)
  PROVE  Earlier(t, new, R, B, g)
<1> DEFINE A == G!SameKey(new.groups[g].first, R)
<1>1. A \subseteq R /\ \A a \in A : KeyOf(a) = key
  BY DEF Ready, G!SameKey, KeyIn, KeyOf
<1>2. \A a \in A, b \in B : a < b
  BY <1>1 DEF Fits
<1>3. IsGroup(new.groups[g], new.groups[g].first, A)
  BY DEF Ready, Folded
<1>4. Exact(t, R) => new.groups[g].sum = G!Sum(A)
  BY DEF Ready, Exact
<1> HIDE DEF A
<1>5. A \in SUBSET (1..Len(input))
  BY <1>1
<1> QED
  BY <1>2, <1>3, <1>4, <1>5 DEF A, Earlier

\* The table u is the table t of the rows R, with the rows B.
Extended(t, u, R, B) ==
  /\ IsTable(u, R \cup B) /\ SameSlots(t, u)
  /\ path # "dense" => u.overflow = t.overflow
  /\ path # "dense" /\ Exact(t, R) => Exact(u, R \cup B)
  /\ path = "dense" /\ InWidth(t) => InWidth(u)
  /\ path = "dense" /\ t.overflow => u.overflow
  /\ path = "dense" /\ Exact(t, R) => u.overflow \/ Exact(u, R \cup B)

\* A job's table after the row i is that of the rows up to it.
LEMMA ReadIs ==
  ASSUME Given, NEW t, NEW R \in SUBSET (1..Len(input)), NEW i \in 1..Len(input),
         \A r \in R : r < i, IsTable(t, R), InTable(t, KeyOf(i))
  PROVE  Extended(t, ReadInto(t, i), R, {i})
<1> DEFINE key == KeyOf(i)
           new == WithGroup(t, key, i)
           g == Find(new, key)
           m == Fold(new.groups[g], i)
           f == new.groups[g].first
           A == G!SameKey(f, R)
<1>1. key \in Keys \cup {Null} /\ i \in 0..Len(input) /\ {i} \in SUBSET (1..Len(input)) /\ i \in Nat
  BY RowFacts
<1>2. Fits(t, R, {i}, key, i)
  <2>1. Recorded(t) /\ Headed(t, R) /\ Finds(t)
    BY DEF IsTable, HasGroupsOf
  <2>2. ASSUME Find(t, key) = NoGroup, NEW h \in 1..Len(t.groups)
        PROVE  t.groups[h].first < i
    <3>1. KeyIn(t, h) # key
      BY <1>1, <2>1, <2>2 DEF Finds
    <3>2. CASE query.grouped
      <4>1. t.groups[h].first \in R
        BY <2>1, <3>2, FirstFacts
      <4> QED
        BY <4>1
    <3>3. CASE ~query.grouped
      <4>1. KeyIn(t, h) = Null /\ \A x : KeyOf(x) = Null
        BY <2>1, <3>3, FirstFacts
      <4> QED
        BY <3>1, <4>1
    <3> QED
      BY <3>2, <3>3
  <2>3. i <= i
    BY <1>1
  <2> QED
    BY <2>2, <2>3 DEF Fits
<1> HIDE DEF key
<1>3. Ready(t, new, R, {i}, key, i, g)
  BY <1>1, <1>2, GroupReady DEF key
<1> HIDE DEF new, g
<1>4. /\ A \in SUBSET (1..Len(input)) /\ \A a \in A : a < i
      /\ IsGroup(new.groups[g], f, A)
      /\ Exact(t, R) => new.groups[g].sum = G!Sum(A)
  <2>1. Earlier(t, new, R, {i}, g)
    BY ONLY <1>1, <1>2, <1>3, EarlierRows, Given, R \in SUBSET (1..Len(input))
  <2>2. i \in {i}
    OBVIOUS
  <2> QED
    BY <2>1, <2>2 DEF Earlier
<1> HIDE DEF A, f
<1>5. /\ IsGroup(m, f, A \cup {i})
      /\ new.groups[g].sum = G!Sum(A) => m.sum = G!Sum(A \cup {i})
  BY <1>4, FoldIs
<1>6. Takes(new, R, {i}, key, g, m)
  BY <1>5 DEF Takes, A, f, key
<1>7. Exact(t, R) => Adds(new, R, {i}, g, m)
  BY <1>4, <1>5 DEF Adds, A, f
<1> HIDE DEF m
<1>8. CASE path = "dense"
  <2>1. ReadInto(t, i) = Checked(new, g, m)
    BY <1>8 DEF ReadInto, new, g, m, key
  <2>2. LET u == Checked(new, g, m)
        IN  /\ IsTable(u, R \cup {i}) /\ SameSlots(t, u) /\ (t.overflow => u.overflow)
            /\ Exact(t, R) /\ Adds(new, R, {i}, g, m) => u.overflow \/ Exact(u, R \cup {i})
            /\ InWidth(t) => InWidth(u)
    BY <1>1, <1>3, <1>6, GroupChecked
  <2> QED
    BY <1>7, <1>8, <2>1, <2>2 DEF Extended
<1>9. CASE path # "dense"
  <2>1. ReadInto(t, i) = Put(new, g, m)
    BY <1>9 DEF ReadInto, Put, new, g, m, key
  <2>2. LET u == Put(new, g, m)
        IN  /\ IsTable(u, R \cup {i}) /\ SameSlots(t, u) /\ u.overflow = t.overflow
            /\ Exact(t, R) /\ Adds(new, R, {i}, g, m) => Exact(u, R \cup {i})
            /\ InWidth(t) /\ m.sum \in G!I64 => InWidth(u)
    BY <1>1, <1>3, <1>6, GroupPut
  <2> QED
    BY <1>7, <1>9, <2>1, <2>2 DEF Extended
<1> QED
  BY <1>8, <1>9

\* The rows of a partial whose groups are before its group g.
Merging(p, J, g) == {r \in J : \E k \in 1..(g - 1) : KeyOf(r) = KeyIn(p, k)}

\* The table into which the partial's next group is merged, after the rows R of
\* earlier jobs: those groups of the partial are merged already.
GroupNext(t, p, R, J, lg) ==
  LET f == p.groups[lg].first
      B == G!SameKey(f, J)
      key == KeyIn(p, lg)
  IN  /\ Fits(t, R \cup Merging(p, J, lg), B, key, f)
      /\ B \in SUBSET (1..Len(input)) /\ f \in 0..Len(input)
      /\ key \in Keys \cup {Null} /\ KeyOf(f) = key
      /\ Merging(p, J, lg) \in SUBSET (1..Len(input))
      /\ Merging(p, J, lg + 1) = Merging(p, J, lg) \cup B
      /\ \A b \in B : KeyOf(b) = key

\* It is the table the merge has: the jobs are in the order of their rows.
LEMMA NextFits ==
  ASSUME Given, NEW t, NEW p, NEW R \in SUBSET (1..Len(input)), NEW J \in SUBSET (1..Len(input)),
         \A r \in R, j \in J : r < j,
         IsTable(p, J), NEW lg \in 1..Len(p.groups),
         IsTable(t, R \cup Merging(p, J, lg)), InTable(t, KeyIn(p, lg))
  PROVE  GroupNext(t, p, R, J, lg)
<1> DEFINE f == p.groups[lg].first
           B == G!SameKey(f, J)
           key == KeyIn(p, lg)
           D == Merging(p, J, lg)
           S == R \cup D
<1>1. Recorded(p) /\ Ordered(p) /\ Distinct(p) /\ Headed(p, J) /\ Seen(p, J)
  BY DEF IsTable, HasGroupsOf
<1>2. Recorded(t) /\ Headed(t, S) /\ Finds(t)
  BY DEF IsTable, HasGroupsOf
<1>3. /\ f \in 0..Len(input) /\ key \in Keys \cup {Null}
      /\ query.grouped => /\ f \in J
                          /\ \A r \in J : KeyOf(r) = key => f <= r
      /\ ~query.grouped => Len(p.groups) = 1 /\ key = Null /\ \A i : KeyOf(i) = Null
  BY <1>1, FirstFacts
<1>4. KeyOf(f) = key /\ B \subseteq J /\ (\A b \in J : b \in B <=> KeyOf(b) = key)
  BY DEF KeyIn, G!SameKey, KeyOf
<1>5. D \subseteq J /\ \A r \in D : \E k \in 1..(lg - 1) : KeyOf(r) = KeyIn(p, k)
  BY DEF Merging
<1>6. \A k \in 1..(lg - 1) : k \in 1..Len(p.groups) /\ k < lg /\ KeyIn(p, k) # key
                             /\ p.groups[k].first < f
  <2>1. Len(p.groups) \in Nat
    BY <1>1, TableFacts
  <2>2. \A k \in 1..(lg - 1) : k \in 1..Len(p.groups) /\ k < lg /\ k # lg
    BY <2>1
  <2>3. \A k \in 1..(lg - 1) : KeyIn(p, k) # key
    BY <1>1, <2>2 DEF Distinct
  <2>4. \A k \in 1..(lg - 1) : p.groups[k].first < f
    BY <1>1, <2>2 DEF Ordered
  <2> QED
    BY <2>2, <2>3, <2>4
<1>7. \A r \in D : KeyOf(r) # key
  BY <1>5, <1>6
<1>8. Merging(p, J, lg + 1) = D \cup B
  <2>1. \A k : k \in 1..(lg + 1 - 1) <=> (k \in 1..(lg - 1) \/ k = lg)
    OBVIOUS
  <2>2. \A r \in J : (\E k \in 1..(lg + 1 - 1) : KeyOf(r) = KeyIn(p, k))
                       <=> (\E k \in 1..(lg - 1) : KeyOf(r) = KeyIn(p, k)) \/ KeyOf(r) = key
    BY <2>1
  <2>3. \A r \in J : r \in D <=> \E k \in 1..(lg - 1) : KeyOf(r) = KeyIn(p, k)
    BY DEF Merging
  <2>4. \A r : r \in Merging(p, J, lg + 1)
                 <=> r \in J /\ \E k \in 1..(lg + 1 - 1) : KeyOf(r) = KeyIn(p, k)
    BY DEF Merging
  <2> HIDE DEF D, B, key
  <2>5. \A r : r \in Merging(p, J, lg + 1) <=> r \in D \cup B
    BY <1>4, <1>5, <2>2, <2>3, <2>4
  <2> QED
    BY <2>5
<1> HIDE DEF D, B, key
<1>9. B \in SUBSET (1..Len(input)) /\ D \in SUBSET (1..Len(input)) /\ S \in SUBSET (1..Len(input))
  BY <1>4, <1>5
<1>10. \A r \in S, b \in B : KeyOf(r) = key => r < b
  BY <1>4, <1>7
<1>11. ASSUME Find(t, key) = NoGroup, NEW h \in 1..Len(t.groups)
       PROVE  t.groups[h].first < f
  <2> DEFINE e == t.groups[h].first
  <2>1. KeyIn(t, h) # key
    BY <1>2, <1>3, <1>11 DEF Finds, key
  <2>2. CASE ~query.grouped
    <3>1. KeyIn(t, h) = Null
      BY <1>2, <1>9, <2>2, FirstFacts
    <3> QED
      BY <1>3, <2>1, <2>2, <3>1
  <2>3. CASE query.grouped
    <3>1. e \in S /\ \A r \in S : KeyOf(r) = KeyOf(e) => e <= r
      BY <1>2, <1>9, <2>3, FirstFacts DEF KeyIn
    <3>2. f \in J
      BY <1>3, <2>3
    <3>3. CASE e \in R
      BY <3>2, <3>3
    <3>4. CASE e \in D
      <4>1. PICK k \in 1..(lg - 1) : KeyOf(e) = KeyIn(p, k)
        BY <1>5, <3>4
      <4> DEFINE d == p.groups[k].first
      <4>2. d \in J /\ KeyOf(d) = KeyIn(p, k) /\ d < f
        BY <1>1, <1>6, <2>3, FirstFacts DEF KeyIn
      <4>3. d \in D
        BY <4>2 DEF D, Merging
      <4> HIDE DEF d, e
      <4>4. e <= d
        BY <3>1, <4>1, <4>2, <4>3
      <4>5. e \in Int /\ d \in Int /\ f \in Int
        BY <1>3, <1>9, <3>1, <4>3
      <4>6. e < f
        BY <4>2, <4>4, <4>5
      <4> QED
        BY <4>6 DEF e
    <3> QED
      BY <3>1, <3>3, <3>4
  <2> QED
    BY <2>2, <2>3
<1>12. Fits(t, S, B, key, f)
  <2>1. query.grouped => f \in B /\ \A b \in B : f <= b
    BY <1>3, <1>4 DEF key
  <2> QED
    BY <1>4, <1>10, <1>11, <2>1 DEF Fits
<1> QED
  BY <1>3, <1>4, <1>8, <1>9, <1>12 DEF GroupNext, D, B, key

\* A group of a partial merged into the table.
Merge(t, p, lg) == IF path = "dense" THEN MergeDense(t, p, lg) ELSE MergeGeneral(t, p, lg)

\* The key of a group is read off its first row, or off the keys of the worker.
LEMMA KeysAgree ==
  ASSUME Given, NEW p, NEW J \in SUBSET (1..Len(input)), IsTable(p, J),
         NEW lg \in 1..Len(p.groups)
  PROVE  /\ (IF lg = p.null THEN Null ELSE p.keys[lg]) = KeyIn(p, lg)
         /\ KeyOf(p.groups[lg].first) = KeyIn(p, lg)
<1>1. Recorded(p) /\ Distinct(p) /\ Finds(p) /\ Keyed(p) /\ Headed(p, J)
  BY DEF IsTable, HasGroupsOf
<1>2. Len(p.groups) \in Nat /\ p.null \in 0..Len(p.groups)
  BY <1>1, TableFacts
<1>3. /\ Find(p, Null) = p.null /\ InTable(p, Null) /\ Null \in Keys \cup {Null}
  BY DEF Find, InTable
<1>4. /\ p.null = NoGroup => \A g \in 1..Len(p.groups) : KeyIn(p, g) # Null
      /\ p.null # NoGroup => KeyIn(p, p.null) = Null
  BY <1>1, <1>3 DEF Finds
<1>5. CASE lg = p.null
  <2>1. p.null # NoGroup
    BY <1>5 DEF NoGroup
  <2> QED
    BY <1>4, <1>5, <2>1 DEF KeyIn
<1>6. CASE lg # p.null
  <2>1. KeyIn(p, lg) # Null
    <3>1. CASE p.null = NoGroup
      BY <1>4, <3>1
    <3>2. CASE p.null # NoGroup
      <4>1. p.null \in 1..Len(p.groups)
        BY <1>2, <3>2 DEF NoGroup
      <4> QED
        BY <1>1, <1>4, <1>6, <3>2, <4>1 DEF Distinct
    <3> QED
      BY <3>1, <3>2
  <2> QED
    BY <1>1, <1>6, <2>1 DEF Keyed, KeyIn
<1> QED
  BY <1>5, <1>6 DEF KeyIn

\* The table after a group is merged is that of the group's rows as well.
LEMMA MergeIs ==
  ASSUME Given, path = "dense" => query.grouped,
         NEW t, NEW p, NEW R \in SUBSET (1..Len(input)), NEW J \in SUBSET (1..Len(input)),
         \A r \in R, j \in J : r < j,
         IsTable(p, J), Exact(p, J) \/ p.overflow, NEW lg \in 1..Len(p.groups),
         IsTable(t, R \cup Merging(p, J, lg)), InTable(t, KeyIn(p, lg))
  PROVE  LET u == Merge(t, p, lg)
             S == R \cup Merging(p, J, lg)
             T == R \cup Merging(p, J, lg + 1)
         IN  /\ IsTable(u, T) /\ SameSlots(t, u)
             /\ path # "dense" => u.overflow = t.overflow
             /\ path = "dense" => (InWidth(t) => InWidth(u)) /\ (t.overflow => u.overflow)
             /\ Exact(t, S) /\ Exact(p, J) => Exact(u, T) \/ (path = "dense" /\ u.overflow)
<1> DEFINE h == p.groups[lg]
           f == h.first
           B == G!SameKey(f, J)
           key == KeyIn(p, lg)
           S == R \cup Merging(p, J, lg)
           T == R \cup Merging(p, J, lg + 1)
           new == WithGroup(t, key, f)
           g == Find(new, key)
           m == Combine(new.groups[g], h)
           e == new.groups[g].first
           A == G!SameKey(e, S)
<1>1. /\ Fits(t, S, B, key, f)
      /\ B \in SUBSET (1..Len(input)) /\ f \in 0..Len(input)
      /\ key \in Keys \cup {Null} /\ KeyOf(f) = key
      /\ S \in SUBSET (1..Len(input)) /\ T = S \cup B
      /\ \A b \in B : KeyOf(b) = key
  <2>1. GroupNext(t, p, R, J, lg)
    BY NextFits
  <2> QED
    BY <2>1 DEF GroupNext
<1>2. /\ (IF lg = p.null THEN Null ELSE p.keys[lg]) = key
      /\ IsGroup(h, f, B) /\ (Exact(p, J) => h.sum = G!Sum(B))
  <2>1. (IF lg = p.null THEN Null ELSE p.keys[lg]) = key
    BY KeysAgree
  <2> QED
    BY <2>1 DEF IsTable, Folded, Exact
<1>3. IsTable(t, S) /\ InTable(t, key)
  OBVIOUS
<1> HIDE DEF B, key, S, T, f
<1>4. Ready(t, new, S, B, key, f, g)
  BY <1>1, <1>3, GroupReady
<1>5. Earlier(t, new, S, B, g)
  BY <1>1, <1>4, EarlierRows
<1> HIDE DEF new, g
<1>6. /\ A \in SUBSET (1..Len(input)) /\ \A a \in A, b \in B : a < b
      /\ IsGroup(new.groups[g], e, A)
      /\ Exact(t, S) => new.groups[g].sum = G!Sum(A)
  BY <1>5 DEF Earlier
<1> HIDE DEF A, e, h
<1>7. /\ IsGroup(m, e, A \cup B)
      /\ new.groups[g].sum = G!Sum(A) /\ h.sum = G!Sum(B) => m.sum = G!Sum(A \cup B)
  BY <1>1, <1>2, <1>6, CombineIs
<1>8. Takes(new, S, B, key, g, m)
  BY <1>1, <1>7 DEF Takes, A, e
<1>9. Exact(t, S) /\ Exact(p, J) => Adds(new, S, B, g, m)
  BY <1>2, <1>6, <1>7 DEF Adds, A, e
<1> HIDE DEF m
<1>10. CASE path = "dense"
  <2>1. [m EXCEPT !.first = Min({@, h.first})] = m
    <3>1. m.first = e /\ h.first = f /\ e = new.groups[g].first
      BY <1>7 DEF IsGroup, f, e
    <3>2. e <= f
      BY <1>4, <1>10 DEF Ready, e
    <3>3. e \in Nat
      <4>1. Recorded(new) /\ g \in 1..Len(new.groups)
        BY <1>4 DEF Ready, HasGroupsOf
      <4>2. new.groups[g] \in GroupType
        BY <4>1, TableFacts
      <4>3. e \in 0..MaxRows
        BY <3>1, <4>2 DEF GroupType
      <4> QED
        BY <4>3, RowFacts
    <3>4. f \in Nat
      BY <1>1
    <3>5. Min({m.first, h.first}) = m.first
      BY <3>1, <3>2, <3>3, <3>4, MinOfTwo
    <3>6. m = [first |-> e, sum |-> m.sum, saw |-> m.saw, count |-> m.count,
               rows |-> m.rows, least |-> m.least, greatest |-> m.greatest]
      BY <1>7 DEF IsGroup
    <3> QED
      BY <3>1, <3>5, <3>6
  <2>2. Merge(t, p, lg) = Checked(new, g, m)
    BY <1>2, <1>10, <2>1 DEF Merge, MergeDense, new, g, m, h, f
  <2>3. LET u == Checked(new, g, m)
        IN  /\ IsTable(u, S \cup B) /\ SameSlots(t, u) /\ (t.overflow => u.overflow)
            /\ Exact(t, S) /\ Adds(new, S, B, g, m) => u.overflow \/ Exact(u, S \cup B)
            /\ InWidth(t) => InWidth(u)
    BY <1>1, <1>4, <1>8, GroupChecked
  <2> QED
    BY <1>1, <1>9, <1>10, <2>2, <2>3 DEF S, T
<1>11. CASE path # "dense"
  <2>1. KeyOf(h.first) = key
    BY KeysAgree DEF h, key
  <2>2. Merge(t, p, lg) = Put(new, g, m)
    BY <1>11, <2>1 DEF Merge, MergeGeneral, Put, new, g, m, h, f
  <2>3. LET u == Put(new, g, m)
        IN  /\ IsTable(u, S \cup B) /\ SameSlots(t, u) /\ u.overflow = t.overflow
            /\ Exact(t, S) /\ Adds(new, S, B, g, m) => Exact(u, S \cup B)
            /\ InWidth(t) /\ m.sum \in G!I64 => InWidth(u)
    BY <1>1, <1>4, <1>8, GroupPut
  <2> QED
    BY <1>1, <1>9, <1>11, <2>2, <2>3 DEF S, T
<1> QED
  BY <1>10, <1>11

\* Nothing of a partial is merged at first, and all of it at last.
LEMMA MergingEnds ==
  ASSUME NEW p, NEW J, IsTable(p, J)
  PROVE  /\ Merging(p, J, 1) = {}
         /\ Merging(p, J, Len(p.groups) + 1) = J
<1>1. Seen(p, J) /\ Len(p.groups) \in Nat
  BY TableFacts DEF IsTable, HasGroupsOf
<1>2. 1..(1 - 1) = {} /\ 1..(Len(p.groups) + 1 - 1) = 1..Len(p.groups)
  BY <1>1
<1>3. Merging(p, J, 1) = {}
  BY <1>2 DEF Merging
<1>4. Merging(p, J, Len(p.groups) + 1) = J
  BY <1>1, <1>2 DEF Merging, Seen
<1> QED
  BY <1>3, <1>4

-----------------------------------------------------------------------------
\* The tables there are at first.

\* A table without rows, in which the rows S can be looked up.
Fresh(t, S) == /\ IsTable(t, {}) /\ Exact(t, {}) /\ InWidth(t) /\ ~t.overflow
               /\ \A i \in S : InTable(t, KeyOf(i))

\* A table without groups.
Empty(lo, index) == Table(lo, index, NoGroup, <<>>, <<>>, FALSE)

IsEmpty(t, lo, D) == /\ IsTable(t, {}) /\ Exact(t, {}) /\ InWidth(t) /\ ~t.overflow
                     /\ t.lo = lo /\ DOMAIN t.index = D

\* A field of a table set.
SetIndex(t, x) == [t EXCEPT !.index = x]
SetNull(t, x) == [t EXCEPT !.null = x]
SetKeys(t, x) == [t EXCEPT !.keys = x]
SetGroups(t, x) == [t EXCEPT !.groups = x]

\* What a table is after one of its fields is set.
LEMMA FieldSet ==
  ASSUME NEW lo, NEW index, NEW null, NEW keys, NEW groups, NEW overflow, NEW x
  PROVE  LET t == Table(lo, index, null, keys, groups, overflow)
         IN  /\ SetIndex(t, x) = Table(lo, x, null, keys, groups, overflow)
             /\ SetNull(t, x) = Table(lo, index, x, keys, groups, overflow)
             /\ SetKeys(t, x) = Table(lo, index, null, x, groups, overflow)
             /\ SetGroups(t, x) = Table(lo, index, null, keys, x, overflow)
BY DEF Table, SetIndex, SetNull, SetKeys, SetGroups

\* It is that of no rows.
LEMMA EmptyTable ==
  ASSUME Given, query.grouped, NEW lo \in Int, NEW D, NEW index \in [D -> {NoGroup}]
  PROVE  IsEmpty(Empty(lo, index), lo, D)
<1> DEFINE t == Empty(lo, index)
           none == <<>>
           no == FALSE
<1>0. t = Table(lo, index, NoGroup, none, none, no)
  BY DEF Empty
<1> HIDE DEF t, none, no
<1>1. /\ t.lo = lo /\ t.index = index /\ t.null = NoGroup /\ t.keys = none
      /\ t.groups = none /\ t.overflow = no
      /\ t = Table(t.lo, t.index, t.null, t.keys, t.groups, t.overflow)
  BY ONLY <1>0 DEF Table
<1>2. Len(t.groups) = 0 /\ 1..Len(t.groups) = {} /\ Len(t.keys) = 0
  <2>1. Len(none) = 0 /\ 1..0 = {}
    BY DEF none
  <2> QED
    BY ONLY <1>1, <2>1
<1>3. Recorded(t)
  <2>1. t.groups \in Seq(GroupType) /\ t.keys \in Seq(Int)
    <3>1. none \in Seq(GroupType) /\ none \in Seq(Int)
      BY DEF none
    <3> QED
      BY ONLY <1>1, <3>1
  <2>2. t.index \in [DOMAIN t.index -> 0..0]
    <3>1. index \in [DOMAIN index -> 0..0]
      BY DEF NoGroup
    <3> QED
      BY ONLY <1>1, <3>1
  <2>3. t.null \in 0..0 /\ t.lo \in Int /\ t.overflow \in BOOLEAN
    <3>1. NoGroup \in 0..0 /\ no \in BOOLEAN
      BY DEF NoGroup, no
    <3> QED
      BY ONLY <1>1, <3>1, lo \in Int
  <2>4. t = Table(t.lo, t.index, t.null, t.keys, t.groups, t.overflow)
    BY <1>1
  <2> QED
    BY ONLY <1>2, <2>1, <2>2, <2>3, <2>4 DEF Recorded, TableOK
<1>4. \A key : InTable(t, key) => Find(t, key) = NoGroup
  <2>1. DOMAIN t.index = D /\ \A o \in D : t.index[o] = NoGroup
    BY <1>1
  <2> QED
    BY <1>1, <2>1 DEF InTable, Find
<1>5. Finds(t)
  <2>1. NoGroup \in 0..Len(t.groups)
    <3>1. NoGroup \in 0..0
      BY DEF NoGroup
    <3> QED
      BY ONLY <1>2, <3>1
  <2> QED
    BY <1>2, <1>4, <2>1 DEF Finds
<1>6. Ordered(t) /\ Distinct(t) /\ Headed(t, {}) /\ Seen(t, {}) /\ Keyed(t)
  BY <1>2 DEF Ordered, Distinct, Headed, Seen, Keyed
<1>7. Folded(t, {}) /\ Exact(t, {}) /\ InWidth(t)
  BY <1>2 DEF Folded, Exact, InWidth
<1>8. ~t.overflow /\ DOMAIN t.index = D /\ t.lo = lo
  <2>1. ~no /\ DOMAIN index = D
    BY DEF no
  <2> QED
    BY ONLY <1>1, <2>1
<1> QED
  BY <1>3, <1>5, <1>6, <1>7, <1>8 DEF IsEmpty, IsTable, HasGroupsOf, t

\* Slots are such a table.
LEMMA SlotsEmpty ==
  ASSUME NEW lo, NEW span
  PROVE  Slots(lo, span) = Empty(lo, [o \in 0..span - 1 |-> NoGroup])
BY DEF Slots, Empty, Table

\* So is a hash map, which has a slot for every key.
LEMMA HashMapEmpty == HashMap = Empty(0, [k \in Keys |-> NoGroup])
<1> DEFINE none == <<>>
           no == FALSE
           old == [o \in 0..0 - 1 |-> NoGroup]
           new == [k \in Keys |-> NoGroup]
           s == Slots(0, 0)
<1>1. HashMap = SetIndex(s, new)
  BY DEF HashMap, SetIndex
<1>2. s = Table(0, old, NoGroup, none, none, no)
  BY SlotsEmpty DEF Empty
<1> HIDE DEF none, no, old, new, s
<1>3. SetIndex(s, new) = Table(0, new, NoGroup, none, none, no)
  BY ONLY <1>2, FieldSet
<1> QED
  BY <1>1, <1>3 DEF Empty, none, no, new

\* The smallest and the largest key of some rows.
LEMMA KeyExtremes ==
  ASSUME Given, NEW R \in SUBSET (1..Len(input)), KeysIn(R) # {}
  PROVE  /\ Min(KeysIn(R)) \in Int /\ Max(KeysIn(R)) \in Int
         /\ \A k \in KeysIn(R) : k \in Int /\ Min(KeysIn(R)) <= k /\ k <= Max(KeysIn(R))
<1> DEFINE n == Len(input)
           Q == {i \in R : input[i].key # Null}
           v == [i \in 1..n |-> IF i \in Q THEN input[i].key ELSE 0]
           S == {v[r] : r \in Q}
<1>1. n \in Nat /\ \A i \in Q : input[i].key \in Int
  BY RowFacts
<1>2. v \in [1..n -> Int] /\ Q \in SUBSET (1..n)
  <2>1. Q \in SUBSET (1..n)
    OBVIOUS
  <2> HIDE DEF Q
  <2> QED
    BY <1>1, <2>1
<1>3. \A r \in Q : v[r] = input[r].key
  <2> HIDE DEF Q
  <2> QED
    BY <1>2
<1>4. KeysIn(R) = {input[r].key : r \in Q}
  BY DEF KeysIn
<1>5. KeysIn(R) = S
  BY <1>3, <1>4
<1>6. Q # {}
  BY <1>4
<1> HIDE DEF Q, v, n
<1>7. /\ Min(S) \in S /\ \A x \in S : Min(S) <= x
      /\ Max(S) \in S /\ \A x \in S : Max(S) >= x
      /\ S \subseteq Int
  BY <1>1, <1>2, <1>6, Extremes
<1> HIDE DEF S
<1>8. \A x \in S : x <= Max(S)
  BY <1>7
<1> QED
  BY <1>5, <1>7, <1>8

\* Slots for the keys of some rows.
LEMMA SlotsFresh ==
  ASSUME Given, query.grouped, NEW R \in SUBSET (1..Len(input)), KeysIn(R) # {}
  PROVE  Fresh(Slots(Min(KeysIn(R)), Max(KeysIn(R)) - Min(KeysIn(R)) + 1), R)
<1> DEFINE lo == Min(KeysIn(R))
           hi == Max(KeysIn(R))
           span == hi - lo + 1
           t == Slots(lo, span)
           index == [o \in 0..span - 1 |-> NoGroup]
           D == 0..span - 1
<1>1. /\ lo \in Int /\ hi \in Int
      /\ \A k \in KeysIn(R) : k \in Int /\ lo <= k /\ k <= hi
  BY KeyExtremes
<1> HIDE DEF lo, hi
<1>2. t = Empty(lo, index)
  BY SlotsEmpty
<1>3. index \in [D -> {NoGroup}]
  OBVIOUS
<1> HIDE DEF t, index, span, D
<1>4. IsEmpty(t, lo, D)
  BY <1>1, <1>2, <1>3, EmptyTable
<1>5. ASSUME NEW i \in R, KeyOf(i) # Null
      PROVE  KeyOf(i) - t.lo \in DOMAIN t.index
  <2>1. KeyOf(i) \in KeysIn(R)
    BY <1>5 DEF KeysIn, KeyOf, G!KeyOf
  <2>2. KeyOf(i) \in Int /\ lo <= KeyOf(i) /\ KeyOf(i) <= hi
    BY <1>1, <2>1
  <2>3. KeyOf(i) - lo \in D
    BY <1>1, <2>2 DEF span, D
  <2> QED
    BY <1>4, <2>3 DEF IsEmpty
<1> QED
  BY <1>4, <1>5 DEF Fresh, IsEmpty, InTable, t, lo, hi, span

\* The one group of a query without a key.
LEMMA OneGroupFresh ==
  ASSUME Given, ~query.grouped, NEW S
  PROVE  Fresh(OneGroup, S)
<1> DEFINE t == OneGroup
           g == NewGroup(NoRow)
           index == [o \in 0..0 - 1 |-> NoGroup]
<1>1. t = Table(0, index, 1, <<0>>, <<g>>, FALSE)
  <2> DEFINE none == <<>>
             keys == <<0>>
             groups == <<g>>
             no == FALSE
             t0 == Slots(0, 0)
  <2>1. t = SetGroups(SetKeys(SetNull(t0, 1), keys), groups)
    BY DEF OneGroup, SetGroups, SetKeys, SetNull
  <2>2. t0 = Table(0, index, NoGroup, none, none, no)
    BY SlotsEmpty DEF Empty
  <2> HIDE DEF t0, t, index, none, keys, groups, no
  <2>3. SetNull(t0, 1) = Table(0, index, 1, none, none, no)
    BY ONLY <2>2, FieldSet
  <2>4. SetKeys(SetNull(t0, 1), keys) = Table(0, index, 1, keys, none, no)
    BY ONLY <2>3, FieldSet
  <2>5. SetGroups(SetKeys(SetNull(t0, 1), keys), groups) = Table(0, index, 1, keys, groups, no)
    BY ONLY <2>4, FieldSet
  <2> QED
    BY <2>1, <2>5 DEF keys, groups, no
<1>2. /\ g.first = 0 /\ IsGroup(g, 0, {}) /\ g.sum = G!Sum({}) /\ g.sum = 0 /\ g \in GroupType
  <2>1. IsGroup(NewGroup(0), 0, {}) /\ NewGroup(0).sum = G!Sum({}) /\ NewGroup(0).first = 0
    BY NewGroupIs
  <2>2. NewGroup(0).sum = 0
    BY DEF NewGroup
  <2>3. {} \in SUBSET (1..Len(input)) /\ 0 \in 0..Len(input)
    BY RowFacts
  <2>4. NewGroup(0) \in GroupType
    BY <2>1, <2>3, GroupTyped
  <2> QED
    BY <2>1, <2>2, <2>4 DEF NoRow
<1> HIDE DEF t, g, index
<1>3. /\ t.lo = 0 /\ t.index = index /\ t.null = 1 /\ t.keys = <<0>>
      /\ t.groups = <<g>> /\ t.overflow = FALSE
      /\ t = Table(t.lo, t.index, t.null, t.keys, t.groups, t.overflow)
  <2> DEFINE keys == <<0>>
             groups == <<g>>
  <2>1. t = Table(0, index, 1, keys, groups, FALSE)
    BY <1>1
  <2> HIDE DEF keys, groups
  <2>2. /\ t.lo = 0 /\ t.index = index /\ t.null = 1 /\ t.keys = keys
        /\ t.groups = groups /\ t.overflow = FALSE
        /\ t = Table(t.lo, t.index, t.null, t.keys, t.groups, t.overflow)
    BY <2>1 DEF Table
  <2> QED
    BY <2>2 DEF keys, groups
<1>4. /\ Len(t.groups) = 1 /\ t.groups[1] = g /\ Len(t.keys) = 1 /\ t.keys[1] = 0
      /\ \A x \in 1..Len(t.groups) : x = 1
      /\ t.groups \in Seq(GroupType) /\ t.keys \in Seq(Int)
  BY <1>2, <1>3
<1>5. \A i : KeyOf(i) = Null
  BY RowFacts
<1>6. Recorded(t)
  <2>1. t.index \in [DOMAIN t.index -> 0..1]
    <3>1. 0..0 - 1 = {}
      OBVIOUS
    <3> QED
      BY <1>3, <3>1 DEF index
  <2>2. t.lo \in Int /\ t.overflow \in BOOLEAN /\ t.null \in 0..1
    <3>1. t.lo = 0 /\ t.overflow = FALSE /\ t.null = 1
      BY <1>3
    <3>2. t.lo \in Int
      BY ONLY <3>1
    <3>3. t.overflow \in BOOLEAN
      BY ONLY <3>1, Zenon
    <3>4. t.null \in 0..1
      BY ONLY <3>1
    <3> QED
      BY ONLY <3>2, <3>3, <3>4
  <2>3. Len(t.groups) = 1 /\ Len(t.keys) = Len(t.groups) /\ t.groups \in Seq(GroupType)
        /\ t.keys \in Seq(Int)
        /\ t = Table(t.lo, t.index, t.null, t.keys, t.groups, t.overflow)
    BY <1>3, <1>4
  <2> QED
    BY ONLY <2>1, <2>2, <2>3 DEF Recorded, TableOK
<1>7. Finds(t)
  <2>1. DOMAIN t.index = {}
    <3>1. 0..0 - 1 = {}
      OBVIOUS
    <3> QED
      BY <1>3, <3>1 DEF index
  <2>2. \A key : InTable(t, key) => key = Null /\ Find(t, key) = 1
    BY <1>3, <2>1 DEF InTable, Find
  <2>3. KeyIn(t, 1) = Null /\ 1 \in 0..Len(t.groups)
    BY <1>4, <1>5 DEF KeyIn
  <2>4. 1 # NoGroup
    BY DEF NoGroup
  <2> QED
    BY <2>2, <2>3, <2>4 DEF Finds
<1>8. Ordered(t) /\ Distinct(t)
  BY <1>4 DEF Ordered, Distinct
<1>9. Headed(t, {}) /\ Seen(t, {}) /\ Keyed(t)
  BY <1>2, <1>4, <1>5 DEF Headed, Seen, Keyed, KeyIn
<1>10. G!SameKey(0, {}) = {}
  BY DEF G!SameKey
<1>11. Folded(t, {}) /\ Exact(t, {})
  BY <1>2, <1>4, <1>10 DEF Folded, Exact
<1>12. InWidth(t)
  <2>1. MaxInt \in Nat
    BY AggregateAssumption
  <2>2. 0 \in G!I64
    BY <2>1 DEF G!I64
  <2> QED
    BY <1>2, <1>4, <2>2 DEF InWidth
<1>13. \A i \in S : InTable(t, KeyOf(i))
  BY <1>5 DEF InTable
<1> QED
  BY <1>3, <1>6, <1>7, <1>8, <1>9, <1>11, <1>12, <1>13 DEF Fresh, IsTable, HasGroupsOf, t

\* A hash map has a slot for every key.
LEMMA HashMapFresh ==
  ASSUME Given, query.grouped
  PROVE  Fresh(HashMap, 1..Len(input))
<1> DEFINE index == [k \in Keys |-> NoGroup]
           t == Empty(0, index)
<1>1. HashMap = t
  BY HashMapEmpty
<1>2. index \in [Keys -> {NoGroup}] /\ 0 \in Int
  OBVIOUS
<1> HIDE DEF index
<1>3. IsEmpty(t, 0, Keys)
  BY ONLY Given, query.grouped, <1>2, EmptyTable
<1> HIDE DEF t
<1>4. ASSUME NEW i \in 1..Len(input), KeyOf(i) # Null
      PROVE  KeyOf(i) - t.lo \in DOMAIN t.index
  <2>1. KeyOf(i) \in Keys /\ KeyOf(i) \in Int
    BY <1>4, RowFacts
  <2>2. KeyOf(i) - 0 = KeyOf(i)
    BY <2>1
  <2>3. t.lo = 0 /\ DOMAIN t.index = Keys
    BY <1>3 DEF IsEmpty
  <2> QED
    BY ONLY <2>1, <2>2, <2>3
<1>5. Fresh(t, 1..Len(input))
  BY <1>3, <1>4 DEF Fresh, IsEmpty, InTable
<1> QED
  BY <1>1, <1>5

\* Slots for the range of all keys.
LEMMA RangeFresh ==
  ASSUME Given, query.grouped, KeyRange # NoRange
  PROVE  Fresh(Slots(KeyRange.lo, KeyRange.span), 1..Len(input))
<1> DEFINE R == 1..Len(input)
           keys == KeysIn(R)
           span == Max(keys) - Min(keys) + 1
<1>1. keys # {} /\ KeyRange = [lo |-> Min(keys), span |-> span]
  BY DEF KeyRange
<1>2. KeyRange.lo = Min(keys) /\ KeyRange.span = span
  BY <1>1
<1>3. Fresh(Slots(Min(keys), span), R)
  BY <1>1, SlotsFresh, R \in SUBSET (1..Len(input))
<1> QED
  BY <1>2, <1>3

\* The tables of the general path.
LEMMA GeneralFresh ==
  ASSUME Given
  PROVE  Fresh(GeneralTable, 1..Len(input))
<1>1. CASE ~query.grouped
  BY <1>1, OneGroupFresh DEF GeneralTable
<1>2. CASE query.grouped /\ KeyRange = NoRange
  BY <1>2, HashMapFresh DEF GeneralTable
<1>3. CASE query.grouped /\ KeyRange # NoRange
  BY <1>3, RangeFresh DEF GeneralTable
<1> QED
  BY <1>1, <1>2, <1>3

\* And of the jobs of the dense path.
LEMMA DenseFresh ==
  ASSUME Given, query.grouped, NEW job, job.from..job.to \in SUBSET (1..Len(input))
  PROVE  Fresh(DenseTable(job), job.from..job.to)
<1> DEFINE R == job.from..job.to
           keys == KeysIn(R)
<1>1. CASE keys = {}
  <2> DEFINE index == [o \in 0..0 - 1 |-> NoGroup]
             D == 0..0 - 1
             t == Slots(0, 0)
  <2>1. DenseTable(job) = t
    BY <1>1 DEF DenseTable
  <2>2. t = Empty(0, index)
    BY SlotsEmpty
  <2>3. index \in [D -> {NoGroup}] /\ 0 \in Int
    OBVIOUS
  <2> HIDE DEF index, t, D
  <2>4. IsEmpty(t, 0, D)
    BY ONLY Given, query.grouped, <2>2, <2>3, EmptyTable
  <2>5. \A i \in R : KeyOf(i) = Null
    BY <1>1 DEF KeysIn, KeyOf, G!KeyOf
  <2> QED
    BY <2>1, <2>4, <2>5 DEF Fresh, IsEmpty, InTable
<1>2. CASE keys # {}
  BY <1>2, SlotsFresh DEF DenseTable
<1> QED
  BY <1>1, <1>2

\* A table without groups is a table, whatever the query.
LEMMA NoTable == TableOK(Slots(0, 0))
<1> DEFINE index == [o \in 0..0 - 1 |-> NoGroup]
           none == <<>>
           no == FALSE
           t == Slots(0, 0)
<1>1. t = Table(0, index, NoGroup, none, none, no)
  BY SlotsEmpty DEF Empty
<1>2. /\ none \in Seq(GroupType) /\ none \in Seq(Int) /\ Len(none) = 0
      /\ index \in [DOMAIN index -> 0..0] /\ NoGroup \in 0..0 /\ 0 \in Int
  BY DEF NoGroup
<1>3. no \in BOOLEAN
  OBVIOUS
<1> HIDE DEF index, none, no, t
<1>4. /\ t.lo = 0 /\ t.index = index /\ t.null = NoGroup /\ t.keys = none
      /\ t.groups = none /\ t.overflow = no
  BY ONLY <1>1 DEF Table
<1>5. TableOK(t)
  BY ONLY <1>2, <1>3, <1>4 DEF TableOK
<1> QED
  BY <1>5 DEF t

-----------------------------------------------------------------------------
\* The answer.

\* The first rows of a table's groups.
FirstRows(t) == [g \in 1..Len(t.groups) |-> t.groups[g].first]

\* They are the first rows of the keys, in order.
LEMMA FirstsListed ==
  ASSUME Given, query.grouped, NEW t, NEW R \in SUBSET (1..Len(input)), IsTable(t, R)
  PROVE  /\ Lists(FirstRows(t), G!Firsts(R)) /\ Len(FirstRows(t)) = Len(t.groups)
         /\ FirstRows(t) = Ascending(G!Firsts(R), Len(input))
<1> DEFINE N == Len(t.groups)
           firsts == FirstRows(t)
           n == Len(input)
<1>1. Recorded(t) /\ Ordered(t) /\ Headed(t, R) /\ Seen(t, R) /\ N \in Nat /\ n \in Nat
  BY TableFacts, RowFacts DEF IsTable, HasGroupsOf
<1>2. \A g \in 1..N : firsts[g] = t.groups[g].first /\ firsts[g] \in G!Firsts(R)
  BY <1>1 DEF FirstRows, Headed
<1>3. G!Firsts(R) \subseteq R /\ \A f \in G!Firsts(R), i \in R : KeyOf(i) = KeyOf(f) => f <= i
  BY DEF G!Firsts, KeyOf
<1>4. R \subseteq Nat
  OBVIOUS
<1>5. firsts \in Seq(Nat) /\ Len(firsts) = N /\ DOMAIN firsts = 1..N
  <2>1. \A g \in 1..N : t.groups[g].first \in Nat
    BY <1>2, <1>3, <1>4
  <2>2. firsts = [g \in 1..N |-> t.groups[g].first]
    BY DEF FirstRows
  <2> HIDE DEF firsts, N
  <2> QED
    BY <1>1, <2>1, <2>2
<1> HIDE DEF firsts
<1>6. {firsts[g] : g \in DOMAIN firsts} = G!Firsts(R)
  <2>1. ASSUME NEW f \in G!Firsts(R)
        PROVE  \E g \in 1..N : firsts[g] = f
    <3>1. PICK g \in 1..N : KeyOf(f) = KeyIn(t, g)
      BY <1>1, <1>3 DEF Seen
    <3> DEFINE e == firsts[g]
    <3>2. e \in G!Firsts(R) /\ KeyOf(f) = KeyOf(e)
      BY <1>2, <3>1 DEF KeyIn
    <3> HIDE DEF e
    <3>3. e \in R /\ f \in R
      BY <1>3, <3>2
    <3>4. e <= f /\ f <= e
      BY <1>3, <3>2, <3>3
    <3>5. e \in Nat /\ f \in Nat
      BY <1>4, <3>3
    <3>6. e = f
      BY <3>4, <3>5
    <3> QED
      BY <3>6 DEF e
  <2> QED
    BY <1>2, <1>5, <2>1
<1>7. \A g, h \in DOMAIN firsts : g < h => firsts[g] < firsts[h]
  BY <1>1, <1>2, <1>5 DEF Ordered
<1>8. Lists(firsts, G!Firsts(R))
  BY <1>5, <1>6, <1>7 DEF Lists
<1>9. Lists(Ascending(G!Firsts(R), n), G!Firsts(R))
  <2>1. G!Firsts(R) \cap 1..n = G!Firsts(R)
    BY <1>3
  <2> HIDE DEF n
  <2>2. Lists(Ascending(G!Firsts(R), n), G!Firsts(R) \cap 1..n)
    BY <1>1, AscendingLists
  <2> QED
    BY <2>1, <2>2
<1>10. firsts = Ascending(G!Firsts(R), n)
  BY <1>8, <1>9, ListsUnique
<1> QED
  BY <1>5, <1>8, <1>10 DEF firsts

\* A table with the right sums has the groups of the definition.
LEMMA TableIsOnePass ==
  ASSUME Given, NEW t, NEW R \in SUBSET (1..Len(input)), IsTable(t, R), Exact(t, R)
  PROVE  t.groups = G!Groups(R)
<1> DEFINE N == Len(t.groups)
<1>1. Recorded(t) /\ Headed(t, R) /\ Folded(t, R)
  BY DEF IsTable, HasGroupsOf
<1>2. t.groups \in Seq(GroupType) /\ N \in Nat
  BY <1>1, TableFacts
<1>3. \A g \in 1..N : t.groups[g] = G!Group(t.groups[g].first, G!SameKey(t.groups[g].first, R))
  BY <1>1, GroupIs DEF Folded, Exact
<1>4. t.groups = [g \in 1..N |-> t.groups[g]]
  BY <1>2
<1>5. CASE query.grouped
  <2> DEFINE f == FirstRows(t)
  <2>1. Len(f) = N /\ f = Ascending(G!Firsts(R), Len(input))
    BY <1>5, FirstsListed
  <2>2. \A g \in 1..N : f[g] = t.groups[g].first
    BY DEF FirstRows
  <2> HIDE DEF f
  <2>3. G!Groups(R) = [g \in 1..Len(f) |-> G!Group(f[g], G!SameKey(f[g], R))]
    BY <1>5, <2>1, SameAscending DEF G!Groups
  <2>4. \A g \in 1..N : t.groups[g] = G!Group(f[g], G!SameKey(f[g], R))
    BY <1>3, <2>2
  <2> HIDE DEF N
  <2>5. [g \in 1..N |-> t.groups[g]] = [g \in 1..N |-> G!Group(f[g], G!SameKey(f[g], R))]
    BY <2>4
  <2> QED
    BY <1>4, <2>1, <2>3, <2>5 DEF N
<1>6. CASE ~query.grouped
  <2>1. N = 1 /\ t.groups[1].first = 0
    BY <1>1, <1>6 DEF Headed
  <2>2. G!SameKey(0, R) = R
    BY <1>6 DEF G!SameKey, G!KeyOf
  <2>3. t.groups[1] = G!Group(0, R)
    BY <1>3, <2>1, <2>2
  <2>4. t.groups = <<t.groups[1]>>
    BY <1>2, <2>1
  <2>5. G!Groups(R) = <<G!Group(0, R)>>
    BY <1>6 DEF G!Groups
  <2> QED
    BY ONLY <2>3, <2>4, <2>5
<1> QED
  BY <1>5, <1>6

\* Sorting the groups of a table by their first rows, or going through all rows,
\* changes nothing: they are in that order already.
LEMMA OrderKept ==
  ASSUME Given, query.grouped, NEW t, NEW R \in SUBSET (1..Len(input)), IsTable(t, R)
  PROVE  FirstSeenOrder(t.groups) = t.groups
<1> DEFINE groups == t.groups
           N == Len(t.groups)
           n == Len(input)
           f == FirstRows(t)
           byRow == [i \in 1..n |-> {g \in 1..N : groups[g].first = i}]
           rows == {i \in 1..n : byRow[i] # {}}
           listed == Ascending(rows, n)
           Sorts(order) ==
             /\ {order[g] : g \in 1..N} = 1..N
             /\ \A g, h \in 1..N : g < h => groups[order[g]].first < groups[order[h]].first
           sorted == CHOOSE order \in [1..N -> 1..N] : Sorts(order)
<1>1. FirstSeenOrder(groups) =
        IF N * SortShare < n THEN [g \in 1..N |-> groups[sorted[g]]]
        ELSE [g \in 1..Len(listed) |-> groups[CHOOSE x \in byRow[listed[g]] : TRUE]]
  BY DEF FirstSeenOrder
<1>2. Recorded(t) /\ Ordered(t) /\ groups \in Seq(GroupType) /\ N \in Nat /\ n \in Nat
  BY TableFacts, RowFacts DEF IsTable, HasGroupsOf
<1>3. Lists(f, G!Firsts(R)) /\ Len(f) = N /\ f = Ascending(G!Firsts(R), n)
  BY FirstsListed
<1>4. /\ f \in Seq(Nat) /\ {f[h] : h \in 1..N} = G!Firsts(R)
      /\ \A g, h \in 1..N : g < h => f[g] < f[h]
      /\ \A g \in 1..N : f[g] = groups[g].first
      /\ \A g \in 1..N : f[g] \in Nat
  <2>1. \A g \in 1..N : f[g] = groups[g].first
    BY DEF FirstRows
  <2> HIDE DEF f
  <2>2. f \in Seq(Nat) /\ DOMAIN f = 1..N /\ \A g \in 1..N : f[g] \in Nat
    BY <1>2, <1>3 DEF Lists
  <2> QED
    BY <1>3, <2>1, <2>2 DEF Lists
<1>5. G!Firsts(R) \subseteq 1..n
  BY DEF G!Firsts
<1>6. groups = [g \in 1..N |-> groups[g]]
  BY <1>2
<1>7. \A g, h \in 1..N : f[g] = f[h] => g = h
  <2> HIDE DEF N, f
  <2>1. \A g, h \in 1..N : g \in Int /\ h \in Int
    OBVIOUS
  <2> QED
    BY <1>4, <2>1
<1> HIDE DEF f
<1>8. [g \in 1..N |-> groups[sorted[g]]] = groups
  <2> DEFINE id == [g \in 1..N |-> g]
             Order == [1..N -> 1..N]
  <2>1. id \in Order /\ \A g \in 1..N : id[g] = g
    OBVIOUS
  <2> HIDE DEF id
  <2>2. Sorts(id)
    <3>1. {id[g] : g \in 1..N} = 1..N
      BY <2>1
    <3>2. \A g, h \in 1..N : g < h => groups[id[g]].first < groups[id[h]].first
      BY <1>2, <2>1 DEF Ordered
    <3> QED
      BY <3>1, <3>2
  <2> HIDE DEF Sorts
  <2>3. sorted \in Order /\ Sorts(sorted)
    BY <2>1, <2>2
  <2> HIDE DEF sorted
  <2> DEFINE s == [g \in 1..N |-> f[sorted[g]]]
  <2>4. /\ \A g \in 1..N : sorted[g] \in 1..N
        /\ {sorted[g] : g \in 1..N} = 1..N
        /\ \A g, h \in 1..N : g < h => f[sorted[g]] < f[sorted[h]]
    <3>1. \A g \in 1..N : sorted[g] \in 1..N
      BY <2>3
    <3> QED
      BY <1>4, <2>3, <3>1 DEF Sorts
  <2>5. s \in Seq(Nat) /\ DOMAIN s = 1..N /\ \A g \in 1..N : s[g] = f[sorted[g]]
    <3>1. \A g \in 1..N : f[sorted[g]] \in Nat
      BY <1>4, <2>4
    <3> HIDE DEF N
    <3> QED
      BY <1>2, <3>1
  <2> HIDE DEF s, N
  <2>6. {s[h] : h \in DOMAIN s} = G!Firsts(R)
    <3>1. \A h \in 1..N : \E g \in 1..N : sorted[g] = h
      BY <2>4
    <3>2. \A h \in 1..N : \E g \in 1..N : s[g] = f[h]
      BY <2>5, <3>1
    <3>3. \A h \in 1..N : \E g \in 1..N : s[h] = f[g]
      BY <2>4, <2>5
    <3>4. {s[h] : h \in 1..N} = {f[h] : h \in 1..N}
      <4>1. \A x \in {s[h] : h \in 1..N} : x \in {f[h] : h \in 1..N}
        BY <3>3
      <4>2. \A x \in {f[h] : h \in 1..N} : x \in {s[h] : h \in 1..N}
        BY <3>2
      <4> QED
        BY <4>1, <4>2
    <3> QED
      BY <1>4, <2>5, <3>4 DEF N
  <2>7. Lists(s, G!Firsts(R))
    BY <2>4, <2>5, <2>6 DEF Lists
  <2>8. s = f
    BY <1>3, <2>7, ListsUnique
  <2>9. \A g \in 1..N : sorted[g] = g
    BY <1>7, <2>4, <2>5, <2>8
  <2> QED
    BY <1>6, <2>9
<1>9. [g \in 1..Len(listed) |-> groups[CHOOSE x \in byRow[listed[g]] : TRUE]] = groups
  <2>1. \A i \in 1..n : byRow[i] = {g \in 1..N : f[g] = i}
    BY <1>4
  <2> HIDE DEF byRow
  <2>2. rows = G!Firsts(R)
    BY <1>4, <1>5, <2>1
  <2>3. listed = f
    BY <1>3, <2>2
  <2>4. ASSUME NEW g \in 1..N
        PROVE  byRow[f[g]] = {g}
    <3>1. f[g] \in 1..n
      BY <1>4, <1>5
    <3>2. byRow[f[g]] = {x \in 1..N : f[x] = f[g]}
      BY <2>1, <3>1
    <3> QED
      BY <1>7, <3>2
  <2>5. \A g : (CHOOSE x \in {g} : TRUE) = g
    OBVIOUS
  <2> HIDE DEF listed, N
  <2>6. \A g \in 1..N : (CHOOSE x \in byRow[listed[g]] : TRUE) = g
    BY <2>3, <2>4, <2>5
  <2>7. Len(listed) = N
    BY <1>3, <2>3
  <2> QED
    BY <1>6, <2>6, <2>7
<1> QED
  BY <1>1, <1>8, <1>9

\* The answer read off the table of all rows is the definition's.
LEMMA AnswerIs ==
  ASSUME Given, NEW t, IsTable(t, 1..Len(input)), Exact(t, 1..Len(input)),
         NEW dense \in BOOLEAN, dense => query.grouped /\ InWidth(t)
  PROVE  OutputOf(IF dense
                  THEN LET groups == FirstSeenOrder(t.groups)
                       IN  IF query.having = "sum" THEN Kept(groups) ELSE groups
                  ELSE t.groups) = G!Answer
<1> DEFINE all == t.groups
           R == 1..Len(input)
           kept == Kept(all)
<1>1. all = G!Groups(R)
  BY TableIsOnePass, R \in SUBSET (1..Len(input))
<1>2. all \in Seq(GroupType)
  BY TableFacts DEF IsTable, HasGroupsOf
<1>3. \A groups : Kept(groups) = G!Kept(groups)
  <2>1. \A g : Keeps(g) = G!Keeps(g)
    BY DEF Keeps, G!Keeps
  <2> QED
    BY <2>1, SameSelected DEF Kept, G!Kept
<1>4. \A groups : SumFails(groups) = G!Overflows(groups)
  BY DEF SumFails, G!Overflows
<1> HIDE DEF all
<1>5. OutputOf(all) = G!Answer
  BY <1>1, <1>3, <1>4 DEF OutputOf, G!Answer
<1>6. CASE ~dense
  BY <1>5, <1>6 DEF all
<1>7. CASE dense
  <2>1. FirstSeenOrder(all) = all
    BY <1>7, OrderKept, R \in SUBSET (1..Len(input)) DEF all
  <2>2. CASE query.having # "sum"
    BY <1>5, <1>7, <2>1, <2>2 DEF all
  <2>3. CASE query.having = "sum"
    <3> DEFINE S == {g \in 1..Len(all) : Keeps(all[g])}
               K == {g \in 1..Len(kept) : Keeps(kept[g])}
    <3>1. /\ kept = Selected(all, S) /\ S \in SUBSET (1..Len(all))
      BY DEF Kept
    <3>2. /\ kept \in Seq(GroupType)
          /\ \A k \in 1..Len(kept) : \E g \in S : kept[k] = all[g]
      <4> HIDE DEF kept, S
      <4> QED
        BY ONLY <1>2, <3>1, SelectedIs
    <3>3. \A k \in 1..Len(kept) : Keeps(kept[k]) /\ \E g \in 1..Len(all) : kept[k] = all[g]
      BY <3>2
    <3>4. Kept(kept) = kept
      <4>1. K = 1..Len(kept)
        BY <3>3
      <4>2. Kept(kept) = Selected(kept, K)
        BY DEF Kept
      <4> HIDE DEF K, kept
      <4> QED
        BY <3>2, <4>1, <4>2, SelectedIs
    <3>5. \A g \in 1..Len(all) : all[g].sum \in G!I64
      BY <1>7 DEF InWidth, all
    <3>6. ~SumFails(all)
      BY <3>5 DEF SumFails
    <3>7. ~SumFails(kept)
      <4> HIDE DEF kept
      <4> QED
        BY <3>3, <3>5 DEF SumFails
    <3>8. OutputOf(kept) = [status |-> "ok", rows |-> kept]
      BY <3>4, <3>7 DEF OutputOf
    <3>9. OutputOf(all) = [status |-> "ok", rows |-> kept]
      BY <3>6, <3>7 DEF OutputOf
    <3> QED
      BY <1>5, <1>7, <2>1, <2>3, <3>8, <3>9 DEF all
  <2> QED
    BY <2>2, <2>3
<1> QED
  BY <1>6, <1>7

-----------------------------------------------------------------------------
\* The invariant.

\* The rows job j has read, and all its rows.
RowsRead(j) == jobs[j].from..at[j] - 1
RowsOf(j) == jobs[j].from..jobs[j].to

\* The rows of the jobs before job j.
Before(j) == IF j = 1 THEN {} ELSE 1..jobs[j - 1].to

\* The rows in the merged table.
RowsMerged == Before(cursor.job) \cup
              IF cursor.job <= Len(jobs)
              THEN Merging(part[cursor.job], RowsOf(cursor.job), cursor.group)
              ELSE {}

\* The partial of job j is that of the rows it has read.
PartialIs(j) ==
  /\ IsTable(part[j], RowsRead(j))
  /\ part[j].overflow \/ Exact(part[j], RowsRead(j))
  /\ path = "dense" => InWidth(part[j])
  /\ path # "dense" => ~part[j].overflow
  /\ \A i \in RowsOf(j) : InTable(part[j], KeyOf(i))

\* Jobs are there, and what they have read.
JobsAre ==
  /\ Covers(jobs, Len(input))
  /\ DOMAIN part = 1..Len(jobs)
  /\ at \in [1..Len(jobs) -> Nat]
  /\ \A j \in 1..Len(jobs) : jobs[j].from <= at[j] /\ at[j] <= jobs[j].to + 1
  /\ \A j \in 1..Len(jobs) : PartialIs(j)

AllRead == \A j \in 1..Len(jobs) : at[j] = jobs[j].to + 1

\* Nothing is merged yet.
Unmerged == /\ cursor = [job |-> 1, group |-> 1]
            /\ Fresh(merged, 1..Len(input))

\* The merge is at a group of a partial, past the last one of a partial, or past
\* the last partial.
CursorIs == /\ cursor \in [job : Nat \ {0}, group : Nat \ {0}]
            /\ cursor.job <= Len(jobs) + 1
            /\ cursor.job <= Len(jobs) =>
                 cursor.group <= Len(part[cursor.job].groups) + 1
            /\ cursor.job > Len(jobs) => cursor.group = 1

\* The merged table is that of the rows merged: its sums are right unless it
\* has, or is about to have, the overflow flag.
MergedIs ==
  /\ IsTable(merged, RowsMerged)
  /\ \/ merged.overflow
     \/ cursor.group > 1 /\ part[cursor.job].overflow
     \/ Exact(merged, RowsMerged)
  /\ path = "dense" => InWidth(merged)
  /\ path # "dense" => ~merged.overflow
  /\ \A i \in 1..Len(input) : InTable(merged, KeyOf(i))

\* The whole result.
ResultIs == /\ IsTable(merged, 1..Len(input)) /\ Exact(merged, 1..Len(input))
            /\ path = "dense" => InWidth(merged)
            /\ cursor \in [job : Nat \ {0}, group : Nat \ {0}]

AInv ==
  /\ Given
  /\ path \in {"none", "dense", "general", "global"}
  /\ phase \in {"plan", "jobs", "merge", "output", "done"}
  /\ IF phase = "done" THEN outcome.status \in {"ok", "overflow"} ELSE outcome = G!Pending
  /\ path = "dense" => query.grouped
  /\ phase = "plan" => NoJobs
  /\ phase # "plan" => JobsAre
  /\ phase = "jobs" => Unmerged
  /\ phase = "merge" => AllRead /\ CursorIs /\ MergedIs
  /\ phase \in {"output", "done"} => ResultIs

-----------------------------------------------------------------------------
\* What depends on the inputs alone stays as they do.
LEMMA RowsStay ==
  ASSUME UNCHANGED given
  PROVE  /\ Given' <=> Given
         /\ \A i : KeyOf(i)' = KeyOf(i)
         /\ \A R : G!Valued(R)' = G!Valued(R)
         /\ \A f, R : G!SameKey(f, R)' = G!SameKey(f, R)
         /\ \A R : G!Firsts(R)' = G!Firsts(R)
         /\ \A R : G!Sum(R)' = G!Sum(R)
         /\ \A R : G!Least(R)' = G!Least(R) /\ G!Greatest(R)' = G!Greatest(R)
         /\ Len(input)' = Len(input)
<1>1. input' = input /\ starts' = starts /\ query' = query
  BY DEF given
<1>2. Given' <=> Given
  BY <1>1 DEF Given
<1>3. \A i : KeyOf(i)' = KeyOf(i) /\ G!KeyOf(i)' = G!KeyOf(i)
  BY <1>1 DEF KeyOf, G!KeyOf
<1>4. \A R : G!Valued(R)' = G!Valued(R)
  BY <1>1 DEF G!Valued
<1>5. \A f, R : G!SameKey(f, R)' = G!SameKey(f, R)
  BY <1>3 DEF G!SameKey
<1>6. \A R : G!Firsts(R)' = G!Firsts(R)
  BY <1>3 DEF G!Firsts
<1>7. \A R : G!Sum(R)' = G!Sum(R)
  BY <1>1, <1>4 DEF G!Sum
<1>8. \A R : G!Least(R)' = G!Least(R) /\ G!Greatest(R)' = G!Greatest(R)
  BY <1>1, <1>4 DEF G!Least, G!Greatest
<1> QED
  BY <1>1, <1>2, <1>3, <1>4, <1>5, <1>6, <1>7, <1>8

\* And so do the predicates of tables.
LEMMA TablesStay ==
  ASSUME UNCHANGED given
  PROVE  /\ \A t, R : IsTable(t, R)' <=> IsTable(t, R)
         /\ \A t, R : Exact(t, R)' <=> Exact(t, R)
         /\ \A t : InWidth(t)' <=> InWidth(t)
         /\ \A t, key : InTable(t, key)' <=> InTable(t, key)
         /\ \A p, J, g : Merging(p, J, g)' = Merging(p, J, g)
<1>1. /\ \A i : KeyOf(i)' = KeyOf(i)
      /\ \A R : G!Valued(R)' = G!Valued(R)
      /\ \A f, R : G!SameKey(f, R)' = G!SameKey(f, R)
      /\ \A R : G!Firsts(R)' = G!Firsts(R)
      /\ \A R : G!Sum(R)' = G!Sum(R)
      /\ \A R : G!Least(R)' = G!Least(R) /\ G!Greatest(R)' = G!Greatest(R)
      /\ query' = query
  BY RowsStay DEF given
<1>2. \A h, f, R : IsGroup(h, f, R)' <=> IsGroup(h, f, R)
  BY <1>1 DEF IsGroup
<1>3. \A t, g : KeyIn(t, g)' = KeyIn(t, g)
  BY <1>1 DEF KeyIn
<1>4. \A t, key : InTable(t, key)' <=> InTable(t, key)
  BY DEF InTable
<1>5. \A t : (Recorded(t)' <=> Recorded(t)) /\ (Ordered(t)' <=> Ordered(t))
  BY DEF Recorded, Ordered
<1>6. \A t : Distinct(t)' <=> Distinct(t)
  BY <1>3 DEF Distinct
<1>7. \A t, R : Headed(t, R)' <=> Headed(t, R)
  BY <1>1 DEF Headed
<1>8. \A t, R : Seen(t, R)' <=> Seen(t, R)
  BY <1>1, <1>3 DEF Seen
<1>9. \A t : Finds(t)' <=> Finds(t)
  BY <1>3, <1>4 DEF Finds
<1>10. \A t : Keyed(t)' <=> Keyed(t)
  BY <1>3 DEF Keyed
<1>11. \A t, R : HasGroupsOf(t, R)' <=> HasGroupsOf(t, R)
  BY <1>5, <1>6, <1>7, <1>8, <1>9, <1>10 DEF HasGroupsOf
<1>12. \A t, R : Folded(t, R)' <=> Folded(t, R)
  BY <1>1, <1>2 DEF Folded
<1>13. \A t, R : IsTable(t, R)' <=> IsTable(t, R)
  BY <1>11, <1>12 DEF IsTable
<1>14. \A t, R : Exact(t, R)' <=> Exact(t, R)
  BY <1>1 DEF Exact
<1>15. \A t : InWidth(t)' <=> InWidth(t)
  BY DEF InWidth, G!I64
<1>16. \A p, J, g : Merging(p, J, g)' = Merging(p, J, g)
  BY <1>1, <1>3 DEF Merging
<1> QED
  BY <1>4, <1>13, <1>14, <1>15, <1>16

-----------------------------------------------------------------------------
\* What the jobs' order says of their rows.

\* The rows of the jobs before job j.
RowsBefore(js, j) == IF j = 1 THEN {} ELSE 1..js[j - 1].to

\* They come before the rows of job j, and are all rows at last.
LEMMA JobRows ==
  ASSUME NEW n \in Nat, NEW js, Covers(js, n)
  PROVE  /\ Len(js) \in Nat \ {0}
         /\ \A j \in 1..Len(js) :
              /\ js[j].from \in Nat \ {0} /\ js[j].to \in Nat
              /\ js[j].to <= n /\ js[j].from <= js[j].to + 1
              /\ js[j].from..js[j].to \in SUBSET (1..n)
              /\ RowsBefore(js, j) \in SUBSET (1..n)
              /\ \A r \in RowsBefore(js, j), i \in js[j].from..js[j].to : r < i
              /\ RowsBefore(js, j + 1) = RowsBefore(js, j) \cup (js[j].from..js[j].to)
         /\ RowsBefore(js, Len(js) + 1) = 1..n
<1>1. /\ js \in Seq(Job) /\ Len(js) > 0 /\ js[1].from = 1 /\ js[Len(js)].to = n
      /\ \A j \in 1..Len(js) : /\ 1 <= js[j].from /\ js[j].from <= js[j].to + 1
                               /\ js[j].to <= n
      /\ \A j \in 1..(Len(js) - 1) : js[j + 1].from = js[j].to + 1
  BY DEF Covers
<1>2. Len(js) \in Nat \ {0} /\ \A j \in 1..Len(js) : js[j] \in Job
  BY <1>1
<1>3. \A j \in 1..Len(js) : js[j].from \in Nat \ {0} /\ js[j].to \in Nat
  BY <1>1, <1>2 DEF Job
<1>4. ASSUME NEW j \in 1..Len(js)
      PROVE  /\ js[j].from..js[j].to \in SUBSET (1..n)
             /\ RowsBefore(js, j) \in SUBSET (1..n)
             /\ \A r \in RowsBefore(js, j), i \in js[j].from..js[j].to : r < i
             /\ RowsBefore(js, j + 1) = RowsBefore(js, j) \cup (js[j].from..js[j].to)
  <2> DEFINE f == js[j].from
             t == js[j].to
  <2>1. f \in Nat \ {0} /\ t \in Nat /\ t <= n /\ f <= t + 1 /\ (j = 1 => f = 1)
    BY <1>1, <1>3
  <2>2. RowsBefore(js, j + 1) = 1..t
    <3>1. j + 1 # 1 /\ j + 1 - 1 = j
      OBVIOUS
    <3> QED
      BY <3>1 DEF RowsBefore
  <2>3. CASE j = 1
    BY <2>1, <2>2, <2>3 DEF RowsBefore
  <2>4. CASE j # 1
    <3> DEFINE b == js[j - 1].to
    <3>1. j - 1 \in 1..(Len(js) - 1) /\ j - 1 \in 1..Len(js) /\ (j - 1) + 1 = j
      BY <1>2, <2>4
    <3>2. b \in Nat /\ b <= n /\ f = b + 1
      BY <1>1, <1>3, <3>1
    <3>3. RowsBefore(js, j) = 1..b
      BY <2>4 DEF RowsBefore
    <3> HIDE DEF b, f, t
    <3>4. /\ f..t \in SUBSET (1..n) /\ 1..b \in SUBSET (1..n)
          /\ \A r \in 1..b, i \in f..t : r < i
          /\ 1..t = 1..b \cup f..t
      BY <2>1, <3>2
    <3> QED
      BY <2>2, <3>3, <3>4 DEF f, t
  <2> QED
    BY <2>3, <2>4
<1>5. RowsBefore(js, Len(js) + 1) = 1..n
  <2>1. Len(js) + 1 # 1 /\ Len(js) + 1 - 1 = Len(js)
    BY <1>2
  <2> QED
    BY <1>1, <2>1 DEF RowsBefore
<1> QED
  BY <1>1, <1>2, <1>3, <1>4, <1>5

\* What the invariant says of them, and of the rows a job has read.
LEMMA JobFacts ==
  ASSUME Given, JobsAre
  PROVE  /\ Len(jobs) \in Nat \ {0} /\ Len(input) \in Nat
         /\ \A j \in 1..Len(jobs) :
              /\ jobs[j].from \in Nat \ {0} /\ jobs[j].to \in Nat /\ at[j] \in Nat
              /\ jobs[j].to <= Len(input) /\ jobs[j].from <= at[j] /\ at[j] <= jobs[j].to + 1
              /\ RowsOf(j) \in SUBSET (1..Len(input))
              /\ RowsRead(j) \in SUBSET (1..Len(input))
              /\ Before(j) \in SUBSET (1..Len(input))
              /\ \A r \in Before(j), i \in RowsOf(j) : r < i
              /\ Before(j + 1) = Before(j) \cup RowsOf(j)
              /\ at[j] = jobs[j].to + 1 => RowsRead(j) = RowsOf(j)
              /\ \A i \in RowsOf(j) : i \in 1..Len(input)
         /\ Before(Len(jobs) + 1) = 1..Len(input)
<1>1. Len(input) \in Nat /\ Covers(jobs, Len(input))
  BY RowFacts DEF JobsAre
<1>2. \A j : Before(j) = RowsBefore(jobs, j)
  BY DEF Before, RowsBefore
<1>3. /\ Len(jobs) \in Nat \ {0}
      /\ \A j \in 1..Len(jobs) :
           /\ jobs[j].from \in Nat \ {0} /\ jobs[j].to \in Nat
           /\ jobs[j].to <= Len(input) /\ jobs[j].from <= jobs[j].to + 1
           /\ jobs[j].from..jobs[j].to \in SUBSET (1..Len(input))
           /\ RowsBefore(jobs, j) \in SUBSET (1..Len(input))
           /\ \A r \in RowsBefore(jobs, j), i \in jobs[j].from..jobs[j].to : r < i
           /\ RowsBefore(jobs, j + 1) = RowsBefore(jobs, j) \cup (jobs[j].from..jobs[j].to)
      /\ RowsBefore(jobs, Len(jobs) + 1) = 1..Len(input)
  BY ONLY <1>1, JobRows
<1>4. \A j \in 1..Len(jobs) : /\ at[j] \in Nat /\ jobs[j].from <= at[j] /\ at[j] <= jobs[j].to + 1
  BY DEF JobsAre
<1>5. ASSUME NEW j \in 1..Len(jobs)
      PROVE  /\ RowsRead(j) \in SUBSET (1..Len(input))
             /\ at[j] = jobs[j].to + 1 => RowsRead(j) = RowsOf(j)
  <2> DEFINE f == jobs[j].from
             t == jobs[j].to
             a == at[j]
  <2>1. f \in Nat \ {0} /\ t \in Nat /\ t <= Len(input) /\ a \in Nat /\ a <= t + 1
    BY <1>3, <1>4
  <2>2. RowsRead(j) = f..a - 1 /\ RowsOf(j) = f..t
    BY DEF RowsRead, RowsOf
  <2> HIDE DEF f, t, a
  <2>3. f..a - 1 \in SUBSET (1..Len(input)) /\ (a = t + 1 => a - 1 = t)
    BY <1>1, <2>1
  <2> QED
    BY <2>2, <2>3 DEF a, t
<1> QED
  BY <1>1, <1>2, <1>3, <1>4, <1>5 DEF RowsOf

-----------------------------------------------------------------------------
\* Jobs are sent.

\* The next state is that in which the path p has sent jobs for all rows.
Sent(p, js) ==
  /\ path' = p /\ phase' = "jobs" /\ jobs' = js
  /\ at' = [j \in 1..Len(js) |-> js[j].from]
  /\ DOMAIN part' = 1..Len(js)
  /\ \A j \in 1..Len(js) : Fresh(part'[j], js[j].from..js[j].to)
  /\ cursor' = [job |-> 1, group |-> 1]
  /\ Fresh(merged', 1..Len(input))
  /\ UNCHANGED <<given, outcome>>

\* The invariant holds in it.
LEMMA SentIs ==
  ASSUME Given, outcome = G!Pending, NEW p \in {"dense", "general", "global"},
         p = "dense" => query.grouped, NEW js, Covers(js, Len(input)), Sent(p, js)
  PROVE  AInv'
<1>1. /\ path' = p /\ phase' = "jobs" /\ jobs' = js
      /\ at' = [j \in 1..Len(js) |-> js[j].from]
      /\ DOMAIN part' = 1..Len(js)
      /\ \A j \in 1..Len(js) : Fresh(part'[j], js[j].from..js[j].to)
      /\ cursor' = [job |-> 1, group |-> 1]
      /\ Fresh(merged', 1..Len(input))
      /\ UNCHANGED <<given, outcome>>
  BY DEF Sent
<1>2. /\ Given' /\ Len(input)' = Len(input)
      /\ \A i : KeyOf(i)' = KeyOf(i)
  BY <1>1, RowsStay
<1>3. /\ \A t, R : IsTable(t, R)' <=> IsTable(t, R)
      /\ \A t, R : Exact(t, R)' <=> Exact(t, R)
      /\ \A t : InWidth(t)' <=> InWidth(t)
      /\ \A t, key : InTable(t, key)' <=> InTable(t, key)
  BY <1>1, TablesStay
<1>4. /\ Len(js) \in Nat \ {0}
      /\ \A j \in 1..Len(js) : js[j].from \in Nat \ {0} /\ js[j].to \in Nat
                               /\ js[j].from <= js[j].to + 1
  <2>1. Len(input) \in Nat
    BY RowFacts
  <2> QED
    BY <2>1, JobRows
<1>5. /\ at' \in [1..Len(js) -> Nat]
      /\ \A j \in 1..Len(js) : at'[j] = js[j].from /\ js[j].from <= at'[j]
                               /\ at'[j] <= js[j].to + 1 /\ js[j].from..at'[j] - 1 = {}
  BY <1>1, <1>4
<1>6. ASSUME NEW j \in 1..Len(js)
      PROVE  PartialIs(j)'
  <2>1. /\ IsTable(part'[j], {}) /\ Exact(part'[j], {}) /\ InWidth(part'[j]) /\ ~part'[j].overflow
        /\ \A i \in js[j].from..js[j].to : InTable(part'[j], KeyOf(i))
    BY <1>1 DEF Fresh
  <2>2. RowsRead(j)' = {} /\ RowsOf(j)' = js[j].from..js[j].to
    BY <1>1, <1>5 DEF RowsRead, RowsOf
  <2> QED
    BY <1>2, <1>3, <2>1, <2>2 DEF PartialIs
<1>7. JobsAre'
  BY <1>1, <1>2, <1>5, <1>6 DEF JobsAre
<1>8. Unmerged'
  BY <1>1, <1>2, <1>3 DEF Unmerged, Fresh
<1>9. outcome' = outcome /\ G!Pending' = G!Pending /\ (p = "dense" => query'.grouped)
  BY <1>1 DEF G!Pending, given
<1> QED
  BY <1>1, <1>2, <1>7, <1>8, <1>9 DEF AInv

\* The first state.
LEMMA InitHolds == Init => AInv
<1> SUFFICES ASSUME Init PROVE AInv
  OBVIOUS
<1>1. input \in Inputs /\ starts \in SUBSET (1..Len(input)) /\ (input # <<>> => 1 \in starts)
      /\ query \in Queries
  BY DEF Init
<1>2. MaxRows \in Nat
  BY AggregateAssumption
<1>3. PICK n \in 0..MaxRows : input \in [1..n -> Rows]
  BY <1>1 DEF Inputs
<1>4. input \in Seq(Rows) /\ Len(input) <= MaxRows
  BY <1>2, <1>3
<1>5. Given
  BY <1>1, <1>4 DEF Given
<1> QED
  BY <1>5 DEF Init, AInv

\* What is sent when the jobs are those of some threads.
LEMMA JobsSent ==
  ASSUME Given, NEW threads \in Nat \ {0}
  PROVE  /\ Covers(JobsOf(threads), Len(input))
         /\ \A j \in 1..Len(JobsOf(threads)) :
              JobsOf(threads)[j].from..JobsOf(threads)[j].to \in SUBSET (1..Len(input))
<1>1. Len(input) \in Nat
  BY RowFacts
<1>2. starts \in SUBSET 1..Len(input) /\ (Len(input) > 0 => 1 \in starts)
  BY <1>1 DEF Given
<1>3. SegmentRows \in Nat \ {0}
  BY AggregateAssumption
<1>4. Covers(JobsOf(threads), Len(input))
  BY <1>1, <1>2, <1>3, JobsCover DEF JobsOf
<1> QED
  BY <1>1, <1>4, JobRows

\* A table with slots for all rows has them for some.
LEMMA FreshForFewer ==
  ASSUME NEW t, NEW S, NEW R \in SUBSET S, Fresh(t, S)
  PROVE  Fresh(t, R)
BY DEF Fresh

\* The global path's jobs.
LEMMA PlanGlobalHolds == AInv /\ PlanGlobal => AInv'
<1> SUFFICES ASSUME AInv, PlanGlobal PROVE AInv'
  OBVIOUS
<1>1. Given /\ outcome = G!Pending /\ ~query.grouped
  BY DEF AInv, PlanGlobal
<1> DEFINE threads == IF Len(input) < MinRows THEN 1 ELSE Threads
           js == JobsOf(threads)
<1>2. threads \in Nat \ {0}
  BY AggregateAssumption
<1> HIDE DEF threads
<1>3. Covers(js, Len(input))
  BY <1>1, <1>2, JobsSent
<1>4. /\ path' = "global" /\ phase' = "jobs" /\ jobs' = js
      /\ at' = [j \in 1..Len(js) |-> js[j].from]
      /\ part' = [j \in 1..Len(js) |-> OneGroup]
      /\ cursor' = [job |-> 1, group |-> 1]
      /\ merged' = OneGroup
      /\ UNCHANGED <<given, outcome>>
  BY DEF PlanGlobal, Send, threads
<1> HIDE DEF js
<1>5. \A S : Fresh(OneGroup, S)
  BY <1>1, OneGroupFresh
<1>6. Sent("global", js)
  BY <1>4, <1>5 DEF Sent
<1> QED
  BY <1>1, <1>3, <1>6, SentIs

\* The dense path's jobs.
LEMMA PlanDenseHolds == AInv /\ PlanDense => AInv'
<1> SUFFICES ASSUME AInv, PlanDense PROVE AInv'
  OBVIOUS
<1>1. Given /\ outcome = G!Pending /\ query.grouped /\ KeyRange # NoRange
  BY DEF AInv, PlanDense
<1> DEFINE js == JobsOf(Threads)
<1>2. /\ Covers(js, Len(input))
      /\ \A j \in 1..Len(js) : js[j].from..js[j].to \in SUBSET (1..Len(input))
  BY <1>1, AggregateAssumption, JobsSent
<1>3. /\ path' = "dense" /\ phase' = "jobs" /\ jobs' = js
      /\ at' = [j \in 1..Len(js) |-> js[j].from]
      /\ part' = [j \in 1..Len(js) |-> DenseTable(js[j])]
      /\ cursor' = [job |-> 1, group |-> 1]
      /\ merged' = Slots(KeyRange.lo, KeyRange.span)
      /\ UNCHANGED <<given, outcome>>
  BY DEF PlanDense, Send
<1> HIDE DEF js
<1>4. \A j \in 1..Len(js) : Fresh(DenseTable(js[j]), js[j].from..js[j].to)
  BY <1>1, <1>2, DenseFresh
<1>5. Fresh(Slots(KeyRange.lo, KeyRange.span), 1..Len(input))
  BY <1>1, RangeFresh
<1>6. DOMAIN part' = 1..Len(js) /\ \A j \in 1..Len(js) : part'[j] = DenseTable(js[j])
  BY <1>3
<1>7. Sent("dense", js)
  BY <1>3, <1>4, <1>5, <1>6 DEF Sent
<1> QED
  BY <1>1, <1>2, <1>7, SentIs

\* The general path's jobs.
LEMMA SendGeneralHolds ==
  ASSUME Given, outcome = G!Pending, SendGeneral
  PROVE  AInv'
<1> DEFINE js == JobsOf(Threads)
<1>1. /\ Covers(js, Len(input))
      /\ \A j \in 1..Len(js) : js[j].from..js[j].to \in SUBSET (1..Len(input))
  BY AggregateAssumption, JobsSent
<1>2. /\ path' = "general" /\ phase' = "jobs" /\ jobs' = js
      /\ at' = [j \in 1..Len(js) |-> js[j].from]
      /\ part' = [j \in 1..Len(js) |-> GeneralTable]
      /\ cursor' = [job |-> 1, group |-> 1]
      /\ merged' = GeneralTable
      /\ UNCHANGED <<given, outcome>>
  BY DEF SendGeneral, Send
<1> HIDE DEF js
<1>3. Fresh(GeneralTable, 1..Len(input))
  BY GeneralFresh
<1>4. \A j \in 1..Len(js) : Fresh(GeneralTable, js[j].from..js[j].to)
  BY <1>1, <1>3, FreshForFewer
<1>5. DOMAIN part' = 1..Len(js) /\ \A j \in 1..Len(js) : part'[j] = GeneralTable
  BY <1>2
<1>6. Sent("general", js)
  BY <1>2, <1>3, <1>4, <1>5 DEF Sent
<1> QED
  BY <1>1, <1>6, SentIs

\* A job reads a row.
LEMMA ReadRowHolds ==
  ASSUME AInv, NEW k \in 1..Len(jobs), ReadRow(k)
  PROVE  AInv'
<1>1. /\ Given /\ JobsAre /\ Unmerged /\ phase = "jobs" /\ outcome = G!Pending
      /\ path \in {"none", "dense", "general", "global"} /\ (path = "dense" => query.grouped)
  BY DEF AInv, ReadRow
<1>2. /\ UNCHANGED <<given, path, phase, jobs, cursor, merged, outcome>>
      /\ at[k] <= jobs[k].to
      /\ part' = [part EXCEPT ![k] = ReadInto(@, at[k])]
      /\ at' = [at EXCEPT ![k] = @ + 1]
  BY DEF ReadRow
<1>3. /\ Given' /\ Len(input)' = Len(input) /\ G!Pending' = G!Pending
      /\ \A i : KeyOf(i)' = KeyOf(i)
  BY <1>1, <1>2, RowsStay DEF G!Pending
<1>4. /\ \A t, R : IsTable(t, R)' <=> IsTable(t, R)
      /\ \A t, R : Exact(t, R)' <=> Exact(t, R)
      /\ \A t : InWidth(t)' <=> InWidth(t)
      /\ \A t, key : InTable(t, key)' <=> InTable(t, key)
  BY <1>2, TablesStay
<1>5. /\ Len(input) \in Nat
      /\ \A j \in 1..Len(jobs) :
              /\ jobs[j].from \in Nat \ {0} /\ jobs[j].to \in Nat /\ at[j] \in Nat
              /\ jobs[j].to <= Len(input) /\ jobs[j].from <= at[j] /\ at[j] <= jobs[j].to + 1
              /\ RowsOf(j) \in SUBSET (1..Len(input))
              /\ RowsRead(j) \in SUBSET (1..Len(input))
  BY <1>1, JobFacts
<1>6. /\ Covers(jobs, Len(input))
      /\ DOMAIN part = 1..Len(jobs) /\ DOMAIN at = 1..Len(jobs)
      /\ \A j \in 1..Len(jobs) : PartialIs(j)
      /\ at \in [1..Len(jobs) -> Nat]
  BY <1>1 DEF JobsAre
<1>7. /\ at'[k] = at[k] + 1 /\ \A j \in 1..Len(jobs) : j # k => at'[j] = at[j]
      /\ at' \in [1..Len(jobs) -> Nat]
      /\ part'[k] = ReadInto(part[k], at[k])
      /\ \A j \in 1..Len(jobs) : j # k => part'[j] = part[j]
      /\ DOMAIN part' = 1..Len(jobs)
  BY <1>2, <1>5, <1>6
<1>8. PartialIs(k)'
  <2> DEFINE t == part[k]
             i == at[k]
             u == ReadInto(t, i)
             R == RowsRead(k)
  <2>1. /\ IsTable(t, R) /\ (t.overflow \/ Exact(t, R))
        /\ path = "dense" => InWidth(t)
        /\ path # "dense" => ~t.overflow
        /\ \A r \in RowsOf(k) : InTable(t, KeyOf(r))
    BY <1>6 DEF PartialIs
  <2>2. i \in 1..Len(input) /\ i \in RowsOf(k) /\ (\A r \in R : r < i) /\ i \in Nat
    BY <1>2, <1>5 DEF RowsOf, RowsRead
  <2>3. RowsRead(k)' = R \cup {i} /\ RowsOf(k)' = RowsOf(k)
    <3>1. RowsRead(k)' = jobs[k].from..at'[k] - 1 /\ RowsOf(k)' = RowsOf(k)
      BY <1>2 DEF RowsRead, RowsOf
    <3>2. at'[k] - 1 = i
      BY <1>5, <1>7
    <3>3. jobs[k].from..i = jobs[k].from..i - 1 \cup {i}
      BY <1>5
    <3> QED
      BY <3>1, <3>2, <3>3 DEF RowsRead
  <2> HIDE DEF t, i, R
  <2>4. Extended(t, u, R, {i})
    <3>1. R \in SUBSET (1..Len(input)) /\ InTable(t, KeyOf(i))
      BY <1>5, <2>1, <2>2 DEF R
    <3> QED
      BY <1>1, <2>1, <2>2, <3>1, ReadIs
  <2> HIDE DEF u
  <2>5. /\ IsTable(u, R \cup {i}) /\ SameSlots(t, u)
        /\ path # "dense" => u.overflow = t.overflow
        /\ path # "dense" /\ Exact(t, R) => Exact(u, R \cup {i})
        /\ path = "dense" /\ InWidth(t) => InWidth(u)
        /\ path = "dense" /\ t.overflow => u.overflow
        /\ path = "dense" /\ Exact(t, R) => u.overflow \/ Exact(u, R \cup {i})
    BY <2>4 DEF Extended
  <2>6. \A r \in RowsOf(k) : InTable(u, KeyOf(r))
    BY <2>1, <2>5 DEF InTable, SameSlots
  <2>7. part'[k] = u /\ path' = path
    BY <1>2, <1>7 DEF u, t, i
  <2> QED
    BY <1>3, <1>4, <2>1, <2>3, <2>5, <2>6, <2>7 DEF PartialIs
<1>9. ASSUME NEW j \in 1..Len(jobs), j # k
      PROVE  PartialIs(j)'
  <2>1. RowsRead(j)' = RowsRead(j) /\ RowsOf(j)' = RowsOf(j) /\ part'[j] = part[j] /\ path' = path
    BY <1>2, <1>7, <1>9 DEF RowsRead, RowsOf
  <2>2. PartialIs(j)
    BY <1>6
  <2> QED
    BY <1>3, <1>4, <2>1, <2>2 DEF PartialIs
<1>10. \A j \in 1..Len(jobs) : jobs[j].from <= at'[j] /\ at'[j] <= jobs[j].to + 1
  <2> TAKE j \in 1..Len(jobs)
  <2>1. CASE j = k
    BY <1>2, <1>5, <1>7, <2>1
  <2>2. CASE j # k
    BY <1>5, <1>7, <2>2
  <2> QED
    BY <2>1, <2>2
<1>11. JobsAre'
  BY <1>2, <1>3, <1>6, <1>7, <1>8, <1>9, <1>10 DEF JobsAre
<1>12. Unmerged'
  BY <1>1, <1>2, <1>3, <1>4 DEF Unmerged, Fresh
<1>13. query' = query
  BY <1>2 DEF given
<1> QED
  BY <1>1, <1>2, <1>3, <1>11, <1>12, <1>13 DEF AInv

\* Steps that leave the jobs and their partials alone.
LEMMA JobsStay ==
  ASSUME JobsAre, UNCHANGED <<given, path, jobs, at, part>>
  PROVE  /\ JobsAre'
         /\ AllRead' <=> AllRead
<1>1. /\ Len(input)' = Len(input) /\ \A i : KeyOf(i)' = KeyOf(i)
  BY RowsStay
<1>2. /\ \A t, R : IsTable(t, R)' <=> IsTable(t, R)
      /\ \A t, R : Exact(t, R)' <=> Exact(t, R)
      /\ \A t : InWidth(t)' <=> InWidth(t)
      /\ \A t, key : InTable(t, key)' <=> InTable(t, key)
  BY TablesStay
<1>3. \A j : RowsRead(j)' = RowsRead(j) /\ RowsOf(j)' = RowsOf(j)
  BY DEF RowsRead, RowsOf
<1>4. \A j : PartialIs(j)' <=> PartialIs(j)
  BY <1>1, <1>2, <1>3 DEF PartialIs
<1> QED
  BY <1>1, <1>4 DEF JobsAre, AllRead

\* Nothing of a partial is merged before its first group.
LEMMA NothingMerging == \A p, J : Merging(p, J, 1) = {}
<1>1. 1..(1 - 1) = {}
  OBVIOUS
<1> QED
  BY <1>1 DEF Merging

\* The jobs' results are had.
LEMMA CollectHolds == AInv /\ Collect => AInv'
<1> SUFFICES ASSUME AInv, Collect PROVE AInv'
  OBVIOUS
<1>1. /\ Given /\ JobsAre /\ Unmerged /\ phase = "jobs" /\ outcome = G!Pending
      /\ path \in {"none", "dense", "general", "global"} /\ (path = "dense" => query.grouped)
  BY DEF AInv, Collect
<1>2. /\ UNCHANGED <<given, path, jobs, at, part, cursor, outcome>>
      /\ \A j \in 1..Len(jobs) : at[j] > jobs[j].to
      /\ IF Len(jobs) = 1 /\ path # "dense"
         THEN phase' = "output" /\ merged' = part[1]
         ELSE phase' = "merge" /\ merged' = merged
  BY DEF Collect
<1>3. /\ Given' /\ Len(input)' = Len(input) /\ G!Pending' = G!Pending
      /\ \A i : KeyOf(i)' = KeyOf(i)
  BY <1>1, <1>2, RowsStay DEF G!Pending
<1>4. /\ \A t, R : IsTable(t, R)' <=> IsTable(t, R)
      /\ \A t, R : Exact(t, R)' <=> Exact(t, R)
      /\ \A t : InWidth(t)' <=> InWidth(t)
      /\ \A t, key : InTable(t, key)' <=> InTable(t, key)
      /\ \A p, J, g : Merging(p, J, g)' = Merging(p, J, g)
  BY <1>2, TablesStay
<1>5. /\ Len(jobs) \in Nat \ {0} /\ Len(input) \in Nat
      /\ \A j \in 1..Len(jobs) :
           /\ jobs[j].to \in Nat /\ at[j] \in Nat /\ at[j] <= jobs[j].to + 1
           /\ Before(j + 1) = Before(j) \cup RowsOf(j)
           /\ at[j] = jobs[j].to + 1 => RowsRead(j) = RowsOf(j)
      /\ Before(Len(jobs) + 1) = 1..Len(input)
  BY <1>1, JobFacts
<1>6. AllRead
  BY <1>2, <1>5 DEF AllRead
<1>7. JobsAre' /\ AllRead'
  BY <1>1, <1>2, <1>6, JobsStay
<1>8. \A j \in 1..Len(jobs) : PartialIs(j)
  BY <1>1 DEF JobsAre
<1>9. query' = query /\ Before(1) = {} /\ Before(1)' = {}
  BY <1>2 DEF given, Before
<1>10. CASE Len(jobs) = 1 /\ path # "dense"
  <2>1. 1 \in 1..Len(jobs)
    BY <1>10
  <2>2. RowsRead(1) = 1..Len(input)
    <3>1. at[1] = jobs[1].to + 1 /\ RowsRead(1) = RowsOf(1)
      BY <1>5, <1>6, <2>1 DEF AllRead
    <3>2. Before(1 + 1) = 1..Len(input) /\ Before(1 + 1) = Before(1) \cup RowsOf(1)
      BY <1>5, <1>10, <2>1
    <3> QED
      BY <1>9, <3>1, <3>2
  <2>3. IsTable(part[1], 1..Len(input)) /\ Exact(part[1], 1..Len(input))
    BY <1>8, <1>10, <2>1, <2>2 DEF PartialIs
  <2>4. phase' = "output" /\ merged' = part[1] /\ path' = path
    BY <1>2, <1>10
  <2>5. cursor' \in [job : Nat \ {0}, group : Nat \ {0}]
    <3>1. cursor' = [job |-> 1, group |-> 1] /\ 1 \in Nat \ {0}
      BY <1>1, <1>2 DEF Unmerged
    <3> QED
      BY <3>1
  <2>6. ResultIs'
    BY <1>3, <1>4, <1>10, <2>3, <2>4, <2>5 DEF ResultIs
  <2> QED
    BY <1>1, <1>2, <1>3, <1>7, <1>9, <2>4, <2>6 DEF AInv
<1>11. CASE ~(Len(jobs) = 1 /\ path # "dense")
  <2>1. phase' = "merge" /\ merged' = merged /\ path' = path
    BY <1>2, <1>11
  <2>2. /\ cursor' = [job |-> 1, group |-> 1] /\ cursor'.job = 1 /\ cursor'.group = 1
        /\ 1 \in Nat \ {0}
    BY <1>1, <1>2 DEF Unmerged
  <2>3. CursorIs'
    <3>1. 1 <= Len(jobs) /\ 1 <= Len(jobs) + 1
      BY <1>5
    <3>2. Len(part[1].groups) \in Nat
      <4>1. 1 \in 1..Len(jobs)
        BY <1>5
      <4>2. Recorded(part[1])
        BY <1>8, <4>1 DEF PartialIs, IsTable, HasGroupsOf
      <4> QED
        BY <4>2, TableFacts
    <3>3. 1 <= Len(part[1].groups) + 1
      BY <3>2
    <3> QED
      BY <1>2, <2>2, <3>1, <3>3 DEF CursorIs
  <2>4. RowsMerged' = {}
    BY <1>2, <1>4, <1>9, <2>2, NothingMerging DEF RowsMerged
  <2>5. /\ IsTable(merged, {}) /\ Exact(merged, {}) /\ InWidth(merged) /\ ~merged.overflow
        /\ \A i \in 1..Len(input) : InTable(merged, KeyOf(i))
    BY <1>1 DEF Unmerged, Fresh
  <2>6. MergedIs'
    BY <1>3, <1>4, <2>1, <2>4, <2>5 DEF MergedIs
  <2> QED
    BY <1>1, <1>2, <1>3, <1>7, <1>9, <2>1, <2>3, <2>6 DEF AInv
<1> QED
  BY <1>10, <1>11

\* A group of a partial is merged.
LEMMA MergeGroupHolds == AInv /\ MergeGroup => AInv'
<1> SUFFICES ASSUME AInv, MergeGroup PROVE AInv'
  OBVIOUS
<1>1. /\ Given /\ JobsAre /\ AllRead /\ CursorIs /\ MergedIs /\ phase = "merge"
      /\ outcome = G!Pending
      /\ path \in {"none", "dense", "general", "global"} /\ (path = "dense" => query.grouped)
  BY DEF AInv, MergeGroup
<1> DEFINE c == cursor.job
           lg == cursor.group
           p == part[c]
           J == RowsOf(c)
           R == Before(c)
           S == R \cup Merging(p, J, lg)
           T == R \cup Merging(p, J, lg + 1)
           u == Merge(merged, p, lg)
<1>2. /\ UNCHANGED <<given, path, phase, jobs, at, part, outcome>>
      /\ c <= Len(jobs) /\ lg <= Len(p.groups)
      /\ merged' = u
      /\ cursor' = [cursor EXCEPT !.group = @ + 1]
  BY DEF MergeGroup, Merge
<1>3. /\ Given' /\ Len(input)' = Len(input) /\ G!Pending' = G!Pending
      /\ \A i : KeyOf(i)' = KeyOf(i)
  BY <1>1, <1>2, RowsStay DEF G!Pending
<1>4. /\ \A t, Q : IsTable(t, Q)' <=> IsTable(t, Q)
      /\ \A t, Q : Exact(t, Q)' <=> Exact(t, Q)
      /\ \A t : InWidth(t)' <=> InWidth(t)
      /\ \A t, key : InTable(t, key)' <=> InTable(t, key)
      /\ \A q, I, g : Merging(q, I, g)' = Merging(q, I, g)
  BY <1>2, TablesStay
<1>5. /\ Len(jobs) \in Nat \ {0} /\ Len(input) \in Nat
      /\ \A j \in 1..Len(jobs) :
           /\ RowsOf(j) \in SUBSET (1..Len(input))
           /\ Before(j) \in SUBSET (1..Len(input))
           /\ \A r \in Before(j), i \in RowsOf(j) : r < i
           /\ at[j] = jobs[j].to + 1 => RowsRead(j) = RowsOf(j)
           /\ \A i \in RowsOf(j) : i \in 1..Len(input)
  BY <1>1, JobFacts
<1>6. /\ cursor \in [job : Nat \ {0}, group : Nat \ {0}]
      /\ cursor = [job |-> c, group |-> lg]
      /\ c \in Nat \ {0} /\ lg \in Nat \ {0} /\ c \in 1..Len(jobs)
      /\ cursor' = [job |-> c, group |-> lg + 1]
  <2>1. cursor \in [job : Nat \ {0}, group : Nat \ {0}]
    BY <1>1 DEF CursorIs
  <2>2. c \in Nat \ {0} /\ lg \in Nat \ {0} /\ cursor = [job |-> c, group |-> lg]
    BY <2>1
  <2>3. cursor' = [job |-> c, group |-> lg + 1]
    BY <1>2, <2>1
  <2> QED
    BY <1>2, <1>5, <2>1, <2>2, <2>3
<1>7. /\ IsTable(p, J) /\ (Exact(p, J) \/ p.overflow)
  <2>1. RowsRead(c) = J /\ PartialIs(c)
    BY <1>1, <1>5, <1>6 DEF AllRead, JobsAre
  <2> QED
    BY <2>1 DEF PartialIs
<1>8. /\ Recorded(p) /\ Headed(p, J) /\ Len(p.groups) \in Nat /\ lg \in 1..Len(p.groups)
  <2>1. Recorded(p) /\ Headed(p, J)
    BY <1>7 DEF IsTable, HasGroupsOf
  <2>2. Len(p.groups) \in Nat
    BY <2>1, TableFacts
  <2> QED
    BY <1>2, <1>6, <2>1, <2>2
<1>9. RowsMerged = S
  BY <1>2 DEF RowsMerged
<1>10. /\ IsTable(merged, S)
       /\ merged.overflow \/ (lg > 1 /\ p.overflow) \/ Exact(merged, S)
       /\ path = "dense" => InWidth(merged)
       /\ path # "dense" => ~merged.overflow
       /\ \A i \in 1..Len(input) : InTable(merged, KeyOf(i))
  BY <1>1, <1>9 DEF MergedIs
<1>11. R \in SUBSET (1..Len(input)) /\ J \in SUBSET (1..Len(input)) /\ \A r \in R, j \in J : r < j
  BY <1>5, <1>6
<1> HIDE DEF c, lg, p, J, R
<1>12. InTable(merged, KeyIn(p, lg))
  <2>1. CASE query.grouped
    <3>1. p.groups[lg].first \in J
      BY <1>1, <1>8, <1>11, <2>1, FirstFacts
    <3> QED
      BY <1>10, <1>11, <3>1 DEF KeyIn
  <2>2. CASE ~query.grouped
    <3>1. KeyIn(p, lg) = Null
      BY <1>1, <1>8, <1>11, <2>2, FirstFacts
    <3> QED
      BY <3>1 DEF InTable
  <2> QED
    BY <2>1, <2>2
<1>13. /\ IsTable(u, T) /\ SameSlots(merged, u)
       /\ path # "dense" => u.overflow = merged.overflow
       /\ path = "dense" => (InWidth(merged) => InWidth(u)) /\ (merged.overflow => u.overflow)
       /\ Exact(merged, S) /\ Exact(p, J) => Exact(u, T) \/ (path = "dense" /\ u.overflow)
  BY <1>1, <1>7, <1>8, <1>10, <1>11, <1>12, MergeIs
<1> HIDE DEF u, S, T
<1>14. \A i \in 1..Len(input) : InTable(u, KeyOf(i))
  BY <1>10, <1>13 DEF InTable, SameSlots
<1>15. RowsMerged' = T
  <2>1. cursor'.job = c /\ cursor'.group = lg + 1 /\ jobs' = jobs /\ part' = part
    BY <1>2, <1>6
  <2>2. c <= Len(jobs)
    BY <1>6
  <2>3. /\ R = IF c = 1 THEN {} ELSE 1..jobs[c - 1].to
        /\ J = jobs[c].from..jobs[c].to /\ p = part[c]
    BY DEF R, J, p, Before, RowsOf
  <2>4. RowsMerged' = R \cup Merging(p, J, lg + 1)
    BY <1>4, <2>1, <2>2, <2>3 DEF RowsMerged, Before, RowsOf
  <2> QED
    BY <2>4 DEF T
<1>16. u.overflow \/ (lg + 1 > 1 /\ p.overflow) \/ Exact(u, T)
  <2>1. lg + 1 > 1
    BY <1>6
  <2>2. CASE merged.overflow
    BY <1>10, <1>13, <2>2
  <2>3. CASE p.overflow
    BY <2>1, <2>3
  <2>4. CASE ~merged.overflow /\ ~p.overflow
    BY <1>7, <1>10, <1>13, <2>4
  <2> QED
    BY <2>2, <2>3, <2>4
<1>17. MergedIs'
  <2>1. cursor'.job = c /\ cursor'.group = lg + 1 /\ part'[c] = p /\ path' = path /\ merged' = u
    BY <1>2, <1>6 DEF p
  <2> QED
    BY <1>3, <1>4, <1>10, <1>13, <1>14, <1>15, <1>16, <2>1 DEF MergedIs
<1>18. CursorIs'
  <2>1. cursor'.job = c /\ cursor'.group = lg + 1 /\ part'[c] = p /\ jobs' = jobs
    BY <1>2, <1>6 DEF p
  <2>2. c <= Len(jobs) + 1 /\ c <= Len(jobs) /\ lg + 1 <= Len(p.groups) + 1 /\ lg + 1 \in Nat \ {0}
    BY <1>2, <1>5, <1>6, <1>8
  <2> QED
    BY <1>6, <2>1, <2>2 DEF CursorIs
<1>19. JobsAre' /\ AllRead' /\ query' = query
  BY <1>1, <1>2, JobsStay DEF given
<1> QED
  BY <1>1, <1>2, <1>3, <1>17, <1>18, <1>19 DEF AInv

\* The table t with another overflow flag.
Flag(t, b) == [t EXCEPT !.overflow = b]

\* The flag is no part of what a table says of its rows.
LEMMA FlagSet ==
  ASSUME NEW t, NEW R, IsTable(t, R), NEW b \in BOOLEAN
  PROVE  /\ IsTable(Flag(t, b), R) /\ SameSlots(t, Flag(t, b)) /\ Flag(t, b).overflow = b
         /\ Exact(t, R) => Exact(Flag(t, b), R)
         /\ InWidth(t) => InWidth(Flag(t, b))
<1> DEFINE u == Flag(t, b)
<1>1. Recorded(t) /\ Ordered(t) /\ Distinct(t) /\ Headed(t, R) /\ Seen(t, R) /\ Finds(t)
      /\ Keyed(t) /\ Folded(t, R)
  BY DEF IsTable, HasGroupsOf
<1>2. u = Table(t.lo, t.index, t.null, t.keys, t.groups, b)
  <2>1. t = Table(t.lo, t.index, t.null, t.keys, t.groups, t.overflow)
    BY <1>1 DEF Recorded
  <2> QED
    BY <2>1 DEF Table, Flag
<1> HIDE DEF u
<1>3. /\ u.lo = t.lo /\ u.index = t.index /\ u.null = t.null /\ u.keys = t.keys
      /\ u.groups = t.groups /\ u.overflow = b
  BY <1>2, FieldsOf
<1>4. Recorded(u)
  BY <1>1, <1>2, <1>3 DEF Recorded, TableOK
<1>5. \A g : KeyIn(u, g) = KeyIn(t, g)
  BY <1>3 DEF KeyIn
<1>6. \A key : (InTable(u, key) <=> InTable(t, key)) /\ Find(u, key) = Find(t, key)
  BY <1>3 DEF InTable, Find
<1>7. Ordered(u)
  BY <1>1, <1>3 DEF Ordered
<1>8. Distinct(u)
  BY <1>1, <1>3, <1>5 DEF Distinct
<1>9. Headed(u, R)
  BY <1>1, <1>3 DEF Headed
<1>10. Seen(u, R)
  BY <1>1, <1>3, <1>5 DEF Seen
<1>11. Finds(u)
  BY <1>1, <1>3, <1>5, <1>6 DEF Finds
<1>12. Keyed(u)
  BY <1>1, <1>3, <1>5 DEF Keyed
<1>13. Folded(u, R)
  BY <1>1, <1>3 DEF Folded
<1>14. IsTable(u, R)
  BY <1>4, <1>7, <1>8, <1>9, <1>10, <1>11, <1>12, <1>13 DEF IsTable, HasGroupsOf
<1>15. Exact(t, R) => Exact(u, R)
  BY <1>3 DEF Exact
<1>16. InWidth(t) => InWidth(u)
  BY <1>3 DEF InWidth
<1> QED
  BY <1>3, <1>14, <1>15, <1>16 DEF u, SameSlots

\* A partial is merged, and the next one is due.
LEMMA NextPartialHolds == AInv /\ NextPartial => AInv'
<1> SUFFICES ASSUME AInv, NextPartial PROVE AInv'
  OBVIOUS
<1>1. /\ Given /\ JobsAre /\ AllRead /\ CursorIs /\ MergedIs /\ phase = "merge"
      /\ outcome = G!Pending
      /\ path \in {"none", "dense", "general", "global"} /\ (path = "dense" => query.grouped)
  BY DEF AInv, NextPartial
<1> DEFINE c == cursor.job
           lg == cursor.group
           p == part[c]
           J == RowsOf(c)
           T == Before(c) \cup J
           b == (merged.overflow \/ p.overflow)
           u == Flag(merged, b)
<1>2. /\ UNCHANGED <<given, path, phase, jobs, at, part, outcome>>
      /\ c <= Len(jobs) /\ lg > Len(p.groups)
      /\ merged' = u
      /\ cursor' = [job |-> c + 1, group |-> 1]
  BY DEF NextPartial, Flag
<1>3. /\ Given' /\ Len(input)' = Len(input) /\ G!Pending' = G!Pending
      /\ \A i : KeyOf(i)' = KeyOf(i)
  BY <1>1, <1>2, RowsStay DEF G!Pending
<1>4. /\ \A t, Q : IsTable(t, Q)' <=> IsTable(t, Q)
      /\ \A t, Q : Exact(t, Q)' <=> Exact(t, Q)
      /\ \A t : InWidth(t)' <=> InWidth(t)
      /\ \A t, key : InTable(t, key)' <=> InTable(t, key)
      /\ \A q, I, g : Merging(q, I, g)' = Merging(q, I, g)
  BY <1>2, TablesStay
<1>5. /\ Len(jobs) \in Nat \ {0} /\ Len(input) \in Nat
      /\ \A j \in 1..Len(jobs) :
           /\ Before(j + 1) = Before(j) \cup RowsOf(j)
           /\ at[j] = jobs[j].to + 1 => RowsRead(j) = RowsOf(j)
  BY <1>1, JobFacts
<1>6. /\ cursor \in [job : Nat \ {0}, group : Nat \ {0}]
      /\ c \in Nat \ {0} /\ lg \in Nat \ {0} /\ c \in 1..Len(jobs) /\ lg <= Len(p.groups) + 1
  <2>1. cursor \in [job : Nat \ {0}, group : Nat \ {0}]
    BY <1>1 DEF CursorIs
  <2>2. c \in Nat \ {0} /\ lg \in Nat \ {0}
    BY <2>1
  <2>3. lg <= Len(p.groups) + 1
    BY <1>1, <1>2 DEF CursorIs
  <2> QED
    BY <1>2, <1>5, <2>1, <2>2, <2>3
<1>7. PartialIs(c) /\ RowsRead(c) = J
  BY <1>1, <1>5, <1>6 DEF AllRead, JobsAre
<1>8. /\ IsTable(p, J) /\ p.overflow \in BOOLEAN /\ Len(p.groups) \in Nat
      /\ path # "dense" => ~p.overflow
  <2>1. IsTable(p, J) /\ (path # "dense" => ~p.overflow)
    BY <1>7 DEF PartialIs
  <2>2. Recorded(p)
    BY <2>1 DEF IsTable, HasGroupsOf
  <2> QED
    BY <2>1, <2>2, TableFacts
<1>9. lg = Len(p.groups) + 1
  BY <1>2, <1>6, <1>8
<1>10. Merging(p, J, lg) = J
  BY <1>8, <1>9, MergingEnds
<1>11. RowsMerged = T
  BY <1>2, <1>10 DEF RowsMerged
<1>12. /\ IsTable(merged, T)
       /\ merged.overflow \/ p.overflow \/ Exact(merged, T)
       /\ path = "dense" => InWidth(merged)
       /\ path # "dense" => ~merged.overflow
       /\ \A i \in 1..Len(input) : InTable(merged, KeyOf(i))
  BY <1>1, <1>11 DEF MergedIs
<1>13. b \in BOOLEAN
  <2>1. Recorded(merged)
    BY <1>12 DEF IsTable, HasGroupsOf
  <2>2. merged.overflow \in BOOLEAN
    BY <2>1, TableFacts
  <2> QED
    BY <1>8, <2>2, Zenon
<1>14. b <=> merged.overflow \/ p.overflow
  BY DEF b
<1>15. Before(c + 1) = T
  BY <1>5, <1>6
<1> HIDE DEF c, lg, p, J, T, b
<1>16. /\ IsTable(u, T) /\ SameSlots(merged, u) /\ u.overflow = b
       /\ Exact(merged, T) => Exact(u, T)
       /\ InWidth(merged) => InWidth(u)
  BY ONLY <1>12, <1>13, FlagSet
<1> HIDE DEF u
<1>17. \A i \in 1..Len(input) : InTable(u, KeyOf(i))
  BY <1>12, <1>16 DEF InTable, SameSlots
<1>18. cursor'.job = c + 1 /\ cursor'.group = 1 /\ jobs' = jobs /\ part' = part /\ path' = path
  BY <1>2
<1>19. RowsMerged' = T
  <2>1. T = IF c + 1 = 1 THEN {} ELSE 1..jobs[(c + 1) - 1].to
    BY <1>15 DEF Before
  <2> QED
    BY <1>4, <1>18, <2>1, NothingMerging DEF RowsMerged, Before, RowsOf
<1>20. MergedIs'
  <2>1. u.overflow \/ Exact(u, T)
    BY <1>12, <1>14, <1>16
  <2>2. path # "dense" => ~u.overflow
    BY <1>8, <1>12, <1>14, <1>16
  <2> QED
    BY <1>2, <1>3, <1>4, <1>12, <1>16, <1>17, <1>18, <1>19, <2>1, <2>2 DEF MergedIs
<1>21. CursorIs'
  <2>1. c + 1 \in Nat \ {0} /\ 1 \in Nat \ {0} /\ c + 1 <= Len(jobs) + 1
    BY <1>5, <1>6
  <2>2. c + 1 <= Len(jobs) => 1 <= Len(part[c + 1].groups) + 1
    <3>1. SUFFICES ASSUME c + 1 <= Len(jobs) PROVE 1 <= Len(part[c + 1].groups) + 1
      OBVIOUS
    <3>2. c + 1 \in 1..Len(jobs)
      BY <1>5, <1>6, <3>1
    <3>3. Recorded(part[c + 1])
      BY <1>1, <3>2 DEF JobsAre, PartialIs, IsTable, HasGroupsOf
    <3>4. Len(part[c + 1].groups) \in Nat
      BY <3>3, TableFacts
    <3> QED
      BY <3>4
  <2> QED
    BY <1>2, <1>18, <2>1, <2>2 DEF CursorIs
<1>22. JobsAre' /\ AllRead' /\ query' = query
  BY <1>1, <1>2, JobsStay DEF given
<1> QED
  BY <1>1, <1>2, <1>3, <1>20, <1>21, <1>22 DEF AInv

\* When the merge is past the last partial, all rows are merged.
LEMMA AllMerged ==
  ASSUME Given, JobsAre, CursorIs, MergedIs, cursor.job > Len(jobs)
  PROVE  /\ IsTable(merged, 1..Len(input))
         /\ merged.overflow \/ Exact(merged, 1..Len(input))
<1>1. Len(jobs) \in Nat \ {0} /\ Before(Len(jobs) + 1) = 1..Len(input)
  BY JobFacts
<1>2. cursor.job \in Nat /\ cursor.job <= Len(jobs) + 1 /\ cursor.group = 1
  BY DEF CursorIs
<1>3. cursor.job = Len(jobs) + 1 /\ ~(cursor.job <= Len(jobs)) /\ ~(cursor.group > 1)
  BY <1>1, <1>2
<1>4. RowsMerged = 1..Len(input)
  BY <1>1, <1>3 DEF RowsMerged
<1> QED
  BY <1>3, <1>4 DEF MergedIs

\* The merge is over.
LEMMA MergedHolds == AInv /\ Merged => AInv'
<1> SUFFICES ASSUME AInv, Merged PROVE AInv'
  OBVIOUS
<1>1. /\ Given /\ JobsAre /\ AllRead /\ CursorIs /\ MergedIs /\ phase = "merge"
      /\ outcome = G!Pending
      /\ path \in {"none", "dense", "general", "global"} /\ (path = "dense" => query.grouped)
  BY DEF AInv, Merged
<1>2. /\ UNCHANGED <<given, path, jobs, at, part, cursor, merged, outcome>>
      /\ cursor.job > Len(jobs) /\ ~merged.overflow /\ phase' = "output"
  BY DEF Merged
<1>3. /\ Given' /\ Len(input)' = Len(input) /\ G!Pending' = G!Pending /\ query' = query
  BY <1>1, <1>2, RowsStay DEF G!Pending, given
<1>4. /\ \A t, Q : IsTable(t, Q)' <=> IsTable(t, Q)
      /\ \A t, Q : Exact(t, Q)' <=> Exact(t, Q)
      /\ \A t : InWidth(t)' <=> InWidth(t)
  BY <1>2, TablesStay
<1>5. IsTable(merged, 1..Len(input)) /\ Exact(merged, 1..Len(input))
  BY <1>1, <1>2, AllMerged
<1>6. (path = "dense" => InWidth(merged)) /\ cursor \in [job : Nat \ {0}, group : Nat \ {0}]
  BY <1>1 DEF MergedIs, CursorIs
<1>7. ResultIs'
  BY <1>2, <1>3, <1>4, <1>5, <1>6 DEF ResultIs
<1>8. JobsAre'
  BY <1>1, <1>2, JobsStay
<1> QED
  BY <1>1, <1>2, <1>3, <1>7, <1>8 DEF AInv

\* A sum has left i64: the general path starts over.
LEMMA DenseGivesUpHolds == AInv /\ DenseGivesUp => AInv'
<1> SUFFICES ASSUME AInv, DenseGivesUp PROVE AInv'
  OBVIOUS
<1>1. Given /\ outcome = G!Pending /\ SendGeneral
  BY DEF AInv, DenseGivesUp
<1> QED
  BY <1>1, SendGeneralHolds

\* The output.
LEMMA OutputHolds == AInv /\ Output => AInv'
<1> SUFFICES ASSUME AInv, Output PROVE AInv'
  OBVIOUS
<1>1. /\ Given /\ JobsAre /\ ResultIs /\ phase = "output"
      /\ path \in {"none", "dense", "general", "global"} /\ (path = "dense" => query.grouped)
  BY DEF AInv, Output
<1>2. /\ UNCHANGED <<given, path, jobs, at, part, cursor, merged>>
      /\ \E groups : outcome' = OutputOf(groups)
      /\ phase' = "done"
  BY DEF Output
<1>3. /\ Given' /\ Len(input)' = Len(input) /\ query' = query
  BY <1>1, <1>2, RowsStay DEF given
<1>4. /\ \A t, Q : IsTable(t, Q)' <=> IsTable(t, Q)
      /\ \A t, Q : Exact(t, Q)' <=> Exact(t, Q)
      /\ \A t : InWidth(t)' <=> InWidth(t)
  BY <1>2, TablesStay
<1>5. ResultIs'
  BY <1>1, <1>2, <1>3, <1>4 DEF ResultIs
<1>6. JobsAre'
  BY <1>1, <1>2, JobsStay
<1>7. outcome'.status \in {"ok", "overflow"}
  BY <1>2 DEF OutputOf
<1> QED
  BY <1>1, <1>2, <1>3, <1>5, <1>6, <1>7 DEF AInv

\* A step that changes nothing.
LEMMA StutterHolds == AInv /\ UNCHANGED vars => AInv'
<1> SUFFICES ASSUME AInv, UNCHANGED vars PROVE AInv'
  OBVIOUS
<1>1. UNCHANGED <<given, path, phase, jobs, at, part, cursor, merged, outcome>>
  BY DEF vars
<1>2. /\ Given' <=> Given
      /\ Len(input)' = Len(input) /\ query' = query /\ G!Pending' = G!Pending
      /\ \A i : KeyOf(i)' = KeyOf(i)
  BY <1>1, RowsStay DEF given, G!Pending
<1>3. /\ \A t, Q : IsTable(t, Q)' <=> IsTable(t, Q)
      /\ \A t, Q : Exact(t, Q)' <=> Exact(t, Q)
      /\ \A t : InWidth(t)' <=> InWidth(t)
      /\ \A t, key : InTable(t, key)' <=> InTable(t, key)
      /\ \A q, I, g : Merging(q, I, g)' = Merging(q, I, g)
  BY <1>1, TablesStay
<1>4. JobsAre => JobsAre' /\ (AllRead' <=> AllRead)
  BY <1>1, JobsStay
<1>5. Unmerged' <=> Unmerged
  BY <1>1, <1>2, <1>3 DEF Unmerged, Fresh
<1>6. ResultIs' <=> ResultIs
  BY <1>1, <1>2, <1>3 DEF ResultIs
<1>7. CursorIs' <=> CursorIs
  BY <1>1 DEF CursorIs
<1>8. RowsMerged' = RowsMerged
  BY <1>1, <1>3 DEF RowsMerged, Before, RowsOf
<1>9. MergedIs' <=> MergedIs
  BY <1>1, <1>2, <1>3, <1>8 DEF MergedIs
<1>10. NoJobs' <=> NoJobs
  BY <1>1 DEF NoJobs, Slots
<1> QED
  BY <1>1, <1>2, <1>4, <1>5, <1>6, <1>7, <1>9, <1>10 DEF AInv

-----------------------------------------------------------------------------
\* The theorems.

\* The invariant is one.
THEOREM AggregateInvariant == Spec => []AInv
<1>1. Init => AInv
  BY InitHolds
<1>2. AInv /\ [Next]_vars => AInv'
  <2> SUFFICES ASSUME AInv, [Next]_vars PROVE AInv'
    OBVIOUS
  <2>1. CASE PlanGlobal
    BY <2>1, PlanGlobalHolds
  <2>2. CASE PlanDense
    BY <2>2, PlanDenseHolds
  <2>3. CASE PlanGeneral
    BY <2>3, SendGeneralHolds DEF PlanGeneral, AInv
  <2>4. CASE \E j \in 1..Len(jobs) : ReadRow(j)
    BY <2>4, ReadRowHolds
  <2>5. CASE Collect
    BY <2>5, CollectHolds
  <2>6. CASE MergeGroup
    BY <2>6, MergeGroupHolds
  <2>7. CASE NextPartial
    BY <2>7, NextPartialHolds
  <2>8. CASE Merged
    BY <2>8, MergedHolds
  <2>9. CASE DenseGivesUp
    BY <2>9, DenseGivesUpHolds
  <2>10. CASE Output
    BY <2>10, OutputHolds
  <2>11. CASE Done \/ UNCHANGED vars
    BY <2>11, StutterHolds DEF Done
  <2> QED
    BY <2>1, <2>2, <2>3, <2>4, <2>5, <2>6, <2>7, <2>8, <2>9, <2>10, <2>11 DEF Next
<1> QED
  BY <1>1, <1>2, PTL DEF Spec

\* The tables, jobs and cursor of the aggregation keep their types.
THEOREM AggregateTypeOK == Spec => []TypeOK
<1>1. AInv => TypeOK
  <2> SUFFICES ASSUME AInv PROVE TypeOK
    OBVIOUS
  <2>1. /\ Given /\ path \in {"none", "dense", "general", "global"}
        /\ phase \in {"plan", "jobs", "merge", "output", "done"}
    BY DEF AInv
  <2>2. input \in Inputs /\ starts \subseteq 1..Len(input) /\ query \in Queries
    BY <2>1 DEF Given
  <2>3. outcome.status \in {"pending", "ok", "overflow"}
    BY DEF AInv, G!Pending
  <2>4. CASE phase = "plan"
    <3>1. NoJobs
      BY <2>4 DEF AInv
    <3>2. jobs = <<>> /\ at = <<>> /\ part = <<>> /\ cursor = [job |-> 1, group |-> 1]
          /\ merged = Slots(0, 0)
      BY <3>1 DEF NoJobs
    <3>3. jobs \in Seq(Job) /\ Len(jobs) = 0 /\ 1..Len(jobs) = {} /\ DOMAIN part = {}
      BY <3>2
    <3>4. at \in [1..Len(jobs) -> 1..MaxRows + 1]
      BY <3>2
    <3>5. cursor \in [job : Nat \ {0}, group : Nat \ {0}]
      BY <3>2
    <3>6. TableOK(merged)
      BY <3>2, NoTable
    <3> QED
      BY <2>1, <2>2, <2>3, <3>3, <3>4, <3>5, <3>6 DEF TypeOK
  <2>5. CASE phase # "plan"
    <3>1. JobsAre
      BY <2>5 DEF AInv
    <3>2. jobs \in Seq(Job)
      BY <3>1 DEF JobsAre, Covers
    <3>3. \A t, R : IsTable(t, R) => TableOK(t)
      BY DEF IsTable, HasGroupsOf, Recorded
    <3>4. DOMAIN part = 1..Len(jobs) /\ \A j \in DOMAIN part : TableOK(part[j])
      BY <3>1, <3>3 DEF JobsAre, PartialIs
    <3>5. at \in [1..Len(jobs) -> 1..MaxRows + 1]
      <4>1. \A j \in 1..Len(jobs) : at[j] \in 1..MaxRows + 1
        <5> TAKE j \in 1..Len(jobs)
        <5> DEFINE a == at[j]
                   f == jobs[j].from
                   l == jobs[j].to
        <5>1. f \in Nat \ {0} /\ l \in Nat /\ a \in Nat /\ l <= Len(input) /\ f <= a /\ a <= l + 1
          BY <2>1, <3>1, JobFacts
        <5>2. Len(input) \in Nat /\ MaxRows \in Nat /\ Len(input) <= MaxRows
          BY <2>1, RowFacts
        <5> HIDE DEF a, f, l
        <5>3. a \in 1..MaxRows + 1
          BY <5>1, <5>2
        <5> QED
          BY <5>3 DEF a
      <4>2. at \in [1..Len(jobs) -> Nat]
        BY <3>1 DEF JobsAre
      <4> QED
        BY <4>1, <4>2
    <3>6. TableOK(merged) /\ cursor \in [job : Nat \ {0}, group : Nat \ {0}]
      <4>1. CASE phase = "jobs"
        <5>1. cursor = [job |-> 1, group |-> 1] /\ IsTable(merged, {})
          BY <4>1 DEF AInv, Unmerged, Fresh
        <5>2. [job |-> 1, group |-> 1] \in [job : Nat \ {0}, group : Nat \ {0}]
          OBVIOUS
        <5> QED
          BY <3>3, <5>1, <5>2
      <4>2. CASE phase = "merge"
        BY <3>3, <4>2 DEF AInv, CursorIs, MergedIs
      <4>3. CASE phase \in {"output", "done"}
        BY <3>3, <4>3 DEF AInv, ResultIs
      <4> QED
        BY <2>1, <2>5, <4>1, <4>2, <4>3
    <3> QED
      BY <2>1, <2>2, <2>3, <3>2, <3>4, <3>5, <3>6 DEF TypeOK
  <2> QED
    BY <2>4, <2>5
<1> QED
  BY <1>1, AggregateInvariant, PTL

\* No job and no merge looks a key up outside its table of slots.
THEOREM AggregateKeysHaveSlots == Spec => []KeysHaveSlots
<1>1. AInv => KeysHaveSlots
  <2> SUFFICES ASSUME AInv PROVE KeysHaveSlots
    OBVIOUS
  <2>1. Given /\ (phase \in {"jobs", "merge"} => JobsAre)
    BY DEF AInv
  <2>2. ASSUME phase = "jobs", NEW j \in 1..Len(jobs), NEW i \in at[j]..jobs[j].to
        PROVE  InTable(part[j], KeyOf(i))
    <3>1. PartialIs(j)
      BY <2>1, <2>2 DEF JobsAre
    <3>2. jobs[j].from \in Nat /\ at[j] \in Nat /\ jobs[j].from <= at[j] /\ jobs[j].to \in Nat
      BY <2>1, <2>2, JobFacts
    <3>3. i \in RowsOf(j)
      BY <3>2 DEF RowsOf
    <3> QED
      BY <3>1, <3>3 DEF PartialIs
  <2>3. ASSUME phase = "merge", NEW j \in cursor.job..Len(jobs),
               NEW g \in 1..Len(part[j].groups)
        PROVE  InTable(merged, KeyOf(part[j].groups[g].first))
    <3>1. JobsAre /\ AllRead /\ CursorIs /\ MergedIs
      BY <2>3 DEF AInv
    <3>2. j \in 1..Len(jobs)
      <4>1. cursor.job \in Nat \ {0}
        BY <3>1 DEF CursorIs
      <4>2. Len(jobs) \in Nat
        BY <2>1, <3>1, JobFacts
      <4> QED
        BY <4>1, <4>2
    <3>3. /\ IsTable(part[j], RowsOf(j)) /\ RowsOf(j) \in SUBSET (1..Len(input))
          /\ \A i \in RowsOf(j) : i \in 1..Len(input)
      <4>1. /\ RowsRead(j) = RowsOf(j) /\ RowsOf(j) \in SUBSET (1..Len(input))
            /\ \A i \in RowsOf(j) : i \in 1..Len(input)
        BY <2>1, <3>1, <3>2, JobFacts DEF AllRead
      <4> QED
        BY <3>1, <3>2, <4>1 DEF JobsAre, PartialIs
    <3>4. Recorded(part[j]) /\ Headed(part[j], RowsOf(j))
      BY <3>3 DEF IsTable, HasGroupsOf
    <3>5. CASE query.grouped
      <4>1. part[j].groups[g].first \in RowsOf(j)
        BY <2>1, <3>3, <3>4, <3>5, FirstFacts
      <4> QED
        BY <3>1, <3>3, <4>1 DEF MergedIs
    <3>6. CASE ~query.grouped
      BY <2>1, <3>6, RowFacts DEF InTable
    <3> QED
      BY <3>5, <3>6
  <2> QED
    BY <2>2, <2>3 DEF KeysHaveSlots, InTable
<1> QED
  BY <1>1, AggregateInvariant, PTL

\* Partials over contiguous runs of rows are those of one pass over them, and
\* merge, in order, into the result of one pass.
THEOREM AggregatePartialsAreOnePass == Spec => []PartialsAreOnePass
<1>1. AInv => PartialsAreOnePass
  <2> SUFFICES ASSUME AInv PROVE PartialsAreOnePass
    OBVIOUS
  <2>1. Given
    BY DEF AInv
  <2>2. ASSUME phase = "jobs", NEW j \in 1..Len(jobs)
        PROVE  IsOnePass(part[j], jobs[j].from..at[j] - 1)
    <3>1. JobsAre
      BY <2>2 DEF AInv
    <3>2. RowsRead(j) \in SUBSET (1..Len(input))
      BY <2>1, <3>1, JobFacts
    <3>3. IsTable(part[j], RowsRead(j)) /\ (part[j].overflow \/ Exact(part[j], RowsRead(j)))
      BY <3>1 DEF JobsAre, PartialIs
    <3>4. part[j].overflow \/ part[j].groups = G!Groups(RowsRead(j))
      BY <2>1, <3>2, <3>3, TableIsOnePass
    <3> QED
      BY <3>4 DEF IsOnePass, RowsRead
  <2>3. ASSUME phase = "merge", cursor.group = 1
        PROVE  IsOnePass(merged, Before(cursor.job))
    <3>1. JobsAre /\ AllRead /\ CursorIs /\ MergedIs
      BY <2>3 DEF AInv
    <3>2. RowsMerged = Before(cursor.job)
      BY <2>3, NothingMerging DEF RowsMerged
    <3>3. Before(cursor.job) \in SUBSET (1..Len(input))
      <4>1. cursor.job \in Nat \ {0} /\ cursor.job <= Len(jobs) + 1
        BY <3>1 DEF CursorIs
      <4>2. /\ Len(jobs) \in Nat /\ Before(Len(jobs) + 1) = 1..Len(input)
            /\ \A j \in 1..Len(jobs) : Before(j) \in SUBSET (1..Len(input))
        BY <2>1, <3>1, JobFacts
      <4>3. cursor.job \in 1..Len(jobs) \/ cursor.job = Len(jobs) + 1
        BY <4>1, <4>2
      <4> QED
        BY <4>2, <4>3
    <3>4. IsTable(merged, Before(cursor.job))
          /\ (merged.overflow \/ Exact(merged, Before(cursor.job)))
      <4>1. ~(cursor.group > 1)
        BY <2>3
      <4> QED
        BY <3>1, <3>2, <4>1 DEF MergedIs
    <3>5. merged.overflow \/ merged.groups = G!Groups(Before(cursor.job))
      BY <2>1, <3>3, <3>4, TableIsOnePass
    <3> QED
      BY <3>5 DEF IsOnePass
  <2> QED
    BY <2>2, <2>3 DEF PartialsAreOnePass, Before
<1> QED
  BY <1>1, AggregateInvariant, PTL

\* The aggregation implements the definition of GROUP BY: however the input is
\* cut, shared out and merged, and whichever paths are tried.  Its groups are in
\* first-seen order, not by key as docs/faq.md 106 has it.
THEOREM AggregateImplementsGroupBy == Spec => ImplementsGroupBy
<1>1. Init => G!Init
  BY DEF Init, G!Init
<1>2. AInv /\ [Next]_vars => [G!Execute]_<<input, query, outcome>>
  <2> SUFFICES ASSUME AInv, [Next]_vars
               PROVE  G!Execute \/ UNCHANGED <<input, query, outcome>>
    BY DEF G!Execute
  <2>1. CASE Output
    <3>1. /\ Given /\ ResultIs /\ outcome = G!Pending /\ phase = "output"
          /\ (path = "dense" => query.grouped)
      BY <2>1 DEF AInv, Output
    <3> DEFINE dense == (path = "dense")
    <3>2. outcome' = OutputOf(IF dense
                              THEN LET groups == FirstSeenOrder(merged.groups)
                                   IN  IF query.having = "sum" THEN Kept(groups) ELSE groups
                              ELSE merged.groups)
      BY <2>1 DEF Output, DenseGroups
    <3>3. /\ IsTable(merged, 1..Len(input)) /\ Exact(merged, 1..Len(input))
          /\ dense \in BOOLEAN /\ (dense => query.grouped /\ InWidth(merged))
      BY <3>1 DEF ResultIs
    <3> HIDE DEF dense
    <3>4. outcome' = G!Answer
      BY <3>1, <3>2, <3>3, AnswerIs
    <3>5. UNCHANGED <<input, query>>
      BY <2>1 DEF Output, given
    <3> QED
      BY <3>1, <3>4, <3>5 DEF G!Execute
  <2>2. CASE ~Output
    BY <2>2 DEF Next, PlanGlobal, PlanDense, PlanGeneral, SendGeneral, Send, ReadRow, Collect,
                MergeGroup, NextPartial, Merged, DenseGivesUp, Done, vars, given
  <2> QED
    BY <2>1, <2>2
<1> QED
  BY <1>1, <1>2, AggregateInvariant, PTL DEF Spec, ImplementsGroupBy, G!Spec
=============================================================================
