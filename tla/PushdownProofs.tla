--------------------------- MODULE PushdownProofs ---------------------------
(***************************************************************************)
(* A rewritten grouped join answers as the ordinary one does, for any      *)
(* tables, keys, values and labels: the variables of the plan keep their   *)
(* types, and module Pushdown implements module GroupedJoin.               *)
(*                                                                         *)
(* The joined rows of the ordinary plan fall into parts, one for each row  *)
(* of the join of the partial aggregates: the part of a group and a right  *)
(* row are the pairs of the group's rows with that right row.  A sum over  *)
(* joined rows is that of the sums of the parts, a minimum the least of    *)
(* the parts' minima, and the first pairs of the parts are in the order of *)
(* the parts, so that the groups are first seen in the same order.         *)
(***************************************************************************)
EXTENDS Pushdown, Induction

-----------------------------------------------------------------------------
\* Module GroupBy for a query with GROUP BY, MIN and MAX, with its input as an
\* argument.

ValuedIn(in, R) == {i \in R : in[i].val # Null}

LeastIn(in, R) ==
  IF ValuedIn(in, R) = {} THEN 0
  ELSE LET least == Min({in[i].val : i \in ValuedIn(in, R)})
       IN  Min({i \in R : in[i].val = least})

GreatestIn(in, R) ==
  IF ValuedIn(in, R) = {} THEN 0
  ELSE LET greatest == Max({in[i].val : i \in ValuedIn(in, R)})
       IN  Min({i \in R : in[i].val = greatest})

TotalIn(rows, R) ==
  LET upTo[n \in 0..Len(rows)] ==
        IF n = 0 THEN 0
        ELSE upTo[n - 1] + IF n \in R THEN rows[n].val ELSE 0
  IN  upTo[Len(rows)]

FirstsIn(in) == {f \in 1..Len(in) : \A i \in 1..Len(in) : in[i].key = in[f].key => f <= i}
SameIn(in, f) == {i \in 1..Len(in) : in[i].key = in[f].key}

GroupIn(in, f, R) == [first |-> f,
                      sum |-> TotalIn(in, ValuedIn(in, R)),
                      saw |-> ValuedIn(in, R) # {},
                      count |-> Cardinality(ValuedIn(in, R)),
                      rows |-> Cardinality(R),
                      least |-> LeastIn(in, R),
                      greatest |-> GreatestIn(in, R)]

\* The places at which the groups are first seen, in order.
FirstRows(in) == Ascending(FirstsIn(in), Len(in))

GroupsIn(in) ==
  [g \in 1..Len(FirstRows(in)) |-> GroupIn(in, FirstRows(in)[g], SameIn(in, FirstRows(in)[g]))]

\* The operators of the instances are those of the modules they come from.
LEMMA SameFlatten ==
  /\ \A ss : P!FlattenSeq(ss) = FlattenSeq(ss)
  /\ \A ss : J!L!FlattenSeq(ss) = FlattenSeq(ss)
  /\ \A ss : J!G!FlattenSeq(ss) = FlattenSeq(ss)
  /\ \A ss : OfSum!FlattenSeq(ss) = FlattenSeq(ss)
  /\ \A ss : OfCount!FlattenSeq(ss) = FlattenSeq(ss)
  /\ \A ss : OfRows!FlattenSeq(ss) = FlattenSeq(ss)
  /\ \A ss : OfLeast!FlattenSeq(ss) = FlattenSeq(ss)
  /\ \A ss : OfGreatest!FlattenSeq(ss) = FlattenSeq(ss)
  /\ \A ss : J!E!FlattenSeq(ss) = FlattenSeq(ss)
  /\ \A ss : PJ!FlattenSeq(ss) = FlattenSeq(ss)
BY DEF FlattenSeq, P!FlattenSeq, J!L!FlattenSeq, J!G!FlattenSeq, OfSum!FlattenSeq, OfCount!FlattenSeq,
       OfRows!FlattenSeq, OfLeast!FlattenSeq, OfGreatest!FlattenSeq, J!E!FlattenSeq, PJ!FlattenSeq

\* The same for the places in order.
LEMMA SameAscending ==
  /\ \A S, n : P!Ascending(S, n) = Ascending(S, n)
  /\ \A S, n : J!L!Ascending(S, n) = Ascending(S, n)
  /\ \A S, n : J!G!Ascending(S, n) = Ascending(S, n)
  /\ \A S, n : OfSum!Ascending(S, n) = Ascending(S, n)
  /\ \A S, n : OfCount!Ascending(S, n) = Ascending(S, n)
  /\ \A S, n : OfRows!Ascending(S, n) = Ascending(S, n)
  /\ \A S, n : OfLeast!Ascending(S, n) = Ascending(S, n)
  /\ \A S, n : OfGreatest!Ascending(S, n) = Ascending(S, n)
  /\ \A S, n : J!E!Ascending(S, n) = Ascending(S, n)
  /\ \A S, n : PJ!Ascending(S, n) = Ascending(S, n)
BY SameFlatten DEF Ascending, P!Ascending, J!L!Ascending, J!G!Ascending, OfSum!Ascending, OfCount!Ascending,
                   OfRows!Ascending, OfLeast!Ascending, OfGreatest!Ascending, J!E!Ascending, PJ!Ascending

\* The groups of the partial aggregate.
LEMMA PartialGroups == P!Groups(1..Len(left)) = GroupsIn(left)
<1>1. \A R : P!Valued(R) = ValuedIn(left, R)
  BY DEF P!Valued, ValuedIn
<1>2. \A rows, R : P!Total(rows, R) = TotalIn(rows, R)
  BY DEF P!Total, TotalIn
<1>3. /\ \A S : P!Min(S) = Min(S)
      /\ \A S : P!Max(S) = Max(S)
      /\ \A S : P!Cardinality(S) = Cardinality(S)
  BY DEF P!Min, P!Max, Min, Max, Cardinality, P!Cardinality
<1>4. \A R : P!Least(R) = LeastIn(left, R)
  BY <1>1, <1>3 DEF P!Least, LeastIn
<1>5. \A R : P!Greatest(R) = GreatestIn(left, R)
  BY <1>1, <1>3 DEF P!Greatest, GreatestIn
<1>6. \A f, R : P!Group(f, R) = GroupIn(left, f, R)
  BY <1>1, <1>2, <1>3, <1>4, <1>5 DEF P!Group, GroupIn, P!Sum
<1>7. /\ P!Firsts(1..Len(left)) = FirstsIn(left)
      /\ \A f : P!SameKey(f, 1..Len(left)) = SameIn(left, f)
  BY DEF P!Firsts, FirstsIn, P!SameKey, SameIn, P!KeyOf
<1>8. \A S, n : P!Ascending(S, n) = Ascending(S, n)
  BY SameAscending
<1> QED
  BY <1>6, <1>7, <1>8 DEF P!Groups, GroupsIn, FirstRows

\* The groups by join key that GroupedJoin looks at.
LEMMA KeyGroups == J!L!Groups(1..Len(left)) = GroupsIn(left)
<1>1. \A R : J!L!Valued(R) = ValuedIn(left, R)
  BY DEF J!L!Valued, ValuedIn
<1>2. \A rows, R : J!L!Total(rows, R) = TotalIn(rows, R)
  BY DEF J!L!Total, TotalIn
<1>3. /\ \A S : J!L!Min(S) = Min(S)
      /\ \A S : J!L!Max(S) = Max(S)
      /\ \A S : J!L!Cardinality(S) = Cardinality(S)
  BY DEF J!L!Min, J!L!Max, Min, Max, Cardinality, J!L!Cardinality
<1>4. \A R : J!L!Least(R) = LeastIn(left, R)
  BY <1>1, <1>3 DEF J!L!Least, LeastIn
<1>5. \A R : J!L!Greatest(R) = GreatestIn(left, R)
  BY <1>1, <1>3 DEF J!L!Greatest, GreatestIn
<1>6. \A f, R : J!L!Group(f, R) = GroupIn(left, f, R)
  BY <1>1, <1>2, <1>3, <1>4, <1>5 DEF J!L!Group, GroupIn, J!L!Sum, J!Query
<1>7. /\ J!L!Firsts(1..Len(left)) = FirstsIn(left)
      /\ \A f : J!L!SameKey(f, 1..Len(left)) = SameIn(left, f)
  BY DEF J!L!Firsts, FirstsIn, J!L!SameKey, SameIn, J!L!KeyOf, J!Query
<1>8. \A S, n : J!L!Ascending(S, n) = Ascending(S, n)
  BY SameAscending
<1> QED
  BY <1>6, <1>7, <1>8 DEF J!L!Groups, GroupsIn, FirstRows, J!Query

\* The groups of the joined rows.
LEMMA JoinedGroups == J!G!Groups(1..Len(J!Joined)) = GroupsIn(J!Joined)
<1>1. \A R : J!G!Valued(R) = ValuedIn(J!Joined, R)
  BY DEF J!G!Valued, ValuedIn
<1>2. \A rows, R : J!G!Total(rows, R) = TotalIn(rows, R)
  BY DEF J!G!Total, TotalIn
<1>3. /\ \A S : J!G!Min(S) = Min(S)
      /\ \A S : J!G!Max(S) = Max(S)
      /\ \A S : J!G!Cardinality(S) = Cardinality(S)
  BY DEF J!G!Min, J!G!Max, Min, Max, Cardinality, J!G!Cardinality
<1>4. \A R : J!G!Least(R) = LeastIn(J!Joined, R)
  BY <1>1, <1>3 DEF J!G!Least, LeastIn
<1>5. \A R : J!G!Greatest(R) = GreatestIn(J!Joined, R)
  BY <1>1, <1>3 DEF J!G!Greatest, GreatestIn
<1>6. \A f, R : J!G!Group(f, R) = GroupIn(J!Joined, f, R)
  BY <1>1, <1>2, <1>3, <1>4, <1>5 DEF J!G!Group, GroupIn, J!G!Sum, J!Query
<1>7. /\ J!G!Firsts(1..Len(J!Joined)) = FirstsIn(J!Joined)
      /\ \A f : J!G!SameKey(f, 1..Len(J!Joined)) = SameIn(J!Joined, f)
  BY DEF J!G!Firsts, FirstsIn, J!G!SameKey, SameIn, J!G!KeyOf, J!Query
<1>8. \A S, n : J!G!Ascending(S, n) = Ascending(S, n)
  BY SameAscending
<1> QED
  BY <1>6, <1>7, <1>8 DEF J!G!Groups, GroupsIn, FirstRows, J!Query

\* The groups of the column sum of the joined partials.
LEMMA SumGroups == OfSum!Groups(1..Len(Column("sum"))) = GroupsIn(Column("sum"))
<1>1. \A R : OfSum!Valued(R) = ValuedIn(Column("sum"), R)
  BY DEF OfSum!Valued, ValuedIn
<1>2. \A rows, R : OfSum!Total(rows, R) = TotalIn(rows, R)
  BY DEF OfSum!Total, TotalIn
<1>3. /\ \A S : OfSum!Min(S) = Min(S)
      /\ \A S : OfSum!Max(S) = Max(S)
      /\ \A S : OfSum!Cardinality(S) = Cardinality(S)
  BY DEF OfSum!Min, OfSum!Max, Min, Max, Cardinality, OfSum!Cardinality
<1>4. \A R : OfSum!Least(R) = LeastIn(Column("sum"), R)
  BY <1>1, <1>3 DEF OfSum!Least, LeastIn
<1>5. \A R : OfSum!Greatest(R) = GreatestIn(Column("sum"), R)
  BY <1>1, <1>3 DEF OfSum!Greatest, GreatestIn
<1>6. \A f, R : OfSum!Group(f, R) = GroupIn(Column("sum"), f, R)
  BY <1>1, <1>2, <1>3, <1>4, <1>5 DEF OfSum!Group, GroupIn, OfSum!Sum, Query
<1>7. /\ OfSum!Firsts(1..Len(Column("sum"))) = FirstsIn(Column("sum"))
      /\ \A f : OfSum!SameKey(f, 1..Len(Column("sum"))) = SameIn(Column("sum"), f)
  BY DEF OfSum!Firsts, FirstsIn, OfSum!SameKey, SameIn, OfSum!KeyOf, Query
<1>8. \A S, n : OfSum!Ascending(S, n) = Ascending(S, n)
  BY SameAscending
<1> QED
  BY <1>6, <1>7, <1>8 DEF OfSum!Groups, GroupsIn, FirstRows, Query

\* The same for the column count.
LEMMA CountGroups == OfCount!Groups(1..Len(Column("count"))) = GroupsIn(Column("count"))
<1>1. \A R : OfCount!Valued(R) = ValuedIn(Column("count"), R)
  BY DEF OfCount!Valued, ValuedIn
<1>2. \A rows, R : OfCount!Total(rows, R) = TotalIn(rows, R)
  BY DEF OfCount!Total, TotalIn
<1>3. /\ \A S : OfCount!Min(S) = Min(S)
      /\ \A S : OfCount!Max(S) = Max(S)
      /\ \A S : OfCount!Cardinality(S) = Cardinality(S)
  BY DEF OfCount!Min, OfCount!Max, Min, Max, Cardinality, OfCount!Cardinality
<1>4. \A R : OfCount!Least(R) = LeastIn(Column("count"), R)
  BY <1>1, <1>3 DEF OfCount!Least, LeastIn
<1>5. \A R : OfCount!Greatest(R) = GreatestIn(Column("count"), R)
  BY <1>1, <1>3 DEF OfCount!Greatest, GreatestIn
<1>6. \A f, R : OfCount!Group(f, R) = GroupIn(Column("count"), f, R)
  BY <1>1, <1>2, <1>3, <1>4, <1>5 DEF OfCount!Group, GroupIn, OfCount!Sum, Query
<1>7. /\ OfCount!Firsts(1..Len(Column("count"))) = FirstsIn(Column("count"))
      /\ \A f : OfCount!SameKey(f, 1..Len(Column("count"))) = SameIn(Column("count"), f)
  BY DEF OfCount!Firsts, FirstsIn, OfCount!SameKey, SameIn, OfCount!KeyOf, Query
<1>8. \A S, n : OfCount!Ascending(S, n) = Ascending(S, n)
  BY SameAscending
<1> QED
  BY <1>6, <1>7, <1>8 DEF OfCount!Groups, GroupsIn, FirstRows, Query

\* The same for the column rows.
LEMMA RowsGroups == OfRows!Groups(1..Len(Column("rows"))) = GroupsIn(Column("rows"))
<1>1. \A R : OfRows!Valued(R) = ValuedIn(Column("rows"), R)
  BY DEF OfRows!Valued, ValuedIn
<1>2. \A rows, R : OfRows!Total(rows, R) = TotalIn(rows, R)
  BY DEF OfRows!Total, TotalIn
<1>3. /\ \A S : OfRows!Min(S) = Min(S)
      /\ \A S : OfRows!Max(S) = Max(S)
      /\ \A S : OfRows!Cardinality(S) = Cardinality(S)
  BY DEF OfRows!Min, OfRows!Max, Min, Max, Cardinality, OfRows!Cardinality
<1>4. \A R : OfRows!Least(R) = LeastIn(Column("rows"), R)
  BY <1>1, <1>3 DEF OfRows!Least, LeastIn
<1>5. \A R : OfRows!Greatest(R) = GreatestIn(Column("rows"), R)
  BY <1>1, <1>3 DEF OfRows!Greatest, GreatestIn
<1>6. \A f, R : OfRows!Group(f, R) = GroupIn(Column("rows"), f, R)
  BY <1>1, <1>2, <1>3, <1>4, <1>5 DEF OfRows!Group, GroupIn, OfRows!Sum, Query
<1>7. /\ OfRows!Firsts(1..Len(Column("rows"))) = FirstsIn(Column("rows"))
      /\ \A f : OfRows!SameKey(f, 1..Len(Column("rows"))) = SameIn(Column("rows"), f)
  BY DEF OfRows!Firsts, FirstsIn, OfRows!SameKey, SameIn, OfRows!KeyOf, Query
<1>8. \A S, n : OfRows!Ascending(S, n) = Ascending(S, n)
  BY SameAscending
<1> QED
  BY <1>6, <1>7, <1>8 DEF OfRows!Groups, GroupsIn, FirstRows, Query

\* The same for the column least.
LEMMA LeastGroups == OfLeast!Groups(1..Len(Column("least"))) = GroupsIn(Column("least"))
<1>1. \A R : OfLeast!Valued(R) = ValuedIn(Column("least"), R)
  BY DEF OfLeast!Valued, ValuedIn
<1>2. \A rows, R : OfLeast!Total(rows, R) = TotalIn(rows, R)
  BY DEF OfLeast!Total, TotalIn
<1>3. /\ \A S : OfLeast!Min(S) = Min(S)
      /\ \A S : OfLeast!Max(S) = Max(S)
      /\ \A S : OfLeast!Cardinality(S) = Cardinality(S)
  BY DEF OfLeast!Min, OfLeast!Max, Min, Max, Cardinality, OfLeast!Cardinality
<1>4. \A R : OfLeast!Least(R) = LeastIn(Column("least"), R)
  BY <1>1, <1>3 DEF OfLeast!Least, LeastIn
<1>5. \A R : OfLeast!Greatest(R) = GreatestIn(Column("least"), R)
  BY <1>1, <1>3 DEF OfLeast!Greatest, GreatestIn
<1>6. \A f, R : OfLeast!Group(f, R) = GroupIn(Column("least"), f, R)
  BY <1>1, <1>2, <1>3, <1>4, <1>5 DEF OfLeast!Group, GroupIn, OfLeast!Sum, Query
<1>7. /\ OfLeast!Firsts(1..Len(Column("least"))) = FirstsIn(Column("least"))
      /\ \A f : OfLeast!SameKey(f, 1..Len(Column("least"))) = SameIn(Column("least"), f)
  BY DEF OfLeast!Firsts, FirstsIn, OfLeast!SameKey, SameIn, OfLeast!KeyOf, Query
<1>8. \A S, n : OfLeast!Ascending(S, n) = Ascending(S, n)
  BY SameAscending
<1> QED
  BY <1>6, <1>7, <1>8 DEF OfLeast!Groups, GroupsIn, FirstRows, Query

\* The same for the column greatest.
LEMMA GreatestGroups == OfGreatest!Groups(1..Len(Column("greatest"))) = GroupsIn(Column("greatest"))
<1>1. \A R : OfGreatest!Valued(R) = ValuedIn(Column("greatest"), R)
  BY DEF OfGreatest!Valued, ValuedIn
<1>2. \A rows, R : OfGreatest!Total(rows, R) = TotalIn(rows, R)
  BY DEF OfGreatest!Total, TotalIn
<1>3. /\ \A S : OfGreatest!Min(S) = Min(S)
      /\ \A S : OfGreatest!Max(S) = Max(S)
      /\ \A S : OfGreatest!Cardinality(S) = Cardinality(S)
  BY DEF OfGreatest!Min, OfGreatest!Max, Min, Max, Cardinality, OfGreatest!Cardinality
<1>4. \A R : OfGreatest!Least(R) = LeastIn(Column("greatest"), R)
  BY <1>1, <1>3 DEF OfGreatest!Least, LeastIn
<1>5. \A R : OfGreatest!Greatest(R) = GreatestIn(Column("greatest"), R)
  BY <1>1, <1>3 DEF OfGreatest!Greatest, GreatestIn
<1>6. \A f, R : OfGreatest!Group(f, R) = GroupIn(Column("greatest"), f, R)
  BY <1>1, <1>2, <1>3, <1>4, <1>5 DEF OfGreatest!Group, GroupIn, OfGreatest!Sum, Query
<1>7. /\ OfGreatest!Firsts(1..Len(Column("greatest"))) = FirstsIn(Column("greatest"))
      /\ \A f : OfGreatest!SameKey(f, 1..Len(Column("greatest"))) = SameIn(Column("greatest"), f)
  BY DEF OfGreatest!Firsts, FirstsIn, OfGreatest!SameKey, SameIn, OfGreatest!KeyOf, Query
<1>8. \A S, n : OfGreatest!Ascending(S, n) = Ascending(S, n)
  BY SameAscending
<1> QED
  BY <1>6, <1>7, <1>8 DEF OfGreatest!Groups, GroupsIn, FirstRows, Query

-----------------------------------------------------------------------------
\* What the groups of an input are.

\* in is a sequence of rows whose values are integers or NULL.
Input(in) == /\ Len(in) \in Nat /\ DOMAIN in = 1..Len(in)
             /\ \A i \in 1..Len(in) : in[i].val \in Int \cup {Null}

\* The values of the rows R.
Values(in, R) == [i \in 1..Len(in) |-> IF i \in ValuedIn(in, R) THEN in[i].val ELSE 0]

\* NULL is not a number.
LEMMA NullIsNoInt == Null \notin Int
BY PushdownAssumption

\* The values of valued rows.
LEMMA ValuesAre ==
  ASSUME NEW in, Input(in), NEW R \in SUBSET (1..Len(in))
  PROVE  /\ Values(in, R) \in [1..Len(in) -> Int]
         /\ ValuedIn(in, R) \subseteq R
         /\ \A i \in ValuedIn(in, R) : in[i].val \in Int
BY NullIsNoInt DEF Input, Values, ValuedIn

\* The recursion of Total is well-founded, and adds the values of the rows up.
LEMMA TotalIs ==
  ASSUME NEW in, Input(in), NEW R \in SUBSET (1..Len(in))
  PROVE  TotalIn(in, ValuedIn(in, R)) = Sigma(Values(in, R), Len(in))
<1> DEFINE n == Len(in)
           more(i) == IF i \in ValuedIn(in, R) THEN in[i].val ELSE 0
           Body(f) == [i \in 0..n |-> IF i = 0 THEN 0 ELSE f[i - 1] + more(i)]
           upTo == CHOOSE f : f = Body(f)
           w == Values(in, R)
<1>1. n \in Nat /\ w \in [1..n -> Int] /\ \A i \in 1..n : w[i] = more(i)
  BY ValuesAre DEF Input, Values
<1>2. TotalIn(in, ValuedIn(in, R)) = upTo[n]
  BY DEF TotalIn
<1> HIDE DEF w, more, n
<1>3. PICK c : AddsUp(c, w, n)
  BY <1>1, SigmaExists
<1>4. c = Body(c)
  <2>1. c = [i \in 0..n |-> c[i]]
    BY <1>3 DEF AddsUp
  <2>2. \A i \in 0..n : c[i] = IF i = 0 THEN 0 ELSE c[i - 1] + more(i)
    <3>1. \A i \in 0..n : i # 0 => i \in 1..n
      BY <1>1
    <3> QED
      BY <1>1, <1>3, <3>1 DEF AddsUp
  <2> QED
    BY <2>1, <2>2
<1>5. upTo = Body(upTo)
  <2> HIDE DEF Body
  <2> QED
    BY <1>4
<1>6. /\ upTo[0] = 0
      /\ \A i \in 1..n : upTo[i] = upTo[i - 1] + more(i)
  <2> HIDE DEF upTo
  <2>1. \A i \in 0..n : upTo[i] = IF i = 0 THEN 0 ELSE upTo[i - 1] + more(i)
    BY <1>5
  <2>2. 0 \in 0..n /\ \A i \in 1..n : i \in 0..n /\ i # 0
    BY <1>1
  <2> QED
    BY <2>1, <2>2
<1> HIDE DEF upTo, Body
<1> DEFINE T == {i \in 0..n : upTo[i] = c[i]}
<1>7. 0 \in T
  BY <1>1, <1>3, <1>6 DEF AddsUp
<1>8. Inductive(T, 0, n)
  <2> SUFFICES ASSUME NEW i \in 0..(n - 1), upTo[i] = c[i]
               PROVE  i + 1 \in 0..n /\ upTo[i + 1] = c[i + 1]
    BY DEF Inductive
  <2>1. i + 1 \in 0..n /\ i + 1 \in 1..n /\ (i + 1) - 1 = i
    BY <1>1
  <2>2. c[i + 1] = c[i] + more(i + 1) /\ upTo[i + 1] = upTo[i] + more(i + 1)
    BY <1>1, <1>3, <1>6, <2>1 DEF AddsUp
  <2> QED
    BY <2>1, <2>2
<1>9. n \in T
  <2>1. 0 \in Int /\ n \in Int /\ n \in 0..n
    BY <1>1
  <2> HIDE DEF T
  <2> QED
    BY <1>7, <1>8, <2>1, IntervalInduction
<1>10. Sigma(w, n) = c[n]
  BY <1>1, <1>3, SigmaIs
<1> QED
  BY <1>2, <1>9, <1>10 DEF w, n

\* x is a row of R with the smallest (largest) value, or 0 when there is no value.
IsLeast(in, R, x) ==
  IF ValuedIn(in, R) = {} THEN x = 0
  ELSE x \in ValuedIn(in, R) /\ \A i \in ValuedIn(in, R) : in[x].val <= in[i].val

IsGreatest(in, R, x) ==
  IF ValuedIn(in, R) = {} THEN x = 0
  ELSE x \in ValuedIn(in, R) /\ \A i \in ValuedIn(in, R) : in[x].val >= in[i].val

\* The smallest and the largest value of valued rows are there.
LEMMA ExtremeValues ==
  ASSUME NEW in, Input(in), NEW R \in SUBSET (1..Len(in)), ValuedIn(in, R) # {}
  PROVE  LET S == {in[i].val : i \in ValuedIn(in, R)}
         IN  /\ Min(S) \in S /\ \A x \in S : Min(S) <= x
             /\ Max(S) \in S /\ \A x \in S : Max(S) >= x
             /\ S \subseteq Int
<1> DEFINE n == Len(in)
           V == ValuedIn(in, R)
           v == Values(in, R)
           S == {in[i].val : i \in V}
           S0 == {v[i] : i \in V}
<1>1. n \in Nat /\ v \in [1..n -> Int] /\ V \in SUBSET (1..n) /\ V # {}
      /\ \A i \in V : v[i] = in[i].val
  BY ValuesAre DEF Input, Values
<1> HIDE DEF n, V, v
<1>2. S0 = S
  BY <1>1
<1>3. /\ Min(S0) \in S0 /\ \A x \in S0 : Min(S0) <= x
      /\ Max(S0) \in S0 /\ \A x \in S0 : Max(S0) >= x
      /\ S0 \subseteq Int
  BY <1>1, Extremes
<1> HIDE DEF S0
<1> QED
  BY <1>2, <1>3 DEF V

\* MIN finds the smallest value.
LEMMA LeastIs ==
  ASSUME NEW in, Input(in), NEW R \in SUBSET (1..Len(in))
  PROVE  IsLeast(in, R, LeastIn(in, R))
<1> DEFINE V == ValuedIn(in, R)
           S == {in[i].val : i \in V}
           least == Min(S)
           W == {i \in R : in[i].val = least}
<1>1. CASE V = {}
  BY <1>1 DEF IsLeast, LeastIn
<1>2. CASE V # {}
  <2>1. least \in S /\ (\A x \in S : least <= x) /\ S \subseteq Int
    BY <1>2, ExtremeValues
  <2>2. LeastIn(in, R) = Min(W)
    BY <1>2 DEF LeastIn
  <2> HIDE DEF least
  <2>3. W # {} /\ W \in SUBSET Nat
    <3>1. V \subseteq R /\ \A i \in R : i \in Nat
      BY ValuesAre DEF Input
    <3> QED
      BY <2>1, <3>1
  <2> DEFINE m == Min(W)
  <2>4. m \in W
    <3> HIDE DEF W
    <3> QED
      BY <2>3, LeastPlace
  <2> HIDE DEF m
  <2>5. m \in V /\ in[m].val = least
    <3>1. least \in Int /\ Null \notin Int
      BY <2>1, NullIsNoInt
    <3>2. m \in R /\ in[m].val = least
      BY <2>4
    <3> QED
      BY <3>1, <3>2 DEF ValuedIn
  <2>6. \A i \in V : in[m].val <= in[i].val
    BY <2>1, <2>5
  <2>7. IsLeast(in, R, m)
    BY <1>2, <2>5, <2>6 DEF IsLeast
  <2> QED
    BY <2>2, <2>7 DEF m
<1> QED
  BY <1>1, <1>2

\* MAX finds the largest value.
LEMMA GreatestIs ==
  ASSUME NEW in, Input(in), NEW R \in SUBSET (1..Len(in))
  PROVE  IsGreatest(in, R, GreatestIn(in, R))
<1> DEFINE V == ValuedIn(in, R)
           S == {in[i].val : i \in V}
           greatest == Max(S)
           W == {i \in R : in[i].val = greatest}
<1>1. CASE V = {}
  BY <1>1 DEF IsGreatest, GreatestIn
<1>2. CASE V # {}
  <2>1. greatest \in S /\ (\A x \in S : greatest >= x) /\ S \subseteq Int
    BY <1>2, ExtremeValues
  <2>2. GreatestIn(in, R) = Min(W)
    BY <1>2 DEF GreatestIn
  <2> HIDE DEF greatest
  <2>3. W # {} /\ W \in SUBSET Nat
    <3>1. V \subseteq R /\ \A i \in R : i \in Nat
      BY ValuesAre DEF Input
    <3> QED
      BY <2>1, <3>1
  <2> DEFINE m == Min(W)
  <2>4. m \in W
    <3> HIDE DEF W
    <3> QED
      BY <2>3, LeastPlace
  <2> HIDE DEF m
  <2>5. m \in V /\ in[m].val = greatest
    <3>1. greatest \in Int /\ Null \notin Int
      BY <2>1, NullIsNoInt
    <3>2. m \in R /\ in[m].val = greatest
      BY <2>4
    <3> QED
      BY <3>1, <3>2 DEF ValuedIn
  <2>6. \A i \in V : in[m].val >= in[i].val
    BY <2>1, <2>5
  <2>7. IsGreatest(in, R, m)
    BY <1>2, <2>5, <2>6 DEF IsGreatest
  <2> QED
    BY <2>2, <2>7 DEF m
<1> QED
  BY <1>1, <1>2

\* The first rows of the keys, in order: one for each key.
LEMMA FirstRowFacts ==
  ASSUME NEW in, Len(in) \in Nat, NEW f, f = FirstRows(in)
  PROVE  /\ Lists(f, FirstsIn(in))
         /\ f \in Seq(Nat) /\ Len(f) \in Nat /\ DOMAIN f = 1..Len(f)
         /\ \A g \in 1..Len(f) : f[g] \in FirstsIn(in) /\ f[g] \in 1..Len(in)
         /\ \A g, h \in 1..Len(f) : g < h => f[g] < f[h]
         /\ \A g, h \in 1..Len(f) : in[f[g]].key = in[f[h]].key => g = h
         /\ \A i \in 1..Len(in) : \E g \in 1..Len(f) : /\ in[f[g]].key = in[i].key
                                                       /\ f[g] <= i
<1> DEFINE n == Len(in)
           F == FirstsIn(in)
<1>1. F \subseteq 1..n /\ F \cap 1..n = F
  BY DEF FirstsIn
<1>2. Lists(f, F)
  <2>1. Lists(Ascending(F, n), F \cap 1..n)
    BY AscendingLists
  <2> QED
    BY <1>1, <2>1 DEF FirstRows
<1>3. /\ f \in Seq(Nat) /\ {f[h] : h \in DOMAIN f} = F
      /\ \A h, i \in DOMAIN f : h < i => f[h] < f[i]
  BY <1>2 DEF Lists
<1>4. DOMAIN f = 1..Len(f) /\ Len(f) \in Nat /\ \A g \in 1..Len(f) : f[g] \in F
  BY <1>3
<1>5. ASSUME NEW g \in 1..Len(f), NEW h \in 1..Len(f), in[f[g]].key = in[f[h]].key
      PROVE  g = h
  <2>1. f[g] <= f[h] /\ f[h] <= f[g] /\ f[g] \in Nat /\ f[h] \in Nat
    BY <1>1, <1>4, <1>5 DEF FirstsIn
  <2>2. ~(g < h) /\ ~(h < g)
    BY <1>3, <1>4, <2>1
  <2> QED
    BY <1>4, <2>2
<1>6. ASSUME NEW i \in 1..n
      PROVE  \E g \in 1..Len(f) : in[f[g]].key = in[i].key /\ f[g] <= i
  <2> DEFINE S == {j \in 1..n : in[j].key = in[i].key}
  <2>1. S \in SUBSET Nat /\ i \in S
    OBVIOUS
  <2>2. PICK j \in S : \A k \in S : j <= k
    <3> HIDE DEF S
    <3> QED
      BY <2>1, LeastNatural
  <2>3. j \in F
    BY <2>2 DEF FirstsIn
  <2>4. PICK g \in 1..Len(f) : f[g] = j
    BY <1>3, <1>4, <2>3
  <2> QED
    BY <2>1, <2>2, <2>4
<1> QED
  BY <1>1, <1>2, <1>3, <1>4, <1>5, <1>6

-----------------------------------------------------------------------------
\* Inner joins.

\* Module EquiJoin for an inner join, with the keys of its inputs as arguments.
Matching(lk, rk, l, r) == lk[l] # Null /\ lk[l] = rk[r]

HitsIn(lk, rk, l) == Ascending({r \in 1..Len(rk) : Matching(lk, rk, l, r)}, Len(rk))

PairsIn(lk, rk, l) ==
  [h \in 1..Len(HitsIn(lk, rk, l)) |-> <<l, HitsIn(lk, rk, l)[h]>>]

\* What the left rows 1..n contribute.
JoinIn(lk, rk, n) == FlattenSeq([l \in 1..n |-> PairsIn(lk, rk, l)])

\* A pair comes before another in the order of the left rows and then of the right
\* ones.
Before(a, b) == a[1] < b[1] \/ (a[1] = b[1] /\ a[2] < b[2])

\* pairs are the matching pairs of the left rows 1..n, each once and in that order.
IsJoin(pp, lk, rk, n) ==
  /\ pp \in Seq((1..n) \X (1..Len(rk)))
  /\ \A p \in 1..Len(pp) : Matching(lk, rk, pp[p][1], pp[p][2])
  /\ \A l \in 1..n, r \in 1..Len(rk) :
       Matching(lk, rk, l, r) => \E p \in 1..Len(pp) : pp[p] = <<l, r>>
  /\ \A p, q \in 1..Len(pp) : p < q => Before(pp[p], pp[q])

\* The matches of a row.
LEMMA HitsAre ==
  ASSUME NEW lk, NEW rk, Len(rk) \in Nat, NEW l, NEW hits, hits = HitsIn(lk, rk, l)
  PROVE  /\ hits \in Seq(1..Len(rk)) /\ Len(hits) \in Nat
         /\ \A h \in 1..Len(hits) : hits[h] \in 1..Len(rk) /\ Matching(lk, rk, l, hits[h])
         /\ \A r \in 1..Len(rk) :
              Matching(lk, rk, l, r) => \E h \in 1..Len(hits) : hits[h] = r
         /\ \A h, i \in 1..Len(hits) : h < i => hits[h] < hits[i]
<1> DEFINE m == Len(rk)
           S == {r \in 1..m : Matching(lk, rk, l, r)}
<1>1. S \cap 1..m = S
  OBVIOUS
<1>2. Lists(hits, S)
  <2>1. Lists(Ascending(S, m), S \cap 1..m)
    BY AscendingLists
  <2> QED
    BY <1>1, <2>1 DEF HitsIn
<1>3. /\ hits \in Seq(Nat) /\ {hits[h] : h \in DOMAIN hits} = S
      /\ \A h, i \in DOMAIN hits : h < i => hits[h] < hits[i]
  BY <1>2 DEF Lists
<1>4. DOMAIN hits = 1..Len(hits) /\ Len(hits) \in Nat /\ \A h \in 1..Len(hits) : hits[h] \in S
  BY <1>3
<1>5. hits \in Seq(1..m)
  BY <1>3, <1>4
<1>6. \A r \in S : \E h \in 1..Len(hits) : hits[h] = r
  BY <1>3, <1>4
<1> QED
  BY <1>3, <1>4, <1>5, <1>6

\* What a row contributes.
LEMMA PairsAre ==
  ASSUME NEW lk, NEW rk, Len(rk) \in Nat, NEW l \in Nat, NEW new, new = PairsIn(lk, rk, l)
  PROVE  /\ new \in Seq({l} \X (1..Len(rk))) /\ Len(new) \in Nat
         /\ \A h \in 1..Len(new) : /\ new[h][1] = l /\ new[h][2] \in 1..Len(rk)
                                   /\ Matching(lk, rk, l, new[h][2])
         /\ \A r \in 1..Len(rk) :
              Matching(lk, rk, l, r) => \E h \in 1..Len(new) : new[h] = <<l, r>>
         /\ \A h, i \in 1..Len(new) : h < i => new[h][2] < new[i][2]
<1> DEFINE hits == HitsIn(lk, rk, l)
<1>1. /\ hits \in Seq(1..Len(rk)) /\ Len(hits) \in Nat
      /\ \A h \in 1..Len(hits) : hits[h] \in 1..Len(rk) /\ Matching(lk, rk, l, hits[h])
      /\ \A r \in 1..Len(rk) :
           Matching(lk, rk, l, r) => \E h \in 1..Len(hits) : hits[h] = r
      /\ \A h, i \in 1..Len(hits) : h < i => hits[h] < hits[i]
  BY HitsAre
<1>2. new = [h \in 1..Len(hits) |-> <<l, hits[h]>>]
  BY DEF PairsIn
<1> HIDE DEF hits
<1>3. /\ Len(new) = Len(hits) /\ DOMAIN new = 1..Len(hits)
      /\ \A h \in 1..Len(hits) : new[h] = <<l, hits[h]>> /\ new[h][1] = l /\ new[h][2] = hits[h]
      /\ new \in Seq({l} \X (1..Len(rk)))
  BY <1>1, <1>2
<1>4. \A h \in 1..Len(new) : /\ new[h][1] = l /\ new[h][2] \in 1..Len(rk)
                             /\ Matching(lk, rk, l, new[h][2])
  BY <1>1, <1>3
<1>5. ASSUME NEW r \in 1..Len(rk), Matching(lk, rk, l, r)
      PROVE  \E h \in 1..Len(new) : new[h] = <<l, r>>
  <2>1. PICK h \in 1..Len(hits) : hits[h] = r
    BY <1>1, <1>5
  <2>2. new[h] = <<l, r>> /\ h \in 1..Len(new)
    BY <1>3, <2>1
  <2> QED
    BY <2>2
<1>6. \A h, i \in 1..Len(new) : h < i => new[h][2] < new[i][2]
  BY <1>1, <1>3
<1> QED
  BY <1>1, <1>3, <1>4, <1>5, <1>6

\* The rows contribute the matching pairs, in order.
LEMMA JoinIs ==
  ASSUME NEW n \in Nat, NEW lk, NEW rk, Len(rk) \in Nat
  PROVE  IsJoin(JoinIn(lk, rk, n), lk, rk, n)
<1> DEFINE T == {k \in 0..n : IsJoin(JoinIn(lk, rk, k), lk, rk, k)}
<1>1. 0 \in T
  <2>1. [l \in 1..0 |-> PairsIn(lk, rk, l)] = <<>>
    OBVIOUS
  <2>2. JoinIn(lk, rk, 0) = <<>>
    BY <2>1, FlattenEmpty DEF JoinIn
  <2>3. IsJoin(<<>>, lk, rk, 0)
    BY DEF IsJoin
  <2> QED
    BY <2>2, <2>3
<1>2. ASSUME NEW k \in 0..(n - 1), IsJoin(JoinIn(lk, rk, k), lk, rk, k)
      PROVE  IsJoin(JoinIn(lk, rk, k + 1), lk, rk, k + 1)
  <2> DEFINE j == k + 1
             X == (1..j) \X (1..Len(rk))
             ss == [l \in 1..k |-> PairsIn(lk, rk, l)]
             tt == [l \in 1..j |-> PairsIn(lk, rk, l)]
             old == JoinIn(lk, rk, k)
             new == PairsIn(lk, rk, j)
             all == JoinIn(lk, rk, j)
  <2>1. k \in Nat /\ j \in Nat /\ j \in 1..j /\ 1..j = 1..k \cup {j} /\ k < j
    OBVIOUS
  <2>2. \A l \in 1..j : PairsIn(lk, rk, l) \in Seq(X)
    <3> SUFFICES ASSUME NEW l \in 1..j PROVE PairsIn(lk, rk, l) \in Seq(X)
      OBVIOUS
    <3>1. l \in Nat /\ {l} \X (1..Len(rk)) \subseteq X
      OBVIOUS
    <3>2. PairsIn(lk, rk, l) \in Seq({l} \X (1..Len(rk)))
      BY <3>1, PairsAre
    <3> HIDE DEF X
    <3> QED
      BY <3>1, <3>2
  <2>3. all = old \o new
    <3>1. /\ ss \in Seq(Seq(X)) /\ Len(ss) = k
          /\ tt \in Seq(Seq(X)) /\ Len(tt) = j
          /\ \A l \in 1..k : ss[l] = tt[l]
          /\ tt[j] = new
      <4> HIDE DEF X, j
      <4> QED
        BY <2>1, <2>2
    <3>2. old = FlattenSeq(ss) /\ all = FlattenSeq(tt)
      BY DEF JoinIn
    <3> HIDE DEF ss, tt, X, new, old, all
    <3>3. FlattenSeq(tt) = FlattenSeq(ss) \o tt[k + 1]
      BY ONLY <2>1, <3>1, FlattenLast DEF j
    <3> QED
      BY <3>1, <3>2, <3>3
  <2>4. /\ old \in Seq((1..k) \X (1..Len(rk))) /\ Len(old) \in Nat
        /\ \A p \in 1..Len(old) : Matching(lk, rk, old[p][1], old[p][2])
        /\ \A l \in 1..k, r \in 1..Len(rk) :
             Matching(lk, rk, l, r) => \E p \in 1..Len(old) : old[p] = <<l, r>>
        /\ \A p, q \in 1..Len(old) : p < q => Before(old[p], old[q])
    <3>1. IsJoin(old, lk, rk, k)
      BY <1>2
    <3> HIDE DEF old
    <3>2. old \in Seq((1..k) \X (1..Len(rk)))
      BY <3>1 DEF IsJoin
    <3>3. Len(old) \in Nat
      BY <3>2
    <3> QED
      BY ONLY <3>1, <3>3 DEF IsJoin
  <2>5. /\ new \in Seq({j} \X (1..Len(rk))) /\ Len(new) \in Nat
        /\ \A h \in 1..Len(new) : /\ new[h][1] = j /\ new[h][2] \in 1..Len(rk)
                                  /\ Matching(lk, rk, j, new[h][2])
        /\ \A r \in 1..Len(rk) :
             Matching(lk, rk, j, r) => \E h \in 1..Len(new) : new[h] = <<j, r>>
        /\ \A h, i \in 1..Len(new) : h < i => new[h][2] < new[i][2]
    <3> HIDE DEF j
    <3> QED
      BY <2>1, PairsAre
  <2> HIDE DEF old, new, all, j
  <2>6. old \in Seq(X) /\ new \in Seq(X)
    <3>1. (1..k) \X (1..Len(rk)) \subseteq X /\ {j} \X (1..Len(rk)) \subseteq X
      BY <2>1
    <3> HIDE DEF X
    <3> QED
      BY <2>4, <2>5, <3>1
  <2> DEFINE a == Len(old)
             b == Len(new)
  <2>7. /\ all \in Seq(X) /\ Len(all) = a + b /\ a \in Nat /\ b \in Nat
        /\ \A p \in 1..a : all[p] = old[p]
        /\ \A p \in 1..(a + b) : p \notin 1..a => p - a \in 1..b /\ all[p] = new[p - a]
        /\ \A h \in 1..b : a + h \in 1..(a + b) /\ all[a + h] = new[h]
    <3>1. \A h \in 1..b : (a + h) - a = h /\ a + h \in 1..(a + b)
      BY <2>4, <2>5
    <3> HIDE DEF X
    <3> QED
      BY <2>3, <2>4, <2>5, <2>6, <3>1
  <2> HIDE DEF a, b
  <2>8. \A p \in 1..a : old[p][1] \in 1..k /\ old[p][2] \in 1..Len(rk)
    BY <2>4 DEF a
  <2>9. \A p \in 1..(a + b) : Matching(lk, rk, all[p][1], all[p][2])
    <3> SUFFICES ASSUME NEW p \in 1..(a + b) PROVE Matching(lk, rk, all[p][1], all[p][2])
      OBVIOUS
    <3>1. CASE p \in 1..a
      BY <2>4, <2>7, <3>1 DEF a
    <3>2. CASE p \notin 1..a
      <4> DEFINE h == p - a
      <4>1. h \in 1..b /\ all[p] = new[h]
        BY <2>7, <3>2
      <4> HIDE DEF h
      <4>2. new[h][1] = j /\ Matching(lk, rk, j, new[h][2])
        BY <2>5, <4>1 DEF b
      <4> QED
        BY <4>1, <4>2
    <3> QED
      BY <3>1, <3>2
  <2>10. ASSUME NEW l \in 1..j, NEW r \in 1..Len(rk), Matching(lk, rk, l, r)
         PROVE  \E p \in 1..(a + b) : all[p] = <<l, r>>
    <3>1. CASE l = j
      <4>1. PICK h \in 1..b : new[h] = <<j, r>>
        BY <2>5, <2>10, <3>1 DEF b
      <4> QED
        BY <2>7, <3>1, <4>1
    <3>2. CASE l # j
      <4>1. l \in 1..k
        BY <2>1, <3>2
      <4>2. PICK p \in 1..a : old[p] = <<l, r>>
        BY <2>4, <2>10, <4>1 DEF a
      <4>3. p \in 1..(a + b)
        BY <2>7
      <4> QED
        BY <2>7, <4>2, <4>3
    <3> QED
      BY <3>1, <3>2
  <2>11. ASSUME NEW p \in 1..(a + b), NEW q \in 1..(a + b), p < q
         PROVE  Before(all[p], all[q])
    <3>1. CASE q \in 1..a
      <4>1. p \in 1..a
        BY <2>7, <2>11, <3>1
      <4> QED
        BY <2>4, <2>7, <2>11, <3>1, <4>1 DEF a
    <3>2. CASE p \in 1..a /\ q \notin 1..a
      <4>1. all[p][1] \in 1..k
        BY <2>7, <2>8, <3>2
      <4> DEFINE y == q - a
      <4>2. y \in 1..b /\ all[q] = new[y]
        BY <2>7, <3>2
      <4> HIDE DEF y
      <4>3. all[q][1] = j
        BY <2>5, <4>2 DEF b
      <4>4. all[p][1] < all[q][1]
        BY <2>1, <4>1, <4>3
      <4> QED
        BY <4>4 DEF Before
    <3>3. CASE p \notin 1..a
      <4>1. q \notin 1..a /\ p - a < q - a
        <5>1. a \in Nat /\ b \in Nat
          BY <2>7
        <5> QED
          BY <2>11, <3>3, <5>1
      <4>2. /\ all[p] = new[p - a] /\ all[q] = new[q - a]
            /\ p - a \in 1..b /\ q - a \in 1..b
        BY <2>7, <3>3, <4>1
      <4> DEFINE x == p - a
                 y == q - a
      <4> HIDE DEF x, y
      <4>3. all[p][1] = j /\ all[q][1] = j /\ all[p][2] < all[q][2]
        <5>1. x \in 1..b /\ y \in 1..b /\ x < y /\ all[p] = new[x] /\ all[q] = new[y]
          BY <4>1, <4>2 DEF x, y
        <5> QED
          BY <2>5, <5>1 DEF b
      <4> QED
        BY <4>3 DEF Before
    <3> QED
      BY <3>1, <3>2, <3>3
  <2>12. IsJoin(all, lk, rk, j)
    BY <2>7, <2>9, <2>10, <2>11 DEF IsJoin
  <2> QED
    BY <2>12 DEF all, j
<1>3. Inductive(T, 0, n)
  <2>1. \A k \in 0..(n - 1) : k \in 0..n /\ k + 1 \in 0..n
    OBVIOUS
  <2> QED
    BY <1>2, <2>1 DEF Inductive
<1> HIDE DEF T
<1>4. n \in T
  <2>1. 0 \in Int /\ n \in Int /\ n \in 0..n
    OBVIOUS
  <2> QED
    BY <1>1, <1>3, <2>1, IntervalInduction
<1> QED
  BY <1>4 DEF T

\* The keys of the two tables and of the groups of the left one.
LeftKeys == [l \in 1..Len(left) |-> left[l].key]
RightKeys == [r \in 1..Len(right) |-> right[r].key]
GroupKeys == [g \in 1..Len(partial) |-> left[partial[g].first].key]

\* What an inner join of the tables is.
LEMMA TablesJoined ==
  ASSUME query.kind = "inner", Len(left) \in Nat, Len(right) \in Nat
  PROVE  J!E!Answer = JoinIn(LeftKeys, RightKeys, Len(left))
<1> DEFINE lk == LeftKeys
           rk == RightKeys
           n == Len(left)
<1>1. Len(lk) = n /\ Len(rk) = Len(right) /\ Len(rk) \in Nat /\ n \in Nat
  BY DEF LeftKeys, RightKeys
<1>2. ASSUME NEW l
      PROVE  J!E!Hits(l) = HitsIn(lk, rk, l)
  BY SameAscending DEF J!E!Hits, HitsIn, J!E!Match, Matching, LeftKeys, RightKeys
<1>3. ~J!E!KeepsLeft /\ ~J!E!KeepsRight
  BY DEF J!E!KeepsLeft, J!E!KeepsRight
<1>4. ASSUME NEW l \in 1..n
      PROVE  J!E!PairsOf(l) = PairsIn(lk, rk, l)
  <2>1. HitsIn(lk, rk, l) = <<>> => PairsIn(lk, rk, l) = <<>>
    BY DEF PairsIn
  <2> QED
    BY <1>2, <1>3, <2>1 DEF J!E!PairsOf, PairsIn
<1>5. J!E!Pairs(1, n) = JoinIn(lk, rk, n)
  <2>1. [i \in 1..n - 1 + 1 |-> J!E!PairsOf(1 + i - 1)] = [l \in 1..n |-> PairsIn(lk, rk, l)]
    <3>1. n - 1 + 1 = n /\ \A i \in 1..n : 1 + i - 1 = i
      BY <1>1
    <3> HIDE DEF lk, rk, n
    <3> QED
      BY <1>4, <3>1
  <2> HIDE DEF lk, rk, n
  <2> QED
    BY <2>1, SameFlatten DEF J!E!Pairs, JoinIn
<1>6. J!E!Answer = J!E!Pairs(1, n) \o <<>>
  BY <1>1, <1>3 DEF J!E!Answer, LeftKeys
<1>7. JoinIn(lk, rk, n) \in Seq((1..n) \X (1..Len(rk)))
  BY <1>1, JoinIs DEF IsJoin
<1>8. JoinIn(lk, rk, n) \o <<>> = JoinIn(lk, rk, n)
  <2> HIDE DEF lk, rk, n
  <2> QED
    BY <1>7, ConcatEmptySeq
<1> QED
  BY <1>5, <1>6, <1>8

\* What an inner join of the partial aggregates with the right table is.
LEMMA PartialsJoined ==
  ASSUME query.kind = "inner", Len(partial) \in Nat, Len(right) \in Nat
  PROVE  PJ!Answer = JoinIn(GroupKeys, RightKeys, Len(partial))
<1> DEFINE lk == GroupKeys
           rk == RightKeys
           n == Len(partial)
<1>1. Len(lk) = n /\ Len(rk) = Len(right) /\ Len(rk) \in Nat /\ n \in Nat
  BY DEF GroupKeys, RightKeys
<1>2. ASSUME NEW l
      PROVE  PJ!Hits(l) = HitsIn(lk, rk, l)
  BY SameAscending DEF PJ!Hits, HitsIn, PJ!Match, Matching, GroupKeys, RightKeys
<1>3. ~PJ!KeepsLeft /\ ~PJ!KeepsRight
  BY DEF PJ!KeepsLeft, PJ!KeepsRight
<1>4. ASSUME NEW l \in 1..n
      PROVE  PJ!PairsOf(l) = PairsIn(lk, rk, l)
  <2>1. HitsIn(lk, rk, l) = <<>> => PairsIn(lk, rk, l) = <<>>
    BY DEF PairsIn
  <2> QED
    BY <1>2, <1>3, <2>1 DEF PJ!PairsOf, PairsIn
<1>5. PJ!Pairs(1, n) = JoinIn(lk, rk, n)
  <2>1. [i \in 1..n - 1 + 1 |-> PJ!PairsOf(1 + i - 1)] = [l \in 1..n |-> PairsIn(lk, rk, l)]
    <3>1. n - 1 + 1 = n /\ \A i \in 1..n : 1 + i - 1 = i
      BY <1>1
    <3> HIDE DEF lk, rk, n
    <3> QED
      BY <1>4, <3>1
  <2> HIDE DEF lk, rk, n
  <2> QED
    BY <2>1, SameFlatten DEF PJ!Pairs, JoinIn
<1>6. PJ!Answer = PJ!Pairs(1, n) \o <<>>
  BY <1>1, <1>3 DEF PJ!Answer, GroupKeys
<1>7. JoinIn(lk, rk, n) \in Seq((1..n) \X (1..Len(rk)))
  BY <1>1, JoinIs DEF IsJoin
<1>8. JoinIn(lk, rk, n) \o <<>> = JoinIn(lk, rk, n)
  <2> HIDE DEF lk, rk, n
  <2> QED
    BY <1>7, ConcatEmptySeq
<1> QED
  BY <1>5, <1>6, <1>8

-----------------------------------------------------------------------------
\* Parts of joined rows.

\* phi sends the rows 1..n to the parts 1..m they are in; the first rows of the parts,
\* b, are in the order of the parts.
Parts(n, m, phi, b) ==
  /\ phi \in [1..n -> 1..m]
  /\ b \in [1..m -> 1..n]
  /\ \A q \in 1..m : phi[b[q]] = q
  /\ \A p \in 1..n : b[phi[p]] <= p
  /\ \A q, s \in 1..m : q < s => b[q] < b[s]

\* The rows, fine, are in the same groups as their parts, coarse.
Refines(fine, coarse, phi) ==
  \A p \in 1..Len(fine) : fine[p].key = coarse[phi[p]].key

\* The groups of rows and of their parts are first seen in the same order, and the rows
\* of a group are those whose part is in the group.
LEMMA SameOrder ==
  ASSUME NEW fine, NEW coarse, NEW phi, NEW b, Len(fine) \in Nat, Len(coarse) \in Nat,
         Parts(Len(fine), Len(coarse), phi, b), Refines(fine, coarse, phi)
  PROVE  /\ Len(FirstRows(fine)) = Len(FirstRows(coarse))
         /\ \A g \in 1..Len(FirstRows(coarse)) :
              /\ FirstRows(fine)[g] = b[FirstRows(coarse)[g]]
              /\ fine[FirstRows(fine)[g]].key = coarse[FirstRows(coarse)[g]].key
              /\ SameIn(fine, FirstRows(fine)[g]) =
                   {p \in 1..Len(fine) : phi[p] \in SameIn(coarse, FirstRows(coarse)[g])}
<1> DEFINE n == Len(fine)
           m == Len(coarse)
           f == FirstRows(fine)
           c == FirstRows(coarse)
           d == [g \in 1..Len(c) |-> b[c[g]]]
<1>1. /\ n \in Nat /\ m \in Nat
      /\ \A p \in 1..n : phi[p] \in 1..m /\ b[phi[p]] \in 1..n /\ b[phi[p]] <= p
      /\ \A q \in 1..m : b[q] \in 1..n /\ phi[b[q]] = q
      /\ \A q, s \in 1..m : q < s => b[q] < b[s]
      /\ \A p \in 1..n : fine[p].key = coarse[phi[p]].key
  BY DEF Parts, Refines
<1>2. \A q \in 1..m : fine[b[q]].key = coarse[q].key
  BY <1>1
<1>3. /\ c \in Seq(Nat) /\ Len(c) \in Nat /\ DOMAIN c = 1..Len(c)
      /\ \A g \in 1..Len(c) : c[g] \in FirstsIn(coarse) /\ c[g] \in 1..m
      /\ \A g, h \in 1..Len(c) : g < h => c[g] < c[h]
      /\ {c[h] : h \in DOMAIN c} = FirstsIn(coarse)
  BY FirstRowFacts DEF Lists
<1>4. Lists(f, FirstsIn(fine))
  BY FirstRowFacts
<1> HIDE DEF n, m, c, f
<1>5. /\ DOMAIN d = 1..Len(c) /\ Len(d) = Len(c)
      /\ \A g \in 1..Len(c) : d[g] = b[c[g]] /\ d[g] \in 1..n
      /\ d \in Seq(Nat)
  BY <1>1, <1>3
<1> HIDE DEF d
<1>6. ASSUME NEW g \in 1..Len(c)
      PROVE  d[g] \in FirstsIn(fine)
  <2>1. ASSUME NEW p \in 1..n, fine[p].key = fine[d[g]].key
        PROVE  d[g] <= p
    <3>1. phi[p] \in 1..m /\ coarse[phi[p]].key = coarse[c[g]].key
      BY <1>1, <1>2, <1>3, <1>5, <2>1
    <3>2. c[g] <= phi[p] /\ c[g] \in 1..m
      BY <1>3, <3>1 DEF FirstsIn, m
    <3>3. b[c[g]] <= b[phi[p]]
      <4>1. c[g] = phi[p] \/ c[g] < phi[p]
        BY <1>1, <3>1, <3>2
      <4>2. b[c[g]] \in Nat /\ b[phi[p]] \in Nat
        BY <1>1, <3>1, <3>2
      <4>3. c[g] < phi[p] => b[c[g]] < b[phi[p]]
        BY <1>1, <3>1, <3>2
      <4> QED
        BY <4>1, <4>2, <4>3
    <3>4. b[phi[p]] <= p /\ b[phi[p]] \in Nat /\ b[c[g]] \in Nat /\ p \in Nat
      BY <1>1, <3>1, <3>2
    <3> QED
      BY <1>5, <3>3, <3>4
  <2> QED
    BY <1>5, <2>1 DEF FirstsIn, n
<1>7. ASSUME NEW p \in FirstsIn(fine)
      PROVE  \E g \in 1..Len(c) : d[g] = p
  <2>1. p \in 1..n /\ \A i \in 1..n : fine[i].key = fine[p].key => p <= i
    BY DEF FirstsIn, n
  <2> DEFINE q == phi[p]
  <2>2. q \in 1..m /\ b[q] \in 1..n /\ b[q] <= p /\ fine[b[q]].key = fine[p].key
        /\ coarse[q].key = fine[p].key
    BY <1>1, <1>2, <2>1
  <2> HIDE DEF q
  <2>3. b[q] = p
    BY <1>1, <2>1, <2>2
  <2>4. ASSUME NEW s \in 1..m, coarse[s].key = coarse[q].key
        PROVE  q <= s
    <3>1. b[s] \in 1..n /\ fine[b[s]].key = fine[p].key
      BY <1>1, <1>2, <2>2, <2>4
    <3>2. p <= b[s]
      BY <2>1, <3>1
    <3>3. s < q => b[s] < b[q]
      BY <1>1, <2>2
    <3> QED
      BY <1>1, <2>2, <2>3, <3>1, <3>2, <3>3
  <2>5. q \in FirstsIn(coarse)
    BY <2>2, <2>4 DEF FirstsIn, m
  <2>6. PICK g \in 1..Len(c) : c[g] = q
    BY <1>3, <2>5
  <2> QED
    BY <1>5, <2>3, <2>6
<1>8. {d[h] : h \in DOMAIN d} = FirstsIn(fine)
  BY <1>5, <1>6, <1>7
<1>9. ASSUME NEW g \in 1..Len(c), NEW h \in 1..Len(c), g < h
      PROVE  d[g] < d[h]
  <2>1. c[g] \in 1..m /\ c[h] \in 1..m /\ c[g] < c[h]
    BY <1>3, <1>9
  <2> QED
    BY <1>1, <1>5, <2>1
<1>10. Lists(d, FirstsIn(fine))
  BY <1>5, <1>8, <1>9 DEF Lists
<1>11. f = d
  BY <1>4, <1>10, ListsUnique
<1>12. ASSUME NEW g \in 1..Len(c)
       PROVE  /\ f[g] = b[c[g]]
              /\ fine[f[g]].key = coarse[c[g]].key
              /\ SameIn(fine, f[g]) = {p \in 1..n : phi[p] \in SameIn(coarse, c[g])}
  <2>1. f[g] = b[c[g]] /\ fine[f[g]].key = coarse[c[g]].key
    BY <1>2, <1>3, <1>5, <1>11
  <2>2. \A p \in 1..n : p \in SameIn(fine, f[g]) <=> phi[p] \in SameIn(coarse, c[g])
    BY <1>1, <2>1 DEF SameIn, n, m
  <2>3. SameIn(fine, f[g]) \subseteq 1..n
    BY DEF SameIn, n
  <2> QED
    BY <2>1, <2>2, <2>3
<1> QED
  BY <1>5, <1>11, <1>12 DEF n, c, f

\* The order of joined pairs is that of their places.
LEMMA JoinOrder ==
  ASSUME NEW n \in Nat, NEW lk, NEW rk, Len(rk) \in Nat, NEW pp, IsJoin(pp, lk, rk, n)
  PROVE  /\ Len(pp) \in Nat
         /\ \A p \in 1..Len(pp) : /\ pp[p] = <<pp[p][1], pp[p][2]>>
                                  /\ pp[p][1] \in 1..n /\ pp[p][2] \in 1..Len(rk)
                                  /\ Matching(lk, rk, pp[p][1], pp[p][2])
         /\ \A p, q \in 1..Len(pp) : Before(pp[p], pp[q]) => p < q
         /\ \A p, q \in 1..Len(pp) : pp[p][1] = pp[q][1] /\ pp[p][2] = pp[q][2] => p = q
<1>1. pp \in Seq((1..n) \X (1..Len(rk))) /\ Len(pp) \in Nat
  BY DEF IsJoin
<1>2. \A p \in 1..Len(pp) : /\ pp[p] = <<pp[p][1], pp[p][2]>>
                            /\ pp[p][1] \in 1..n /\ pp[p][2] \in 1..Len(rk)
  <2> SUFFICES ASSUME NEW p \in 1..Len(pp)
               PROVE  /\ pp[p] = <<pp[p][1], pp[p][2]>>
                      /\ pp[p][1] \in 1..n /\ pp[p][2] \in 1..Len(rk)
    OBVIOUS
  <2>1. pp[p] \in (1..n) \X (1..Len(rk))
    BY <1>1
  <2> QED
    BY <2>1
<1>3. \A p, q \in 1..Len(pp) : p < q => Before(pp[p], pp[q])
  BY DEF IsJoin
<1>4. ASSUME NEW p \in 1..Len(pp), NEW q \in 1..Len(pp), Before(pp[p], pp[q])
      PROVE  p < q
  <2>1. ~Before(pp[q], pp[p]) /\ pp[p] # pp[q]
    BY <1>2, <1>4 DEF Before
  <2>2. ~(q < p) /\ p # q
    BY <1>3, <2>1
  <2> QED
    BY <1>1, <2>2
<1>5. ASSUME NEW p \in 1..Len(pp), NEW q \in 1..Len(pp),
             pp[p][1] = pp[q][1], pp[p][2] = pp[q][2]
      PROVE  p = q
  <2>1. ~Before(pp[p], pp[q]) /\ ~Before(pp[q], pp[p])
    BY <1>2, <1>5 DEF Before
  <2>2. ~(p < q) /\ ~(q < p)
    BY <1>3, <2>1
  <2> QED
    BY <1>1, <2>2
<1> QED
  BY <1>1, <1>2, <1>4, <1>5 DEF IsJoin

\* Pair p of jp is in part phi[p]: a pair of the same right row and of the group of its
\* left row.  The part has one pair for each row of the group.
InParts(in, jp, pp, f, phi) ==
  /\ \A p \in 1..Len(jp) : /\ pp[phi[p]][2] = jp[p][2]
                           /\ jp[p][1] \in SameIn(in, f[pp[phi[p]][1]])
  /\ \A q \in 1..Len(pp) : \A l \in SameIn(in, f[pp[q][1]]) :
       \E p \in 1..Len(jp) : phi[p] = q /\ jp[p][1] = l
  /\ \A p, s \in 1..Len(jp) : phi[p] = phi[s] /\ jp[p][1] = jp[s][1] => p = s

\* The pairs of a join with the rows `in` fall into parts, one for each pair of the join
\* with the groups of these rows.
LEMMA JoinHasParts ==
  ASSUME NEW in, Len(in) \in Nat, NEW f, f = FirstRows(in),
         NEW lk, \A l \in 1..Len(in) : lk[l] = in[l].key,
         NEW gk, \A g \in 1..Len(f) : gk[g] = in[f[g]].key,
         NEW rk, Len(rk) \in Nat,
         NEW jp, IsJoin(jp, lk, rk, Len(in)),
         NEW pp, IsJoin(pp, gk, rk, Len(f))
  PROVE  \E phi, b : Parts(Len(jp), Len(pp), phi, b) /\ InParts(in, jp, pp, f, phi)
<1> DEFINE n == Len(in)
           k == Len(f)
           m == Len(rk)
           x == Len(jp)
           y == Len(pp)
<1>1. /\ n \in Nat /\ m \in Nat /\ k \in Nat
      /\ \A g \in 1..k : f[g] \in 1..n
      /\ \A g, h \in 1..k : g < h => f[g] < f[h]
      /\ \A g, h \in 1..k : in[f[g]].key = in[f[h]].key => g = h
      /\ \A i \in 1..n : \E g \in 1..k : in[f[g]].key = in[i].key /\ f[g] <= i
  <2>1. n \in Nat /\ m \in Nat
    OBVIOUS
  <2> DEFINE c == FirstRows(in)
  <2>2. /\ Len(c) \in Nat
        /\ \A g \in 1..Len(c) : c[g] \in 1..n
        /\ \A g, h \in 1..Len(c) : g < h => c[g] < c[h]
        /\ \A g, h \in 1..Len(c) : in[c[g]].key = in[c[h]].key => g = h
        /\ \A i \in 1..n : \E g \in 1..Len(c) : in[c[g]].key = in[i].key /\ c[g] <= i
    BY FirstRowFacts, Zenon
  <2>3. f = c
    OBVIOUS
  <2> HIDE DEF c
  <2> QED
    BY <2>1, <2>2, <2>3
<1>2. /\ x \in Nat
      /\ \A p \in 1..x : /\ jp[p] = <<jp[p][1], jp[p][2]>>
                         /\ jp[p][1] \in 1..n /\ jp[p][2] \in 1..m
                         /\ Matching(lk, rk, jp[p][1], jp[p][2])
      /\ \A p, q \in 1..x : Before(jp[p], jp[q]) => p < q
      /\ \A p, q \in 1..x : jp[p][1] = jp[q][1] /\ jp[p][2] = jp[q][2] => p = q
  BY ONLY n \in Nat, m \in Nat, IsJoin(jp, lk, rk, n), JoinOrder
<1>3. /\ y \in Nat
      /\ \A p \in 1..y : /\ pp[p] = <<pp[p][1], pp[p][2]>>
                         /\ pp[p][1] \in 1..k /\ pp[p][2] \in 1..m
                         /\ Matching(gk, rk, pp[p][1], pp[p][2])
      /\ \A p, q \in 1..y : pp[p][1] = pp[q][1] /\ pp[p][2] = pp[q][2] => p = q
  BY ONLY <1>1, IsJoin(pp, gk, rk, k), JoinOrder
<1>4. /\ \A l \in 1..n, r \in 1..m :
           Matching(lk, rk, l, r) => \E p \in 1..x : jp[p] = <<l, r>>
      /\ \A g \in 1..k, r \in 1..m :
           Matching(gk, rk, g, r) => \E q \in 1..y : pp[q] = <<g, r>>
      /\ \A p, q \in 1..y : p < q => Before(pp[p], pp[q])
  BY DEF IsJoin
<1>5. /\ \A l \in 1..n : \A r : Matching(lk, rk, l, r) <=> in[l].key # Null /\ in[l].key = rk[r]
      /\ \A g \in 1..k : \A r : Matching(gk, rk, g, r) <=> in[f[g]].key # Null /\ in[f[g]].key = rk[r]
  BY DEF Matching
<1> HIDE DEF n, k, m, x, y
<1> DEFINE Part(p, q) == pp[q][2] = jp[p][2] /\ in[f[pp[q][1]]].key = in[jp[p][1]].key
           phi == [p \in 1..x |-> CHOOSE q \in 1..y : Part(p, q)]
           First(q, p) == jp[p][1] = f[pp[q][1]] /\ jp[p][2] = pp[q][2]
           b == [q \in 1..y |-> CHOOSE p \in 1..x : First(q, p)]
<1>6. ASSUME NEW p \in 1..x
      PROVE  \E q \in 1..y : Part(p, q)
  <2> DEFINE l == jp[p][1]
             r == jp[p][2]
  <2>1. l \in 1..n /\ r \in 1..m /\ Matching(lk, rk, l, r)
    BY <1>2
  <2>2. PICK g \in 1..k : in[f[g]].key = in[l].key
    BY <1>1, <2>1
  <2>3. Matching(gk, rk, g, r)
    BY <1>5, <2>1, <2>2
  <2>4. PICK q \in 1..y : pp[q] = <<g, r>>
    BY <1>4, <2>1, <2>3
  <2>5. pp[q][1] = g /\ pp[q][2] = r
    BY <2>4
  <2> QED
    BY <2>2, <2>5
<1>7. ASSUME NEW q \in 1..y, NEW l \in 1..n, in[l].key = in[f[pp[q][1]]].key
      PROVE  \E p \in 1..x : jp[p][1] = l /\ jp[p][2] = pp[q][2]
  <2> DEFINE r == pp[q][2]
  <2>1. r \in 1..m /\ Matching(lk, rk, l, r)
    BY <1>3, <1>5, <1>7
  <2>2. PICK p \in 1..x : jp[p] = <<l, r>>
    BY <1>4, <2>1
  <2>3. jp[p][1] = l /\ jp[p][2] = r
    BY <2>2
  <2> QED
    BY <2>3
<1>8. ASSUME NEW q \in 1..y
      PROVE  \E p \in 1..x : First(q, p)
  <2>1. f[pp[q][1]] \in 1..n
    BY <1>1, <1>3
  <2> QED
    BY <1>7, <2>1
<1>9. \A p \in 1..x, q \in 1..y, s \in 1..y : Part(p, q) /\ Part(p, s) => q = s
  <2> SUFFICES ASSUME NEW p \in 1..x, NEW q \in 1..y, NEW s \in 1..y, Part(p, q), Part(p, s)
               PROVE  q = s
    OBVIOUS
  <2> DEFINE g == pp[q][1]
             h == pp[s][1]
  <2>1. in[f[g]].key = in[f[h]].key /\ pp[q][2] = pp[s][2]
    OBVIOUS
  <2>2. g \in 1..k /\ h \in 1..k
    BY <1>3
  <2> HIDE DEF g, h
  <2>3. g = h
    BY <1>1, <2>1, <2>2
  <2> HIDE DEF Part
  <2> QED
    BY <1>3, <2>1, <2>3 DEF g, h
<1> HIDE DEF Part, First
<1>10. \A p \in 1..x : phi[p] \in 1..y /\ Part(p, phi[p])
  BY <1>6
<1>11. \A q \in 1..y : b[q] \in 1..x /\ First(q, b[q])
  BY <1>8
<1>12. phi \in [1..x -> 1..y] /\ b \in [1..y -> 1..x]
  <2>1. phi = [p \in 1..x |-> phi[p]] /\ b = [q \in 1..y |-> b[q]]
    OBVIOUS
  <2> HIDE DEF phi, b
  <2> QED
    BY <1>10, <1>11, <2>1
<1> HIDE DEF phi, b
<1>13. ASSUME NEW q \in 1..y
       PROVE  phi[b[q]] = q
  <2>1. Part(b[q], q) /\ b[q] \in 1..x
    BY <1>11 DEF Part, First
  <2> QED
    BY <1>9, <1>10, <2>1
<1>14. ASSUME NEW p \in 1..x
       PROVE  b[phi[p]] <= p
  <2> DEFINE q == phi[p]
             l == jp[p][1]
             g == pp[q][1]
             s == b[q]
  <2>1. q \in 1..y /\ pp[q][2] = jp[p][2] /\ in[f[g]].key = in[l].key
    BY <1>10 DEF Part
  <2>2. l \in 1..n /\ g \in 1..k
    BY <1>2, <1>3, <2>1
  <2>3. f[g] <= l
    <3>1. PICK h \in 1..k : in[f[h]].key = in[l].key /\ f[h] <= l
      BY <1>1, <2>2
    <3>2. h = g
      <4>1. in[f[h]].key = in[f[g]].key
        BY <2>1, <3>1
      <4> HIDE DEF q, l, g, s
      <4> QED
        BY <1>1, <2>2, <4>1
    <3> QED
      BY <3>1, <3>2
  <2>4. s \in 1..x /\ jp[s][1] = f[g] /\ jp[s][2] = jp[p][2]
    BY <1>11, <2>1 DEF First
  <2> HIDE DEF q, l, g, s
  <2>5. f[g] \in Nat /\ l \in Nat
    BY <1>1, <2>2
  <2>6. CASE f[g] = l
    <3>1. s = p
      BY <1>2, <2>4, <2>6 DEF l
    <3> QED
      BY <1>2, <3>1 DEF s, q
  <2>7. CASE f[g] < l
    <3>1. Before(jp[s], jp[p])
      BY <2>4, <2>7 DEF Before, l
    <3>2. s < p
      BY <1>2, <2>4, <3>1
    <3> QED
      BY <1>2, <2>4, <3>2 DEF s, q
  <2> QED
    BY <2>3, <2>5, <2>6, <2>7
<1>15. ASSUME NEW q \in 1..y, NEW s \in 1..y, q < s
       PROVE  b[q] < b[s]
  <2>1. Before(pp[q], pp[s])
    BY <1>4, <1>15
  <2>2. /\ jp[b[q]][1] = f[pp[q][1]] /\ jp[b[q]][2] = pp[q][2] /\ b[q] \in 1..x
        /\ jp[b[s]][1] = f[pp[s][1]] /\ jp[b[s]][2] = pp[s][2] /\ b[s] \in 1..x
    BY <1>11 DEF First
  <2>3. pp[q][1] \in 1..k /\ pp[s][1] \in 1..k
    BY <1>3
  <2>4. pp[q][1] < pp[s][1] => f[pp[q][1]] < f[pp[s][1]]
    BY <1>1, <2>3
  <2>5. Before(jp[b[q]], jp[b[s]])
    BY <2>1, <2>2, <2>4 DEF Before
  <2> QED
    BY <1>2, <2>2, <2>5
<1>16. Parts(x, y, phi, b)
  BY <1>12, <1>13, <1>14, <1>15 DEF Parts
<1>17. ASSUME NEW p \in 1..x
       PROVE  pp[phi[p]][2] = jp[p][2] /\ jp[p][1] \in SameIn(in, f[pp[phi[p]][1]])
  BY <1>2, <1>10 DEF Part, SameIn, n
<1>18. ASSUME NEW q \in 1..y, NEW l \in SameIn(in, f[pp[q][1]])
       PROVE  \E p \in 1..x : phi[p] = q /\ jp[p][1] = l
  <2>1. l \in 1..n /\ in[l].key = in[f[pp[q][1]]].key
    BY DEF SameIn, n
  <2>2. PICK p \in 1..x : jp[p][1] = l /\ jp[p][2] = pp[q][2]
    BY <1>7, <2>1
  <2>3. Part(p, q)
    BY <2>1, <2>2 DEF Part
  <2> QED
    BY <1>9, <1>10, <2>2, <2>3
<1>19. ASSUME NEW p \in 1..x, NEW s \in 1..x, phi[p] = phi[s], jp[p][1] = jp[s][1]
       PROVE  p = s
  <2>1. jp[p][2] = jp[s][2]
    BY <1>10, <1>19 DEF Part
  <2> QED
    BY <1>2, <1>19, <2>1
<1>20. InParts(in, jp, pp, f, phi)
  BY <1>17, <1>18, <1>19 DEF InParts, x, y
<1> QED
  BY <1>16, <1>20 DEF x, y

-----------------------------------------------------------------------------
\* Sums over parts.

\* The numbers of w at the places S, the others being 0.
Sieve(w, n, S) == [i \in 1..n |-> IF i \in S THEN w[i] ELSE 0]

\* The numbers of W at the places that at sends 1..n to.
Pull(W, at, n) == [p \in 1..n |-> W[at[p]]]

\* The places that phi sends to Q.
SentTo(Q, phi, n) == {p \in 1..n : phi[p] \in Q}

\* at sends the places of part q to the places S, each once.
Onto(n, k, phi, at, q, S) ==
  /\ at \in [1..n -> 1..k]
  /\ \A p \in 1..n : phi[p] = q => at[p] \in S
  /\ \A l \in S : \E p \in 1..n : phi[p] = q /\ at[p] = l
  /\ \A p, s \in 1..n : phi[p] = q /\ phi[s] = q /\ at[p] = at[s] => p = s

\* The sum of a part is that of the places it is sent to.
LEMMA PartSum ==
  ASSUME NEW n \in Nat, NEW k \in Nat, NEW W \in [1..k -> Int], NEW phi, NEW at, NEW q,
         NEW S \in SUBSET (1..k), Onto(n, k, phi, at, q, S)
  PROVE  Sigma(Fiber(Pull(W, at, n), n, phi, q), n) = Sigma(Sieve(W, k, S), k)
<1> DEFINE F == Fiber(Pull(W, at, n), n, phi, q)
           v == Sieve(W, k, S)
<1>1. /\ at \in [1..n -> 1..k]
      /\ \A p \in 1..n : at[p] \in 1..k /\ W[at[p]] \in Int
      /\ \A p \in 1..n : phi[p] = q => at[p] \in S
      /\ \A l \in S : \E p \in 1..n : phi[p] = q /\ at[p] = l
      /\ \A p, s \in 1..n : phi[p] = q /\ phi[s] = q /\ at[p] = at[s] => p = s
  BY DEF Onto
<1>2. F \in [1..n -> Int] /\ \A p \in 1..n : F[p] = IF phi[p] = q THEN W[at[p]] ELSE 0
  BY <1>1 DEF Fiber, Pull
<1>3. v \in [1..k -> Int] /\ \A l \in 1..k : v[l] = IF l \in S THEN W[l] ELSE 0
  BY DEF Sieve
<1> HIDE DEF F, v
<1>4. ASSUME NEW l \in 1..k
      PROVE  v[l] = Sigma(Fiber(F, n, at, l), n)
  <2> DEFINE u == Fiber(F, n, at, l)
  <2>1. u \in [1..n -> Int] /\ \A p \in 1..n : u[p] = IF at[p] = l THEN F[p] ELSE 0
    BY <1>2 DEF Fiber
  <2> HIDE DEF u
  <2>2. CASE l \in S
    <3>1. PICK p \in 1..n : phi[p] = q /\ at[p] = l
      BY <1>1, <2>2
    <3>2. ASSUME NEW s \in 1..n, s # p
          PROVE  u[s] = 0
      BY <1>1, <1>2, <2>1, <3>1, <3>2
    <3>3. Sigma(u, n) = u[p]
      BY <2>1, <3>2, SigmaOfOne
    <3>4. u[p] = W[l] /\ v[l] = W[l]
      BY <1>2, <1>3, <2>1, <2>2, <3>1
    <3> QED
      BY <3>3, <3>4 DEF u
  <2>3. CASE l \notin S
    <3>1. \A s \in 1..n : u[s] = 0
      BY <1>1, <1>2, <2>1, <2>3
    <3>2. Sigma(u, n) = 0
      BY <2>1, <3>1, SigmaOfNone
    <3> QED
      BY <1>3, <2>3, <3>2 DEF u
  <2> QED
    BY <2>2, <2>3
<1>5. Sigma(F, n) = Sigma(v, k)
  <2>1. n \in Nat /\ k \in Nat /\ F \in [1..n -> Int] /\ v \in [1..k -> Int] /\ at \in [1..n -> 1..k]
    BY <1>1, <1>2, <1>3
  <2>2. \A l \in 1..k : v[l] = Sigma(Fiber(F, n, at, l), n)
    BY <1>4
  <2> QED
    BY ONLY <2>1, <2>2, SigmaOfParts
<1> QED
  BY <1>5 DEF F, v

\* v has the sum of each part of Q.
AreSums(v, w, n, m, phi, Q) ==
  \A q \in 1..m : v[q] = IF q \in Q THEN Sigma(Fiber(w, n, phi, q), n) ELSE 0

\* A sum over the places in the parts Q is that of the sums of these parts.
LEMMA SumOfParts ==
  ASSUME NEW n \in Nat, NEW m \in Nat, NEW w \in [1..n -> Int], NEW phi \in [1..n -> 1..m],
         NEW Q \in SUBSET (1..m), NEW v \in [1..m -> Int],
         AreSums(v, w, n, m, phi, Q)
  PROVE  Sigma(Sieve(w, n, SentTo(Q, phi, n)), n) = Sigma(v, m)
<1> DEFINE z == Sieve(w, n, SentTo(Q, phi, n))
<1>1. z \in [1..n -> Int] /\ \A p \in 1..n : z[p] = IF phi[p] \in Q THEN w[p] ELSE 0
  BY DEF Sieve, SentTo
<1> HIDE DEF z
<1>2. ASSUME NEW q \in 1..m
      PROVE  v[q] = Sigma(Fiber(z, n, phi, q), n)
  <2> DEFINE u == Fiber(z, n, phi, q)
  <2>1. u \in [1..n -> Int] /\ \A p \in 1..n : u[p] = IF phi[p] = q THEN z[p] ELSE 0
    BY <1>1 DEF Fiber
  <2>2. CASE q \in Q
    <3>1. \A p \in 1..n : (IF phi[p] = q THEN z[p] ELSE 0) = (IF phi[p] = q THEN w[p] ELSE 0)
      BY <1>1, <2>2
    <3>2. u = Fiber(w, n, phi, q)
      BY <3>1 DEF Fiber
    <3> QED
      BY <2>2, <3>2 DEF AreSums
  <2>3. CASE q \notin Q
    <3> HIDE DEF u
    <3>1. \A p \in 1..n : u[p] = 0
      BY <1>1, <2>1, <2>3
    <3>2. Sigma(u, n) = 0
      BY <2>1, <3>1, SigmaOfNone
    <3> QED
      BY <2>3, <3>2 DEF u, AreSums
  <2> QED
    BY <2>2, <2>3
<1>3. Sigma(z, n) = Sigma(v, m)
  <2>1. n \in Nat /\ m \in Nat /\ z \in [1..n -> Int] /\ v \in [1..m -> Int] /\ phi \in [1..n -> 1..m]
    BY <1>1
  <2>2. \A q \in 1..m : v[q] = Sigma(Fiber(z, n, phi, q), n)
    BY <1>2
  <2> QED
    BY ONLY <2>1, <2>2, SigmaOfParts
<1> QED
  BY <1>3 DEF z

\* The rows fine have the values of the rows at of `in`, part q of them of each row of S[q]
\* once.
Divided(in, fine, m, phi, at, S) ==
  /\ Input(in) /\ Input(fine) /\ m \in Nat
  /\ phi \in [1..Len(fine) -> 1..m]
  /\ S \in [1..m -> SUBSET (1..Len(in))]
  /\ \A q \in 1..m : Onto(Len(fine), Len(in), phi, at, q, S[q])
  /\ at \in [1..Len(fine) -> 1..Len(in)]
  /\ \A p \in 1..Len(fine) : fine[p].val = in[at[p]].val

\* v has the sum of W over the rows S[q] for each part q of Q.
HasSums(v, W, k, S, m, Q) ==
  /\ v \in [1..m -> Int]
  /\ \A q \in Q : v[q] = Sigma(Sieve(W, k, S[q]), k)
  /\ \A q \in 1..m : q \notin Q => v[q] = 0

\* z has the numbers of W for the places in the parts Q.
HasNumbers(z, W, n, phi, at, Q) == z = [p \in 1..n |-> IF phi[p] \in Q THEN W[at[p]] ELSE 0]

\* A sum over the rows in the parts Q is that of the sums over the rows of each part.
LEMMA SumOfGroups ==
  ASSUME NEW in, NEW fine, NEW m, NEW phi, NEW at, NEW S, Divided(in, fine, m, phi, at, S),
         NEW W \in [1..Len(in) -> Int], NEW Q \in SUBSET (1..m), NEW v,
         HasSums(v, W, Len(in), S, m, Q),
         NEW z, HasNumbers(z, W, Len(fine), phi, at, Q)
  PROVE  Sigma(z, Len(fine)) = Sigma(v, m)
<1> DEFINE n == Len(fine)
           k == Len(in)
           w == Pull(W, at, n)
<1>1. /\ n \in Nat /\ k \in Nat /\ m \in Nat
      /\ at \in [1..n -> 1..k] /\ phi \in [1..n -> 1..m]
      /\ \A q \in 1..m : S[q] \in SUBSET (1..k) /\ Onto(n, k, phi, at, q, S[q])
  BY DEF Divided, Input
<1>2. w \in [1..n -> Int] /\ \A p \in 1..n : w[p] = W[at[p]]
  BY <1>1 DEF Pull
<1>3. ASSUME NEW q \in 1..m
      PROVE  v[q] = IF q \in Q THEN Sigma(Fiber(w, n, phi, q), n) ELSE 0
  <2>1. S[q] \in SUBSET (1..k) /\ Onto(n, k, phi, at, q, S[q]) /\ W \in [1..k -> Int]
    BY <1>1
  <2>2. Sigma(Fiber(w, n, phi, q), n) = Sigma(Sieve(W, k, S[q]), k)
    <3> HIDE DEF n, k
    <3> DEFINE T == S[q]
    <3>1. n \in Nat /\ k \in Nat /\ W \in [1..k -> Int] /\ T \in SUBSET (1..k) /\ Onto(n, k, phi, at, q, T)
      BY <1>1, <2>1
    <3> HIDE DEF T
    <3>2. Sigma(Fiber(Pull(W, at, n), n, phi, q), n) = Sigma(Sieve(W, k, T), k)
      BY ONLY <3>1, PartSum
    <3> QED
      BY <3>2 DEF T
  <2> QED
    BY <2>2 DEF HasSums
<1>4. z = Sieve(w, n, SentTo(Q, phi, n))
  BY DEF Sieve, SentTo, Pull, HasNumbers
<1> HIDE DEF w, n, k
<1>5. Sigma(Sieve(w, n, SentTo(Q, phi, n)), n) = Sigma(v, m)
  <2>1. /\ n \in Nat /\ m \in Nat /\ w \in [1..n -> Int] /\ phi \in [1..n -> 1..m]
        /\ Q \in SUBSET (1..m) /\ v \in [1..m -> Int]
    BY <1>1, <1>2 DEF HasSums
  <2>2. AreSums(v, w, n, m, phi, Q)
    BY <1>3 DEF AreSums
  <2> QED
    BY ONLY <2>1, <2>2, SumOfParts
<1> QED
  BY <1>4, <1>5 DEF n

-----------------------------------------------------------------------------
\* The aggregates of the parts combine.

\* The parts and the rows in them.
LEMMA DividedRows ==
  ASSUME NEW in, NEW fine, NEW m, NEW phi, NEW at, NEW S, Divided(in, fine, m, phi, at, S),
         NEW Q \in SUBSET (1..m), NEW R, R = SentTo(Q, phi, Len(fine))
  PROVE  /\ Input(in) /\ Input(fine) /\ m \in Nat
         /\ R \in SUBSET (1..Len(fine))
         /\ \A p \in 1..Len(fine) : /\ phi[p] \in 1..m /\ (p \in R <=> phi[p] \in Q)
                                    /\ at[p] \in S[phi[p]] /\ at[p] \in 1..Len(in)
                                    /\ fine[p].val = in[at[p]].val
         /\ \A q \in 1..m : S[q] \in SUBSET (1..Len(in))
         /\ \A q \in Q : \A l \in S[q] : \E p \in R : phi[p] = q /\ at[p] = l
<1>1. /\ Input(in) /\ Input(fine) /\ m \in Nat /\ R \in SUBSET (1..Len(fine))
      /\ \A p \in 1..Len(fine) : phi[p] \in 1..m /\ (p \in R <=> phi[p] \in Q)
      /\ \A q \in 1..m : S[q] \in SUBSET (1..Len(in))
  BY DEF Divided, SentTo
<1>2. \A q \in 1..m : Onto(Len(fine), Len(in), phi, at, q, S[q])
  BY DEF Divided
<1>3. ASSUME NEW p \in 1..Len(fine)
      PROVE  /\ at[p] \in S[phi[p]] /\ at[p] \in 1..Len(in)
             /\ fine[p].val = in[at[p]].val
  <2>1. Onto(Len(fine), Len(in), phi, at, phi[p], S[phi[p]])
    BY <1>1, <1>2
  <2>2. at[p] \in S[phi[p]]
    BY <2>1 DEF Onto
  <2> QED
    BY <2>2 DEF Divided
<1>4. ASSUME NEW q \in Q, NEW l \in S[q]
      PROVE  \E p \in R : phi[p] = q /\ at[p] = l
  <2>1. Onto(Len(fine), Len(in), phi, at, q, S[q])
    BY <1>2
  <2>2. PICK p \in 1..Len(fine) : phi[p] = q /\ at[p] = l
    BY <2>1 DEF Onto
  <2> QED
    BY <1>1, <2>2
<1> QED
  BY <1>1, <1>3, <1>4

\* col has the SUM of each part.
HasTotals(col, in, S, m) ==
  \A q \in 1..m : col[q].val = IF ValuedIn(in, S[q]) # {} THEN TotalIn(in, ValuedIn(in, S[q]))
                               ELSE Null

\* A SUM is that of the SUMs of the parts, and NULL when these are.
LEMMA SumsCombine ==
  ASSUME NEW in, NEW fine, NEW m, NEW phi, NEW at, NEW S, Divided(in, fine, m, phi, at, S),
         NEW col, Input(col), Len(col) = m,
         HasTotals(col, in, S, m),
         NEW Q \in SUBSET (1..m), NEW R, R = SentTo(Q, phi, Len(fine))
  PROVE  /\ TotalIn(fine, ValuedIn(fine, R)) = TotalIn(col, ValuedIn(col, Q))
         /\ ValuedIn(fine, R) # {} <=> ValuedIn(col, Q) # {}
<1> DEFINE n == Len(fine)
           k == Len(in)
           W == Values(in, 1..k)
           z == Values(fine, R)
           v == Values(col, Q)
<1>1. /\ Input(in) /\ Input(fine) /\ m \in Nat
      /\ R \in SUBSET (1..Len(fine))
      /\ \A p \in 1..Len(fine) : /\ phi[p] \in 1..m /\ (p \in R <=> phi[p] \in Q)
                                 /\ at[p] \in S[phi[p]] /\ at[p] \in 1..Len(in)
                                 /\ fine[p].val = in[at[p]].val
      /\ \A q \in 1..m : S[q] \in SUBSET (1..Len(in))
      /\ \A q \in Q : \A l \in S[q] : \E p \in R : phi[p] = q /\ at[p] = l
  BY DividedRows
<1>2. n \in Nat /\ k \in Nat
  BY <1>1 DEF Input
<1>3. /\ W \in [1..k -> Int] /\ z \in [1..n -> Int] /\ v \in [1..m -> Int]
  BY <1>1, ValuesAre
<1>4. ASSUME NEW q \in 1..m
      PROVE  /\ TotalIn(in, ValuedIn(in, S[q])) = Sigma(Sieve(W, k, S[q]), k)
             /\ Sigma(Sieve(W, k, S[q]), k) \in Int
             /\ ValuedIn(in, S[q]) = {} => Sigma(Sieve(W, k, S[q]), k) = 0
  <2> DEFINE T == S[q]
             u == Sieve(W, k, T)
  <2>1. T \in SUBSET (1..k)
    BY <1>1
  <2> HIDE DEF T
  <2>2. Values(in, T) = u
    BY <2>1 DEF Values, Sieve, ValuedIn
  <2>3. u \in [1..k -> Int]
    BY <1>1, <2>1, <2>2, ValuesAre
  <2>4. ValuedIn(in, T) = {} => \A i \in 1..k : u[i] = 0
    BY <2>2 DEF Values
  <2> HIDE DEF u, k
  <2>5. TotalIn(in, ValuedIn(in, T)) = Sigma(u, k)
    BY <1>1, <2>1, <2>2, TotalIs DEF k
  <2>6. PICK c : AddsUp(c, u, k)
    BY <1>2, <2>3, SigmaExists
  <2>7. Sigma(u, k) \in Int
    BY <1>2, <2>6, SigmaIs
  <2>8. ValuedIn(in, T) = {} => Sigma(u, k) = 0
    BY <1>2, <2>3, <2>4, SigmaOfNone
  <2> QED
    BY <2>5, <2>7, <2>8 DEF u, T
<1>5. ASSUME NEW q \in 1..m
      PROVE  q \in ValuedIn(col, Q) <=> q \in Q /\ ValuedIn(in, S[q]) # {}
  BY <1>4, NullIsNoInt DEF ValuedIn, HasTotals
<1>6. \A q \in Q : v[q] = Sigma(Sieve(W, k, S[q]), k)
  <2> SUFFICES ASSUME NEW q \in Q PROVE v[q] = Sigma(Sieve(W, k, S[q]), k)
    OBVIOUS
  <2>1. v[q] = IF q \in ValuedIn(col, Q) THEN col[q].val ELSE 0
    BY DEF Values
  <2> HIDE DEF v, W
  <2> QED
    BY <1>4, <1>5, <2>1 DEF HasTotals
<1>7. \A q \in 1..m : q \notin Q => v[q] = 0
  BY <1>5 DEF Values
<1>8. z = [p \in 1..n |-> IF phi[p] \in Q THEN W[at[p]] ELSE 0]
  <2>1. ASSUME NEW p \in 1..n
        PROVE  z[p] = IF phi[p] \in Q THEN W[at[p]] ELSE 0
    BY <1>1 DEF Values, ValuedIn
  <2>2. z = [p \in 1..n |-> z[p]]
    BY DEF Values
  <2> HIDE DEF z, W
  <2> QED
    BY <2>1, <2>2
<1> HIDE DEF W, z, v
<1>9. Sigma(z, n) = Sigma(v, m)
  <2>1. HasSums(v, W, Len(in), S, m, Q) /\ HasNumbers(z, W, Len(fine), phi, at, Q)
        /\ W \in [1..Len(in) -> Int] /\ Q \in SUBSET (1..m)
    BY <1>3, <1>6, <1>7, <1>8 DEF HasSums, HasNumbers
  <2> QED
    BY ONLY <2>1, Divided(in, fine, m, phi, at, S), SumOfGroups
<1>10. /\ TotalIn(fine, ValuedIn(fine, R)) = Sigma(z, n)
       /\ TotalIn(col, ValuedIn(col, Q)) = Sigma(v, m)
  BY <1>1, TotalIs DEF z, v
<1>11. ValuedIn(fine, R) # {} => ValuedIn(col, Q) # {}
  <2> SUFFICES ASSUME NEW p \in ValuedIn(fine, R) PROVE ValuedIn(col, Q) # {}
    OBVIOUS
  <2>1. p \in R /\ in[at[p]].val # Null /\ phi[p] \in Q
    BY <1>1 DEF ValuedIn
  <2>2. at[p] \in ValuedIn(in, S[phi[p]])
    BY <1>1, <2>1 DEF ValuedIn
  <2> QED
    BY <1>5, <2>1, <2>2
<1>12. ValuedIn(col, Q) # {} => ValuedIn(fine, R) # {}
  <2> SUFFICES ASSUME NEW q \in ValuedIn(col, Q) PROVE ValuedIn(fine, R) # {}
    OBVIOUS
  <2>1. q \in Q /\ ValuedIn(in, S[q]) # {}
    BY <1>5 DEF ValuedIn
  <2>2. PICK l \in S[q] : in[l].val # Null
    BY <2>1 DEF ValuedIn
  <2>3. PICK p \in R : phi[p] = q /\ at[p] = l
    BY <1>1, <2>1, <2>2
  <2>4. p \in ValuedIn(fine, R)
    BY <1>1, <2>2, <2>3 DEF ValuedIn
  <2> QED
    BY <2>4
<1> QED
  BY <1>9, <1>10, <1>11, <1>12

\* The rows of R that at sends to V, and col has for each part how many rows of V it has.
Counted(R, at, V) == {p \in R : at[p] \in V}

HasCounts(col, S, V, m) == \A q \in 1..m : col[q].val = Cardinality(S[q] \cap V)

\* What is counted in the parts is counted once for each row: V are the rows that count.
LEMMA CountsAddUp ==
  ASSUME NEW in, NEW fine, NEW m, NEW phi, NEW at, NEW S, Divided(in, fine, m, phi, at, S),
         NEW V \in SUBSET (1..Len(in)),
         NEW col, Input(col), Len(col) = m,
         HasCounts(col, S, V, m),
         NEW Q \in SUBSET (1..m), NEW R, R = SentTo(Q, phi, Len(fine))
  PROVE  Cardinality(Counted(R, at, V)) = TotalIn(col, ValuedIn(col, Q))
<1> DEFINE n == Len(fine)
           k == Len(in)
           W == Ones(V, k)
           X == Counted(R, at, V)
           z == Ones(X, n)
           v == Values(col, Q)
<1>1. /\ Input(in) /\ Input(fine) /\ m \in Nat
      /\ R \in SUBSET (1..Len(fine))
      /\ \A p \in 1..Len(fine) : /\ phi[p] \in 1..m /\ (p \in R <=> phi[p] \in Q)
                                 /\ at[p] \in 1..Len(in)
      /\ \A q \in 1..m : S[q] \in SUBSET (1..Len(in))
  BY DividedRows
<1>2. n \in Nat /\ k \in Nat /\ X \in SUBSET (1..n)
  BY <1>1 DEF Input, Counted
<1>3. /\ W \in [1..k -> Int] /\ z \in [1..n -> Int] /\ v \in [1..m -> Int]
  BY <1>1, ValuesAre DEF Ones
<1>4. ASSUME NEW q \in 1..m
      PROVE  col[q].val = Sigma(Sieve(W, k, S[q]), k) /\ col[q].val \in Nat
  <2> DEFINE T == S[q] \cap V
  <2>1. T \in SUBSET (1..k)
    BY <1>1
  <2>2. Sieve(W, k, S[q]) = Ones(T, k)
    BY DEF Sieve, Ones
  <2> HIDE DEF T, k
  <2>3. Cardinality(T) = Sigma(Ones(T, k), k) /\ Cardinality(T) \in Nat
    <3>1. Cardinality(T) \in 0..k
      BY <1>2, <2>1, CardinalityIs
    <3>2. Cardinality(T) = Sigma(Ones(T, k), k)
      BY <1>2, <2>1, CardinalityIs
    <3> QED
      BY <1>2, <3>1, <3>2
  <2>4. col[q].val = Cardinality(T)
    BY DEF T, HasCounts
  <2> QED
    BY <2>2, <2>3, <2>4
<1>5. ASSUME NEW q \in 1..m
      PROVE  q \in ValuedIn(col, Q) <=> q \in Q
  BY <1>4, NullIsNoInt DEF ValuedIn
<1>6. \A q \in Q : v[q] = Sigma(Sieve(W, k, S[q]), k)
  <2> SUFFICES ASSUME NEW q \in Q PROVE v[q] = Sigma(Sieve(W, k, S[q]), k)
    OBVIOUS
  <2>1. v[q] = IF q \in ValuedIn(col, Q) THEN col[q].val ELSE 0
    BY DEF Values
  <2> HIDE DEF v, W
  <2> QED
    BY <1>4, <1>5, <2>1
<1>7. \A q \in 1..m : q \notin Q => v[q] = 0
  BY <1>5 DEF Values
<1>8. z = [p \in 1..n |-> IF phi[p] \in Q THEN W[at[p]] ELSE 0]
  <2>1. ASSUME NEW p \in 1..n
        PROVE  z[p] = IF phi[p] \in Q THEN W[at[p]] ELSE 0
    BY <1>1 DEF Ones, Counted
  <2>2. z = [p \in 1..n |-> z[p]]
    BY DEF Ones
  <2> HIDE DEF z, W
  <2> QED
    BY <2>1, <2>2
<1> HIDE DEF W, z, v, X
<1>9. Sigma(z, n) = Sigma(v, m)
  <2>1. HasSums(v, W, Len(in), S, m, Q) /\ HasNumbers(z, W, Len(fine), phi, at, Q)
        /\ W \in [1..Len(in) -> Int] /\ Q \in SUBSET (1..m)
    BY <1>3, <1>6, <1>7, <1>8 DEF HasSums, HasNumbers
  <2> QED
    BY ONLY <2>1, Divided(in, fine, m, phi, at, S), SumOfGroups
<1>10. Cardinality(X) = Sigma(z, n)
  <2> HIDE DEF n
  <2> QED
    BY <1>2, CardinalityIs DEF z
<1>11. TotalIn(col, ValuedIn(col, Q)) = Sigma(v, m)
  BY TotalIs DEF v
<1> QED
  BY <1>9, <1>10, <1>11 DEF X

\* A COUNT is the sum of those of the parts.
LEMMA CountsCombine ==
  ASSUME NEW in, NEW fine, NEW m, NEW phi, NEW at, NEW S, Divided(in, fine, m, phi, at, S),
         NEW col, Input(col), Len(col) = m,
         \A q \in 1..m : col[q].val = Cardinality(ValuedIn(in, S[q])),
         NEW Q \in SUBSET (1..m), NEW R, R = SentTo(Q, phi, Len(fine))
  PROVE  Cardinality(ValuedIn(fine, R)) = TotalIn(col, ValuedIn(col, Q))
<1> DEFINE V == {l \in 1..Len(in) : in[l].val # Null}
<1>1. /\ R \in SUBSET (1..Len(fine))
      /\ \A p \in 1..Len(fine) : /\ at[p] \in 1..Len(in)
                                 /\ fine[p].val = in[at[p]].val
      /\ \A q \in 1..m : S[q] \in SUBSET (1..Len(in))
  BY DividedRows
<1>2. \A q \in 1..m : col[q].val = Cardinality(S[q] \cap V)
  <2> SUFFICES ASSUME NEW q \in 1..m PROVE col[q].val = Cardinality(S[q] \cap V)
    OBVIOUS
  <2>1. ValuedIn(in, S[q]) = S[q] \cap V
    BY <1>1 DEF ValuedIn
  <2> QED
    BY <2>1
<1>3. Counted(R, at, V) = ValuedIn(fine, R)
  BY <1>1 DEF ValuedIn, Counted
<1>4. V \in SUBSET (1..Len(in))
  OBVIOUS
<1> HIDE DEF V
<1>5. Cardinality(Counted(R, at, V)) = TotalIn(col, ValuedIn(col, Q))
  <2>1. HasCounts(col, S, V, m)
    BY <1>2 DEF HasCounts
  <2> QED
    BY ONLY <1>4, <2>1, Divided(in, fine, m, phi, at, S), Input(col), Len(col) = m,
            Q \in SUBSET (1..m), R = SentTo(Q, phi, Len(fine)), CountsAddUp
<1> QED
  BY <1>3, <1>5

\* So is a COUNT( * ).
LEMMA RowsCombine ==
  ASSUME NEW in, NEW fine, NEW m, NEW phi, NEW at, NEW S, Divided(in, fine, m, phi, at, S),
         NEW col, Input(col), Len(col) = m,
         \A q \in 1..m : col[q].val = Cardinality(S[q]),
         NEW Q \in SUBSET (1..m), NEW R, R = SentTo(Q, phi, Len(fine))
  PROVE  Cardinality(R) = TotalIn(col, ValuedIn(col, Q))
<1> DEFINE V == 1..Len(in)
<1>1. /\ R \in SUBSET (1..Len(fine))
      /\ \A p \in 1..Len(fine) : at[p] \in V
      /\ \A q \in 1..m : S[q] \in SUBSET V
  BY DividedRows
<1>2. \A q \in 1..m : col[q].val = Cardinality(S[q] \cap V)
  <2> SUFFICES ASSUME NEW q \in 1..m PROVE col[q].val = Cardinality(S[q] \cap V)
    OBVIOUS
  <2>1. S[q] = S[q] \cap V
    BY <1>1
  <2> QED
    BY <2>1
<1>3. Counted(R, at, V) = R
  BY <1>1 DEF Counted
<1>4. V \in SUBSET (1..Len(in))
  OBVIOUS
<1> HIDE DEF V
<1>5. Cardinality(Counted(R, at, V)) = TotalIn(col, ValuedIn(col, Q))
  <2>1. HasCounts(col, S, V, m)
    BY <1>2 DEF HasCounts
  <2> QED
    BY ONLY <1>4, <2>1, Divided(in, fine, m, phi, at, S), Input(col), Len(col) = m,
            Q \in SUBSET (1..m), R = SentTo(Q, phi, Len(fine)), CountsAddUp
<1> QED
  BY <1>3, <1>5

\* The value at place x, or NULL when there is none.
ValueAt(in, x) == IF x = 0 THEN Null ELSE in[x].val

\* best has a row with a value of each part, or 0, and col has these values.
HasBest(in, S, best, m) == \A q \in 1..m : /\ best[q] \in ValuedIn(in, S[q]) \cup {0}
                                           /\ best[q] = 0 <=> ValuedIn(in, S[q]) = {}

HasValues(col, in, best, m) == \A q \in 1..m : col[q].val = ValueAt(in, best[q])

\* The value of a part in Q is that of a row of R, and a row of R with a value has the value
\* of a row of its part.
Combine(in, fine, phi, at, S, best, col, Q, R) ==
  /\ \A q \in ValuedIn(col, Q) :
       /\ best[q] \in ValuedIn(in, S[q]) /\ col[q].val = in[best[q]].val
       /\ \E p \in ValuedIn(fine, R) : fine[p].val = col[q].val
  /\ \A p \in ValuedIn(fine, R) :
       /\ phi[p] \in ValuedIn(col, Q) /\ at[p] \in ValuedIn(in, S[phi[p]])
       /\ fine[p].val = in[at[p]].val
  /\ ValuedIn(fine, R) = {} <=> ValuedIn(col, Q) = {}

\* The parts with a value are those that have a row with one.
LEMMA ExtremesCombine ==
  ASSUME NEW in, NEW fine, NEW m, NEW phi, NEW at, NEW S, Divided(in, fine, m, phi, at, S),
         NEW best, HasBest(in, S, best, m),
         NEW col, Input(col), Len(col) = m,
         HasValues(col, in, best, m),
         NEW Q \in SUBSET (1..m), NEW R, R = SentTo(Q, phi, Len(fine))
  PROVE  Combine(in, fine, phi, at, S, best, col, Q, R)
<1>1. /\ Input(in) /\ Input(fine) /\ m \in Nat
      /\ R \in SUBSET (1..Len(fine))
      /\ \A p \in 1..Len(fine) : /\ phi[p] \in 1..m /\ (p \in R <=> phi[p] \in Q)
                                 /\ at[p] \in S[phi[p]] /\ at[p] \in 1..Len(in)
                                 /\ fine[p].val = in[at[p]].val
      /\ \A q \in 1..m : S[q] \in SUBSET (1..Len(in))
      /\ \A q \in Q : \A l \in S[q] : \E p \in R : phi[p] = q /\ at[p] = l
  BY DividedRows
<1>2. ASSUME NEW q \in ValuedIn(col, Q)
      PROVE  /\ best[q] \in ValuedIn(in, S[q]) /\ col[q].val = in[best[q]].val
             /\ \E p \in ValuedIn(fine, R) : fine[p].val = col[q].val
  <2>1. q \in Q /\ q \in 1..m /\ col[q].val # Null
    BY DEF ValuedIn
  <2>2. best[q] # 0 /\ col[q].val = in[best[q]].val /\ best[q] \in ValuedIn(in, S[q])
    BY <2>1 DEF ValueAt, HasBest, HasValues
  <2>3. best[q] \in S[q]
    BY <2>2 DEF ValuedIn
  <2>4. PICK p \in R : phi[p] = q /\ at[p] = best[q]
    BY <1>1, <2>1, <2>3
  <2>5. p \in ValuedIn(fine, R) /\ fine[p].val = col[q].val
    BY <1>1, <2>1, <2>2, <2>4 DEF ValuedIn
  <2> QED
    BY <2>2, <2>5
<1>3. ASSUME NEW p \in ValuedIn(fine, R)
      PROVE  /\ phi[p] \in ValuedIn(col, Q) /\ at[p] \in ValuedIn(in, S[phi[p]])
             /\ fine[p].val = in[at[p]].val
  <2> DEFINE q == phi[p]
  <2>1. p \in R /\ p \in 1..Len(fine) /\ fine[p].val # Null
    BY <1>1 DEF ValuedIn
  <2>2. q \in Q /\ q \in 1..m /\ at[p] \in S[q] /\ fine[p].val = in[at[p]].val
    BY <1>1, <2>1
  <2> HIDE DEF q
  <2>3. at[p] \in ValuedIn(in, S[q])
    BY <2>1, <2>2 DEF ValuedIn
  <2>4. best[q] # 0 /\ best[q] \in ValuedIn(in, S[q])
    BY <2>2, <2>3 DEF HasBest
  <2>5. col[q].val # Null
    BY <2>2, <2>4 DEF ValueAt, ValuedIn, HasValues
  <2>6. q \in ValuedIn(col, Q)
    BY <2>2, <2>5 DEF ValuedIn
  <2> QED
    BY <2>2, <2>3, <2>6 DEF q
<1>4. ValuedIn(fine, R) = {} <=> ValuedIn(col, Q) = {}
  BY <1>2, <1>3
<1> QED
  BY <1>2, <1>3, <1>4 DEF Combine

\* The MIN is that of the parts' MINs.
LEMMA LeastsCombine ==
  ASSUME NEW in, NEW fine, NEW m, NEW phi, NEW at, NEW S, Divided(in, fine, m, phi, at, S),
         NEW col, Input(col), Len(col) = m,
         \A q \in 1..m : col[q].val = ValueAt(in, LeastIn(in, S[q])),
         NEW Q \in SUBSET (1..m), NEW R, R = SentTo(Q, phi, Len(fine))
  PROVE  ValueAt(fine, LeastIn(fine, R)) = ValueAt(col, LeastIn(col, Q))
<1> DEFINE best == [q \in 1..m |-> LeastIn(in, S[q])]
           x == LeastIn(fine, R)
           y == LeastIn(col, Q)
<1>1. /\ Input(in) /\ Input(fine) /\ m \in Nat
      /\ R \in SUBSET (1..Len(fine))
      /\ \A q \in 1..m : S[q] \in SUBSET (1..Len(in))
  BY DividedRows
<1>2. \A q \in 1..m : IsLeast(in, S[q], best[q])
  <2> SUFFICES ASSUME NEW q \in 1..m PROVE IsLeast(in, S[q], LeastIn(in, S[q]))
    OBVIOUS
  <2> DEFINE T == S[q]
  <2>1. T \in SUBSET (1..Len(in))
    BY <1>1
  <2> HIDE DEF T
  <2>2. IsLeast(in, T, LeastIn(in, T))
    BY <1>1, <2>1, LeastIs
  <2> QED
    BY <2>2 DEF T
<1>3. IsLeast(fine, R, x) /\ IsLeast(col, Q, y)
  BY <1>1, LeastIs
<1>4. \A q \in 1..m : col[q].val = ValueAt(in, best[q])
  OBVIOUS
<1> HIDE DEF best, x, y
<1>5. \A q \in 1..m : /\ best[q] \in ValuedIn(in, S[q]) \cup {0}
                      /\ best[q] = 0 <=> ValuedIn(in, S[q]) = {}
  <2> SUFFICES ASSUME NEW q \in 1..m
               PROVE  /\ best[q] \in ValuedIn(in, S[q]) \cup {0}
                      /\ best[q] = 0 <=> ValuedIn(in, S[q]) = {}
    OBVIOUS
  <2>1. 0 \notin ValuedIn(in, S[q])
    BY <1>1 DEF ValuedIn
  <2> QED
    BY <1>2, <2>1 DEF IsLeast
<1>6. /\ \A q \in ValuedIn(col, Q) :
           /\ best[q] \in ValuedIn(in, S[q]) /\ col[q].val = in[best[q]].val
           /\ \E p \in ValuedIn(fine, R) : fine[p].val = col[q].val
      /\ \A p \in ValuedIn(fine, R) :
           /\ phi[p] \in ValuedIn(col, Q) /\ at[p] \in ValuedIn(in, S[phi[p]])
           /\ fine[p].val = in[at[p]].val
      /\ ValuedIn(fine, R) = {} <=> ValuedIn(col, Q) = {}
  <2>1. HasBest(in, S, best, m) /\ HasValues(col, in, best, m)
    BY <1>4, <1>5 DEF HasBest, HasValues
  <2>2. Combine(in, fine, phi, at, S, best, col, Q, R)
    BY ONLY <2>1, Divided(in, fine, m, phi, at, S), Input(col), Len(col) = m,
            Q \in SUBSET (1..m), R = SentTo(Q, phi, Len(fine)), ExtremesCombine
  <2> QED
    BY <2>2 DEF Combine
<1>7. CASE ValuedIn(col, Q) = {}
  BY <1>3, <1>6, <1>7 DEF IsLeast, ValueAt, x, y
<1>8. CASE ValuedIn(col, Q) # {}
  <2>1. /\ x \in ValuedIn(fine, R) /\ \A i \in ValuedIn(fine, R) : fine[x].val <= fine[i].val
        /\ y \in ValuedIn(col, Q) /\ \A i \in ValuedIn(col, Q) : col[y].val <= col[i].val
    BY <1>3, <1>6, <1>8 DEF IsLeast
  <2>2. x # 0 /\ y # 0 /\ fine[x].val \in Int /\ col[y].val \in Int
    <3>1. 0 \notin ValuedIn(fine, R) /\ 0 \notin ValuedIn(col, Q)
      BY <1>1 DEF ValuedIn
    <3> QED
      BY <1>1, <2>1, <3>1, ValuesAre
  <2>3. fine[x].val <= col[y].val
    <3>1. PICK p \in ValuedIn(fine, R) : fine[p].val = col[y].val
      BY <1>6, <2>1
    <3> QED
      BY <2>1, <3>1
  <2>4. col[y].val <= fine[x].val
    <3> DEFINE q == phi[x]
               l == best[q]
    <3>1. q \in ValuedIn(col, Q) /\ q \in 1..m
      BY <1>1, <1>6, <2>1 DEF ValuedIn
    <3>2. at[x] \in ValuedIn(in, S[q]) /\ fine[x].val = in[at[x]].val
      BY <1>6, <2>1
    <3>3. l \in ValuedIn(in, S[q]) /\ col[q].val = in[l].val
      BY <1>6, <3>1
    <3>4. in[l].val <= in[at[x]].val
      BY <1>2, <3>1, <3>2, <3>3 DEF IsLeast
    <3>5. col[y].val <= col[q].val
      BY <2>1, <3>1
    <3>6. col[q].val \in Int
      BY <1>1, <3>1, ValuesAre
    <3> HIDE DEF q, l
    <3> QED
      BY <2>2, <3>2, <3>3, <3>4, <3>5, <3>6
  <2>5. fine[x].val = col[y].val
    BY <2>2, <2>3, <2>4
  <2> QED
    BY <2>2, <2>5 DEF ValueAt, x, y
<1> QED
  BY <1>7, <1>8

\* The MAX is that of the parts' MAXs.
LEMMA GreatestsCombine ==
  ASSUME NEW in, NEW fine, NEW m, NEW phi, NEW at, NEW S, Divided(in, fine, m, phi, at, S),
         NEW col, Input(col), Len(col) = m,
         \A q \in 1..m : col[q].val = ValueAt(in, GreatestIn(in, S[q])),
         NEW Q \in SUBSET (1..m), NEW R, R = SentTo(Q, phi, Len(fine))
  PROVE  ValueAt(fine, GreatestIn(fine, R)) = ValueAt(col, GreatestIn(col, Q))
<1> DEFINE best == [q \in 1..m |-> GreatestIn(in, S[q])]
           x == GreatestIn(fine, R)
           y == GreatestIn(col, Q)
<1>1. /\ Input(in) /\ Input(fine) /\ m \in Nat
      /\ R \in SUBSET (1..Len(fine))
      /\ \A q \in 1..m : S[q] \in SUBSET (1..Len(in))
  BY DividedRows
<1>2. \A q \in 1..m : IsGreatest(in, S[q], best[q])
  <2> SUFFICES ASSUME NEW q \in 1..m PROVE IsGreatest(in, S[q], GreatestIn(in, S[q]))
    OBVIOUS
  <2> DEFINE T == S[q]
  <2>1. T \in SUBSET (1..Len(in))
    BY <1>1
  <2> HIDE DEF T
  <2>2. IsGreatest(in, T, GreatestIn(in, T))
    BY <1>1, <2>1, GreatestIs
  <2> QED
    BY <2>2 DEF T
<1>3. IsGreatest(fine, R, x) /\ IsGreatest(col, Q, y)
  BY <1>1, GreatestIs
<1>4. \A q \in 1..m : col[q].val = ValueAt(in, best[q])
  OBVIOUS
<1> HIDE DEF best, x, y
<1>5. \A q \in 1..m : /\ best[q] \in ValuedIn(in, S[q]) \cup {0}
                      /\ best[q] = 0 <=> ValuedIn(in, S[q]) = {}
  <2> SUFFICES ASSUME NEW q \in 1..m
               PROVE  /\ best[q] \in ValuedIn(in, S[q]) \cup {0}
                      /\ best[q] = 0 <=> ValuedIn(in, S[q]) = {}
    OBVIOUS
  <2>1. 0 \notin ValuedIn(in, S[q])
    BY <1>1 DEF ValuedIn
  <2> QED
    BY <1>2, <2>1 DEF IsGreatest
<1>6. /\ \A q \in ValuedIn(col, Q) :
           /\ best[q] \in ValuedIn(in, S[q]) /\ col[q].val = in[best[q]].val
           /\ \E p \in ValuedIn(fine, R) : fine[p].val = col[q].val
      /\ \A p \in ValuedIn(fine, R) :
           /\ phi[p] \in ValuedIn(col, Q) /\ at[p] \in ValuedIn(in, S[phi[p]])
           /\ fine[p].val = in[at[p]].val
      /\ ValuedIn(fine, R) = {} <=> ValuedIn(col, Q) = {}
  <2>1. HasBest(in, S, best, m) /\ HasValues(col, in, best, m)
    BY <1>4, <1>5 DEF HasBest, HasValues
  <2>2. Combine(in, fine, phi, at, S, best, col, Q, R)
    BY ONLY <2>1, Divided(in, fine, m, phi, at, S), Input(col), Len(col) = m,
            Q \in SUBSET (1..m), R = SentTo(Q, phi, Len(fine)), ExtremesCombine
  <2> QED
    BY <2>2 DEF Combine
<1>7. CASE ValuedIn(col, Q) = {}
  BY <1>3, <1>6, <1>7 DEF IsGreatest, ValueAt, x, y
<1>8. CASE ValuedIn(col, Q) # {}
  <2>1. /\ x \in ValuedIn(fine, R) /\ \A i \in ValuedIn(fine, R) : fine[x].val >= fine[i].val
        /\ y \in ValuedIn(col, Q) /\ \A i \in ValuedIn(col, Q) : col[y].val >= col[i].val
    BY <1>3, <1>6, <1>8 DEF IsGreatest
  <2>2. x # 0 /\ y # 0 /\ fine[x].val \in Int /\ col[y].val \in Int
    <3>1. 0 \notin ValuedIn(fine, R) /\ 0 \notin ValuedIn(col, Q)
      BY <1>1 DEF ValuedIn
    <3> QED
      BY <1>1, <2>1, <3>1, ValuesAre
  <2>3. fine[x].val >= col[y].val
    <3>1. PICK p \in ValuedIn(fine, R) : fine[p].val = col[y].val
      BY <1>6, <2>1
    <3> QED
      BY <2>1, <3>1
  <2>4. col[y].val >= fine[x].val
    <3> DEFINE q == phi[x]
               l == best[q]
    <3>1. q \in ValuedIn(col, Q) /\ q \in 1..m
      BY <1>1, <1>6, <2>1 DEF ValuedIn
    <3>2. at[x] \in ValuedIn(in, S[q]) /\ fine[x].val = in[at[x]].val
      BY <1>6, <2>1
    <3>3. l \in ValuedIn(in, S[q]) /\ col[q].val = in[l].val
      BY <1>6, <3>1
    <3>4. in[l].val >= in[at[x]].val
      BY <1>2, <3>1, <3>2, <3>3 DEF IsGreatest
    <3>5. col[y].val >= col[q].val
      BY <2>1, <3>1
    <3>6. col[q].val \in Int
      BY <1>1, <3>1, ValuesAre
    <3> HIDE DEF q, l
    <3> QED
      BY <2>2, <3>2, <3>3, <3>4, <3>5, <3>6
  <2>5. fine[x].val = col[y].val
    BY <2>2, <2>3, <2>4
  <2> QED
    BY <2>2, <2>5 DEF ValueAt, x, y
<1> QED
  BY <1>7, <1>8

-----------------------------------------------------------------------------
\* The joined partials are those of the parts of the joined rows.

\* The state when the joined partials are aggregated.
AtFinal ==
  /\ query.kind = "inner"
  /\ Input(left) /\ Len(right) \in Nat
  /\ partial = GroupsIn(left)
  /\ IsJoin(pairs, GroupKeys, RightKeys, Len(partial))

\* The pairs of the ordinary plan, their left rows, and the left rows of each part.
TablePairs == JoinIn(LeftKeys, RightKeys, Len(left))
LeftRow == [p \in 1..Len(TablePairs) |-> TablePairs[p][1]]
PartRows == [q \in 1..Len(pairs) |-> SameIn(left, FirstRows(left)[pairs[q][1]])]

\* What is known of a group.
LEMMA GroupFields ==
  ASSUME NEW in, NEW f, NEW R
  PROVE  /\ GroupIn(in, f, R).first = f
         /\ GroupIn(in, f, R).sum = TotalIn(in, ValuedIn(in, R))
         /\ GroupIn(in, f, R).saw = (ValuedIn(in, R) # {})
         /\ GroupIn(in, f, R).count = Cardinality(ValuedIn(in, R))
         /\ GroupIn(in, f, R).rows = Cardinality(R)
         /\ GroupIn(in, f, R).least = LeastIn(in, R)
         /\ GroupIn(in, f, R).greatest = GreatestIn(in, R)
BY DEF GroupIn

\* The rows of the ordinary join.
LEMMA JoinedIs ==
  ASSUME query.kind = "inner", Input(left), Len(right) \in Nat
  PROVE  /\ IsJoin(TablePairs, LeftKeys, RightKeys, Len(left))
         /\ Len(J!Joined) = Len(TablePairs) /\ Len(TablePairs) \in Nat
         /\ Input(J!Joined)
         /\ \A p \in 1..Len(TablePairs) :
              /\ TablePairs[p][1] \in 1..Len(left) /\ TablePairs[p][2] \in 1..Len(right)
              /\ J!Joined[p].val = left[TablePairs[p][1]].val
              /\ J!Joined[p].key = right[TablePairs[p][2]].label
<1> DEFINE jp == TablePairs
<1>1. Len(left) \in Nat /\ Len(RightKeys) = Len(right) /\ Len(RightKeys) \in Nat
  BY DEF Input, RightKeys
<1>2. IsJoin(jp, LeftKeys, RightKeys, Len(left))
  BY <1>1, JoinIs DEF TablePairs
<1>3. /\ Len(jp) \in Nat
      /\ \A p \in 1..Len(jp) : jp[p][1] \in 1..Len(left) /\ jp[p][2] \in 1..Len(right)
  <2> HIDE DEF jp
  <2>1. /\ Len(jp) \in Nat
        /\ \A p \in 1..Len(jp) : jp[p][1] \in 1..Len(left) /\ jp[p][2] \in 1..Len(RightKeys)
    BY <1>1, <1>2, JoinOrder
  <2> QED
    BY <1>1, <2>1
<1>4. J!E!Answer = jp
  BY <1>1, TablesJoined DEF TablePairs
<1> HIDE DEF jp
<1>5. J!Joined = [p \in 1..Len(jp) |-> [left |-> jp[p][1],
                                        key |-> J!Label(jp[p][2]),
                                        val |-> J!Val(jp[p][1])]]
  BY <1>4 DEF J!Joined
<1>6. Len(J!Joined) = Len(jp) /\ DOMAIN J!Joined = 1..Len(jp)
  BY <1>3, <1>5
<1>7. ASSUME NEW p \in 1..Len(jp)
      PROVE  /\ J!Joined[p].val = left[jp[p][1]].val
             /\ J!Joined[p].key = right[jp[p][2]].label
  <2>1. jp[p][1] # 0 /\ jp[p][2] # 0
    BY <1>1, <1>3
  <2>2. J!Joined[p].val = J!Val(jp[p][1]) /\ J!Joined[p].key = J!Label(jp[p][2])
    BY <1>5
  <2> QED
    BY <2>1, <2>2 DEF J!Val, J!Label
<1>8. Input(J!Joined)
  <2>1. \A p \in 1..Len(jp) : J!Joined[p].val \in Int \cup {Null}
    BY <1>3, <1>7 DEF Input
  <2> QED
    BY <1>3, <1>6, <2>1 DEF Input
<1> QED
  BY <1>2, <1>3, <1>6, <1>7, <1>8 DEF jp

\* The joined partials have a group and a right row each.
LEMMA PairsHave ==
  ASSUME AtFinal
  PROVE  /\ Len(pairs) \in Nat /\ Len(partial) = Len(FirstRows(left)) /\ Len(partial) \in Nat
         /\ \A g \in 1..Len(partial) :
              /\ FirstRows(left)[g] \in 1..Len(left)
              /\ partial[g] = GroupIn(left, FirstRows(left)[g], SameIn(left, FirstRows(left)[g]))
              /\ partial[g].first = FirstRows(left)[g]
         /\ \A q \in 1..Len(pairs) : pairs[q][1] \in 1..Len(partial) /\ pairs[q][2] \in 1..Len(right)
<1> DEFINE f == FirstRows(left)
<1>1. Len(left) \in Nat /\ Len(RightKeys) = Len(right) /\ Len(RightKeys) \in Nat
  BY DEF AtFinal, Input, RightKeys
<1>2. Len(f) \in Nat /\ \A g \in 1..Len(f) : f[g] \in 1..Len(left)
  BY <1>1, FirstRowFacts
<1>3. partial = [g \in 1..Len(f) |-> GroupIn(left, f[g], SameIn(left, f[g]))]
  BY DEF AtFinal, GroupsIn
<1> HIDE DEF f
<1>4. Len(partial) = Len(f) /\ \A g \in 1..Len(f) : partial[g] = GroupIn(left, f[g], SameIn(left, f[g]))
  BY <1>2, <1>3
<1>5. \A g \in 1..Len(f) : partial[g].first = f[g]
  BY <1>4, GroupFields
<1>6. /\ Len(pairs) \in Nat
      /\ \A q \in 1..Len(pairs) : pairs[q][1] \in 1..Len(partial) /\ pairs[q][2] \in 1..Len(RightKeys)
  <2>1. IsJoin(pairs, GroupKeys, RightKeys, Len(partial)) /\ Len(partial) \in Nat
    BY <1>2, <1>4 DEF AtFinal
  <2> QED
    BY <1>1, <2>1, JoinOrder
<1> QED
  BY <1>1, <1>2, <1>4, <1>5, <1>6 DEF f

\* The rows of the ordinary join fall into parts, one for each joined partial.
LEMMA JoinedDivided ==
  ASSUME AtFinal
  PROVE  \E phi, b :
           /\ Parts(Len(J!Joined), Len(pairs), phi, b)
           /\ Divided(left, J!Joined, Len(pairs), phi, LeftRow, PartRows)
           /\ \A p \in 1..Len(J!Joined) : J!Joined[p].key = right[pairs[phi[p]][2]].label
<1> DEFINE jp == TablePairs
           f == FirstRows(left)
           n == Len(J!Joined)
           m == Len(pairs)
<1>1. /\ query.kind = "inner" /\ Input(left) /\ Len(right) \in Nat /\ Len(left) \in Nat
      /\ Len(RightKeys) = Len(right) /\ Len(RightKeys) \in Nat
  BY DEF AtFinal, Input, RightKeys
<1>2. /\ IsJoin(jp, LeftKeys, RightKeys, Len(left))
      /\ n = Len(jp) /\ n \in Nat
      /\ Input(J!Joined)
      /\ \A p \in 1..n : /\ jp[p][1] \in 1..Len(left) /\ jp[p][2] \in 1..Len(right)
                         /\ J!Joined[p].val = left[jp[p][1]].val
                         /\ J!Joined[p].key = right[jp[p][2]].label
  BY <1>1, JoinedIs
<1>3. /\ m \in Nat /\ Len(partial) = Len(f) /\ Len(partial) \in Nat
      /\ \A g \in 1..Len(partial) : partial[g].first = f[g] /\ f[g] \in 1..Len(left)
      /\ \A q \in 1..m : pairs[q][1] \in 1..Len(partial)
  BY PairsHave
<1>4. PICK phi, b : Parts(Len(jp), m, phi, b) /\ InParts(left, jp, pairs, f, phi)
  <2> DEFINE lk == LeftKeys
             gk == GroupKeys
             rk == RightKeys
  <2>1. \A l \in 1..Len(left) : lk[l] = left[l].key
    BY DEF LeftKeys
  <2>2. \A g \in 1..Len(f) : gk[g] = left[f[g]].key
    BY <1>3 DEF GroupKeys
  <2>3. IsJoin(pairs, gk, rk, Len(f)) /\ IsJoin(jp, lk, rk, Len(left))
        /\ f = FirstRows(left) /\ Len(rk) \in Nat /\ Len(left) \in Nat
    BY <1>1, <1>2, <1>3 DEF AtFinal
  <2> HIDE DEF lk, gk, rk, f, jp
  <2> QED
    BY ONLY <2>1, <2>2, <2>3, JoinHasParts
<1> HIDE DEF jp, f, n, m
<1>5. /\ \A p \in 1..n : /\ pairs[phi[p]][2] = jp[p][2]
                         /\ jp[p][1] \in SameIn(left, f[pairs[phi[p]][1]])
      /\ \A q \in 1..m : \A l \in SameIn(left, f[pairs[q][1]]) :
           \E p \in 1..n : phi[p] = q /\ jp[p][1] = l
      /\ \A p, s \in 1..n : phi[p] = phi[s] /\ jp[p][1] = jp[s][1] => p = s
  BY <1>2, <1>4 DEF InParts, m
<1>6. phi \in [1..n -> 1..m]
  BY <1>2, <1>4 DEF Parts
<1>7. /\ LeftRow \in [1..n -> 1..Len(left)]
      /\ \A p \in 1..n : LeftRow[p] = jp[p][1]
  BY <1>2 DEF LeftRow, jp
<1>8. /\ PartRows \in [1..m -> SUBSET (1..Len(left))]
      /\ \A q \in 1..m : PartRows[q] = SameIn(left, f[pairs[q][1]])
  BY DEF PartRows, SameIn, m, f
<1>9. ASSUME NEW q \in 1..m
      PROVE  Onto(n, Len(left), phi, LeftRow, q, PartRows[q])
  <2>1. \A p \in 1..n : phi[p] = q => LeftRow[p] \in PartRows[q]
    BY <1>5, <1>7, <1>8
  <2>2. \A l \in PartRows[q] : \E p \in 1..n : phi[p] = q /\ LeftRow[p] = l
    <3> SUFFICES ASSUME NEW l \in PartRows[q] PROVE \E p \in 1..n : phi[p] = q /\ LeftRow[p] = l
      OBVIOUS
    <3>1. l \in SameIn(left, f[pairs[q][1]])
      BY <1>8
    <3>2. PICK p \in 1..n : phi[p] = q /\ jp[p][1] = l
      BY <1>5, <3>1
    <3> QED
      BY <1>7, <3>2
  <2>3. \A p, s \in 1..n : phi[p] = q /\ phi[s] = q /\ LeftRow[p] = LeftRow[s] => p = s
    BY <1>5, <1>7
  <2> QED
    BY <1>7, <2>1, <2>2, <2>3 DEF Onto
<1>10. Divided(left, J!Joined, m, phi, LeftRow, PartRows)
  <2>1. \A p \in 1..n : J!Joined[p].val = left[LeftRow[p]].val
    BY <1>2, <1>7
  <2> QED
    BY <1>1, <1>2, <1>3, <1>6, <1>7, <1>8, <1>9, <2>1 DEF Divided, n
<1>11. \A p \in 1..n : J!Joined[p].key = right[pairs[phi[p]][2]].label
  BY <1>2, <1>5
<1>12. Parts(n, m, phi, b)
  BY <1>2, <1>4
<1> QED
  BY <1>10, <1>11, <1>12 DEF n, m

\* What the aggregates of some rows may be.
LEMMA AggregatesType ==
  ASSUME NEW in, Input(in), NEW R \in SUBSET (1..Len(in))
  PROVE  /\ TotalIn(in, ValuedIn(in, R)) \in Int
         /\ Cardinality(ValuedIn(in, R)) \in 0..Len(in)
         /\ Cardinality(R) \in 0..Len(in)
         /\ R # {} => Cardinality(R) # 0
         /\ LeastIn(in, R) \in 0..Len(in) /\ GreatestIn(in, R) \in 0..Len(in)
         /\ ValueAt(in, LeastIn(in, R)) \in Int \cup {Null}
         /\ ValueAt(in, GreatestIn(in, R)) \in Int \cup {Null}
<1> DEFINE n == Len(in)
           w == Values(in, R)
           V == ValuedIn(in, R)
<1>1. n \in Nat /\ w \in [1..n -> Int] /\ V \in SUBSET (1..n)
  BY ValuesAre DEF Input
<1>2. TotalIn(in, V) = Sigma(w, n)
  BY TotalIs
<1>3. \A i \in 1..n : in[i].val \in Int \cup {Null}
  BY DEF Input
<1>4. IsLeast(in, R, LeastIn(in, R)) /\ IsGreatest(in, R, GreatestIn(in, R))
  BY LeastIs, GreatestIs
<1> DEFINE x == LeastIn(in, R)
           y == GreatestIn(in, R)
<1>5. \A i \in V : i \in 1..n /\ i \in 0..n
  BY <1>1
<1>6. 0 \in 0..n
  BY <1>1
<1> HIDE DEF n, w, x, y, V
<1>7. PICK c : AddsUp(c, w, n)
  BY <1>1, SigmaExists
<1>8. Sigma(w, n) \in Int
  BY <1>1, <1>7, SigmaIs
<1>9. Cardinality(V) \in 0..n
  BY <1>1, CardinalityIs
<1>10. R \in SUBSET (1..n)
  BY DEF n
<1>11. Cardinality(R) \in 0..n /\ (R # {} => Cardinality(R) # 0)
  BY <1>1, <1>10, CardinalityIs
<1>12. x = 0 \/ x \in V
  BY <1>4 DEF IsLeast, V, x
<1>13. y = 0 \/ y \in V
  BY <1>4 DEF IsGreatest, V, y
<1>14. x \in 0..n /\ ValueAt(in, x) \in Int \cup {Null}
  BY <1>3, <1>5, <1>6, <1>12 DEF ValueAt
<1>15. y \in 0..n /\ ValueAt(in, y) \in Int \cup {Null}
  BY <1>3, <1>5, <1>6, <1>13 DEF ValueAt
<1> QED
  BY <1>2, <1>8, <1>9, <1>11, <1>14, <1>15 DEF n, x, y, V

\* The joined partials have the aggregates of the rows of their part, and the label of
\* their right row.
LEMMA ColumnsAre ==
  ASSUME AtFinal
  PROVE  /\ \A c : Len(Column(c)) = Len(pairs) /\ DOMAIN Column(c) = 1..Len(Column(c))
         /\ \A c : \A q \in 1..Len(pairs) : Column(c)[q].key = right[pairs[q][2]].label
         /\ \A q \in 1..Len(pairs) :
              LET R == PartRows[q]
              IN  /\ R \in SUBSET (1..Len(left))
                  /\ Column("sum")[q].val = IF ValuedIn(left, R) # {} THEN TotalIn(left, ValuedIn(left, R))
                                            ELSE Null
                  /\ Column("count")[q].val = Cardinality(ValuedIn(left, R))
                  /\ Column("rows")[q].val = Cardinality(R)
                  /\ Column("least")[q].val = ValueAt(left, LeastIn(left, R))
                  /\ Column("greatest")[q].val = ValueAt(left, GreatestIn(left, R))
<1>1. Len(pairs) \in Nat
  BY PairsHave
<1>2. \A c : /\ Len(Column(c)) = Len(pairs) /\ DOMAIN Column(c) = 1..Len(Column(c))
             /\ \A q \in 1..Len(pairs) : /\ Column(c)[q].key = right[pairs[q][2]].label
                                         /\ Column(c)[q].val = Partial(partial[pairs[q][1]])[c]
  BY <1>1 DEF Column
<1>3. ASSUME NEW q \in 1..Len(pairs), NEW R, R = PartRows[q]
      PROVE  /\ R \in SUBSET (1..Len(left))
             /\ Column("sum")[q].val = IF ValuedIn(left, R) # {} THEN TotalIn(left, ValuedIn(left, R))
                                       ELSE Null
             /\ Column("count")[q].val = Cardinality(ValuedIn(left, R))
             /\ Column("rows")[q].val = Cardinality(R)
             /\ Column("least")[q].val = ValueAt(left, LeastIn(left, R))
             /\ Column("greatest")[q].val = ValueAt(left, GreatestIn(left, R))
  <2> DEFINE p == partial[pairs[q][1]]
  <2>1. R = SameIn(left, FirstRows(left)[pairs[q][1]])
    BY <1>3 DEF PartRows
  <2>2. pairs[q][1] \in 1..Len(partial)
    BY PairsHave
  <2>3. p = GroupIn(left, FirstRows(left)[pairs[q][1]], R)
    BY <2>1, <2>2, PairsHave
  <2> DEFINE f == FirstRows(left)[pairs[q][1]]
  <2>4. /\ p.sum = TotalIn(left, ValuedIn(left, R))
        /\ p.saw = (ValuedIn(left, R) # {})
        /\ p.count = Cardinality(ValuedIn(left, R))
        /\ p.rows = Cardinality(R)
        /\ p.least = LeastIn(left, R)
        /\ p.greatest = GreatestIn(left, R)
    <3> HIDE DEF p, f
    <3>1. p = GroupIn(left, f, R)
      BY <2>3 DEF f
    <3> QED
      BY <3>1, GroupFields
  <2>5. \A c : Column(c)[q].val = Partial(p)[c]
    BY <1>2
  <2> HIDE DEF p
  <2>6. /\ Partial(p)["sum"] = IF p.saw THEN p.sum ELSE Null
        /\ Partial(p)["count"] = p.count
        /\ Partial(p)["rows"] = p.rows
        /\ Partial(p)["least"] = J!Val(p.least)
        /\ Partial(p)["greatest"] = J!Val(p.greatest)
    BY DEF Partial
  <2>7. J!Val(p.least) = ValueAt(left, p.least) /\ J!Val(p.greatest) = ValueAt(left, p.greatest)
    BY DEF J!Val, ValueAt
  <2>8. Column("sum")[q].val = IF ValuedIn(left, R) # {} THEN TotalIn(left, ValuedIn(left, R)) ELSE Null
    <3>1. Column("sum")[q].val = IF p.saw THEN p.sum ELSE Null
      BY <2>5, <2>6
    <3> QED
      BY <2>4, <3>1
  <2>9. Column("count")[q].val = Cardinality(ValuedIn(left, R))
    BY <2>4, <2>5, <2>6
  <2>10. Column("rows")[q].val = Cardinality(R)
    BY <2>4, <2>5, <2>6
  <2>11. Column("least")[q].val = ValueAt(left, LeastIn(left, R))
    BY <2>4, <2>5, <2>6, <2>7
  <2>12. Column("greatest")[q].val = ValueAt(left, GreatestIn(left, R))
    BY <2>4, <2>5, <2>6, <2>7
  <2>13. R \in SUBSET (1..Len(left))
    BY <2>1 DEF SameIn
  <2> QED
    BY <2>8, <2>9, <2>10, <2>11, <2>12, <2>13
<1> QED
  BY <1>2, <1>3

\* So they are inputs of an aggregate, and their rows are grouped in the same way.
LEMMA ColumnsGrouped ==
  ASSUME AtFinal
  PROVE  /\ \A c \in {"sum", "count", "rows", "least", "greatest"} :
              /\ Input(Column(c))
              /\ FirstRows(Column(c)) = FirstRows(Column("sum"))
              /\ \A f \in 1..Len(pairs) : SameIn(Column(c), f) = SameIn(Column("sum"), f)
<1>1. Input(left) /\ Len(pairs) \in Nat
  BY PairsHave DEF AtFinal
<1>2. /\ \A c : Len(Column(c)) = Len(pairs) /\ DOMAIN Column(c) = 1..Len(Column(c))
      /\ \A c : \A q \in 1..Len(pairs) : Column(c)[q].key = right[pairs[q][2]].label
  BY ColumnsAre
<1>3. ASSUME NEW c \in {"sum", "count", "rows", "least", "greatest"}, NEW q \in 1..Len(pairs)
      PROVE  Column(c)[q].val \in Int \cup {Null}
  <2> DEFINE R == PartRows[q]
  <2>1. /\ R \in SUBSET (1..Len(left))
        /\ Column("sum")[q].val = IF ValuedIn(left, R) # {} THEN TotalIn(left, ValuedIn(left, R))
                                  ELSE Null
        /\ Column("count")[q].val = Cardinality(ValuedIn(left, R))
        /\ Column("rows")[q].val = Cardinality(R)
        /\ Column("least")[q].val = ValueAt(left, LeastIn(left, R))
        /\ Column("greatest")[q].val = ValueAt(left, GreatestIn(left, R))
    BY ColumnsAre
  <2> HIDE DEF R
  <2>2. /\ TotalIn(left, ValuedIn(left, R)) \in Int
        /\ Cardinality(ValuedIn(left, R)) \in 0..Len(left)
        /\ Cardinality(R) \in 0..Len(left)
        /\ ValueAt(left, LeastIn(left, R)) \in Int \cup {Null}
        /\ ValueAt(left, GreatestIn(left, R)) \in Int \cup {Null}
    BY <1>1, <2>1, AggregatesType
  <2>3. \A i \in 0..Len(left) : i \in Int
    OBVIOUS
  <2> QED
    BY <2>1, <2>2, <2>3
<1>4. ASSUME NEW c \in {"sum", "count", "rows", "least", "greatest"}
      PROVE  /\ Input(Column(c))
             /\ FirstRows(Column(c)) = FirstRows(Column("sum"))
             /\ \A f \in 1..Len(pairs) : SameIn(Column(c), f) = SameIn(Column("sum"), f)
  <2> DEFINE a == Column(c)
             b == Column("sum")
  <2>1. /\ Len(a) = Len(pairs) /\ Len(b) = Len(pairs) /\ DOMAIN a = 1..Len(a)
        /\ \A q \in 1..Len(pairs) : a[q].key = b[q].key
    BY <1>2
  <2>2. \A q \in 1..Len(pairs) : a[q].val \in Int \cup {Null}
    BY <1>3
  <2> HIDE DEF a, b
  <2>3. Input(a)
    BY <1>1, <2>1, <2>2 DEF Input
  <2>4. FirstsIn(a) = FirstsIn(b)
    BY <2>1 DEF FirstsIn
  <2>5. FirstRows(a) = FirstRows(b)
    BY <2>1, <2>4 DEF FirstRows
  <2>6. ASSUME NEW f \in 1..Len(pairs)
        PROVE  SameIn(a, f) = SameIn(b, f)
    BY <2>1 DEF SameIn
  <2> QED
    BY <2>3, <2>5, <2>6 DEF a, b
<1> QED
  BY <1>4

-----------------------------------------------------------------------------
\* The final groups are those of the ordinary plan.

\* The final groups, in terms of the columns.
LEMMA FinalIs ==
  ASSUME AtFinal
  PROVE  LET f == FirstRows(Column("sum"))
         IN  /\ Len(Final) = Len(f) /\ DOMAIN Final = 1..Len(f) /\ Len(f) \in Nat
             /\ \A g \in 1..Len(f) :
                  LET Q == SameIn(Column("sum"), f[g])
                  IN  /\ f[g] \in 1..Len(pairs) /\ Q \in SUBSET (1..Len(pairs))
                      /\ Final[g].first = f[g]
                      /\ Final[g].sum = TotalIn(Column("sum"), ValuedIn(Column("sum"), Q))
                      /\ Final[g].saw = (ValuedIn(Column("sum"), Q) # {})
                      /\ Final[g].count = TotalIn(Column("count"), ValuedIn(Column("count"), Q))
                      /\ Final[g].rows = TotalIn(Column("rows"), ValuedIn(Column("rows"), Q))
                      /\ Final[g].least = LeastIn(Column("least"), Q)
                      /\ Final[g].greatest = GreatestIn(Column("greatest"), Q)
<1> DEFINE f == FirstRows(Column("sum"))
           sum == GroupsIn(Column("sum"))
           count == GroupsIn(Column("count"))
           rows == GroupsIn(Column("rows"))
           least == GroupsIn(Column("least"))
           greatest == GroupsIn(Column("greatest"))
<1>1. \A c : Len(Column(c)) = Len(pairs)
  BY ColumnsAre
<1>2. Len(pairs) \in Nat
  BY PairsHave
<1>3. \A c \in {"sum", "count", "rows", "least", "greatest"} :
         /\ FirstRows(Column(c)) = FirstRows(Column("sum"))
         /\ \A q \in 1..Len(pairs) : SameIn(Column(c), q) = SameIn(Column("sum"), q)
  BY ColumnsGrouped
<1>4. Len(f) \in Nat /\ \A g \in 1..Len(f) : f[g] \in 1..Len(pairs)
  BY <1>1, <1>2, FirstRowFacts
<1>5. Final = [g \in 1..Len(sum) |-> [first |-> sum[g].first, sum |-> sum[g].sum, saw |-> sum[g].saw,
                                      count |-> count[g].sum, rows |-> rows[g].sum,
                                      least |-> least[g].least, greatest |-> greatest[g].greatest]]
  BY <1>1, SumGroups, CountGroups, RowsGroups, LeastGroups, GreatestGroups DEF Final, All
<1>6. ASSUME NEW c \in {"sum", "count", "rows", "least", "greatest"}
      PROVE  /\ Len(GroupsIn(Column(c))) = Len(f)
             /\ \A g \in 1..Len(f) :
                  GroupsIn(Column(c))[g] = GroupIn(Column(c), f[g], SameIn(Column("sum"), f[g]))
  <2>1. GroupsIn(Column(c)) = [g \in 1..Len(f) |-> GroupIn(Column(c), f[g], SameIn(Column(c), f[g]))]
    BY <1>3 DEF GroupsIn
  <2> HIDE DEF f
  <2> QED
    BY <1>3, <1>4, <2>1
<1> HIDE DEF f
<1>7. ASSUME NEW g \in 1..Len(f), NEW Q, Q = SameIn(Column("sum"), f[g])
      PROVE  /\ sum[g] = GroupIn(Column("sum"), f[g], Q)
             /\ count[g] = GroupIn(Column("count"), f[g], Q)
             /\ rows[g] = GroupIn(Column("rows"), f[g], Q)
             /\ least[g] = GroupIn(Column("least"), f[g], Q)
             /\ greatest[g] = GroupIn(Column("greatest"), f[g], Q)
  BY <1>6, <1>7
<1>8. Len(sum) = Len(f)
  BY <1>6
<1> HIDE DEF sum, count, rows, least, greatest
<1>9. Len(Final) = Len(f) /\ DOMAIN Final = 1..Len(f)
  BY <1>4, <1>5, <1>8
<1>10. \A g \in 1..Len(f) : /\ Final[g].first = sum[g].first /\ Final[g].sum = sum[g].sum
                            /\ Final[g].saw = sum[g].saw /\ Final[g].count = count[g].sum
                            /\ Final[g].rows = rows[g].sum /\ Final[g].least = least[g].least
                            /\ Final[g].greatest = greatest[g].greatest
  BY <1>5, <1>8
<1> HIDE DEF Final
<1>11. ASSUME NEW g \in 1..Len(f), NEW Q, Q = SameIn(Column("sum"), f[g])
       PROVE  /\ Q \in SUBSET (1..Len(pairs))
              /\ Final[g].first = f[g]
              /\ Final[g].sum = TotalIn(Column("sum"), ValuedIn(Column("sum"), Q))
              /\ Final[g].saw = (ValuedIn(Column("sum"), Q) # {})
              /\ Final[g].count = TotalIn(Column("count"), ValuedIn(Column("count"), Q))
              /\ Final[g].rows = TotalIn(Column("rows"), ValuedIn(Column("rows"), Q))
              /\ Final[g].least = LeastIn(Column("least"), Q)
              /\ Final[g].greatest = GreatestIn(Column("greatest"), Q)
  <2>1. Q \in SUBSET (1..Len(pairs))
    BY <1>1, <1>11 DEF SameIn
  <2>2. Final[g].first = f[g]
    BY <1>7, <1>10, <1>11, GroupFields
  <2>3. Final[g].sum = TotalIn(Column("sum"), ValuedIn(Column("sum"), Q))
    BY <1>7, <1>10, <1>11, GroupFields
  <2>4. Final[g].saw = (ValuedIn(Column("sum"), Q) # {})
    BY <1>7, <1>10, <1>11, GroupFields
  <2>5. Final[g].count = TotalIn(Column("count"), ValuedIn(Column("count"), Q))
    BY <1>7, <1>10, <1>11, GroupFields
  <2>6. Final[g].rows = TotalIn(Column("rows"), ValuedIn(Column("rows"), Q))
    BY <1>7, <1>10, <1>11, GroupFields
  <2>7. Final[g].least = LeastIn(Column("least"), Q)
    BY <1>7, <1>10, <1>11, GroupFields
  <2>8. Final[g].greatest = GreatestIn(Column("greatest"), Q)
    BY <1>7, <1>10, <1>11, GroupFields
  <2> QED
    BY <2>1, <2>2, <2>3, <2>4, <2>5, <2>6, <2>7, <2>8
<1> QED
  BY <1>4, <1>9, <1>11 DEF f

\* A group of the ordinary plan, and a final group, say the same.
Agree(a, z) ==
  /\ a.sum = z.sum /\ a.saw = z.saw /\ a.count = z.count /\ a.rows = z.rows
  /\ J!Seen(J!Joined, a) = Seen(z)

\* The groups of the ordinary plan are seen in the same order, and each says the same.
LEMMA GroupsAgree ==
  ASSUME AtFinal
  PROVE  /\ Len(GroupsIn(J!Joined)) = Len(Final) /\ Len(Final) \in Nat
         /\ \A g \in 1..Len(Final) : Agree(GroupsIn(J!Joined)[g], Final[g])
<1> DEFINE fine == J!Joined
           n == Len(fine)
           m == Len(pairs)
           coarse == Column("sum")
           f == FirstRows(fine)
           c == FirstRows(coarse)
<1>1. PICK phi, b :
        /\ Parts(n, m, phi, b)
        /\ Divided(left, fine, m, phi, LeftRow, PartRows)
        /\ \A p \in 1..n : fine[p].key = right[pairs[phi[p]][2]].label
  BY JoinedDivided
<1>2. /\ \A d : Len(Column(d)) = m
      /\ \A d : \A q \in 1..m : Column(d)[q].key = right[pairs[q][2]].label
      /\ \A q \in 1..m :
           LET R == PartRows[q]
           IN  /\ Column("sum")[q].val = IF ValuedIn(left, R) # {} THEN TotalIn(left, ValuedIn(left, R))
                                         ELSE Null
               /\ Column("count")[q].val = Cardinality(ValuedIn(left, R))
               /\ Column("rows")[q].val = Cardinality(R)
               /\ Column("least")[q].val = ValueAt(left, LeastIn(left, R))
               /\ Column("greatest")[q].val = ValueAt(left, GreatestIn(left, R))
  BY ColumnsAre
<1>3. \A d \in {"sum", "count", "rows", "least", "greatest"} : Input(Column(d))
  BY ColumnsGrouped
<1>4. /\ Len(Final) = Len(c) /\ Len(c) \in Nat
      /\ \A g \in 1..Len(c) :
           LET Q == SameIn(Column("sum"), c[g])
           IN  /\ c[g] \in 1..m /\ Q \in SUBSET (1..m)
               /\ Final[g].first = c[g]
               /\ Final[g].sum = TotalIn(Column("sum"), ValuedIn(Column("sum"), Q))
               /\ Final[g].saw = (ValuedIn(Column("sum"), Q) # {})
               /\ Final[g].count = TotalIn(Column("count"), ValuedIn(Column("count"), Q))
               /\ Final[g].rows = TotalIn(Column("rows"), ValuedIn(Column("rows"), Q))
               /\ Final[g].least = LeastIn(Column("least"), Q)
               /\ Final[g].greatest = GreatestIn(Column("greatest"), Q)
  BY FinalIs
<1>5. Input(fine) /\ n \in Nat /\ m \in Nat
  BY <1>1, PairsHave DEF Divided, Input
<1>6. Refines(fine, coarse, phi)
  <2>1. \A p \in 1..n : phi[p] \in 1..m
    BY <1>1 DEF Parts
  <2> QED
    BY <1>1, <1>2, <2>1 DEF Refines
<1>7. /\ Len(f) = Len(c)
      /\ \A g \in 1..Len(c) :
           /\ f[g] = b[c[g]]
           /\ fine[f[g]].key = coarse[c[g]].key
           /\ SameIn(fine, f[g]) = {p \in 1..n : phi[p] \in SameIn(coarse, c[g])}
  <2>1. Len(fine) \in Nat /\ Len(coarse) \in Nat /\ Parts(Len(fine), Len(coarse), phi, b)
    BY <1>1, <1>2, <1>5
  <2> HIDE DEF fine, coarse
  <2> QED
    BY <1>6, <2>1, SameOrder DEF n
<1>8. GroupsIn(fine) = [g \in 1..Len(f) |-> GroupIn(fine, f[g], SameIn(fine, f[g]))]
  BY DEF GroupsIn
<1> HIDE DEF fine, n, m, coarse, f, c, Final
<1>9. ASSUME NEW g \in 1..Len(c)
      PROVE  Agree(GroupsIn(fine)[g], Final[g])
  <2> DEFINE R == SameIn(fine, f[g])
             Q == SameIn(coarse, c[g])
             a == GroupIn(fine, f[g], R)
             z == Final[g]
  <2>1. GroupsIn(fine)[g] = a
    BY <1>4, <1>7, <1>8
  <2>2. /\ a.first = f[g]
        /\ a.sum = TotalIn(fine, ValuedIn(fine, R))
        /\ a.saw = (ValuedIn(fine, R) # {})
        /\ a.count = Cardinality(ValuedIn(fine, R))
        /\ a.rows = Cardinality(R)
        /\ a.least = LeastIn(fine, R)
        /\ a.greatest = GreatestIn(fine, R)
    <3> HIDE DEF R
    <3> QED
      BY GroupFields
  <2>3. /\ Q \in SUBSET (1..m)
        /\ z.first = c[g]
        /\ z.sum = TotalIn(Column("sum"), ValuedIn(Column("sum"), Q))
        /\ z.saw = (ValuedIn(Column("sum"), Q) # {})
        /\ z.count = TotalIn(Column("count"), ValuedIn(Column("count"), Q))
        /\ z.rows = TotalIn(Column("rows"), ValuedIn(Column("rows"), Q))
        /\ z.least = LeastIn(Column("least"), Q)
        /\ z.greatest = GreatestIn(Column("greatest"), Q)
    BY <1>4 DEF coarse
  <2>4. R = SentTo(Q, phi, Len(fine))
    BY <1>7 DEF SentTo, n
  <2>5. Divided(left, fine, m, phi, LeftRow, PartRows)
    BY <1>1
  <2>6. fine[f[g]].key = coarse[c[g]].key
    BY <1>7
  <2> HIDE DEF a, z, R, Q
  <2>7. a.sum = z.sum /\ (ValuedIn(fine, R) # {} <=> ValuedIn(Column("sum"), Q) # {})
    <3> DEFINE col == Column("sum")
    <3>1. /\ Input(col) /\ Len(col) = m
          /\ HasTotals(col, left, PartRows, m)
      BY <1>2, <1>3 DEF HasTotals
    <3> HIDE DEF col
    <3>2. /\ TotalIn(fine, ValuedIn(fine, R)) = TotalIn(col, ValuedIn(col, Q))
          /\ ValuedIn(fine, R) # {} <=> ValuedIn(col, Q) # {}
      BY <2>3, <2>4, <2>5, <3>1, SumsCombine
    <3> QED
      BY <2>2, <2>3, <3>2 DEF col
  <2>8. a.saw = z.saw
    BY <2>2, <2>3, <2>7
  <2>9. a.count = z.count
    <3> DEFINE col == Column("count")
    <3>1. /\ Input(col) /\ Len(col) = m
          /\ \A q \in 1..m : col[q].val = Cardinality(ValuedIn(left, PartRows[q]))
      BY <1>2, <1>3
    <3> HIDE DEF col
    <3>2. Cardinality(ValuedIn(fine, R)) = TotalIn(col, ValuedIn(col, Q))
      BY <2>3, <2>4, <2>5, <3>1, CountsCombine
    <3> QED
      BY <2>2, <2>3, <3>2 DEF col
  <2>10. a.rows = z.rows
    <3> DEFINE col == Column("rows")
    <3>1. /\ Input(col) /\ Len(col) = m
          /\ \A q \in 1..m : col[q].val = Cardinality(PartRows[q])
      BY <1>2, <1>3
    <3> HIDE DEF col
    <3>2. Cardinality(R) = TotalIn(col, ValuedIn(col, Q))
      BY <2>3, <2>4, <2>5, <3>1, RowsCombine
    <3> QED
      BY <2>2, <2>3, <3>2 DEF col
  <2>11. ValueAt(fine, a.least) = Value("least", z.least)
    <3> DEFINE col == Column("least")
    <3>1. /\ Input(col) /\ Len(col) = m
          /\ \A q \in 1..m : col[q].val = ValueAt(left, LeastIn(left, PartRows[q]))
      BY <1>2, <1>3
    <3>2. Value("least", z.least) = ValueAt(col, z.least)
      BY DEF Value, ValueAt
    <3> HIDE DEF col
    <3>3. ValueAt(fine, LeastIn(fine, R)) = ValueAt(col, LeastIn(col, Q))
      BY <2>3, <2>4, <2>5, <3>1, LeastsCombine
    <3> QED
      BY <2>2, <2>3, <3>2, <3>3 DEF col
  <2>12. ValueAt(fine, a.greatest) = Value("greatest", z.greatest)
    <3> DEFINE col == Column("greatest")
    <3>1. /\ Input(col) /\ Len(col) = m
          /\ \A q \in 1..m : col[q].val = ValueAt(left, GreatestIn(left, PartRows[q]))
      BY <1>2, <1>3
    <3>2. Value("greatest", z.greatest) = ValueAt(col, z.greatest)
      BY DEF Value, ValueAt
    <3> HIDE DEF col
    <3>3. ValueAt(fine, GreatestIn(fine, R)) = ValueAt(col, GreatestIn(col, Q))
      BY <2>3, <2>4, <2>5, <3>1, GreatestsCombine
    <3> QED
      BY <2>2, <2>3, <3>2, <3>3 DEF col
  <2>13. fine[a.first].key = Column("sum")[z.first].key
    BY <2>2, <2>3, <2>6 DEF coarse
  <2>14. J!Seen(fine, a) = Seen(z)
    BY <2>7, <2>8, <2>9, <2>10, <2>11, <2>12, <2>13 DEF J!Seen, Seen, ValueAt
  <2> QED
    BY <2>1, <2>7, <2>8, <2>9, <2>10, <2>14 DEF Agree, z, fine
<1>10. Len(GroupsIn(fine)) = Len(c)
  BY <1>4, <1>7, <1>8
<1> QED
  BY <1>4, <1>9, <1>10 DEF fine

\* Groups are selected in the same way.
LEMMA SameSelected ==
  /\ \A s, S : P!Selected(s, S) = Selected(s, S)
  /\ \A s, S : J!G!Selected(s, S) = Selected(s, S)
  /\ \A s, S : OfSum!Selected(s, S) = Selected(s, S)
BY SameAscending DEF Selected, P!Selected, J!G!Selected, OfSum!Selected

\* The SUM of group a lies outside i64.
Overflows(a) == a.saw /\ a.sum \notin -MaxInt - 1 .. MaxInt

\* HAVING keeps group a.
Keeps(a) == \/ query.having = "none"
            \/ query.having = "sum" /\ a.saw /\ a.sum >= Literal
            \/ query.having = "count" /\ a.count >= Literal

\* What the rewritten query answers, for the groups that are kept.
FinalAnswer(kept) ==
  IF (query.having = "sum" /\ OfSum!Overflows(Final)) \/ OfSum!Overflows(kept)
  THEN [status |-> "overflow", rows |-> <<>>]
  ELSE [status |-> "ok", rows |-> [i \in 1..Len(kept) |-> Seen(kept[i])]]

\* The rewritten query answers as the ordinary one does.
LEMMA AnswersAgree ==
  ASSUME AtFinal, query.having \in {"none", "sum", "count"}
  PROVE  J!Answer = FinalAnswer(OfSum!Kept(Final))
<1> DEFINE A == GroupsIn(J!Joined)
           Z == Final
           n == Len(Z)
           S == {g \in 1..n : Keeps(Z[g])}
           places == Ascending(S, n)
           KA == J!G!Kept(A)
           KZ == OfSum!Kept(Z)
<1>1. /\ Len(A) = n /\ n \in Nat
      /\ \A g \in 1..n : Agree(A[g], Z[g])
  BY GroupsAgree
<1>2. /\ \A a : J!G!Keeps(a) <=> Keeps(a)
      /\ \A a : OfSum!Keeps(a) <=> Keeps(a)
  BY DEF J!G!Keeps, OfSum!Keeps, Keeps, J!Query, Query
<1>3. /\ \A gs : J!G!Overflows(gs) <=> \E g \in 1..Len(gs) : Overflows(gs[g])
      /\ \A gs : OfSum!Overflows(gs) <=> \E g \in 1..Len(gs) : Overflows(gs[g])
  BY DEF J!G!Overflows, OfSum!Overflows, Overflows, J!G!I64, OfSum!I64
<1>4. J!G!Groups(1..Len(J!Joined)) = A
  BY JoinedGroups
<1> HIDE DEF A, Z
<1>5. \A g \in 1..n : /\ Keeps(A[g]) <=> Keeps(Z[g])
                      /\ Overflows(A[g]) <=> Overflows(Z[g])
                      /\ J!Seen(J!Joined, A[g]) = Seen(Z[g])
  BY <1>1 DEF Agree, Keeps, Overflows
<1>6. {g \in 1..Len(A) : J!G!Keeps(A[g])} = S /\ {g \in 1..Len(Z) : OfSum!Keeps(Z[g])} = S
  BY <1>1, <1>2, <1>5
<1>7. KA = Selected(A, S) /\ KZ = Selected(Z, S)
  BY <1>6, SameSelected DEF J!G!Kept, OfSum!Kept
<1>8. /\ KA = [k \in 1..Len(places) |-> A[places[k]]]
      /\ KZ = [k \in 1..Len(places) |-> Z[places[k]]]
  BY <1>1, <1>7 DEF Selected
<1>9. Len(places) \in Nat /\ \A k \in 1..Len(places) : places[k] \in 1..n
  <2>1. S \cap 1..n = S
    OBVIOUS
  <2> HIDE DEF S, n
  <2>2. Lists(Ascending(S, n), S \cap 1..n)
    BY <1>1, AscendingLists
  <2>3. S \subseteq 1..n
    BY DEF S
  <2> QED
    BY <2>1, <2>2, <2>3 DEF Lists
<1> HIDE DEF places, KA, KZ, S
<1>10. /\ Len(KA) = Len(places) /\ Len(KZ) = Len(places)
       /\ \A k \in 1..Len(places) : KA[k] = A[places[k]] /\ KZ[k] = Z[places[k]]
  BY <1>8, <1>9
<1>11. J!G!Overflows(A) <=> OfSum!Overflows(Z)
  BY <1>1, <1>3, <1>5
<1>12. J!G!Overflows(KA) <=> OfSum!Overflows(KZ)
  <2>1. \A k \in 1..Len(places) : Overflows(KA[k]) <=> Overflows(KZ[k])
    BY <1>5, <1>9, <1>10
  <2>2. J!G!Overflows(KA) <=> \E k \in 1..Len(places) : Overflows(KA[k])
    BY <1>3, <1>10
  <2>3. OfSum!Overflows(KZ) <=> \E k \in 1..Len(places) : Overflows(KZ[k])
    BY <1>3, <1>10
  <2> QED
    BY <2>1, <2>2, <2>3
<1>13. \A k \in 1..Len(places) : J!Seen(J!Joined, KA[k]) = Seen(KZ[k])
  BY <1>5, <1>9, <1>10
<1> DEFINE over == (query.having = "sum" /\ OfSum!Overflows(Z)) \/ OfSum!Overflows(KZ)
<1>14. J!G!Answer = IF over THEN [status |-> "overflow", rows |-> <<>>]
                    ELSE [status |-> "ok", rows |-> KA]
  BY <1>4, <1>11, <1>12 DEF J!G!Answer, J!Query, KA
<1>15. FinalAnswer(KZ) = IF over THEN [status |-> "overflow", rows |-> <<>>]
                         ELSE [status |-> "ok", rows |-> [i \in 1..Len(KZ) |-> Seen(KZ[i])]]
  BY DEF FinalAnswer, Z
<1> HIDE DEF over
<1>16. CASE over
  <2>1. J!G!Answer.status = "overflow" /\ J!G!Answer.rows = <<>>
    BY <1>14, <1>16
  <2>2. J!Answer = [status |-> "overflow", rows |-> [i \in 1..Len(<<>>) |-> J!Seen(J!Joined, <<>>[i])]]
    BY <2>1 DEF J!Answer
  <2>3. [i \in 1..Len(<<>>) |-> J!Seen(J!Joined, <<>>[i])] = <<>>
    OBVIOUS
  <2> QED
    BY <1>15, <1>16, <2>2, <2>3 DEF KZ, Z
<1>17. CASE ~over
  <2>1. J!G!Answer.status = "ok" /\ J!G!Answer.rows = KA
    BY <1>14, <1>17
  <2>2. J!Answer = [status |-> "ok", rows |-> [i \in 1..Len(KA) |-> J!Seen(J!Joined, KA[i])]]
    BY <2>1 DEF J!Answer
  <2>3. [i \in 1..Len(KA) |-> J!Seen(J!Joined, KA[i])] = [i \in 1..Len(KZ) |-> Seen(KZ[i])]
    BY <1>10, <1>13
  <2> QED
    BY <1>15, <1>17, <2>2, <2>3 DEF KZ, Z
<1> QED
  BY <1>16, <1>17

-----------------------------------------------------------------------------
\* The steps of the plan.

\* The tables and the query.
Given ==
  /\ left \in Tables(LeftRows, MaxLeft)
  /\ right \in Tables(RightRows, MaxRight)
  /\ query \in [kind : Kinds, having : {"none", "sum", "count"}]

\* The SUM of every group can be given as an i64.
Fits(groups) == \A g \in 1..Len(groups) : ~Overflows(groups[g])

\* Which operators have run, and what they gave.
Progress ==
  /\ phase \in {"plan", "partial", "join", "final", "done"}
  /\ phase \in {"plan", "partial"} => partial = <<>>
  /\ phase \in {"plan", "partial", "join"} => pairs = <<>>
  /\ phase # "done" => outcome = J!Pending
  /\ phase \in {"partial", "join", "final"} => query.kind = "inner"
  /\ phase \in {"join", "final"} => partial = GroupsIn(left) /\ Fits(partial)
  /\ phase = "final" => IsJoin(pairs, GroupKeys, RightKeys, Len(partial))

PInv == Given /\ TypeOK /\ Progress

\* The tables are inputs.
LEMMA TablesAre ==
  ASSUME Given
  PROVE  /\ Input(left) /\ Len(left) \in 0..MaxLeft /\ Len(right) \in Nat
         /\ query.kind \in Kinds /\ query.having \in {"none", "sum", "count"}
<1>1. MaxLeft \in Nat /\ MaxRight \in Nat /\ Vals \subseteq Int
  BY PushdownAssumption
<1>2. PICK n \in 0..MaxLeft : left \in [1..n -> LeftRows]
  BY DEF Given, Tables
<1>3. PICK m \in 0..MaxRight : right \in [1..m -> RightRows]
  BY DEF Given, Tables
<1>4. n \in Nat /\ m \in Nat
  BY <1>1
<1>5. Len(left) = n /\ Len(right) = m /\ DOMAIN left = 1..n
  BY <1>2, <1>3, <1>4
<1>6. \A i \in 1..n : left[i].val \in Int \cup {Null}
  BY <1>1, <1>2 DEF LeftRows
<1>7. query.kind \in Kinds /\ query.having \in {"none", "sum", "count"}
  BY DEF Given
<1> QED
  BY <1>4, <1>5, <1>6, <1>7 DEF Input

\* The partial aggregate fails when the SUM of a join key does.
LEMMA PartialAnswer ==
  ASSUME Given
  PROVE  /\ J!KeyOverflows <=> ~Fits(GroupsIn(left))
         /\ P!Answer = IF Fits(GroupsIn(left)) THEN [status |-> "ok", rows |-> GroupsIn(left)]
                       ELSE [status |-> "overflow", rows |-> <<>>]
<1> DEFINE gs == GroupsIn(left)
<1>1. J!L!Groups(1..Len(left)) = gs /\ P!Groups(1..Len(left)) = gs
  BY KeyGroups, PartialGroups
<1>2. /\ \A s : J!L!Overflows(s) <=> ~Fits(s)
      /\ \A s : P!Overflows(s) <=> ~Fits(s)
  BY DEF J!L!Overflows, P!Overflows, Fits, Overflows, J!L!I64, P!I64
<1>3. \A g : P!Keeps(g)
  BY DEF P!Keeps
<1>4. Len(gs) \in Nat /\ gs \in Seq({gs[g] : g \in 1..Len(gs)})
  <2> DEFINE f == FirstRows(left)
  <2>1. Len(f) \in Nat
    BY TablesAre, FirstRowFacts DEF Input
  <2>2. gs = [g \in 1..Len(f) |-> GroupIn(left, f[g], SameIn(left, f[g]))]
    BY DEF GroupsIn
  <2> HIDE DEF f
  <2> QED
    BY <2>1, <2>2
<1> HIDE DEF gs
<1>5. {g \in 1..Len(gs) : P!Keeps(gs[g])} = 1..Len(gs)
  BY <1>3
<1>6. P!Kept(gs) = gs
  <2> DEFINE X == {gs[g] : g \in 1..Len(gs)}
             S == 1..Len(gs)
  <2>1. gs \in Seq(X) /\ S \in SUBSET (1..Len(gs)) /\ S = 1..Len(gs)
    BY <1>4
  <2>2. P!Kept(gs) = Selected(gs, S)
    BY <1>5, SameSelected DEF P!Kept
  <2> HIDE DEF X, S
  <2>3. Selected(gs, S) = gs
    BY ONLY <2>1, SelectedIs
  <2> QED
    BY <2>2, <2>3
<1>7. J!KeyOverflows <=> ~Fits(gs)
  BY <1>1, <1>2 DEF J!KeyOverflows
<1>8. P!Answer = IF Fits(gs) THEN [status |-> "ok", rows |-> gs]
                 ELSE [status |-> "overflow", rows |-> <<>>]
  BY <1>1, <1>2, <1>6 DEF P!Answer
<1> QED
  BY <1>7, <1>8 DEF gs

\* The SUM of no values is 0.
LEMMA TotalOfNone ==
  ASSUME NEW in, Input(in), NEW R \in SUBSET (1..Len(in)), ValuedIn(in, R) = {}
  PROVE  TotalIn(in, ValuedIn(in, R)) = 0
<1> DEFINE n == Len(in)
           w == Values(in, R)
<1>1. n \in Nat /\ w \in [1..n -> Int]
  BY ValuesAre DEF Input
<1>2. \A i \in 1..n : w[i] = 0
  BY DEF Values
<1>3. TotalIn(in, ValuedIn(in, R)) = Sigma(w, n)
  BY TotalIs
<1> HIDE DEF n, w
<1>4. Sigma(w, n) = 0
  BY <1>1, <1>2, SigmaOfNone
<1> QED
  BY <1>3, <1>4

\* What the groups of the partial aggregate may be.
PartialRecords == [first : 1..MaxLeft, sum : P!I64, saw : BOOLEAN, count : 0..MaxLeft,
                   rows : 1..MaxLeft, least : 0..MaxLeft, greatest : 0..MaxLeft]

\* When no SUM lies outside i64, the partial aggregate gives such groups.
LEMMA PartialType ==
  ASSUME Given, Fits(GroupsIn(left))
  PROVE  GroupsIn(left) \in Seq(PartialRecords) /\ Len(GroupsIn(left)) \in Nat
<1> DEFINE n == Len(left)
           f == FirstRows(left)
<1>1. Input(left) /\ n \in 0..MaxLeft /\ n \in Nat /\ MaxLeft \in Nat /\ MaxInt \in Nat
  BY TablesAre, PushdownAssumption DEF Input
<1>2. Len(f) \in Nat /\ \A g \in 1..Len(f) : f[g] \in 1..n
  BY <1>1, FirstRowFacts
<1>3. GroupsIn(left) = [g \in 1..Len(f) |-> GroupIn(left, f[g], SameIn(left, f[g]))]
  BY DEF GroupsIn
<1> HIDE DEF f
<1>4. ASSUME NEW g \in 1..Len(f)
      PROVE  GroupIn(left, f[g], SameIn(left, f[g])) \in PartialRecords
  <2> DEFINE R == SameIn(left, f[g])
             V == ValuedIn(left, R)
             sum == TotalIn(left, V)
             a == GroupIn(left, f[g], R)
  <2>1. R \in SUBSET (1..n) /\ f[g] \in R /\ f[g] \in 1..n
    BY <1>2 DEF SameIn
  <2>2. ~Overflows(a)
    BY <1>2, <1>3 DEF Fits
  <2> HIDE DEF R
  <2>3. a.sum = sum /\ a.saw = (V # {})
    BY GroupFields
  <2>4. /\ sum \in Int /\ Cardinality(V) \in 0..n /\ Cardinality(R) \in 0..n /\ Cardinality(R) # 0
        /\ LeastIn(left, R) \in 0..n /\ GreatestIn(left, R) \in 0..n
    BY <1>1, <2>1, AggregatesType
  <2>5. V = {} => sum = 0
    BY <1>1, <2>1, TotalOfNone
  <2>6. sum \in P!I64
    <3>1. V # {} => sum \in -MaxInt - 1 .. MaxInt
      BY <2>2, <2>3 DEF Overflows
    <3>2. 0 \in -MaxInt - 1 .. MaxInt
      BY <1>1
    <3> HIDE DEF sum, V
    <3> QED
      BY <2>5, <3>1, <3>2 DEF P!I64
  <2> DEFINE count == Cardinality(V)
             rows == Cardinality(R)
             least == LeastIn(left, R)
             greatest == GreatestIn(left, R)
             saw == V # {}
             first == f[g]
  <2>7. a = [first |-> first, sum |-> sum, saw |-> saw, count |-> count, rows |-> rows,
             least |-> least, greatest |-> greatest]
    BY DEF GroupIn
  <2>8. /\ first \in 1..MaxLeft /\ count \in 0..MaxLeft /\ rows \in 1..MaxLeft
        /\ least \in 0..MaxLeft /\ greatest \in 0..MaxLeft /\ saw \in BOOLEAN
    <3>1. \A i \in 0..n : i \in 0..MaxLeft /\ (i # 0 => i \in 1..MaxLeft)
      BY <1>1
    <3>2. first \in 0..n /\ first # 0
      BY <1>1, <2>1
    <3>3. saw \in BOOLEAN
      OBVIOUS
    <3> HIDE DEF first, count, rows, least, greatest, saw
    <3> QED
      BY <2>4, <3>1, <3>2, <3>3 DEF count, rows, least, greatest
  <2> HIDE DEF a, first, count, rows, least, greatest, saw, sum
  <2>9. a \in PartialRecords
    BY <2>6, <2>7, <2>8 DEF PartialRecords
  <2> QED
    BY <2>9 DEF a, R
<1> QED
  BY <1>2, <1>3, <1>4

\* An answer of the ordinary plan has a status and rows.
LEMMA AnswerType ==
  /\ J!Answer = [status |-> J!Answer.status, rows |-> J!Answer.rows]
  /\ J!Answer.status \in {"ok", "overflow"}
<1>1. J!G!Answer.status \in {"ok", "overflow"}
  BY DEF J!G!Answer
<1>2. J!Answer.status = J!G!Answer.status
  BY DEF J!Answer
<1>3. J!Answer = [status |-> J!Answer.status, rows |-> J!Answer.rows]
  BY DEF J!Answer
<1> QED
  BY <1>1, <1>2, <1>3

\* The invariant holds initially.
LEMMA InitPInv == Init => PInv
<1> SUFFICES ASSUME Init PROVE PInv
  OBVIOUS
<1>1. Given
  BY DEF Init, Given
<1>2. TypeOK
  BY DEF Init, TypeOK, J!Pending
<1>3. Progress
  BY DEF Init, Progress
<1> QED
  BY <1>1, <1>2, <1>3 DEF PInv

\* The tables and the query stay as they are.
LEMMA GivenStays ==
  ASSUME Given, UNCHANGED given
  PROVE  Given'
BY DEF Given, given, Tables, LeftRows, RightRows

\* The query is planned: nothing has run yet.
LEMMA PlanStep ==
  ASSUME PInv, PlanPushdown
  PROVE  PInv' /\ UNCHANGED <<left, right, query, outcome>>
<1>1. Given'
  BY GivenStays DEF PInv, PlanPushdown
<1>2. TypeOK'
  BY DEF PInv, TypeOK, PlanPushdown, given
<1>3. Progress'
  BY DEF PInv, Progress, PlanPushdown, given
<1> QED
  BY <1>1, <1>2, <1>3 DEF PInv, PlanPushdown, given

\* The ordinary plan answers what it answers.
LEMMA JoinFirstStep ==
  ASSUME PInv, JoinFirst
  PROVE  PInv' /\ J!Execute
<1>1. Given'
  BY GivenStays DEF PInv, JoinFirst
<1>2. outcome' = J!Answer /\ phase' = "done" /\ UNCHANGED <<left, right, query, partial, pairs>>
  BY AnswerType DEF JoinFirst, Answer, given
<1>3. TypeOK'
  BY <1>2, AnswerType DEF PInv, TypeOK
<1>4. Progress'
  BY <1>2 DEF Progress
<1>5. J!Execute
  BY <1>2 DEF J!Execute, PInv, Progress, JoinFirst
<1> QED
  BY <1>1, <1>3, <1>4, <1>5 DEF PInv

\* The partial aggregate: it fails only because of a join key's SUM.
LEMMA AggregateLeftStep ==
  ASSUME PInv, AggregateLeft
  PROVE  PInv' /\ (J!ExecuteByKey \/ UNCHANGED <<left, right, query, outcome>>)
<1> DEFINE gs == GroupsIn(left)
<1>1. Given /\ TypeOK /\ Progress /\ phase = "partial"
  BY DEF PInv, AggregateLeft
<1>2. Given'
  BY <1>1, GivenStays DEF AggregateLeft
<1>3. UNCHANGED <<left, right, query, pairs>>
  BY DEF AggregateLeft, given
<1>4. pairs = <<>> /\ partial = <<>> /\ query.kind = "inner" /\ outcome = J!Pending
  BY <1>1 DEF Progress
<1>5. /\ J!KeyOverflows <=> ~Fits(gs)
      /\ P!Answer = IF Fits(gs) THEN [status |-> "ok", rows |-> gs]
                    ELSE [status |-> "overflow", rows |-> <<>>]
  BY <1>1, PartialAnswer
<1>6. CASE Fits(gs)
  <2>1. P!Answer.status = "ok" /\ P!Answer.rows = gs
    BY <1>5, <1>6
  <2>2. partial' = gs /\ phase' = "join" /\ outcome' = outcome
    BY <2>1 DEF AggregateLeft
  <2>3. gs \in Seq(PartialRecords) /\ Len(gs) \in Nat
    BY <1>1, <1>6, PartialType
  <2> HIDE DEF gs
  <2>4. TypeOK'
    BY <1>1, <1>3, <1>4, <2>2, <2>3 DEF TypeOK, PartialRecords
  <2>5. Progress'
    BY <1>3, <1>4, <1>6, <2>2 DEF Progress, gs
  <2> QED
    BY <1>2, <1>3, <2>2, <2>4, <2>5 DEF PInv
<1>7. CASE ~Fits(gs)
  <2>1. P!Answer.status = "overflow"
    BY <1>5, <1>7
  <2>2. partial' = partial /\ phase' = "done" /\ outcome' = [status |-> "overflow", rows |-> <<>>]
    BY <2>1 DEF AggregateLeft, Answer
  <2>3. TypeOK'
    BY <1>1, <1>3, <2>2 DEF TypeOK
  <2>4. Progress'
    BY <2>2 DEF Progress
  <2>5. J!ExecuteByKey
    BY <1>3, <1>4, <1>5, <1>7, <2>2 DEF J!ExecuteByKey
  <2> QED
    BY <1>2, <2>3, <2>4, <2>5 DEF PInv
<1> QED
  BY <1>6, <1>7

\* The partials are joined with the right table.
LEMMA JoinPartialsStep ==
  ASSUME PInv, JoinPartials
  PROVE  PInv' /\ UNCHANGED <<left, right, query, outcome>>
<1>1. Given /\ TypeOK /\ Progress /\ phase = "join"
  BY DEF PInv, JoinPartials
<1>2. Given'
  BY <1>1, GivenStays DEF JoinPartials
<1>3. /\ UNCHANGED <<left, right, query, partial, outcome>>
      /\ pairs' = PJ!Answer /\ phase' = "final"
  BY DEF JoinPartials, given
<1>4. /\ query.kind = "inner" /\ outcome = J!Pending
      /\ partial = GroupsIn(left) /\ Fits(partial)
  BY <1>1 DEF Progress
<1>5. Len(right) \in Nat /\ Len(RightKeys) = Len(right) /\ Len(partial) \in Nat
  BY <1>1, <1>4, TablesAre, PartialType DEF RightKeys
<1>6. PJ!Answer = JoinIn(GroupKeys, RightKeys, Len(partial))
  BY <1>4, <1>5, PartialsJoined
<1>7. IsJoin(PJ!Answer, GroupKeys, RightKeys, Len(partial))
  BY <1>5, <1>6, JoinIs
<1>8. PJ!Answer \in Seq((1..Len(partial)) \X (1..Len(right)))
  BY <1>5, <1>7 DEF IsJoin
<1>9. GroupKeys' = GroupKeys /\ RightKeys' = RightKeys
  BY <1>3 DEF GroupKeys, RightKeys
<1>10. TypeOK'
  BY <1>1, <1>3, <1>8 DEF TypeOK
<1>11. IsJoin(pairs', GroupKeys', RightKeys', Len(partial'))
  BY <1>3, <1>7, <1>9
<1>12. Progress'
  BY <1>3, <1>4, <1>11 DEF Progress
<1> QED
  BY <1>2, <1>3, <1>10, <1>12 DEF PInv

\* The joined partials are aggregated: the answer is that of the ordinary plan.
LEMMA AggregateJoinedStep ==
  ASSUME PInv, AggregateJoined
  PROVE  PInv' /\ J!Execute
<1>1. Given /\ TypeOK /\ Progress /\ phase = "final"
  BY DEF PInv, AggregateJoined
<1>2. Given'
  BY <1>1, GivenStays DEF AggregateJoined
<1>3. UNCHANGED <<left, right, query, partial, pairs>>
  BY DEF AggregateJoined, given
<1>4. phase' = "done" /\ outcome' = FinalAnswer(OfSum!Kept(Final))
  BY DEF AggregateJoined, Answer, FinalAnswer
<1>5. AtFinal /\ query.having \in {"none", "sum", "count"} /\ outcome = J!Pending
  BY <1>1, TablesAre DEF Progress, AtFinal
<1>6. outcome' = J!Answer
  BY <1>4, <1>5, AnswersAgree
<1>7. TypeOK'
  BY <1>1, <1>3, <1>4, <1>6, AnswerType DEF TypeOK
<1>8. Progress'
  BY <1>4 DEF Progress
<1>9. J!Execute
  BY <1>3, <1>5, <1>6 DEF J!Execute
<1> QED
  BY <1>2, <1>7, <1>8, <1>9 DEF PInv

\* Every step keeps the invariant, and is a step of the ordinary query or none.
LEMMA NextPInv ==
  ASSUME PInv, [Next]_vars
  PROVE  PInv' /\ [J!Execute \/ J!ExecuteByKey]_<<left, right, query, outcome>>
<1>1. CASE PlanPushdown
  BY <1>1, PlanStep
<1>2. CASE JoinFirst
  BY <1>2, JoinFirstStep
<1>3. CASE AggregateLeft
  BY <1>3, AggregateLeftStep
<1>4. CASE JoinPartials
  BY <1>4, JoinPartialsStep
<1>5. CASE AggregateJoined
  BY <1>5, AggregateJoinedStep
<1>6. CASE UNCHANGED vars
  <2>1. UNCHANGED <<left, right, query, phase, partial, pairs, outcome>>
    BY <1>6 DEF vars, given
  <2>2. Given'
    BY <1>6, GivenStays DEF vars, PInv
  <2>3. TypeOK'
    BY <2>1 DEF PInv, TypeOK
  <2>4. GroupKeys' = GroupKeys /\ RightKeys' = RightKeys
    BY <2>1 DEF GroupKeys, RightKeys
  <2>5. Progress'
    BY <2>1, <2>4 DEF PInv, Progress
  <2> QED
    BY <2>1, <2>2, <2>3, <2>5 DEF PInv
<1> QED
  BY <1>1, <1>2, <1>3, <1>4, <1>5, <1>6 DEF Next, Done

\* The invariant holds in every state.
LEMMA PInvHolds == Spec => []PInv
<1>1. Init => PInv
  BY InitPInv
<1>2. PInv /\ [Next]_vars => PInv'
  BY NextPInv
<1> QED
  BY <1>1, <1>2, PTL DEF Spec

\* The joined partials name a group and a right row each, and every variable keeps its
\* type.
THEOREM PushdownTypeOK == Spec => []TypeOK
<1>1. PInv => TypeOK
  BY DEF PInv
<1> QED
  BY <1>1, PInvHolds, PTL

\* The rewritten query answers what the ordinary plan answers, for any tables, but that the
\* SUM of one join key may end it.
THEOREM PushdownImplementsGroupedJoin == Spec => ImplementsGroupedJoin
<1>1. Init => J!Init
  BY DEF Init, J!Init
<1>2. PInv /\ [Next]_vars => [J!Execute \/ J!ExecuteByKey]_<<left, right, query, outcome>>
  BY NextPInv
<1> QED
  BY <1>1, <1>2, PInvHolds, PTL DEF Spec, ImplementsGroupedJoin, J!Spec
=============================================================================
