----------------------------- MODULE Induction -----------------------------
(***************************************************************************)
(* Induction over the natural numbers and over recursive functions, stated *)
(* with sets and functions in the place of predicates and operators, so    *)
(* that the facts can be used by name; and what it gives for FlattenSeq,   *)
(* with which the models put sequences together, for the places in a set,  *)
(* in order, and for how rows are shared out (module Segments).            *)
(***************************************************************************)
EXTENDS Segments, FiniteSetTheorems, SequenceTheorems, WellFoundedInduction, TLAPS

\* A set of naturals that is not empty has a least element: the intervals that end
\* in its elements are finite, and one of them holds no other.
LEMMA LeastNatural ==
  ASSUME NEW T \in SUBSET Nat, T # {}
  PROVE  \E t \in T : \A u \in T : t <= u
<1> DEFINE C == {0..t : t \in T}
<1>1. C \subseteq FiniteSubsetsOf(Nat) /\ C # {}
  <2>1. \A t \in T : 0..t \in SUBSET Nat /\ IsFiniteSet(0..t)
    BY FS_Interval
  <2> QED
    BY <2>1 DEF FiniteSubsetsOf
<1>2. PICK I \in C : \A J \in C : <<J, I>> \notin StrictSubsetOrdering(Nat)
  <2> HIDE DEF C
  <2> QED
    BY <1>1, FS_StrictSubsetOrderingWellFounded, WFMin
<1>3. PICK t \in T : I = 0..t
  BY <1>2
<1>4. ASSUME NEW u \in T, u < t
      PROVE  FALSE
  <2>1. 0..u \in C /\ t \in Nat /\ u \in Nat
    OBVIOUS
  <2>2. 0..u \subseteq 0..t /\ 0..u # 0..t
    <3>1. t \in 0..t /\ t \notin 0..u
      BY <1>4, <2>1
    <3> QED
      BY <1>4, <2>1, <3>1
  <2>3. <<0..u, 0..t>> \in StrictSubsetOrdering(Nat)
    BY <2>1, <2>2 DEF StrictSubsetOrdering
  <2> QED
    BY <1>2, <1>3, <2>1, <2>3
<1> QED
  BY <1>4

\* From m to n, each number of T has its successor in T.  A name, so that the provers
\* match the induction rule with its uses.
Inductive(T, m, n) == \A i \in m..(n - 1) : i \in T => i + 1 \in T

\* Induction from m to n.
LEMMA IntervalInduction ==
  ASSUME NEW m \in Int, NEW n \in Int, NEW T, m \in T, Inductive(T, m, n)
  PROVE  \A i \in m..n : i \in T
<1> DEFINE U == {d \in Nat : m + d \in m..n /\ m + d \notin T}
<1> SUFFICES ASSUME NEW i \in m..n, i \notin T PROVE FALSE
  OBVIOUS
<1>1. i - m \in U
  OBVIOUS
<1>2. PICK d \in U : \A e \in U : d <= e
  <2> HIDE DEF U
  <2>1. U # {}
    BY <1>1
  <2>2. U \in SUBSET Nat
    BY DEF U
  <2> QED
    BY <2>1, <2>2, LeastNatural
<1>3. d # 0
  OBVIOUS
<1>4. d - 1 \notin U /\ d - 1 \in Nat
  BY <1>2, <1>3
<1>5. m + (d - 1) \in m..(n - 1) /\ (m + (d - 1)) + 1 = m + d
  BY <1>3
<1>6. m + (d - 1) \in T
  BY <1>4, <1>5
<1> QED
  BY <1>5, <1>6 DEF Inductive

\* f starts with `first`, and each step leads to the next value up to n.
Follows(f, n, first, Step) == f[0] = first /\ \A i \in 1..n : f[i] = Step[i][f[i - 1]]

\* A function is defined on 0..n by its first value and by how each value follows from
\* the one before.
LEMMA Recursion ==
  ASSUME NEW n \in Nat, NEW X, NEW first \in X, NEW Step \in [1..n -> [X -> X]]
  PROVE  \E f \in [0..n -> X] : Follows(f, n, first, Step)
<1> DEFINE Defines(f, m) == f[0] = first /\ \A i \in 1..m : f[i] = Step[i][f[i - 1]]
           T == {m \in 0..n : \E f \in [0..m -> X] : Defines(f, m)}
<1>1. 0 \in T
  <2> DEFINE g == [i \in 0..0 |-> first]
  <2>1. g \in [0..0 -> X] /\ Defines(g, 0)
    OBVIOUS
  <2> HIDE DEF g
  <2> QED
    BY <2>1
<1>2. ASSUME NEW m \in 0..(n - 1), m \in T
      PROVE  m + 1 \in T
  <2>1. PICK f \in [0..m -> X] : Defines(f, m)
    BY <1>2
  <2> DEFINE g == [i \in 0..(m + 1) |-> IF i = m + 1 THEN Step[m + 1][f[m]] ELSE f[i]]
  <2>2. Step[m + 1] \in [X -> X] /\ f[m] \in X
    OBVIOUS
  <2>3. g \in [0..(m + 1) -> X]
    BY <2>2
  <2>4. ASSUME NEW i \in 1..(m + 1)
        PROVE  g[i] = Step[i][g[i - 1]]
    <3>1. g[i - 1] = f[i - 1]
      OBVIOUS
    <3>2. CASE i = m + 1
      BY <3>1, <3>2
    <3>3. CASE i # m + 1
      BY <2>1, <3>1, <3>3
    <3> QED
      BY <3>2, <3>3
  <2>5. g[0] = first
    BY <2>1
  <2> HIDE DEF g
  <2>6. Defines(g, m + 1)
    BY <2>4, <2>5
  <2>7. m + 1 \in 0..n
    OBVIOUS
  <2> QED
    BY <2>3, <2>6, <2>7
<1>3. \A m \in 0..n : m \in T
  <2> HIDE DEF T
  <2>1. Inductive(T, 0, n)
    BY <1>2 DEF Inductive
  <2> QED
    BY <1>1, <2>1, IntervalInduction
<1>4. n \in T
  BY <1>3
<1> QED
  BY <1>4 DEF Follows

-----------------------------------------------------------------------------
\* FlattenSeq.

\* c[i] is the first i sequences of ss put together.
Flattens(c, ss, X) ==
  /\ c \in [0..Len(ss) -> Seq(X)]
  /\ c[0] = <<>>
  /\ \A i \in 1..Len(ss) : c[i] = c[i - 1] \o ss[i]

\* FlattenSeq's recursion is well-founded, and puts all of them together.
LEMMA FlattenIs ==
  ASSUME NEW X, NEW ss \in Seq(Seq(X))
  PROVE  \E c : Flattens(c, ss, X) /\ FlattenSeq(ss) = c[Len(ss)]
<1> DEFINE n == Len(ss)
           Y == Seq(X)
           Step == [i \in 1..n |-> [y \in Y |-> y \o ss[i]]]
           Body(f) == [i \in 1..n |-> IF i = 1 THEN ss[i] ELSE f[i - 1] \o ss[i]]
           flat == CHOOSE f : f = Body(f)
<1>1. n \in Nat /\ <<>> \in Y /\ \A i \in 1..n : ss[i] \in Y
  OBVIOUS
<1>2. Step \in [1..n -> [Y -> Y]]
  BY <1>1
<1>3. PICK c \in [0..n -> Y] : c[0] = <<>> /\ \A i \in 1..n : c[i] = Step[i][c[i - 1]]
  <2> HIDE DEF n, Y, Step
  <2>1. \E c \in [0..n -> Y] : Follows(c, n, <<>>, Step)
    BY <1>1, <1>2, Recursion
  <2> QED
    BY <2>1 DEF Follows
<1>4. ASSUME NEW i \in 1..n
      PROVE  i - 1 \in 0..n /\ c[i] = c[i - 1] \o ss[i]
  <2>1. i - 1 \in 0..n
    BY <1>1
  <2>2. c[i - 1] \in Y
    BY <2>1
  <2>3. Step[i][c[i - 1]] = c[i - 1] \o ss[i]
    BY <2>2
  <2> HIDE DEF Step, Y, n
  <2> QED
    BY <1>3, <2>1, <2>3
<1>5. Flattens(c, ss, X)
  BY <1>3, <1>4 DEF Flattens
<1>6. CASE n = 0
  <2>1. ss = <<>> /\ FlattenSeq(ss) = ss
    BY <1>6 DEF FlattenSeq
  <2> QED
    BY <1>3, <1>5, <1>6, <2>1
<1>7. CASE n # 0
  <2> DEFINE f == [i \in 1..n |-> c[i]]
  <2>0. 1 \in 1..n /\ c[1] = ss[1]
    <3>1. 1 \in 1..n /\ 1 - 1 = 0
      BY <1>1, <1>7
    <3>2. ss[1] \in Seq(X) /\ c[0] = <<>> /\ c[1] = c[1 - 1] \o ss[1]
      <4> HIDE DEF n, Step
      <4> QED
        BY <1>1, <1>3, <1>4, <3>1
    <3>3. <<>> \o ss[1] = ss[1]
      BY <3>2, ConcatEmptySeq
    <3> HIDE DEF n, Step
    <3> QED
      BY <3>1, <3>2, <3>3
  <2>1. ASSUME NEW i \in 1..n
        PROVE  f[i] = IF i = 1 THEN ss[i] ELSE f[i - 1] \o ss[i]
    <3>1. CASE i = 1
      BY <2>0, <3>1
    <3>2. CASE i # 1
      <4>1. i - 1 \in 1..n
        BY <1>1, <3>2
      <4> QED
        BY <1>4, <3>2, <4>1
    <3> QED
      BY <3>1, <3>2
  <2>2. f = Body(f)
    <3>1. f = [i \in 1..n |-> f[i]]
      OBVIOUS
    <3> HIDE DEF f, n
    <3> QED
      BY <2>1, <3>1
  <2>3. flat = Body(flat)
    <3> HIDE DEF Body, f
    <3> QED
      BY <2>2
  <2>4. FlattenSeq(ss) = flat[n]
    BY <1>7 DEF FlattenSeq
  <2>5. ASSUME NEW i \in 1..n
        PROVE  flat[i] = IF i = 1 THEN ss[i] ELSE flat[i - 1] \o ss[i]
    <3> HIDE DEF flat, n
    <3> QED
      BY <2>3
  <2> HIDE DEF flat, f
  <2> DEFINE T == {i \in 1..n : flat[i] = c[i]}
  <2>6. 1 \in T
    BY <2>0, <2>5
  <2>7. Inductive(T, 1, n)
    <3> SUFFICES ASSUME NEW i \in 1..(n - 1), i \in T
                 PROVE  i + 1 \in T
      BY DEF Inductive
    <3>1. i + 1 \in 1..n /\ i + 1 # 1 /\ (i + 1) - 1 = i
      BY <1>1
    <3>2. flat[i] = c[i]
      OBVIOUS
    <3>3. c[i + 1] = c[i] \o ss[i + 1] /\ flat[i + 1] = flat[i] \o ss[i + 1]
      <4> HIDE DEF n, T
      <4> QED
        BY <1>4, <2>5, <3>1
    <3> QED
      BY <3>1, <3>2, <3>3
  <2>8. n \in T
    <3>1. 1 \in Int /\ n \in Int /\ n \in 1..n
      BY <1>1, <1>7
    <3> HIDE DEF T, n
    <3> QED
      BY <2>6, <2>7, <3>1, IntervalInduction
  <2> QED
    BY <1>5, <2>4, <2>8
<1> QED
  BY <1>6, <1>7

\* The result is a sequence of the same elements.
LEMMA FlattenType ==
  ASSUME NEW X, NEW ss \in Seq(Seq(X))
  PROVE  FlattenSeq(ss) \in Seq(X)
<1>1. PICK c : Flattens(c, ss, X) /\ FlattenSeq(ss) = c[Len(ss)]
  BY FlattenIs
<1>2. Len(ss) \in 0..Len(ss)
  OBVIOUS
<1> QED
  BY <1>1, <1>2 DEF Flattens

\* Nothing is put together of no sequences.
LEMMA FlattenEmpty == FlattenSeq(<<>>) = <<>>
BY DEF FlattenSeq

\* One sequence more is put behind the others.
LEMMA FlattenLast ==
  ASSUME NEW X, NEW n \in Nat, NEW ss \in Seq(Seq(X)), NEW tt \in Seq(Seq(X)),
         Len(ss) = n, Len(tt) = n + 1, \A i \in 1..n : ss[i] = tt[i]
  PROVE  FlattenSeq(tt) = FlattenSeq(ss) \o tt[n + 1]
<1>1. PICK c : Flattens(c, ss, X) /\ FlattenSeq(ss) = c[n]
  BY FlattenIs
<1>2. PICK d : Flattens(d, tt, X) /\ FlattenSeq(tt) = d[n + 1]
  BY FlattenIs
<1> DEFINE T == {i \in 0..n : c[i] = d[i]}
<1>3. 0 \in T
  BY <1>1, <1>2 DEF Flattens
<1>4. Inductive(T, 0, n)
  <2> SUFFICES ASSUME NEW i \in 0..(n - 1), c[i] = d[i]
               PROVE  i + 1 \in 0..n /\ c[i + 1] = d[i + 1]
    BY DEF Inductive
  <2>1. i + 1 \in 0..n /\ i + 1 \in 1..n /\ i + 1 \in 1..(n + 1) /\ (i + 1) - 1 = i
    OBVIOUS
  <2> QED
    BY <1>1, <1>2, <2>1 DEF Flattens
<1>5. n \in T
  <2>1. 0 \in Int /\ n \in Int /\ n \in 0..n
    OBVIOUS
  <2> HIDE DEF T
  <2> QED
    BY <1>3, <1>4, <2>1, IntervalInduction
<1>6. n + 1 \in 1..(n + 1) /\ (n + 1) - 1 = n
  OBVIOUS
<1> QED
  BY <1>1, <1>2, <1>5, <1>6 DEF Flattens

-----------------------------------------------------------------------------
\* The places in S, in order.

\* rows are the numbers of S, in order.
Lists(rows, S) ==
  /\ rows \in Seq(Nat)
  /\ {rows[h] : h \in DOMAIN rows} = S
  /\ \A h, i \in DOMAIN rows : h < i => rows[h] < rows[i]

\* There are no places in nothing.
LEMMA AscendingEmpty == ASSUME NEW S PROVE Ascending(S, 0) = <<>>
<1>1. [i \in 1..0 |-> IF i \in S THEN <<i>> ELSE <<>>] = <<>>
  OBVIOUS
<1> QED
  BY <1>1, FlattenEmpty DEF Ascending

\* The next place is the last one, if it is in S.
LEMMA AscendingGrows ==
  ASSUME NEW S, NEW n \in Nat
  PROVE  /\ Ascending(S, n) \in Seq(Nat)
         /\ n + 1 \in S => Ascending(S, n + 1) = Append(Ascending(S, n), n + 1)
         /\ n + 1 \notin S => Ascending(S, n + 1) = Ascending(S, n)
<1> DEFINE one(i) == IF i \in S THEN <<i>> ELSE <<>>
           ss == [i \in 1..n |-> one(i)]
           tt == [i \in 1..(n + 1) |-> one(i)]
<1>1. \A i \in Nat : one(i) \in Seq(Nat)
  OBVIOUS
<1>2. \A i \in 1..n : i \in Nat /\ i \in 1..(n + 1)
  OBVIOUS
<1>3. Ascending(S, n) = FlattenSeq(ss) /\ Ascending(S, n + 1) = FlattenSeq(tt)
  BY DEF Ascending
<1>4. one(n + 1) = IF n + 1 \in S THEN <<n + 1>> ELSE <<>>
  OBVIOUS
<1> HIDE DEF one
<1>5. /\ ss \in Seq(Seq(Nat)) /\ Len(ss) = n
      /\ tt \in Seq(Seq(Nat)) /\ Len(tt) = n + 1
      /\ \A i \in 1..n : ss[i] = tt[i]
      /\ tt[n + 1] = one(n + 1)
  BY <1>1, <1>2
<1> HIDE DEF ss, tt
<1>6. FlattenSeq(tt) = FlattenSeq(ss) \o one(n + 1)
  <2>1. FlattenSeq(tt) = FlattenSeq(ss) \o tt[n + 1]
    BY ONLY n \in Nat, <1>5, FlattenLast
  <2> QED
    BY <1>5, <2>1
<1>7. FlattenSeq(ss) \in Seq(Nat)
  BY <1>5, FlattenType
<1>8. /\ FlattenSeq(ss) \o <<>> = FlattenSeq(ss)
      /\ FlattenSeq(ss) \o <<n + 1>> = Append(FlattenSeq(ss), n + 1)
  BY <1>7
<1> QED
  BY <1>3, <1>4, <1>6, <1>7, <1>8

\* All of them are there, and in order.
LEMMA AscendingLists ==
  ASSUME NEW S, NEW n \in Nat
  PROVE  Lists(Ascending(S, n), S \cap 1..n)
<1> DEFINE T == {m \in 0..n : Lists(Ascending(S, m), S \cap 1..m)}
<1>1. 0 \in T
  <2>1. Lists(<<>>, S \cap 1..0)
    BY DEF Lists
  <2> QED
    BY <2>1, AscendingEmpty
<1>2. ASSUME NEW m \in 0..(n - 1), Lists(Ascending(S, m), S \cap 1..m)
      PROVE  Lists(Ascending(S, m + 1), S \cap 1..(m + 1))
  <2> DEFINE rows == Ascending(S, m)
             more == Append(rows, m + 1)
  <2>1. m \in Nat /\ 1..(m + 1) = 1..m \cup {m + 1}
    OBVIOUS
  <2>2. /\ rows \in Seq(Nat) /\ {rows[h] : h \in DOMAIN rows} = S \cap 1..m
        /\ \A h, i \in DOMAIN rows : h < i => rows[h] < rows[i]
    BY <1>2 DEF Lists
  <2> HIDE DEF rows
  <2>3. CASE m + 1 \in S
    <3>1. /\ more \in Seq(Nat)
          /\ DOMAIN more = DOMAIN rows \cup {Len(rows) + 1}
          /\ \A h \in DOMAIN rows : more[h] = rows[h] /\ h < Len(rows) + 1 /\ h \in Nat
          /\ more[Len(rows) + 1] = m + 1 /\ Len(rows) + 1 \in Nat
      BY <2>1, <2>2
    <3> HIDE DEF more
    <3>2. {more[h] : h \in DOMAIN more} = (S \cap 1..m) \cup {m + 1}
      BY <2>2, <3>1
    <3>3. S \cap 1..(m + 1) = (S \cap 1..m) \cup {m + 1}
      BY <2>1, <2>3
    <3>4. \A h \in DOMAIN rows : rows[h] \in 1..m
      BY <2>2
    <3>5. ASSUME NEW h \in DOMAIN more, NEW i \in DOMAIN more, h < i
          PROVE  more[h] < more[i]
      <4>1. h \in DOMAIN rows
        BY <3>1, <3>5
      <4>2. CASE i = Len(rows) + 1
        BY <2>1, <3>1, <3>4, <4>1, <4>2
      <4>3. CASE i \in DOMAIN rows
        BY <2>2, <3>1, <3>5, <4>1, <4>3
      <4> QED
        BY <3>1, <4>2, <4>3
    <3>6. Lists(more, S \cap 1..(m + 1))
      BY <3>1, <3>2, <3>3, <3>5 DEF Lists
    <3> QED
      BY <2>1, <2>3, <3>6, AscendingGrows DEF more, rows
  <2>4. CASE m + 1 \notin S
    <3>1. S \cap 1..(m + 1) = S \cap 1..m
      BY <2>1, <2>4
    <3> QED
      BY <1>2, <2>1, <2>4, <3>1, AscendingGrows
  <2> QED
    BY <2>3, <2>4
<1>3. Inductive(T, 0, n)
  <2>1. \A m \in 0..(n - 1) : m \in 0..n /\ m + 1 \in 0..n
    OBVIOUS
  <2> QED
    BY <1>2, <2>1 DEF Inductive
<1> HIDE DEF T
<1>4. n \in T
  <2>1. 0 \in Int /\ n \in Int /\ n \in 0..n
    OBVIOUS
  <2> QED
    BY <1>1, <1>3, <2>1, IntervalInduction
<1> QED
  BY <1>4 DEF T

\* Only one sequence has the numbers of S in order.
LEMMA ListsUnique ==
  ASSUME NEW a, NEW b, NEW S, Lists(a, S), Lists(b, S)
  PROVE  a = b
<1>1. /\ a \in Seq(Nat) /\ {a[h] : h \in DOMAIN a} = S
      /\ \A h, i \in DOMAIN a : h < i => a[h] < a[i]
      /\ b \in Seq(Nat) /\ {b[h] : h \in DOMAIN b} = S
      /\ \A h, i \in DOMAIN b : h < i => b[h] < b[i]
  BY DEF Lists
<1>2. /\ DOMAIN a = 1..Len(a) /\ DOMAIN b = 1..Len(b) /\ Len(a) \in Nat /\ Len(b) \in Nat
      /\ \A h \in DOMAIN a : a[h] \in Nat
      /\ \A h \in DOMAIN b : b[h] \in Nat
  BY <1>1
<1> DEFINE Same(h) == h \in DOMAIN a /\ h \in DOMAIN b /\ a[h] = b[h]
           T == {h \in Nat \ {0} : (h \in DOMAIN a \/ h \in DOMAIN b) /\ ~Same(h)}
<1>3. CASE T = {}
  <2>1. \A h \in Nat \ {0} : h \in DOMAIN a <=> h \in DOMAIN b
    BY <1>3
  <2>2. Len(a) = Len(b)
    <3>1. Len(a) # 0 => Len(a) \in DOMAIN a
      BY <1>2
    <3>2. Len(a) # 0 => Len(a) \in 1..Len(b)
      BY <1>2, <2>1, <3>1
    <3>3. Len(b) # 0 => Len(b) \in DOMAIN b
      BY <1>2
    <3>4. Len(b) # 0 => Len(b) \in 1..Len(a)
      BY <1>2, <2>1, <3>3
    <3> DEFINE x == Len(a)
               y == Len(b)
    <3>5. x \in Nat /\ y \in Nat /\ (x # 0 => x \in 1..y) /\ (y # 0 => y \in 1..x)
      BY <1>2, <3>2, <3>4
    <3> HIDE DEF x, y
    <3>6. x = y
      BY <3>5
    <3> QED
      BY <3>6 DEF x, y
  <2>3. \A h \in 1..Len(a) : a[h] = b[h]
    BY <1>2, <1>3, <2>2
  <2> QED
    BY ONLY <1>1, <2>2, <2>3, SeqEqual
<1>4. CASE T # {}
  <2>1. PICK h \in T : \A t \in T : h <= t
    <3>1. T \in SUBSET Nat
      OBVIOUS
    <3> HIDE DEF T
    <3> QED
      BY <1>4, <3>1, LeastNatural
  <2>2. h \in Nat /\ h > 0 /\ \A i \in 1..(h - 1) : i \in DOMAIN a <=> i \in DOMAIN b
    <3>1. h \in Nat /\ h > 0
      OBVIOUS
    <3>2. \A i \in 1..(h - 1) : i \in Nat \ {0} /\ ~(h <= i)
      BY <3>1
    <3> QED
      BY <2>1, <3>1, <3>2
  <2>3. \A i \in 1..(h - 1) : i \in DOMAIN a => a[i] = b[i]
    <3>1. \A i \in 1..(h - 1) : i \in Nat \ {0} /\ ~(h <= i)
      BY <2>2
    <3> QED
      BY <2>1, <3>1
  <2>4. ~Same(h)
    OBVIOUS
  <2> HIDE DEF T
  <2>5. ASSUME h \in DOMAIN a, h \in DOMAIN b, a[h] < b[h]
        PROVE  FALSE
    <3>1. PICK i \in DOMAIN b : b[i] = a[h]
      BY <1>1, <2>5
    <3>2. ~(h < i) /\ h # i
      <4>1. b[h] \in Nat /\ a[h] \in Nat
        BY <1>2, <2>5
      <4>2. h < i => b[h] < b[i]
        BY <1>1, <2>5
      <4> QED
        BY <2>5, <3>1, <4>1, <4>2
    <3>3. i \in 1..(h - 1)
      BY <1>2, <2>2, <3>2
    <3>4. a[i] = b[i] /\ i \in DOMAIN a /\ i < h
      BY <2>2, <2>3, <3>3
    <3>5. a[i] < a[h] /\ a[i] \in Nat
      BY <1>1, <1>2, <2>5, <3>4
    <3> QED
      BY <3>1, <3>4, <3>5
  <2>6. ASSUME h \in DOMAIN a, h \in DOMAIN b, b[h] < a[h]
        PROVE  FALSE
    <3>1. PICK i \in DOMAIN a : a[i] = b[h]
      BY <1>1, <2>6
    <3>2. ~(h < i) /\ h # i
      <4>1. b[h] \in Nat /\ a[h] \in Nat
        BY <1>2, <2>6
      <4>2. h < i => a[h] < a[i]
        BY <1>1, <2>6
      <4> QED
        BY <2>6, <3>1, <4>1, <4>2
    <3>3. i \in 1..(h - 1)
      BY <1>2, <2>2, <3>2
    <3>4. a[i] = b[i] /\ i \in DOMAIN b /\ i < h
      BY <2>2, <2>3, <3>3
    <3>5. b[i] < b[h] /\ b[i] \in Nat
      BY <1>1, <1>2, <2>6, <3>4
    <3> QED
      BY <3>1, <3>4, <3>5
  <2>7. ASSUME h \in DOMAIN a, h \notin DOMAIN b
        PROVE  FALSE
    <3>1. PICK i \in DOMAIN b : b[i] = a[h]
      BY <1>1, <2>7
    <3>2. i \in 1..(h - 1)
      BY <1>2, <2>2, <2>7
    <3>3. a[i] = b[i] /\ i \in DOMAIN a /\ i < h
      BY <2>2, <2>3, <3>2
    <3>4. a[i] < a[h] /\ a[i] \in Nat
      BY <1>1, <1>2, <2>7, <3>3
    <3> QED
      BY <3>1, <3>3, <3>4
  <2>8. ASSUME h \in DOMAIN b, h \notin DOMAIN a
        PROVE  FALSE
    <3>1. PICK i \in DOMAIN a : a[i] = b[h]
      BY <1>1, <2>8
    <3>2. i \in 1..(h - 1)
      BY <1>2, <2>2, <2>8
    <3>3. a[i] = b[i] /\ i \in DOMAIN b /\ i < h
      BY <2>2, <2>3, <3>2
    <3>4. b[i] < b[h] /\ b[i] \in Nat
      BY <1>1, <1>2, <2>8, <3>3
    <3> QED
      BY <3>1, <3>3, <3>4
  <2>9. h \in DOMAIN a \/ h \in DOMAIN b
    BY <2>1 DEF T
  <2>10. h \in DOMAIN a /\ h \in DOMAIN b => a[h] < b[h] \/ b[h] < a[h]
    BY <1>2, <2>4
  <2> QED
    BY <2>5, <2>6, <2>7, <2>8, <2>9, <2>10
<1> QED
  BY <1>3, <1>4

\* The elements of a sequence at some of its places.
LEMMA SelectedIs ==
  ASSUME NEW X, NEW s \in Seq(X), NEW S \in SUBSET (1..Len(s))
  PROVE  /\ Selected(s, S) \in Seq(X)
         /\ \A k \in 1..Len(Selected(s, S)) : \E g \in S : Selected(s, S)[k] = s[g]
         /\ S = 1..Len(s) => Selected(s, S) = s
<1> DEFINE n == Len(s)
           places == Ascending(S, n)
<1>1. n \in Nat /\ S \cap 1..n = S
  <2>1. n \in Nat /\ S \subseteq 1..n
    OBVIOUS
  <2> HIDE DEF n
  <2> QED
    BY <2>1
<1>2. Lists(places, S)
  <2> HIDE DEF n
  <2>1. Lists(Ascending(S, n), S \cap 1..n)
    BY <1>1, AscendingLists
  <2> QED
    BY <1>1, <2>1
<1>3. /\ places \in Seq(Nat) /\ Len(places) \in Nat /\ DOMAIN places = 1..Len(places)
      /\ \A k \in 1..Len(places) : places[k] \in S
  BY <1>2 DEF Lists
<1>4. Selected(s, S) = [k \in 1..Len(places) |-> s[places[k]]]
  BY DEF Selected
<1>5. ASSUME S = 1..n
      PROVE  Selected(s, S) = s
  <2> DEFINE id == [k \in 1..n |-> k]
  <2>1. id \in Seq(Nat) /\ DOMAIN id = 1..n /\ (\A k \in 1..n : id[k] = k) /\ Len(id) = n
    BY <1>1
  <2> HIDE DEF id, n
  <2>2. {id[h] : h \in DOMAIN id} = 1..n
    BY <2>1
  <2>3. \A h, i \in DOMAIN id : h < i => id[h] < id[i]
    BY <2>1
  <2>4. Lists(id, S)
    BY <1>5, <2>1, <2>2, <2>3 DEF Lists
  <2> HIDE DEF places
  <2>5. places = id
    BY <1>2, <2>4, ListsUnique
  <2>6. Selected(s, S) = [k \in 1..n |-> s[k]]
    BY <1>4, <2>1, <2>5
  <2>7. s = [k \in 1..n |-> s[k]]
    BY DEF n
  <2> QED
    BY <2>6, <2>7
<1> HIDE DEF places
<1>6. \A k \in 1..Len(places) : s[places[k]] \in X
  BY <1>3
<1>7. Selected(s, S) \in Seq(X) /\ Len(Selected(s, S)) = Len(places)
  BY <1>3, <1>4, <1>6
<1>8. \A k \in 1..Len(places) : Selected(s, S)[k] = s[places[k]] /\ places[k] \in S
  BY <1>3, <1>4
<1> QED
  BY <1>5, <1>7, <1>8

-----------------------------------------------------------------------------
\* The smallest and the largest of some numbers.

\* Of some rows, there is one of the smallest value.
LEMMA SmallestOfRows ==
  ASSUME NEW n \in Nat, NEW v \in [1..n -> Int], NEW R \in SUBSET (1..n), R # {}
  PROVE  \E i \in R : \A r \in R : v[i] <= v[r]
<1> DEFINE Has(S) == S # {} => \E i \in S : \A r \in S : v[i] <= v[r]
           T == {m \in 0..n : \A S \in SUBSET (1..m) : Has(S)}
<1>1. 0 \in T
  <2>1. \A S \in SUBSET (1..0) : S = {}
    OBVIOUS
  <2>2. Has({}) /\ 0 \in 0..n
    OBVIOUS
  <2> HIDE DEF Has
  <2> QED
    BY <2>1, <2>2
<1>2. ASSUME NEW m \in 0..(n - 1), \A S \in SUBSET (1..m) : Has(S),
             NEW S \in SUBSET (1..(m + 1))
      PROVE  Has(S)
  <2> DEFINE k == m + 1
             S0 == S \ {k}
  <2>1. k \in 1..n /\ 1..k = 1..m \cup {k} /\ k \in 1..k /\ \A r \in 1..k : v[r] \in Int
    OBVIOUS
  <2>2. S0 \in SUBSET (1..m)
    BY <2>1
  <2> HIDE DEF k
  <2>3. Has(S0)
    BY <1>2, <2>2
  <2>4. CASE k \notin S
    <3>1. S0 = S
      BY <2>4
    <3> QED
      BY <2>3, <3>1
  <2>5. CASE k \in S /\ S0 = {}
    <3>1. S = {k} /\ v[k] \in Int
      BY <2>1, <2>5
    <3>2. v[k] <= v[k]
      BY <3>1
    <3> QED
      BY <3>1, <3>2
  <2>6. CASE k \in S /\ S0 # {}
    <3>1. PICK i \in S0 : \A r \in S0 : v[i] <= v[r]
      BY <2>3, <2>6
    <3>2. i \in S /\ S = S0 \cup {k} /\ v[i] \in Int /\ v[k] \in Int
          /\ \A r \in S0 : v[r] \in Int
      BY <2>1, <2>2, <2>6, k \in 1..k DEF k
    <3>3. CASE v[i] <= v[k]
      <4>1. \A r \in S : v[i] <= v[r]
        BY <3>1, <3>2, <3>3
      <4> QED
        BY <3>2, <4>1
    <3>4. CASE ~(v[i] <= v[k])
      <4>1. \A r \in S0 : v[k] <= v[r]
        BY <3>1, <3>2, <3>4
      <4>2. v[k] <= v[k]
        BY <3>2
      <4> QED
        BY <2>6, <3>2, <4>1, <4>2
    <3> QED
      BY <3>3, <3>4
  <2> QED
    BY <2>4, <2>5, <2>6
<1>3. \A m \in 0..(n - 1) : m \in 0..n /\ m + 1 \in 0..n
  OBVIOUS
<1> HIDE DEF Has
<1>4. Inductive(T, 0, n)
  BY <1>2, <1>3 DEF Inductive
<1>5. n \in T
  <2>1. 0 \in Int /\ n \in Int /\ n \in 0..n
    OBVIOUS
  <2> HIDE DEF T
  <2> QED
    BY <1>1, <1>4, <2>1, IntervalInduction
<1> QED
  BY <1>5 DEF Has

\* And one of the largest.
LEMMA LargestOfRows ==
  ASSUME NEW n \in Nat, NEW v \in [1..n -> Int], NEW R \in SUBSET (1..n), R # {}
  PROVE  \E i \in R : \A r \in R : v[r] <= v[i]
<1> DEFINE w == [i \in 1..n |-> -v[i]]
<1>1. w \in [1..n -> Int] /\ \A i \in 1..n : w[i] = -v[i] /\ v[i] \in Int
  OBVIOUS
<1> HIDE DEF w
<1>2. PICK i \in R : \A r \in R : w[i] <= w[r]
  BY <1>1, SmallestOfRows
<1>3. \A r \in R : v[r] <= v[i]
  BY <1>1, <1>2
<1> QED
  BY <1>3

\* Min and Max of the values of some rows are there.
LEMMA Extremes ==
  ASSUME NEW n \in Nat, NEW v \in [1..n -> Int], NEW R \in SUBSET (1..n), R # {}
  PROVE  LET S == {v[r] : r \in R}
         IN  /\ Min(S) \in S /\ \A x \in S : Min(S) <= x
             /\ Max(S) \in S /\ \A x \in S : Max(S) >= x
             /\ S \subseteq Int
<1> DEFINE S == {v[r] : r \in R}
<1>1. S \subseteq Int
  OBVIOUS
<1>2. \E x \in S : \A y \in S : x <= y
  <2>1. PICK i \in R : \A r \in R : v[i] <= v[r]
    BY SmallestOfRows
  <2> QED
    BY <2>1
<1>3. \E x \in S : \A y \in S : x >= y
  <2>1. PICK i \in R : \A r \in R : v[r] <= v[i]
    BY LargestOfRows
  <2>2. \A r \in R : v[i] >= v[r]
    BY <1>1, <2>1
  <2> QED
    BY <2>2
<1> HIDE DEF S
<1>4. Min(S) \in S /\ \A x \in S : Min(S) <= x
  BY <1>2 DEF Min
<1>5. Max(S) \in S /\ \A x \in S : Max(S) >= x
  BY <1>3 DEF Max
<1> QED
  BY <1>1, <1>4, <1>5 DEF S

\* The least of some places.
LEMMA LeastPlace ==
  ASSUME NEW S \in SUBSET Nat, S # {}
  PROVE  Min(S) \in S /\ \A x \in S : Min(S) <= x
<1>1. \E x \in S : \A y \in S : x <= y
  BY LeastNatural
<1> QED
  BY <1>1 DEF Min

\* Of two numbers, the smaller one.
LEMMA MinOfTwo ==
  ASSUME NEW a \in Nat, NEW b \in Nat
  PROVE  Min({a, b}) = IF a <= b THEN a ELSE b
BY DEF Min
-----------------------------------------------------------------------------
\* How rows are shared out, for every number of rows, batches and threads.

\* The jobs js are runs of the rows 1..n, in order, with no row left out.
Covers(js, n) ==
  /\ js \in Seq(Job) /\ Len(js) > 0
  /\ js[1].from = 1 /\ js[Len(js)].to = n
  /\ \A j \in 1..Len(js) : 1 <= js[j].from /\ js[j].from <= js[j].to + 1 /\ js[j].to <= n
  /\ \A j \in 1..(Len(js) - 1) : js[j + 1].from = js[j].to + 1

\* The number of pieces of b that a takes.
LEMMA Pieces ==
  ASSUME NEW a \in Nat, NEW b \in Nat \ {0}
  PROVE  /\ DivCeil(a, b) \in Nat
         /\ a <= DivCeil(a, b) * b
         /\ DivCeil(a, b) * b < a + b
<1> DEFINE c == a + b - 1
           q == c \div b
<1>1. c \in Nat
  OBVIOUS
<1> HIDE DEF c
<1>2. q \in Nat /\ q * b <= c /\ c < q * b + b
  BY <1>1
<1> HIDE DEF q
<1>3. q * b \in Nat
  BY <1>2
<1> QED
  BY <1>2, <1>3 DEF c, q, DivCeil

\* More of a kind are not less.
LEMMA Times ==
  ASSUME NEW a \in Nat, NEW b \in Nat, NEW c \in Nat, a <= b
  PROVE  a * c <= b * c /\ a * c \in Nat /\ (a + 1) * c = a * c + c
OBVIOUS

\* A batch begins at the first row, and so does a segment.
LEMMA FirstSegment ==
  ASSUME NEW n \in Nat, NEW starts \in SUBSET 1..n, n > 0 => 1 \in starts,
         NEW size \in Nat \ {0}
  PROVE  /\ SegmentStarts(n, starts, size) \subseteq 1..n
         /\ n > 0 => 1 \in SegmentStarts(n, starts, size)
<1>1. SegmentStarts(n, starts, size) \subseteq 1..n
  BY DEF SegmentStarts
<1>2. ASSUME n > 0
      PROVE  1 \in SegmentStarts(n, starts, size)
  <2>1. 1 \in 1..n /\ 1 \in starts /\ \A c \in starts : c <= 1 => c <= 1
    BY <1>2
  <2>2. (1 - 1) % size = 0
    OBVIOUS
  <2> QED
    BY <2>1, <2>2 DEF SegmentStarts
<1> QED
  BY <1>1, <1>2

\* The segments of an input that has rows begin at its first row.
LEMMA SegmentsBegin ==
  ASSUME NEW n \in Nat \ {0}, NEW starts \in SUBSET 1..n, 1 \in starts,
         NEW size \in Nat \ {0}, NEW segs, segs = Ascending(SegmentStarts(n, starts, size), n)
  PROVE  /\ segs \in Seq(Nat) /\ Len(segs) \in Nat \ {0} /\ segs[1] = 1
         /\ \A h \in 1..Len(segs) : segs[h] \in 1..n
         /\ \A h, i \in 1..Len(segs) : h < i => segs[h] < segs[i]
<1>1. SegmentStarts(n, starts, size) \subseteq 1..n /\ 1 \in SegmentStarts(n, starts, size)
  BY FirstSegment
<1>2. Lists(segs, SegmentStarts(n, starts, size) \cap 1..n)
  BY AscendingLists
<1>3. SegmentStarts(n, starts, size) \cap 1..n = SegmentStarts(n, starts, size)
  BY <1>1
<1>4. /\ segs \in Seq(Nat) /\ {segs[h] : h \in DOMAIN segs} = SegmentStarts(n, starts, size)
      /\ \A h, i \in DOMAIN segs : h < i => segs[h] < segs[i]
  BY <1>2, <1>3 DEF Lists
<1>5. DOMAIN segs = 1..Len(segs) /\ Len(segs) \in Nat
  BY <1>4
<1>6. PICK f \in DOMAIN segs : segs[f] = 1
  BY <1>1, <1>4
<1>7. \A h \in 1..Len(segs) : segs[h] \in 1..n
  BY <1>1, <1>4, <1>5
<1>8. f = 1
  <2>1. 1 \in DOMAIN segs /\ (1 < f => segs[1] < segs[f])
    BY <1>4, <1>5, <1>6
  <2> QED
    BY <1>5, <1>6, <1>7, <2>1
<1> QED
  BY <1>4, <1>5, <1>6, <1>7, <1>8

\* However the input is cut into batches, its batches into segments and the segments
\* into jobs, each row is in exactly one job, and the jobs are in the order of the rows.
THEOREM JobsCover ==
  ASSUME NEW n \in Nat, NEW starts \in SUBSET 1..n, n > 0 => 1 \in starts,
         NEW size \in Nat \ {0}, NEW threads \in Nat \ {0}
  PROVE  Covers(Jobs(n, starts, size, threads), n)
<1> DEFINE segs == Ascending(SegmentStarts(n, starts, size), n)
           m == Len(segs)
           useful == Min({threads, m})
           per == DivCeil(m, useful)
           k == DivCeil(m, per)
           from(j) == segs[(j - 1) * per + 1]
           to(j) == IF j * per >= m THEN n ELSE segs[j * per + 1] - 1
<1>1. segs \in Seq(Nat) /\ m \in Nat
  BY AscendingLists DEF Lists
<1>2. useful = IF threads <= m THEN threads ELSE m
  <2> HIDE DEF m
  <2> QED
    BY <1>1, MinOfTwo
<1>3. Jobs(n, starts, size, threads) = IF useful < 2 THEN <<[from |-> 1, to |-> n]>>
                                 ELSE [j \in 1..k |-> [from |-> from(j), to |-> to(j)]]
  BY DEF Jobs
<1>4. CASE useful < 2
  <2>1. Jobs(n, starts, size, threads) = <<[from |-> 1, to |-> n]>>
    BY <1>3, <1>4
  <2> HIDE DEF useful, from, to
  <2> QED
    BY <2>1 DEF Covers, Job
<1>5. CASE ~(useful < 2)
  <2>1. n # 0
    <3>1. CASE n = 0
      <4>1. m = 0
        BY <3>1, AscendingEmpty
      <4> HIDE DEF m, useful
      <4> QED
        BY <1>2, <1>5, <4>1
    <3> QED
      BY <3>1
  <2>2. /\ m \in Nat \ {0} /\ segs[1] = 1
        /\ \A h \in 1..m : segs[h] \in 1..n
        /\ \A h, i \in 1..m : h < i => segs[h] < segs[i]
    <3>1. n \in Nat \ {0} /\ 1 \in starts /\ segs = Ascending(SegmentStarts(n, starts, size), n)
      BY <2>1
    <3> HIDE DEF segs
    <3> QED
      BY ONLY <3>1, SegmentsBegin, starts \in SUBSET 1..n
  <2> HIDE DEF segs, m
  <2>3. useful \in Nat \ {0}
    <3> HIDE DEF useful
    <3> QED
      BY <1>2, <1>5, <2>2
  <2> HIDE DEF useful
  <2>4. per \in Nat \ {0}
    <3>1. per \in Nat /\ m <= per * useful
      BY <2>2, <2>3, Pieces
    <3> HIDE DEF per
    <3> QED
      BY <2>2, <2>3, <3>1
  <2> HIDE DEF per
  <2>5. k \in Nat /\ m <= k * per /\ k * per < m + per
    BY <2>2, <2>4, Pieces
  <2> HIDE DEF k
  <2>6. k \in Nat \ {0}
    BY <2>2, <2>4, <2>5
  <2>7. ASSUME NEW j \in 1..k
        PROVE  /\ (j - 1) * per + 1 \in 1..m
               /\ j # k => j * per + 1 \in 1..m /\ j * per < m
               /\ j * per = (j - 1) * per + per
    <3>1. j - 1 \in Nat /\ k - 1 \in Nat /\ j - 1 <= k - 1 /\ (j - 1) + 1 = j
          /\ (k - 1) + 1 = k /\ k - 1 <= k - 1
      BY <2>6
    <3>2. /\ (j - 1) * per <= (k - 1) * per /\ (j - 1) * per \in Nat
          /\ j * per = (j - 1) * per + per
      BY <2>4, <3>1, Times
    <3>3. k * per = (k - 1) * per + per /\ (k - 1) * per \in Nat
      BY <2>4, <3>1, Times
    <3>4. j # k => j <= k - 1 /\ j \in Nat
      BY <3>1
    <3>5. j # k => j * per <= (k - 1) * per /\ j * per \in Nat
      BY <2>4, <3>1, <3>4, Times
    <3> DEFINE a == (j - 1) * per
               b == (k - 1) * per
               c == k * per
               d == j * per
    <3>6. /\ a <= b /\ a \in Nat /\ b \in Nat /\ c = b + per /\ d = a + per
          /\ j # k => d <= b /\ d \in Nat
          /\ c < m + per
      BY <2>5, <3>2, <3>3, <3>5
    <3> HIDE DEF a, b, c, d
    <3>7. a + 1 \in 1..m /\ (j # k => d + 1 \in 1..m /\ d < m)
      BY <2>2, <2>4, <3>6
    <3> QED
      BY <3>2, <3>7 DEF a, d
  <2>8. k * per >= m
    BY <2>2, <2>4, <2>5, <2>6
  <2>9. to(k) = n /\ from(1) = 1
    <3>1. (1 - 1) * per + 1 = 1
      BY <2>4
    <3> QED
      BY <2>2, <2>8, <3>1
  <2>10. ASSUME NEW j \in 1..k
         PROVE  /\ from(j) \in 1..n /\ to(j) \in 0..n
                /\ from(j) <= to(j) + 1
                /\ j # k => from(j + 1) = to(j) + 1
    <3>1. from(j) \in 1..n
      BY <2>2, <2>7
    <3>2. CASE j = k
      BY <2>9, <3>1, <3>2
    <3>3. CASE j # k
      <4>1. /\ j * per + 1 \in 1..m /\ (j - 1) * per + 1 \in 1..m
            /\ (j - 1) * per + 1 < j * per + 1 /\ ~(j * per >= m)
        <5>1. (j - 1) * per \in Nat /\ j * per \in Nat
          BY <2>4
        <5> QED
          BY <2>2, <2>4, <2>7, <3>3, <5>1
      <4>2. to(j) = segs[j * per + 1] - 1
        BY <4>1
      <4>3. segs[j * per + 1] \in 1..n /\ from(j) < segs[j * per + 1]
        BY <2>2, <4>1
      <4>4. from(j + 1) = segs[j * per + 1]
        <5>1. (j + 1) - 1 = j
          OBVIOUS
        <5> QED
          BY <5>1
      <4> HIDE DEF from, to
      <4> QED
        BY <3>1, <4>2, <4>3, <4>4
    <3> QED
      BY <3>2, <3>3
  <2> HIDE DEF from, to
  <2> DEFINE js == [j \in 1..k |-> [from |-> from(j), to |-> to(j)]]
  <2>11. /\ \A j \in 1..k : js[j] = [from |-> from(j), to |-> to(j)]
         /\ \A j \in 1..k : js[j].from = from(j) /\ js[j].to = to(j) /\ js[j] \in Job
    BY <2>10 DEF Job
  <2>12. js \in Seq(Job) /\ Len(js) = k
    BY <2>6, <2>11
  <2> HIDE DEF js
  <2>13. /\ js[1].from = 1 /\ js[k].to = n
         /\ \A j \in 1..k : 1 <= js[j].from /\ js[j].from <= js[j].to + 1 /\ js[j].to <= n
    BY <2>6, <2>9, <2>10, <2>11
  <2>14. \A j \in 1..(k - 1) : js[j + 1].from = js[j].to + 1
    <3>1. \A j \in 1..(k - 1) : j \in 1..k /\ j + 1 \in 1..k /\ j # k
      BY <2>6
    <3> QED
      BY <2>10, <2>11, <3>1
  <2>15. Covers(js, n)
    BY <2>6, <2>12, <2>13, <2>14 DEF Covers
  <2> QED
    BY <1>3, <1>5, <2>15 DEF js
<1> QED
  BY <1>4, <1>5
-----------------------------------------------------------------------------
\* Sums.

\* c[i] is the sum of the first i numbers of w.
AddsUp(c, w, n) ==
  /\ c \in [0..n -> Int]
  /\ c[0] = 0
  /\ \A i \in 1..n : c[i] = c[i - 1] + w[i]

\* The sum of the first n numbers of w.
Sigma(w, n) == (CHOOSE c : AddsUp(c, w, n))[n]

\* Numbers can be added up.
LEMMA SigmaExists ==
  ASSUME NEW n \in Nat, NEW w \in [1..n -> Int]
  PROVE  \E c : AddsUp(c, w, n)
<1> DEFINE Step == [i \in 1..n |-> [x \in Int |-> x + w[i]]]
<1>1. \A i \in 1..n : w[i] \in Int
  OBVIOUS
<1>2. Step \in [1..n -> [Int -> Int]] /\ 0 \in Int
  BY <1>1
<1>3. PICK c \in [0..n -> Int] : Follows(c, n, 0, Step)
  <2> HIDE DEF Step
  <2> QED
    BY <1>2, Recursion
<1>4. ASSUME NEW i \in 1..n
      PROVE  c[i] = c[i - 1] + w[i]
  <2>1. c[i] = Step[i][c[i - 1]]
    BY <1>3 DEF Follows
  <2>2. i - 1 \in 0..n
    OBVIOUS
  <2>3. c[i - 1] \in Int
    BY <2>2
  <2>4. Step[i][c[i - 1]] = c[i - 1] + w[i]
    BY <2>3
  <2> QED
    BY <2>1, <2>4
<1>5. AddsUp(c, w, n)
  BY <1>3, <1>4 DEF AddsUp, Follows
<1> QED
  BY <1>5

\* In one way only.
LEMMA SigmaIs ==
  ASSUME NEW n \in Nat, NEW w, NEW c, AddsUp(c, w, n)
  PROVE  Sigma(w, n) = c[n] /\ Sigma(w, n) \in Int
<1> DEFINE d == CHOOSE x : AddsUp(x, w, n)
<1>1. AddsUp(d, w, n)
  OBVIOUS
<1>2. Sigma(w, n) = d[n]
  BY DEF Sigma
<1> HIDE DEF d
<1> DEFINE T == {i \in 0..n : c[i] = d[i]}
<1>3. 0 \in T
  BY <1>1 DEF AddsUp
<1>4. Inductive(T, 0, n)
  <2> SUFFICES ASSUME NEW i \in 0..(n - 1), c[i] = d[i]
               PROVE  i + 1 \in 0..n /\ c[i + 1] = d[i + 1]
    BY DEF Inductive
  <2>1. i + 1 \in 0..n /\ i + 1 \in 1..n /\ (i + 1) - 1 = i
    OBVIOUS
  <2> QED
    BY <1>1, <2>1 DEF AddsUp
<1>5. n \in T
  <2>1. 0 \in Int /\ n \in Int /\ n \in 0..n
    OBVIOUS
  <2> HIDE DEF T
  <2> QED
    BY <1>3, <1>4, <2>1, IntervalInduction
<1>6. n \in 0..n
  OBVIOUS
<1> QED
  BY <1>1, <1>2, <1>5, <1>6 DEF AddsUp

\* A sum whose summands are 0 up to k, and 0 behind it, is the one at k.
LEMMA SigmaOfOne ==
  ASSUME NEW n \in Nat, NEW w \in [1..n -> Int], NEW k \in 1..n,
         \A i \in 1..n : i # k => w[i] = 0
  PROVE  Sigma(w, n) = w[k]
<1>1. PICK c : AddsUp(c, w, n)
  BY SigmaExists
<1> DEFINE v == w[k]
<1>2. v \in Int
  OBVIOUS
<1>3. \A i \in 1..n : c[i] = c[i - 1] + IF i = k THEN v ELSE 0
  BY <1>1 DEF AddsUp
<1>4. c[0] = 0 /\ c \in [0..n -> Int]
  BY <1>1 DEF AddsUp
<1> HIDE DEF v
<1> DEFINE T == {i \in 0..n : c[i] = IF i < k THEN 0 ELSE v}
<1>5. 0 \in T
  BY <1>4
<1>6. Inductive(T, 0, n)
  <2> SUFFICES ASSUME NEW i \in 0..(n - 1), c[i] = IF i < k THEN 0 ELSE v
               PROVE  i + 1 \in 0..n /\ c[i + 1] = IF i + 1 < k THEN 0 ELSE v
    BY DEF Inductive
  <2>1. i + 1 \in 0..n /\ i + 1 \in 1..n /\ (i + 1) - 1 = i
    OBVIOUS
  <2>2. c[i + 1] = c[i] + IF i + 1 = k THEN v ELSE 0
    BY <1>3, <2>1
  <2>3. c[i + 1] = IF i + 1 < k THEN 0 ELSE v
    BY <1>2, <2>2
  <2> QED
    BY <2>1, <2>3
<1>7. n \in T
  <2>1. 0 \in Int /\ n \in Int /\ n \in 0..n
    OBVIOUS
  <2> HIDE DEF T
  <2> QED
    BY <1>5, <1>6, <2>1, IntervalInduction
<1>8. Sigma(w, n) = c[n]
  BY <1>1, SigmaIs
<1> QED
  BY <1>7, <1>8 DEF v

\* The sum of nothing but 0.
LEMMA SigmaOfNone ==
  ASSUME NEW n \in Nat, NEW w \in [1..n -> Int], \A i \in 1..n : w[i] = 0
  PROVE  Sigma(w, n) = 0
<1>1. PICK c : AddsUp(c, w, n)
  BY SigmaExists
<1>2. CASE n = 0
  <2>1. Sigma(w, n) = c[n]
    BY <1>1, SigmaIs
  <2> QED
    BY <1>1, <1>2, <2>1 DEF AddsUp
<1>3. CASE n # 0
  <2>1. 1 \in 1..n
    BY <1>3
  <2> QED
    BY <2>1, SigmaOfOne
<1> QED
  BY <1>2, <1>3

\* Two sums added up.
LEMMA SigmaPlus ==
  ASSUME NEW n \in Nat, NEW u \in [1..n -> Int], NEW v \in [1..n -> Int], NEW w \in [1..n -> Int],
         \A i \in 1..n : w[i] = u[i] + v[i]
  PROVE  Sigma(w, n) = Sigma(u, n) + Sigma(v, n)
<1>1. PICK a : AddsUp(a, u, n)
  BY SigmaExists
<1>2. PICK b : AddsUp(b, v, n)
  BY SigmaExists
<1>3. PICK c : AddsUp(c, w, n)
  BY SigmaExists
<1> DEFINE T == {i \in 0..n : c[i] = a[i] + b[i]}
<1>4. 0 \in T
  BY <1>1, <1>2, <1>3 DEF AddsUp
<1>5. Inductive(T, 0, n)
  <2> SUFFICES ASSUME NEW i \in 0..(n - 1), c[i] = a[i] + b[i]
               PROVE  i + 1 \in 0..n /\ c[i + 1] = a[i + 1] + b[i + 1]
    BY DEF Inductive
  <2> DEFINE k == i + 1
  <2>1. k \in 0..n /\ k \in 1..n /\ k - 1 = i /\ i \in 0..n
    OBVIOUS
  <2> HIDE DEF k
  <2>2. a[i] \in Int /\ b[i] \in Int /\ u[k] \in Int /\ v[k] \in Int
    BY <1>1, <1>2, <2>1 DEF AddsUp
  <2>3. /\ a[k] = a[i] + u[k]
        /\ b[k] = b[i] + v[k]
        /\ c[k] = c[i] + (u[k] + v[k])
    BY <1>1, <1>2, <1>3, <2>1 DEF AddsUp
  <2>4. c[k] = a[k] + b[k]
    BY <2>2, <2>3
  <2> QED
    BY <2>1, <2>4 DEF k
<1>6. n \in T
  <2>1. 0 \in Int /\ n \in Int /\ n \in 0..n
    OBVIOUS
  <2> HIDE DEF T
  <2> QED
    BY <1>4, <1>5, <2>1, IntervalInduction
<1>7. Sigma(u, n) = a[n] /\ Sigma(v, n) = b[n] /\ Sigma(w, n) = c[n]
  BY <1>1, <1>2, <1>3, SigmaIs
<1> QED
  BY <1>6, <1>7

\* The numbers of w whose place is sent to q by phi, the others being 0.
Fiber(w, n, phi, q) == [i \in 1..n |-> IF phi[i] = q THEN w[i] ELSE 0]

\* A sum is that of the sums of the parts that phi divides it in.
LEMMA SigmaOfParts ==
  ASSUME NEW n \in Nat, NEW w \in [1..n -> Int],
         NEW m \in Nat, NEW v \in [1..m -> Int],
         NEW phi \in [1..n -> 1..m],
         \A q \in 1..m : v[q] = Sigma(Fiber(w, n, phi, q), n)
  PROVE  Sigma(w, n) = Sigma(v, m)
<1> DEFINE below(k) == [i \in 1..n |-> IF phi[i] <= k THEN w[i] ELSE 0]
<1>1. \A i \in 1..n : phi[i] \in 1..m /\ phi[i] \in Nat /\ w[i] \in Int
  OBVIOUS
<1>2. \A k \in Nat : below(k) \in [1..n -> Int]
  BY <1>1
<1>3. PICK c : AddsUp(c, v, m)
  BY SigmaExists
<1> DEFINE T == {k \in 0..m : Sigma(below(k), n) = c[k]}
<1>4. 0 \in T
  <2>1. \A i \in 1..n : below(0)[i] = 0
    BY <1>1
  <2>2. below(0) \in [1..n -> Int]
    BY <1>2
  <2> HIDE DEF below
  <2>3. Sigma(below(0), n) = 0
    BY <2>1, <2>2, SigmaOfNone
  <2> QED
    BY <1>3, <2>3 DEF AddsUp
<1>5. Inductive(T, 0, m)
  <2> SUFFICES ASSUME NEW k \in 0..(m - 1), Sigma(below(k), n) = c[k]
               PROVE  k + 1 \in 0..m /\ Sigma(below(k + 1), n) = c[k + 1]
    BY DEF Inductive
  <2> DEFINE q == k + 1
             f == Fiber(w, n, phi, q)
             b == below(k)
             d == below(q)
  <2>1. q \in 0..m /\ q \in 1..m /\ q - 1 = k /\ k \in Nat /\ q \in Nat
    OBVIOUS
  <2>2. b \in [1..n -> Int] /\ d \in [1..n -> Int] /\ f \in [1..n -> Int]
    BY <1>1, <1>2, <2>1 DEF Fiber
  <2>3. \A i \in 1..n : d[i] = b[i] + f[i]
    BY <1>1, <2>1 DEF Fiber
  <2>4. c[q] = c[k] + v[q] /\ v[q] = Sigma(f, n)
    <3> HIDE DEF q
    <3> QED
      BY <1>3, <2>1 DEF AddsUp
  <2>5. Sigma(b, n) = c[k]
    OBVIOUS
  <2> HIDE DEF b, d, f, below, q
  <2>6. Sigma(d, n) = Sigma(b, n) + Sigma(f, n)
    BY <2>2, <2>3, SigmaPlus
  <2>7. Sigma(d, n) = c[q] /\ q \in 0..m
    BY <2>1, <2>4, <2>5, <2>6
  <2> QED
    BY <2>7 DEF d, q
<1>6. m \in T
  <2>1. 0 \in Int /\ m \in Int /\ m \in 0..m
    OBVIOUS
  <2> HIDE DEF T
  <2> QED
    BY <1>4, <1>5, <2>1, IntervalInduction
<1>7. below(m) = w
  <2>1. \A i \in 1..n : below(m)[i] = w[i]
    BY <1>1
  <2>2. below(m) = [i \in 1..n |-> below(m)[i]] /\ w = [i \in 1..n |-> w[i]]
    OBVIOUS
  <2> HIDE DEF below
  <2> QED
    BY <2>1, <2>2
<1>8. Sigma(below(m), n) = c[m]
  BY <1>6
<1>9. Sigma(v, m) = c[m]
  BY <1>3, SigmaIs
<1> HIDE DEF below
<1> QED
  BY <1>7, <1>8, <1>9

\* 1 for each number of S.
Ones(S, n) == [i \in 1..n |-> IF i \in S THEN 1 ELSE 0]

\* Counting is adding up ones.
LEMMA CardinalityIs ==
  ASSUME NEW n \in Nat, NEW S \in SUBSET (1..n)
  PROVE  /\ IsFiniteSet(S)
         /\ Cardinality(S) = Sigma(Ones(S, n), n)
         /\ Cardinality(S) \in 0..n
         /\ S # {} => Cardinality(S) # 0
<1> DEFINE w == Ones(S, n)
<1>1. w \in [1..n -> Int] /\ \A i \in 1..n : w[i] = IF i \in S THEN 1 ELSE 0
  BY DEF Ones
<1> HIDE DEF w
<1>2. PICK c : AddsUp(c, w, n)
  BY <1>1, SigmaExists
<1> DEFINE T == {m \in 0..n : /\ IsFiniteSet(S \cap 1..m)
                              /\ Cardinality(S \cap 1..m) = c[m]
                              /\ c[m] \in 0..m}
<1>3. 0 \in T
  <2>1. S \cap 1..0 = {}
    OBVIOUS
  <2> QED
    BY <1>2, <2>1, FS_EmptySet DEF AddsUp
<1>4. Inductive(T, 0, n)
  <2> SUFFICES ASSUME NEW m \in 0..(n - 1), m \in T
               PROVE  m + 1 \in T
    BY DEF Inductive
  <2> DEFINE k == m + 1
             A == S \cap 1..m
             B == S \cap 1..k
  <2>1. k \in 0..n /\ k \in 1..n /\ k - 1 = m /\ 1..k = 1..m \cup {k} /\ k \notin 1..m
    OBVIOUS
  <2>2. IsFiniteSet(A) /\ Cardinality(A) = c[m] /\ c[m] \in 0..m
    OBVIOUS
  <2>3. B = IF k \in S THEN A \cup {k} ELSE A
    BY <2>1
  <2>4. k \notin A
    BY <2>1
  <2>5. c[k] = c[m] + IF k \in S THEN 1 ELSE 0
    <3> HIDE DEF k
    <3> QED
      BY <1>1, <1>2, <2>1 DEF AddsUp
  <2> HIDE DEF A, B
  <2>6. IsFiniteSet(A \cup {k}) /\ Cardinality(A \cup {k}) = Cardinality(A) + 1
    BY <2>2, <2>4, FS_AddElement
  <2>7. IsFiniteSet(B) /\ Cardinality(B) = c[k] /\ c[k] \in 0..k
    BY <2>2, <2>3, <2>5, <2>6
  <2> QED
    BY <2>1, <2>7 DEF B, k
<1>5. n \in T
  <2>1. 0 \in Int /\ n \in Int /\ n \in 0..n
    OBVIOUS
  <2> HIDE DEF T
  <2> QED
    BY <1>3, <1>4, <2>1, IntervalInduction
<1>6. S \cap 1..n = S
  OBVIOUS
<1>7. Sigma(w, n) = c[n]
  BY <1>2, SigmaIs
<1>8. S # {} => Cardinality(S) # 0
  BY <1>5, <1>6, FS_EmptySet
<1> QED
  BY <1>5, <1>6, <1>7, <1>8 DEF w
=============================================================================
