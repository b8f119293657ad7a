---------------------------- MODULE StreamProofs ----------------------------
(***************************************************************************)
(* That the operators which pull batches one at a time answer what the     *)
(* definition of the query says, and read no batch it does not need, for   *)
(* all inputs, offsets, limits and numbers of threads.                     *)
(*                                                                         *)
(* The parts: a filter's jobs find the passing rows of a batch; the limit  *)
(* has yielded the window of what it has seen; what the sort keeps is the  *)
(* head of the sorted rows.                                                *)
(***************************************************************************)
EXTENDS Stream, Induction

-----------------------------------------------------------------------------
\* Sequences.

\* A place for each element kept, and no other.
LEMMA AscendingLength ==
  ASSUME NEW S, NEW n \in Nat
  PROVE  Ascending(S, n) \in Seq(Nat) /\ Len(Ascending(S, n)) <= n
<1> DEFINE T == {m \in 0..n : Len(Ascending(S, m)) <= m}
<1>1. 0 \in T
  BY AscendingEmpty
<1>2. Inductive(T, 0, n)
  <2> SUFFICES ASSUME NEW m \in 0..(n - 1), Len(Ascending(S, m)) <= m
               PROVE  m + 1 \in 0..n /\ Len(Ascending(S, m + 1)) <= m + 1
    BY DEF Inductive
  <2>1. /\ Ascending(S, m) \in Seq(Nat)
        /\ \/ Ascending(S, m + 1) = Append(Ascending(S, m), m + 1)
           \/ Ascending(S, m + 1) = Ascending(S, m)
    BY AscendingGrows
  <2>2. Len(Append(Ascending(S, m), m + 1)) = Len(Ascending(S, m)) + 1
    BY <2>1
  <2>3. Len(Ascending(S, m)) \in Nat
    BY <2>1
  <2> QED
    BY <2>1, <2>2, <2>3
<1>3. n \in T
  <2>1. 0 \in Int /\ n \in Int /\ n \in 0..n
    OBVIOUS
  <2> HIDE DEF T
  <2> QED
    BY <1>1, <1>2, <2>1, IntervalInduction
<1> QED
  BY <1>3, AscendingGrows

\* The places that are kept depend only on those there are.
LEMMA AscendingSame ==
  ASSUME NEW S, NEW T, NEW n \in Nat, \A i \in 1..n : i \in S <=> i \in T
  PROVE  Ascending(S, n) = Ascending(T, n)
<1>1. S \cap 1..n = T \cap 1..n
  OBVIOUS
<1>2. Lists(Ascending(S, n), S \cap 1..n) /\ Lists(Ascending(T, n), S \cap 1..n)
  BY <1>1, AscendingLists
<1> QED
  BY <1>2, ListsUnique

\* `at` lists S, and kept the elements of s at these places.
Keeps(kept, s, at, S) ==
  Lists(at, S \cap 1..Len(s)) /\ kept = [k \in 1..Len(at) |-> s[at[k]]]

\* What is kept of a sequence is a sequence of its elements, in order.
LEMMA SelectedType ==
  ASSUME NEW X, NEW s \in Seq(X), NEW S
  PROVE  /\ Selected(s, S) \in Seq(X)
         /\ Len(Selected(s, S)) <= Len(s)
         /\ \E at : Keeps(Selected(s, S), s, at, S)
<1> DEFINE places == Ascending(S, Len(s))
<1>1. Len(s) \in Nat /\ DOMAIN s = 1..Len(s)
  OBVIOUS
<1>2. Lists(places, S \cap 1..Len(s))
  BY <1>1, AscendingLists
<1>3. places \in Seq(Nat) /\ Len(places) <= Len(s)
  BY <1>1, AscendingLength
<1>4. Selected(s, S) = [k \in 1..Len(places) |-> s[places[k]]]
  BY DEF Selected
<1> HIDE DEF places
<1>5. \A k \in 1..Len(places) : places[k] \in 1..Len(s)
  <2>1. DOMAIN places = 1..Len(places)
    BY <1>3
  <2> QED
    BY <1>2, <2>1 DEF Lists
<1>6. \A k \in 1..Len(places) : s[places[k]] \in X
  BY <1>1, <1>5
<1>7. Len(places) \in Nat
  BY <1>3
<1>8. Selected(s, S) \in Seq(X) /\ Len(Selected(s, S)) = Len(places)
  BY <1>4, <1>6, <1>7
<1>9. Keeps(Selected(s, S), s, places, S)
  BY <1>2, <1>4 DEF Keeps
<1> QED
  BY <1>3, <1>8, <1>9

\* Of no elements none is kept.
LEMMA SelectedEmpty == \A S : Selected(<<>>, S) = <<>>
<1> SUFFICES ASSUME NEW S PROVE Selected(<<>>, S) = <<>>
  OBVIOUS
<1>1. Len(<<>>) = 0
  OBVIOUS
<1>2. Selected(<<>>, S) = [k \in 1..Len(Ascending(S, 0)) |-> <<>>[Ascending(S, 0)[k]]]
  BY <1>1 DEF Selected
<1>3. Len(Ascending(S, 0)) = 0
  BY AscendingEmpty
<1>4. 1..Len(Ascending(S, 0)) = {}
  BY <1>3
<1>5. Selected(<<>>, S) = [k \in {} |-> <<>>[Ascending(S, 0)[k]]]
  BY <1>2, <1>4
<1>6. [k \in {} |-> <<>>[Ascending(S, 0)[k]]] = <<>>
  OBVIOUS
<1> QED
  BY <1>5, <1>6

\* One element more is kept, or is not.
LEMMA SelectedNext ==
  ASSUME NEW X, NEW s \in Seq(X), NEW x \in X, NEW S, NEW T,
         \A i \in 1..Len(s) : i \in S <=> i \in T
  PROVE  Selected(Append(s, x), T) = IF Len(s) + 1 \in T THEN Append(Selected(s, S), x)
                                     ELSE Selected(s, S)
<1> DEFINE n == Len(s)
           t == Append(s, x)
           a == Ascending(S, n)
           b == Ascending(T, n + 1)
<1>1. /\ n \in Nat /\ t \in Seq(X) /\ Len(t) = n + 1
      /\ t[n + 1] = x /\ \A i \in 1..n : t[i] = s[i]
  OBVIOUS
<1>2. /\ a \in Seq(Nat)
      /\ b = IF n + 1 \in T THEN Append(a, n + 1) ELSE a
  <2>1. Ascending(T, n) = a
    BY <1>1, AscendingSame
  <2> QED
    BY <1>1, <2>1, AscendingGrows
<1>3. Selected(s, S) = [k \in 1..Len(a) |-> s[a[k]]]
  BY DEF Selected
<1>4. Selected(t, T) = [k \in 1..Len(b) |-> t[b[k]]]
  BY <1>1 DEF Selected
<1>5. \A k \in 1..Len(a) : a[k] \in 1..n
  <2>1. Lists(a, S \cap 1..n)
    BY <1>1, AscendingLists
  <2>2. DOMAIN a = 1..Len(a)
    BY <1>2
  <2> HIDE DEF a, n
  <2> QED
    BY <2>1, <2>2 DEF Lists
<1>6. Selected(s, S) \in Seq(X)
  BY SelectedType
<1> HIDE DEF n, t, a, b
<1>7. CASE n + 1 \in T
  <2>1. b \in Seq(Nat) /\ Len(b) = Len(a) + 1 /\ b[Len(a) + 1] = n + 1 /\ Len(a) \in Nat
        /\ \A k \in 1..Len(a) : b[k] = a[k]
    BY <1>1, <1>2, <1>7
  <2> DEFINE u == Append(Selected(s, S), x)
             v == Selected(t, T)
  <2>2. Len(Selected(s, S)) = Len(a)
    BY <1>3, <2>1
  <2>3. u \in Seq(X) /\ Len(u) = Len(a) + 1 /\ u[Len(a) + 1] = x
        /\ \A k \in 1..Len(a) : u[k] = s[a[k]]
    BY <1>3, <1>6, <2>1, <2>2
  <2>4. v[Len(a) + 1] = x
    BY <1>1, <1>4, <2>1
  <2>5. \A k \in 1..Len(a) : v[k] = s[a[k]]
    <3> SUFFICES ASSUME NEW k \in 1..Len(a) PROVE v[k] = s[a[k]]
      OBVIOUS
    <3>1. k \in 1..Len(b)
      BY <2>1
    <3>2. v[k] = t[a[k]]
      BY <1>4, <2>1, <3>1
    <3> QED
      BY <1>1, <1>5, <3>2
  <2>6. v \in Seq(X) /\ Len(v) = Len(a) + 1
    <3>1. v \in Seq(X)
      BY <1>1, SelectedType
    <3>2. DOMAIN v = 1..(Len(a) + 1)
      BY <1>4, <2>1
    <3> QED
      BY <2>1, <3>1, <3>2
  <2> HIDE DEF u, v
  <2>7. \A k \in 1..Len(u) : u[k] = v[k]
    <3> SUFFICES ASSUME NEW k \in 1..Len(u) PROVE u[k] = v[k]
      OBVIOUS
    <3>1. k \in 1..Len(a) \/ k = Len(a) + 1
      BY <2>1, <2>3
    <3> QED
      BY <2>3, <2>4, <2>5, <3>1
  <2>8. u = v
    BY ONLY <2>3, <2>6, <2>7, SeqEqual
  <2> QED
    BY <1>7, <2>8 DEF u, v, t, n
<1>8. CASE n + 1 \notin T
  <2>1. b = a
    BY <1>2, <1>8
  <2>2. \A k \in 1..Len(a) : t[b[k]] = s[a[k]]
    BY <1>1, <1>5, <2>1
  <2>3. Selected(t, T) = Selected(s, S)
    BY <1>3, <1>4, <2>1, <2>2
  <2> QED
    BY <1>8, <2>3 DEF t, n
<1> QED
  BY <1>7, <1>8

\* A piece of a sequence.
LEMMA PieceIs ==
  ASSUME NEW X, NEW s \in Seq(X), NEW from \in Nat, NEW len \in Nat, from + len <= Len(s)
  PROVE  /\ SubSeq(s, from + 1, from + len) \in Seq(X)
         /\ Len(SubSeq(s, from + 1, from + len)) = len
         /\ \A k \in 1..len : SubSeq(s, from + 1, from + len)[k] = s[from + k]
OBVIOUS

\* Two sequences put together.
LEMMA ConcatIs ==
  ASSUME NEW X, NEW s \in Seq(X), NEW t \in Seq(X)
  PROVE  /\ s \o t \in Seq(X) /\ Len(s \o t) = Len(s) + Len(t)
         /\ \A k \in 1..Len(s) : (s \o t)[k] = s[k]
         /\ \A k \in 1..Len(t) : (s \o t)[Len(s) + k] = t[k]
OBVIOUS

-----------------------------------------------------------------------------
\* The filter.

\* The places of the input's rows.
Place == {p \in (1..MaxBatches) \X (1..MaxRows) :
            p[1] \in 1..Len(batches) /\ p[2] \in 1..Len(batches[p[1]].rows)}

Passes(p) == batches[p[1]].rows[p[2]].pass

PlacesOf(b) == [r \in 1..Len(batches[b].rows) |-> <<b, r>>]

\* A row that passes is found after those before it.
LEMMA PassingNext ==
  ASSUME NEW X, NEW s \in Seq(X), NEW p \in X
  PROVE  Passing(Append(s, p)) = IF Passes(p) THEN Append(Passing(s), p) ELSE Passing(s)
<1> DEFINE n == Len(s)
           t == Append(s, p)
           S == {k \in DOMAIN s : Passes(s[k])}
           T == {k \in DOMAIN t : Passes(t[k])}
<1>1. /\ n \in Nat /\ DOMAIN s = 1..n /\ DOMAIN t = 1..(n + 1)
      /\ t[n + 1] = p /\ \A i \in 1..n : t[i] = s[i]
  OBVIOUS
<1>2. Passing(s) = Selected(s, S) /\ Passing(t) = Selected(t, T)
  BY DEF Passing, Passes
<1>3. \A i \in 1..n : i \in S <=> i \in T
  <2> HIDE DEF t, n
  <2>1. \A i \in 1..n : i \in 1..(n + 1)
    BY <1>1
  <2> QED
    BY <1>1, <2>1
<1>4. n + 1 \in T <=> Passes(p)
  <2> HIDE DEF t, n
  <2>1. n + 1 \in 1..(n + 1)
    BY <1>1
  <2> QED
    BY <1>1, <2>1
<1> HIDE DEF S, T
<1>5. Selected(t, T) = IF n + 1 \in T THEN Append(Selected(s, S), p) ELSE Selected(s, S)
  BY <1>3, SelectedNext
<1> QED
  BY <1>2, <1>4, <1>5

\* The passing rows of two pieces are those of the first and then those of the second.
LEMMA PassingConcat ==
  ASSUME NEW X, NEW s \in Seq(X), NEW t \in Seq(X)
  PROVE  Passing(s \o t) = Passing(s) \o Passing(t)
<1> DEFINE n == Len(t)
           head(m) == SubSeq(t, 1, m)
           T == {m \in 0..n : Passing(s \o head(m)) = Passing(s) \o Passing(head(m))}
<1>0. n \in Nat /\ \A m \in 0..n : head(m) \in Seq(X) /\ Len(head(m)) = m
  OBVIOUS
<1>1. \A q \in Seq(X) : Passing(q) \in Seq(X)
  BY SelectedType DEF Passing
<1>2. 0 \in T
  <2>1. head(0) = <<>> /\ s \o <<>> = s
    OBVIOUS
  <2>2. Passing(<<>>) = <<>>
    BY SelectedEmpty DEF Passing
  <2>3. Passing(s) \o <<>> = Passing(s)
    BY <1>1, ConcatEmptySeq
  <2>4. 0 \in 0..n
    BY <1>0
  <2>5. Passing(s \o head(0)) = Passing(s) \o Passing(head(0))
    <3> HIDE DEF head
    <3> QED
      BY <2>1, <2>2, <2>3
  <2> QED
    BY <2>4, <2>5
<1>3. Inductive(T, 0, n)
  <2> SUFFICES ASSUME NEW m \in 0..(n - 1), m \in T
               PROVE  m + 1 \in T
    BY DEF Inductive
  <2>1. m \in 0..n /\ m + 1 \in 1..n /\ t[m + 1] \in X
    OBVIOUS
  <2>2. head(m + 1) = Append(head(m), t[m + 1])
    BY <2>1
  <2>3. head(m) \in Seq(X)
    BY <1>0, <2>1
  <2>4. Passing(s \o head(m)) = Passing(s) \o Passing(head(m))
    OBVIOUS
  <2> HIDE DEF head, T
  <2> DEFINE x == t[m + 1]
             u == head(m)
  <2>5. u \in Seq(X) /\ x \in X
    BY <2>1, <2>3
  <2> HIDE DEF x, u
  <2>6. s \o Append(u, x) = Append(s \o u, x) /\ s \o u \in Seq(X)
    BY <2>5
  <2>7. Passing(s \o Append(u, x)) = IF Passes(x) THEN Append(Passing(s \o u), x)
                                     ELSE Passing(s \o u)
    BY <2>5, <2>6, PassingNext
  <2>8. Passing(Append(u, x)) = IF Passes(x) THEN Append(Passing(u), x) ELSE Passing(u)
    BY <2>5, PassingNext
  <2>9. Passing(s) \o Append(Passing(u), x) = Append(Passing(s) \o Passing(u), x)
    <3>1. Passing(s) \in Seq(X) /\ Passing(u) \in Seq(X)
      BY <1>1, <2>5
    <3> QED
      BY <2>5, <3>1
  <2>10. Passing(s \o Append(u, x)) = Passing(s) \o Passing(Append(u, x))
    BY <2>4, <2>7, <2>8, <2>9 DEF u
  <2>11. m + 1 \in 0..n
    BY <2>1
  <2> QED
    BY <2>2, <2>10, <2>11 DEF T, u, x
<1>4. n \in T
  <2>1. 0 \in Int /\ n \in Int /\ n \in 0..n
    BY <1>0
  <2> HIDE DEF T, n
  <2> QED
    BY <1>2, <1>3, <2>1, IntervalInduction
<1>5. head(n) = t
  OBVIOUS
<1> QED
  BY <1>4, <1>5

\* The input and the query that are given.
Given == batches \in Inputs /\ query \in Queries

\* The batches of the input, and how many rows they have together.
LEMMA InputIs ==
  ASSUME Given
  PROVE  /\ batches \in Seq(Batches) /\ Len(batches) \in 0..MaxBatches
         /\ DOMAIN batches = 1..Len(batches)
         /\ RowsIn(batches) <= MaxRows
         /\ \A b \in 1..Len(batches) : /\ batches[b].rows \in Seq(Rows)
                                       /\ Len(batches[b].rows) \in 0..MaxRows
                                       /\ batches[b].fails \in BOOLEAN
<1>1. PICK n \in 0..MaxBatches : batches \in [1..n -> Batches]
  BY DEF Given, Inputs
<1>2. MaxBatches \in Nat /\ MaxRows \in Nat
  BY StreamAssumption
<1>3. n \in Nat
  BY <1>2
<1>4. batches \in Seq(Batches) /\ Len(batches) = n /\ DOMAIN batches = 1..n
  BY <1>1, <1>3
<1>5. \A b \in Batches : /\ b.rows \in Seq(Rows) /\ Len(b.rows) \in 0..MaxRows
                         /\ b.fails \in BOOLEAN
  <2> SUFFICES ASSUME NEW b \in Batches
               PROVE  /\ b.rows \in Seq(Rows) /\ Len(b.rows) \in 0..MaxRows
                      /\ b.fails \in BOOLEAN
    OBVIOUS
  <2>1. CASE b = [fails |-> TRUE, rows |-> <<>>]
    <3>1. <<>> \in Seq(Rows) /\ Len(<<>>) \in 0..MaxRows
      BY <1>2
    <3> QED
      BY <2>1, <3>1
  <2>2. CASE b \in [fails : {FALSE}, rows : UNION {[1..k -> Rows] : k \in 0..MaxRows}]
    <3>1. PICK k \in 0..MaxRows : b.rows \in [1..k -> Rows]
      BY <2>2
    <3>2. k \in Nat
      BY <1>2
    <3>3. b.rows \in Seq(Rows) /\ Len(b.rows) = k
      BY <3>1, <3>2
    <3> QED
      BY <2>2, <3>3
  <2> QED
    BY <2>1, <2>2 DEF Batches
<1>6. \A b \in 1..Len(batches) : batches[b] \in Batches
  BY <1>1, <1>4
<1>7. RowsIn(batches) <= MaxRows
  BY DEF Given, Inputs
<1> QED
  BY <1>1, <1>4, <1>5, <1>6, <1>7

\* The batches can be counted.
LEMMA Counted == Given => Len(batches) \in Nat
BY InputIs, StreamAssumption

\* The definition of the query puts sequences together as the operators do,
LEMMA SameFlatten == \A ss : Q!FlattenSeq(ss) = FlattenSeq(ss)
BY DEF FlattenSeq, Q!FlattenSeq

\* lists places as they do,
LEMMA SameAscending == \A S, n : Q!Ascending(S, n) = Ascending(S, n)
BY SameFlatten DEF Ascending, Q!Ascending

\* and keeps elements as they do.
LEMMA SameSelected == \A s, S : Q!Selected(s, S) = Selected(s, S)
BY SameAscending DEF Selected, Q!Selected

\* It counts the elements of sets as they do.
LEMMA SameCardinality == \A S : Q!Cardinality(S) = Cardinality(S)
BY DEF Cardinality, Q!Cardinality

\* The places of a batch, by row, and those whose rows pass.
LEMMA PlacesAre ==
  ASSUME Given, NEW b \in 1..Len(batches)
  PROVE  /\ PlacesOf(b) \in Seq(Place)
         /\ Len(PlacesOf(b)) = Len(batches[b].rows)
         /\ Len(batches[b].rows) \in 0..MaxRows
         /\ \A r \in 1..Len(batches[b].rows) : PlacesOf(b)[r] = <<b, r>>
         /\ Q!Passing(b) = Passing(PlacesOf(b))
<1> DEFINE n == Len(batches[b].rows)
<1>1. n \in 0..MaxRows /\ b \in 1..MaxBatches /\ MaxRows \in Nat
  BY InputIs, StreamAssumption
<1>2. /\ PlacesOf(b) = [r \in 1..n |-> <<b, r>>]
      /\ Q!Passing(b) = Selected(PlacesOf(b), {r \in 1..n : batches[b].rows[r].pass})
  BY SameSelected DEF PlacesOf, Q!Passing
<1> HIDE DEF n
<1>3. \A r \in 1..n : <<b, r>> \in Place
  <2> SUFFICES ASSUME NEW r \in 1..n PROVE <<b, r>> \in Place
    OBVIOUS
  <2>1. <<b, r>> \in (1..MaxBatches) \X (1..MaxRows) /\ <<b, r>>[1] = b /\ <<b, r>>[2] = r
    BY <1>1
  <2> QED
    BY <2>1 DEF Place, n
<1>4. n \in Nat
  BY <1>1
<1>5. PlacesOf(b) \in Seq(Place) /\ Len(PlacesOf(b)) = n /\ DOMAIN PlacesOf(b) = 1..n
      /\ \A r \in 1..n : PlacesOf(b)[r] = <<b, r>>
  BY <1>2, <1>3, <1>4
<1>6. \A r \in 1..n : /\ PlacesOf(b)[r][1] = b
                      /\ PlacesOf(b)[r][2] = r
  BY <1>5
<1>7. {r \in 1..n : batches[b].rows[r].pass}
        = {k \in DOMAIN PlacesOf(b) : batches[PlacesOf(b)[k][1]].rows[PlacesOf(b)[k][2]].pass}
  BY <1>5, <1>6
<1> QED
  BY <1>1, <1>2, <1>5, <1>7 DEF n, Passing

\* The rows up to `to` are those up to `from` and the chunk that follows.
LEMMA NextChunk ==
  ASSUME NEW X, NEW s \in Seq(X), NEW lo \in Nat, NEW hi \in Nat, lo <= hi, hi <= Len(s)
  PROVE  /\ SubSeq(s, 1, lo) \in Seq(X) /\ SubSeq(s, lo + 1, hi) \in Seq(X)
         /\ SubSeq(s, 1, hi) = SubSeq(s, 1, lo) \o SubSeq(s, lo + 1, hi)
<1> DEFINE u == SubSeq(s, 1, lo)
           v == SubSeq(s, lo + 1, hi)
           w == SubSeq(s, 1, hi)
<1>1. /\ u \in Seq(X) /\ Len(u) = lo /\ v \in Seq(X) /\ Len(v) = hi - lo
      /\ w \in Seq(X) /\ Len(w) = hi
      /\ \A k \in 1..lo : u[k] = s[k]
      /\ \A k \in 1..(hi - lo) : v[k] = s[lo + k]
      /\ \A k \in 1..hi : w[k] = s[k]
  OBVIOUS
<1> HIDE DEF u, v, w
<1>2. u \o v \in Seq(X) /\ Len(u \o v) = hi
  BY <1>1
<1>3. \A k \in 1..hi : (u \o v)[k] = s[k]
  <2> SUFFICES ASSUME NEW k \in 1..hi PROVE (u \o v)[k] = s[k]
    OBVIOUS
  <2>1. CASE k <= lo
    BY <1>1, <2>1
  <2>2. CASE lo < k
    <3>1. k - lo \in 1..(hi - lo) /\ lo + (k - lo) = k
      BY <2>2
    <3>2. (u \o v)[k] = v[k - lo]
      BY <1>1, <2>2
    <3> QED
      BY <1>1, <3>1, <3>2
  <2> QED
    <3>1. k <= lo \/ lo < k
      OBVIOUS
    <3> QED
      BY <2>1, <2>2, <3>1
<1>4. w = u \o v
  <2>1. Len(w) = Len(u \o v) /\ \A k \in 1..Len(w) : w[k] = (u \o v)[k]
    BY <1>1, <1>2, <1>3
  <2> QED
    BY ONLY <1>1, <1>2, <2>1, SeqEqual
<1> QED
  BY <1>1, <1>4 DEF u, v, w

\* The jobs of the filter find the passing rows of the batch, in order.
LEMMA FilterIs ==
  ASSUME Given, NEW b \in 1..Len(batches)
  PROVE  Filter(b) = Q!Passing(b)
<1> DEFINE places == PlacesOf(b)
           n == Len(batches[b].rows)
           per == DivCeil(n, Threads)
           chunks == DivCeil(n, per)
           upto(c) == Min({c * per, n})
           ss == [c \in 1..chunks |-> Passing(SubSeq(places, (c - 1) * per + 1, upto(c)))]
<1>1. Filter(b) = IF Threads < 2 \/ n < MinRows THEN Passing(places) ELSE FlattenSeq(ss)
  BY DEF Filter, PlacesOf
<1>2. places \in Seq(Place) /\ Len(places) = n /\ n \in Nat /\ Q!Passing(b) = Passing(places)
  BY PlacesAre, StreamAssumption
<1>3. Threads \in Nat \ {0} /\ MinRows \in Nat \ {0}
  BY StreamAssumption
<1> HIDE DEF places, n
<1>4. ASSUME ~(Threads < 2 \/ n < MinRows)
      PROVE  FlattenSeq(ss) = Passing(places)
  <2>1. n > 0
    BY <1>2, <1>3, <1>4
  <2>2. per \in Nat \ {0}
    <3>1. per \in Nat /\ n <= per * Threads
      BY <1>2, <1>3, Pieces
    <3>2. per # 0
      <4> SUFFICES ASSUME per = 0 PROVE FALSE
        OBVIOUS
      <4>1. per * Threads = 0
        BY <1>3
      <4> QED
        BY <1>2, <2>1, <3>1, <4>1
    <3> QED
      BY <3>1, <3>2
  <2> HIDE DEF per
  <2>3. chunks \in Nat /\ n <= chunks * per /\ chunks * per < n + per
    BY <1>2, <2>2, Pieces
  <2> HIDE DEF chunks
  <2>4. \A c \in 0..chunks : c * per \in Nat /\ upto(c) = IF c * per <= n THEN c * per ELSE n
    <3> SUFFICES ASSUME NEW c \in 0..chunks
                 PROVE  c * per \in Nat /\ upto(c) = IF c * per <= n THEN c * per ELSE n
      OBVIOUS
    <3>1. c * per \in Nat
      BY <2>2, <2>3
    <3> QED
      BY <1>2, <3>1, MinOfTwo
  <2>5. \A c \in 1..chunks : /\ (c - 1) * per \in Nat /\ (c - 1) * per <= n
                             /\ upto(c - 1) = (c - 1) * per
                             /\ upto(c) \in Nat /\ (c - 1) * per <= upto(c) /\ upto(c) <= n
    <3> SUFFICES ASSUME NEW c \in 1..chunks
                 PROVE  /\ (c - 1) * per \in Nat /\ (c - 1) * per <= n
                        /\ upto(c - 1) = (c - 1) * per
                        /\ upto(c) \in Nat /\ (c - 1) * per <= upto(c) /\ upto(c) <= n
      OBVIOUS
    <3> DEFINE d == c - 1
    <3>1. d \in Nat /\ c = d + 1 /\ d + 1 <= chunks /\ d \in 0..chunks /\ c \in 0..chunks
      BY <2>3
    <3> HIDE DEF d
    <3>2. d * per \in Nat /\ c * per = d * per + per /\ c * per \in Nat
      BY <2>2, <3>1
    <3>3. c * per <= chunks * per
      BY <2>2, <2>3, <3>1
    <3>4. d * per < n
      <4> DEFINE x == c * per
                 y == chunks * per
                 z == d * per
      <4>1. x \in Nat /\ z \in Nat /\ y \in Int /\ x = z + per /\ x <= y /\ y < n + per
        BY <2>2, <2>3, <3>2, <3>3
      <4> HIDE DEF x, y, z
      <4>2. z < n
        BY <1>2, <2>2, <4>1
      <4> QED
        BY <4>2 DEF z
    <3>5. upto(d) = d * per /\ upto(c) = IF c * per <= n THEN c * per ELSE n
      BY <1>2, <2>4, <3>1, <3>2, <3>4
    <3> HIDE DEF upto
    <3> DEFINE x == c * per
               z == d * per
    <3>6. x \in Nat /\ z \in Nat /\ x = z + per /\ z < n /\ upto(c) = IF x <= n THEN x ELSE n
      BY <3>2, <3>4, <3>5
    <3> HIDE DEF x, z
    <3>7. upto(c) \in Nat /\ z <= upto(c) /\ upto(c) <= n /\ z <= n /\ z \in Nat
      BY <1>2, <2>2, <3>6
    <3> QED
      BY <3>5, <3>7 DEF d, z
  <2> HIDE DEF upto
  <2>6. \A c \in 1..chunks : ss[c] = Passing(SubSeq(places, (c - 1) * per + 1, upto(c)))
    OBVIOUS
  <2>7. \A q \in Seq(Place) : Passing(q) \in Seq(Place)
    BY SelectedType DEF Passing
  <2>8. \A c \in 1..chunks :
          /\ SubSeq(places, 1, upto(c - 1)) \in Seq(Place)
          /\ SubSeq(places, (c - 1) * per + 1, upto(c)) \in Seq(Place)
          /\ SubSeq(places, 1, upto(c)) = SubSeq(places, 1, upto(c - 1))
                                            \o SubSeq(places, (c - 1) * per + 1, upto(c))
    <3> SUFFICES ASSUME NEW c \in 1..chunks
                 PROVE
          /\ SubSeq(places, 1, upto(c - 1)) \in Seq(Place)
          /\ SubSeq(places, (c - 1) * per + 1, upto(c)) \in Seq(Place)
          /\ SubSeq(places, 1, upto(c)) = SubSeq(places, 1, upto(c - 1))
                                            \o SubSeq(places, (c - 1) * per + 1, upto(c))
      OBVIOUS
    <3> DEFINE lo == (c - 1) * per
               hi == upto(c)
    <3>1. lo \in Nat /\ hi \in Nat /\ lo <= hi /\ hi <= Len(places) /\ upto(c - 1) = lo
      BY <1>2, <2>5
    <3> HIDE DEF lo, hi
    <3>2. /\ SubSeq(places, 1, lo) \in Seq(Place) /\ SubSeq(places, lo + 1, hi) \in Seq(Place)
          /\ SubSeq(places, 1, hi) = SubSeq(places, 1, lo) \o SubSeq(places, lo + 1, hi)
      BY ONLY <1>2, <3>1, NextChunk
    <3> QED
      BY <3>1, <3>2 DEF lo, hi
  <2>9. ss \in Seq(Seq(Place)) /\ Len(ss) = chunks
    <3>1. \A c \in 1..chunks : ss[c] \in Seq(Place)
      BY <2>6, <2>7, <2>8
    <3>2. ss = [c \in 1..chunks |-> ss[c]]
      OBVIOUS
    <3> HIDE DEF ss
    <3> QED
      BY <2>3, <3>1, <3>2
  <2> HIDE DEF ss
  <2>10. PICK f : Flattens(f, ss, Place) /\ FlattenSeq(ss) = f[chunks]
    BY <2>9, FlattenIs
  <2> DEFINE T == {c \in 0..chunks : f[c] = Passing(SubSeq(places, 1, upto(c)))}
  <2>11. 0 \in T
    <3>1. upto(0) = 0
      <4>1. 0 \in 0..chunks /\ 0 * per = 0
        BY <2>2, <2>3
      <4> QED
        BY <1>2, <2>4, <4>1
    <3>2. SubSeq(places, 1, 0) = <<>>
      BY <1>2
    <3>3. Passing(<<>>) = <<>>
      BY SelectedEmpty DEF Passing
    <3>4. f[0] = <<>>
      BY <2>10 DEF Flattens
    <3>5. 0 \in 0..chunks
      BY <2>3
    <3>6. f[0] = Passing(SubSeq(places, 1, upto(0)))
      BY <3>1, <3>2, <3>3, <3>4
    <3> QED
      BY <3>5, <3>6
  <2>12. Inductive(T, 0, chunks)
    <3> SUFFICES ASSUME NEW d \in 0..(chunks - 1), d \in T
                 PROVE  d + 1 \in T
      BY DEF Inductive
    <3> DEFINE c == d + 1
               u == SubSeq(places, 1, upto(c - 1))
               v == SubSeq(places, (c - 1) * per + 1, upto(c))
    <3>1. c \in 1..chunks /\ c \in 0..chunks /\ c - 1 = d
      BY <2>3
    <3>2. f[d] = Passing(SubSeq(places, 1, upto(d)))
      OBVIOUS
    <3> HIDE DEF T, c
    <3>3. f[c] = f[c - 1] \o ss[c]
      BY <2>9, <2>10, <3>1 DEF Flattens
    <3>4. u \in Seq(Place) /\ v \in Seq(Place) /\ SubSeq(places, 1, upto(c)) = u \o v
      BY <2>8, <3>1
    <3>5. f[c - 1] = Passing(u) /\ ss[c] = Passing(v)
      BY <2>6, <3>1, <3>2
    <3> HIDE DEF u, v
    <3>6. Passing(u \o v) = Passing(u) \o Passing(v)
      BY <3>4, PassingConcat
    <3>7. c \in T
      BY <3>1, <3>3, <3>4, <3>5, <3>6 DEF T
    <3> QED
      BY <3>7 DEF c
  <2>13. chunks \in T
    <3>1. 0 \in Int /\ chunks \in Int /\ chunks \in 0..chunks
      BY <2>3
    <3> HIDE DEF T
    <3> QED
      BY <2>11, <2>12, <3>1, IntervalInduction
  <2>14. SubSeq(places, 1, upto(chunks)) = places
    <3>1. upto(chunks) = n
      <4>1. chunks \in 0..chunks
        BY <2>3
      <4>2. upto(chunks) = IF chunks * per <= n THEN chunks * per ELSE n
        BY <2>4, <4>1
      <4> DEFINE x == chunks * per
      <4>3. x \in Nat /\ n <= x /\ upto(chunks) = IF x <= n THEN x ELSE n
        BY <2>3, <2>4, <4>1, <4>2
      <4> HIDE DEF x
      <4> QED
        BY <1>2, <4>3
    <3> QED
      BY <1>2, <3>1
  <2> QED
    BY <2>10, <2>13, <2>14
<1> QED
  BY <1>1, <1>2, <1>4

-----------------------------------------------------------------------------
\* The passing rows of the input.

\* The places of s are in the order of the input.
InOrder(s) == \A i, j \in 1..Len(s) : i < j => Q!Earlier(s[i], s[j])

\* The passing rows of a batch are some of its rows, in order.
LEMMA PassingRows ==
  ASSUME Given, NEW b \in 1..Len(batches)
  PROVE  /\ Q!Passing(b) \in Seq(Place)
         /\ Len(Q!Passing(b)) <= Len(batches[b].rows)
         /\ \A k \in 1..Len(Q!Passing(b)) : Q!Passing(b)[k][1] = b
         /\ InOrder(Q!Passing(b))
<1> DEFINE places == PlacesOf(b)
           n == Len(batches[b].rows)
           rows == Q!Passing(b)
           S == {k \in DOMAIN places : batches[places[k][1]].rows[places[k][2]].pass}
<1>1. /\ places \in Seq(Place) /\ Len(places) = n /\ n \in Nat
      /\ \A r \in 1..n : places[r] = <<b, r>>
      /\ rows = Passing(places)
  BY PlacesAre, StreamAssumption
<1>2. rows = Selected(places, S)
  BY <1>1 DEF Passing
<1> HIDE DEF places, n, S, rows
<1>3. /\ rows \in Seq(Place) /\ Len(rows) <= n
      /\ \E at : Keeps(rows, places, at, S)
  BY <1>1, <1>2, SelectedType
<1>4. PICK at : Lists(at, S \cap 1..n) /\ rows = [k \in 1..Len(at) |-> places[at[k]]]
  BY <1>1, <1>3 DEF Keeps
<1>5. /\ at \in Seq(Nat) /\ Len(at) \in Nat /\ DOMAIN at = 1..Len(at)
      /\ \A k \in 1..Len(at) : at[k] \in 1..n
      /\ \A h, i \in 1..Len(at) : h < i => at[h] < at[i]
  <2>1. /\ at \in Seq(Nat) /\ {at[h] : h \in DOMAIN at} = S \cap 1..n
        /\ \A h, i \in DOMAIN at : h < i => at[h] < at[i]
    BY <1>4 DEF Lists
  <2>2. DOMAIN at = 1..Len(at) /\ Len(at) \in Nat
    BY <2>1
  <2>3. \A k \in 1..Len(at) : at[k] \in {at[h] : h \in DOMAIN at}
    BY <2>2
  <2>4. \A k \in 1..Len(at) : at[k] \in 1..n
    BY <2>1, <2>3
  <2> QED
    BY <2>1, <2>2, <2>4
<1>6. Len(rows) = Len(at)
  BY <1>4, <1>5
<1>7. \A k \in 1..Len(rows) : rows[k] = <<b, at[k]>>
  BY <1>1, <1>4, <1>5, <1>6
<1>8. \A k \in 1..Len(rows) : rows[k][1] = b /\ rows[k][2] = at[k]
  BY <1>7
<1>9. InOrder(rows)
  BY <1>5, <1>6, <1>8 DEF InOrder, Q!Earlier
<1> QED
  BY <1>3, <1>8, <1>9 DEF rows, n

\* There are none before the first batch,
LEMMA FirstRowsNone == Q!FirstRows(0) = <<>>
<1>1. [b \in 1..0 |-> Q!Passing(b)] = <<>>
  OBVIOUS
<1> QED
  BY <1>1, SameFlatten, FlattenEmpty DEF Q!FirstRows

\* and those of the next batch follow.
LEMMA FirstRowsNext ==
  ASSUME Given, NEW n \in 0..(Len(batches) - 1)
  PROVE  Q!FirstRows(n + 1) = Q!FirstRows(n) \o Q!Passing(n + 1)
<1> DEFINE ss == [b \in 1..n |-> Q!Passing(b)]
           tt == [b \in 1..(n + 1) |-> Q!Passing(b)]
<1>1. n \in Nat /\ Len(batches) \in Nat
  BY InputIs, StreamAssumption
<1>2. \A b \in 1..(n + 1) : Q!Passing(b) \in Seq(Place)
  <2>1. \A b \in 1..(n + 1) : b \in 1..Len(batches)
    BY <1>1
  <2> QED
    BY <2>1, PassingRows
<1>3. \A b \in 1..n : b \in 1..(n + 1)
  BY <1>1
<1>4. /\ ss \in Seq(Seq(Place)) /\ Len(ss) = n
      /\ tt \in Seq(Seq(Place)) /\ Len(tt) = n + 1
      /\ \A b \in 1..n : ss[b] = tt[b]
      /\ tt[n + 1] = Q!Passing(n + 1)
  BY <1>1, <1>2, <1>3
<1>5. Q!FirstRows(n) = FlattenSeq(ss) /\ Q!FirstRows(n + 1) = FlattenSeq(tt)
  BY SameFlatten DEF Q!FirstRows
<1> HIDE DEF ss, tt
<1>6. FlattenSeq(tt) = FlattenSeq(ss) \o tt[n + 1]
  BY ONLY <1>1, <1>4, FlattenLast
<1> QED
  BY <1>4, <1>5, <1>6

\* The passing rows of the first batches are places of theirs, in order.
LEMMA FirstRowsAre ==
  ASSUME Given, NEW n \in 0..Len(batches)
  PROVE  /\ Q!FirstRows(n) \in Seq(Place)
         /\ \A i \in 1..Len(Q!FirstRows(n)) : Q!FirstRows(n)[i][1] <= n
         /\ InOrder(Q!FirstRows(n))
<1> DEFINE Are(m) == /\ Q!FirstRows(m) \in Seq(Place)
                     /\ \A i \in 1..Len(Q!FirstRows(m)) : Q!FirstRows(m)[i][1] <= m
                     /\ InOrder(Q!FirstRows(m))
           T == {m \in 0..Len(batches) : Are(m)}
<1>0. Len(batches) \in Nat /\ 0 \in 0..Len(batches)
  BY InputIs, StreamAssumption
<1>1. 0 \in T
  <2>1. Len(<<>>) = 0 /\ 1..0 = {} /\ <<>> \in Seq(Place)
    OBVIOUS
  <2> QED
    BY <1>0, <2>1, FirstRowsNone DEF InOrder
<1>2. Inductive(T, 0, Len(batches))
  <2> SUFFICES ASSUME NEW m \in 0..(Len(batches) - 1), Are(m)
               PROVE  m + 1 \in 0..Len(batches) /\ Are(m + 1)
    BY DEF Inductive
  <2> DEFINE s == Q!FirstRows(m)
             t == Q!Passing(m + 1)
             u == Q!FirstRows(m + 1)
  <2>1. m \in Nat /\ m + 1 \in 1..Len(batches) /\ m + 1 \in 0..Len(batches)
    BY <1>0
  <2>2. /\ s \in Seq(Place) /\ InOrder(s)
        /\ \A i \in 1..Len(s) : s[i][1] <= m
    OBVIOUS
  <2>3. t \in Seq(Place) /\ InOrder(t) /\ \A k \in 1..Len(t) : t[k][1] = m + 1
    BY <2>1, PassingRows
  <2>4. u = s \o t
    BY FirstRowsNext
  <2> HIDE DEF s, t, u
  <2>5. /\ u \in Seq(Place) /\ Len(u) = Len(s) + Len(t) /\ Len(s) \in Nat /\ Len(t) \in Nat
        /\ \A i \in 1..Len(s) : u[i] = s[i]
        /\ \A k \in 1..Len(t) : u[Len(s) + k] = t[k]
    BY <2>2, <2>3, <2>4
  <2>6. \A p \in Place : p[1] \in Nat /\ p[2] \in Nat
    <3>1. MaxBatches \in Nat /\ MaxRows \in Nat
      BY StreamAssumption
    <3> QED
      BY <3>1 DEF Place
  <2>7. \A i \in 1..Len(u) : \/ i \in 1..Len(s) /\ u[i] = s[i] /\ s[i] \in Place
                             \/ /\ i - Len(s) \in 1..Len(t) /\ i \notin 1..Len(s)
                                /\ u[i] = t[i - Len(s)] /\ t[i - Len(s)] \in Place
    <3> SUFFICES ASSUME NEW i \in 1..Len(u)
                 PROVE  \/ i \in 1..Len(s) /\ u[i] = s[i] /\ s[i] \in Place
                        \/ /\ i - Len(s) \in 1..Len(t) /\ i \notin 1..Len(s)
                           /\ u[i] = t[i - Len(s)] /\ t[i - Len(s)] \in Place
      OBVIOUS
    <3>1. CASE i <= Len(s)
      BY <2>2, <2>5, <3>1
    <3>2. CASE Len(s) < i
      <4>1. i - Len(s) \in 1..Len(t) /\ Len(s) + (i - Len(s)) = i
        BY <2>5, <3>2
      <4>2. u[i] = t[i - Len(s)]
        BY <2>5, <4>1
      <4> QED
        BY <2>3, <2>5, <3>2, <4>1, <4>2
    <3> QED
      BY <2>5, <3>1, <3>2
  <2>8. \A i \in 1..Len(u) : u[i][1] <= m + 1
    <3> SUFFICES ASSUME NEW i \in 1..Len(u) PROVE u[i][1] <= m + 1
      OBVIOUS
    <3>1. CASE i \in 1..Len(s) /\ u[i] = s[i] /\ s[i] \in Place
      <4>1. s[i][1] \in Nat /\ s[i][1] <= m
        BY <2>2, <2>6, <3>1
      <4> QED
        BY <2>1, <3>1, <4>1
    <3>2. CASE i - Len(s) \in 1..Len(t) /\ u[i] = t[i - Len(s)]
      BY <2>1, <2>3, <3>2
    <3> QED
      BY <2>7, <3>1, <3>2
  <2>9. ASSUME NEW i \in 1..Len(u), NEW j \in 1..Len(u), i < j
        PROVE  Q!Earlier(u[i], u[j])
    <3>1. CASE i \in 1..Len(s) /\ j \in 1..Len(s)
      BY <2>2, <2>5, <2>9, <3>1 DEF InOrder
    <3>2. CASE i \in 1..Len(s) /\ j \notin 1..Len(s)
      <4>1. u[i][1] <= m /\ u[i][1] \in Nat
        BY <2>2, <2>6, <2>7, <3>2
      <4>2. u[j][1] = m + 1
        BY <2>3, <2>7, <3>2
      <4> QED
        BY <2>1, <4>1, <4>2 DEF Q!Earlier
    <3>3. CASE i \notin 1..Len(s)
      <4>1. j \notin 1..Len(s)
        BY <2>5, <2>9, <3>3
      <4>2. /\ i - Len(s) \in 1..Len(t) /\ u[i] = t[i - Len(s)]
            /\ j - Len(s) \in 1..Len(t) /\ u[j] = t[j - Len(s)]
        BY <2>7, <3>3, <4>1
      <4>3. i - Len(s) < j - Len(s)
        BY <2>5, <2>9
      <4> QED
        BY <2>3, <4>2, <4>3 DEF InOrder
    <3> QED
      BY <3>1, <3>2, <3>3
  <2>10. InOrder(u)
    BY <2>9 DEF InOrder
  <2> QED
    BY <2>1, <2>5, <2>8, <2>10 DEF u
<1>3. n \in T
  <2>1. 0 \in Int /\ Len(batches) \in Int
    BY <1>0
  <2> HIDE DEF T
  <2> QED
    BY <1>1, <1>2, <2>1, IntervalInduction
<1> QED
  BY <1>3

\* What has been found stays found.
LEMMA FirstRowsGrow ==
  ASSUME Given, NEW m \in 0..Len(batches), NEW n \in m..Len(batches)
  PROVE  \E rest \in Seq(Place) : Q!FirstRows(n) = Q!FirstRows(m) \o rest
<1> DEFINE T == {k \in m..Len(batches) :
                   \E rest \in Seq(Place) : Q!FirstRows(k) = Q!FirstRows(m) \o rest}
<1>0. Len(batches) \in Nat /\ m \in Nat /\ m <= Len(batches)
  BY InputIs, StreamAssumption
<1>1. m \in T
  <2>1. Q!FirstRows(m) \in Seq(Place)
    BY FirstRowsAre
  <2>2. Q!FirstRows(m) = Q!FirstRows(m) \o <<>> /\ <<>> \in Seq(Place)
    BY <2>1, ConcatEmptySeq
  <2>3. m \in m..Len(batches)
    BY <1>0
  <2> QED
    BY <2>2, <2>3
<1>2. Inductive(T, m, Len(batches))
  <2> SUFFICES ASSUME NEW k \in m..(Len(batches) - 1), k \in T
               PROVE  k + 1 \in T
    BY DEF Inductive
  <2>1. PICK rest \in Seq(Place) : Q!FirstRows(k) = Q!FirstRows(m) \o rest
    OBVIOUS
  <2>2. k \in 0..(Len(batches) - 1) /\ k + 1 \in 1..Len(batches) /\ k + 1 \in m..Len(batches)
    BY <1>0
  <2>3. Q!FirstRows(k + 1) = Q!FirstRows(k) \o Q!Passing(k + 1)
    BY <2>2, FirstRowsNext
  <2>4. Q!FirstRows(m) \in Seq(Place) /\ Q!Passing(k + 1) \in Seq(Place)
    BY <2>2, FirstRowsAre, PassingRows
  <2>5. /\ rest \o Q!Passing(k + 1) \in Seq(Place)
        /\ (Q!FirstRows(m) \o rest) \o Q!Passing(k + 1)
             = Q!FirstRows(m) \o (rest \o Q!Passing(k + 1))
    <3> DEFINE s == Q!FirstRows(m)
               t == Q!Passing(k + 1)
    <3>1. s \in Seq(Place) /\ t \in Seq(Place)
      BY <2>4
    <3> HIDE DEF s, t
    <3>2. rest \o t \in Seq(Place)
      BY <3>1
    <3>3. rest \in Seq(Place)
      OBVIOUS
    <3>4. (s \o rest) \o t = s \o (rest \o t)
      BY ONLY <3>1, <3>3, ConcatAssociative
    <3> QED
      BY <3>2, <3>4 DEF s, t
  <2>6. Q!FirstRows(k + 1) = Q!FirstRows(m) \o (rest \o Q!Passing(k + 1))
    BY <2>1, <2>3, <2>5
  <2> QED
    BY <2>2, <2>5, <2>6
<1>3. n \in T
  <2>1. m \in Int /\ Len(batches) \in Int
    BY <1>0
  <2> HIDE DEF T
  <2> QED
    BY <1>1, <1>2, <2>1, IntervalInduction
<1> QED
  BY <1>3

\* There are no more of them than a usize counts.
LEMMA FirstRowsFew ==
  ASSUME Given, NEW n \in 0..Len(batches)
  PROVE  /\ Len(Q!FirstRows(n)) \in Nat
         /\ Len(Q!FirstRows(n)) <= MaxRows
         /\ Len(Q!FirstRows(n)) <= MaxUsize
<1> DEFINE N == Len(batches)
           ss == [b \in DOMAIN batches |-> batches[b].rows]
<1>1. N \in Nat /\ MaxRows \in Nat /\ MaxUsize \in Nat /\ MaxRows <= MaxUsize
  BY InputIs, StreamAssumption
<1>2. /\ DOMAIN batches = 1..N
      /\ \A b \in 1..N : batches[b].rows \in Seq(Rows)
  BY InputIs
<1> HIDE DEF N
<1>3. ss \in Seq(Seq(Rows)) /\ Len(ss) = N /\ \A b \in 1..N : ss[b] = batches[b].rows
  BY <1>1, <1>2
<1>4. Len(FlattenSeq(ss)) <= MaxRows
  BY InputIs DEF RowsIn
<1> HIDE DEF ss
<1>5. PICK c : Flattens(c, ss, Rows) /\ FlattenSeq(ss) = c[N]
  BY <1>3, FlattenIs
<1>6. /\ c \in [0..N -> Seq(Rows)] /\ c[0] = <<>>
      /\ \A b \in 1..N : c[b] = c[b - 1] \o ss[b]
  BY <1>3, <1>5 DEF Flattens
<1>7. \A m \in 0..N : /\ Q!FirstRows(m) \in Seq(Place)
                      /\ Len(Q!FirstRows(m)) \in Nat /\ Len(c[m]) \in Nat
  <2>1. \A m \in 0..N : Q!FirstRows(m) \in Seq(Place)
    BY FirstRowsAre DEF N
  <2> QED
    BY <1>6, <2>1
<1> DEFINE T == {m \in 0..N : Len(Q!FirstRows(m)) <= Len(c[m])}
<1>8. 0 \in T
  <2>1. Len(<<>>) = 0 /\ 0 \in 0..N
    BY <1>1
  <2> QED
    BY <1>6, <2>1, FirstRowsNone
<1>9. Inductive(T, 0, N)
  <2> SUFFICES ASSUME NEW m \in 0..(N - 1), Len(Q!FirstRows(m)) <= Len(c[m])
               PROVE  m + 1 \in 0..N /\ Len(Q!FirstRows(m + 1)) <= Len(c[m + 1])
    BY DEF Inductive
  <2> DEFINE s == Q!FirstRows(m)
             t == Q!Passing(m + 1)
             u == c[m]
             v == ss[m + 1]
  <2>1. m \in 0..N /\ m + 1 \in 1..N /\ m + 1 \in 0..N /\ (m + 1) - 1 = m
    BY <1>1
  <2>2. Q!FirstRows(m + 1) = s \o t
    BY FirstRowsNext DEF N
  <2>3. t \in Seq(Place) /\ Len(t) <= Len(v)
    BY <1>3, <2>1, PassingRows DEF N
  <2>4. c[m + 1] = u \o v
    BY <1>6, <2>1
  <2>5. s \in Seq(Place) /\ u \in Seq(Rows) /\ v \in Seq(Rows)
    <3>1. s \in Seq(Place)
      BY <1>7, <2>1
    <3>2. u \in Seq(Rows)
      BY <1>6, <2>1
    <3>3. v \in Seq(Rows)
      BY <1>2, <1>3, <2>1
    <3> QED
      BY <3>1, <3>2, <3>3
  <2>6. Len(s) <= Len(u)
    OBVIOUS
  <2> HIDE DEF s, t, u, v
  <2>7. Len(s \o t) <= Len(u \o v)
    <3>1. Len(s \o t) = Len(s) + Len(t) /\ Len(u \o v) = Len(u) + Len(v)
      BY <2>3, <2>5
    <3>2. Len(s) \in Nat /\ Len(t) \in Nat /\ Len(u) \in Nat /\ Len(v) \in Nat
      BY <2>3, <2>5
    <3> QED
      BY <2>3, <2>6, <3>1, <3>2
  <2> QED
    BY <2>1, <2>2, <2>4, <2>7
<1>10. N \in T
  <2>1. 0 \in Int /\ N \in Int /\ N \in 0..N
    BY <1>1
  <2> HIDE DEF T
  <2> QED
    BY <1>8, <1>9, <2>1, IntervalInduction
<1>11. Len(Q!FirstRows(N)) <= MaxRows
  <2>1. N \in 0..N
    BY <1>1
  <2> QED
    BY <1>1, <1>4, <1>5, <1>7, <1>10, <2>1
<1>12. Len(Q!FirstRows(n)) <= Len(Q!FirstRows(N))
  <2>1. n \in 0..N /\ N \in n..N /\ N \in 0..N
    BY <1>1 DEF N
  <2>2. PICK rest \in Seq(Place) : Q!FirstRows(N) = Q!FirstRows(n) \o rest
    BY <2>1, FirstRowsGrow DEF N
  <2>3. Len(Q!FirstRows(N)) = Len(Q!FirstRows(n)) + Len(rest) /\ Len(rest) \in Nat
    BY <1>7, <2>1, <2>2
  <2> QED
    BY <1>7, <2>1, <2>3
<1>13. Len(Q!FirstRows(n)) \in Nat /\ Len(Q!FirstRows(N)) \in Nat
  BY <1>1, <1>7 DEF N
<1> QED
  BY <1>1, <1>11, <1>12, <1>13

-----------------------------------------------------------------------------
\* The limit.

\* The query's numbers.
LEMMA QueryIs ==
  ASSUME Given
  PROVE  /\ query.sort \in {"none", "asc", "desc"}
         /\ query.offset \in Nat /\ query.offset <= MaxUsize
         /\ Q!Limit \in Nat /\ Q!Limit <= MaxUsize
         /\ MaxUsize \in Nat
         /\ query.limit = Null => Q!Limit = MaxUsize
         /\ query.limit # Null => Q!Limit = query.limit
<1>1. query.sort \in {"none", "asc", "desc"} /\ query.offset \in Limits
      /\ query.limit \in Limits \cup {Null}
  BY DEF Given, Queries
<1>2. MaxUsize \in Nat /\ \A l \in Limits : l \in Nat /\ l <= MaxUsize
  BY StreamAssumption
<1> QED
  BY <1>1, <1>2 DEF Q!Limit

\* How many of n rows the query shows.
Shown(n) == IF n <= query.offset THEN 0
            ELSE IF n - query.offset <= Q!Limit THEN n - query.offset
            ELSE Q!Limit

\* Of the rows s, the limit has yielded what the query shows.
Passed(s, skip, rest, shown) ==
  /\ skip = IF Len(s) <= query.offset THEN query.offset - Len(s) ELSE 0
  /\ rest = Q!Limit - Shown(Len(s))
  /\ shown = Q!Window(s)

\* The rows that the query shows.
LEMMA WindowIs ==
  ASSUME Given, NEW X, NEW s \in Seq(X)
  PROVE  /\ Q!Window(s) \in Seq(X)
         /\ Len(Q!Window(s)) = Shown(Len(s))
         /\ Shown(Len(s)) \in Nat /\ Shown(Len(s)) <= Q!Limit
         /\ Shown(Len(s)) # 0 => query.offset + Shown(Len(s)) <= Len(s)
         /\ \A k \in 1..Shown(Len(s)) : Q!Window(s)[k] = s[query.offset + k]
<1> DEFINE o == query.offset
           l == Q!Limit
           n == Len(s)
<1>1. o \in Nat /\ l \in Nat /\ n \in Nat
  BY QueryIs
<1>2. Shown(n) = IF n <= o THEN 0 ELSE IF n - o <= l THEN n - o ELSE l
  BY DEF Shown
<1>3. Q!Window(s) = SubSeq(s, o + 1, IF n <= o + l THEN n ELSE o + l)
  <2>1. Q!Window(s) = SubSeq(s, o + 1, Min({n, o + l}))
    BY DEF Q!Window, Q!Min, Min
  <2>2. o + l \in Nat
    BY <1>1
  <2> QED
    BY <1>1, <2>1, <2>2, MinOfTwo
<1> HIDE DEF o, l
<1> DEFINE m == IF n <= o + l THEN n ELSE o + l
           w == SubSeq(s, o + 1, m)
<1>4. m \in Nat /\ m <= n /\ Shown(n) \in Nat /\ Shown(n) <= l
      /\ (Shown(n) # 0 => o + Shown(n) = m)
      /\ (Shown(n) = 0 => m < o + 1)
  BY <1>1, <1>2
<1> HIDE DEF m
<1>5. w \in Seq(X) /\ Len(w) = Shown(n) /\ \A k \in 1..Shown(n) : w[k] = s[o + k]
  <2>1. CASE Shown(n) = 0
    <3>1. w = <<>> /\ 1..Shown(n) = {}
      BY <1>1, <1>4, <2>1
    <3>2. <<>> \in Seq(X) /\ Len(<<>>) = 0
      OBVIOUS
    <3> HIDE DEF w
    <3> QED
      BY <2>1, <3>1, <3>2
  <2>2. CASE Shown(n) # 0
    <3>1. m = o + Shown(n) /\ o + Shown(n) <= Len(s) /\ Shown(n) \in Nat
      BY <1>4, <2>2
    <3> QED
      BY <1>1, <3>1, PieceIs
  <2> QED
    BY <2>1, <2>2
<1> HIDE DEF n
<1> QED
  BY <1>1, <1>3, <1>4, <1>5 DEF o, l, m, n

\* What is skipped and taken of r rows.
Takes(r, skip, rest, cut, take) ==
  /\ cut = Min({skip, r})
  /\ take = Min({r - cut, rest})

\* The numbers of a limit which has seen n rows and sees r more.
Counts(o, l, n, r, a, b, skip, rest) ==
  /\ a = IF n <= o THEN 0 ELSE IF n - o <= l THEN n - o ELSE l
  /\ b = IF n + r <= o THEN 0 ELSE IF (n + r) - o <= l THEN (n + r) - o ELSE l
  /\ skip = IF n <= o THEN o - n ELSE 0
  /\ rest = l - a

\* What the limit takes is what is shown of the rows up to here, beyond what was shown
\* before.
LEMMA TakesWhatIsShown ==
  ASSUME NEW o \in Nat, NEW l \in Nat, NEW n \in Nat, NEW r \in Nat,
         NEW a, NEW b, NEW skip, NEW rest, Counts(o, l, n, r, a, b, skip, rest),
         NEW cut, NEW take, Takes(r, skip, rest, cut, take)
  PROVE  /\ a \in Nat /\ cut \in Nat /\ take \in Nat /\ cut + take <= r
         /\ a # 0 => o + a <= n
         /\ skip - cut = IF n + r <= o THEN o - (n + r) ELSE 0
         /\ b = a + take /\ rest - take = l - b
         /\ take # 0 => o + a = n + cut
<1>1. /\ a = IF n <= o THEN 0 ELSE IF n - o <= l THEN n - o ELSE l
      /\ b = IF n + r <= o THEN 0 ELSE IF (n + r) - o <= l THEN (n + r) - o ELSE l
      /\ skip = IF n <= o THEN o - n ELSE 0
      /\ rest = l - a
  BY DEF Counts
<1>2. a \in Nat /\ skip \in Nat /\ rest \in Nat /\ b \in Nat
  BY <1>1
<1>3. cut = IF skip <= r THEN skip ELSE r
  BY <1>2, MinOfTwo DEF Takes
<1>4. cut \in Nat /\ r - cut \in Nat
  BY <1>2, <1>3
<1>5. take = IF r - cut <= rest THEN r - cut ELSE rest
  BY <1>2, <1>4, MinOfTwo DEF Takes
<1>6. take \in Nat
  BY <1>2, <1>4, <1>5
<1> QED
  BY <1>1, <1>2, <1>3, <1>4, <1>5, <1>6

\* One batch more: what the limit skips, takes and passes on of its rows.
LEMMA PassOnWindow ==
  ASSUME Given, NEW X, NEW s \in Seq(X), NEW rows \in Seq(X),
         NEW skip, NEW rest, NEW shown, Passed(s, skip, rest, shown),
         NEW cut, NEW take, Takes(Len(rows), skip, rest, cut, take)
  PROVE  Passed(s \o rows, skip - cut, rest - take, shown \o SubSeq(rows, cut + 1, cut + take))
<1> DEFINE o == query.offset
           l == Q!Limit
           n == Len(s)
           r == Len(rows)
           a == Shown(n)
           b == Shown(n + r)
           new == SubSeq(rows, cut + 1, cut + take)
<1>1. o \in Nat /\ l \in Nat /\ n \in Nat /\ r \in Nat
  BY QueryIs
<1>2. s \o rows \in Seq(X) /\ Len(s \o rows) = n + r
      /\ (\A k \in 1..n : (s \o rows)[k] = s[k])
      /\ \A k \in 1..r : (s \o rows)[n + k] = rows[k]
  BY ConcatIs
<1>3. Counts(o, l, n, r, a, b, skip, rest)
  BY DEF Passed, Shown, Counts
<1>4. shown = Q!Window(s)
  BY DEF Passed
<1>5. /\ Q!Window(s) \in Seq(X) /\ Len(Q!Window(s)) = a
      /\ \A k \in 1..a : Q!Window(s)[k] = s[o + k]
  BY WindowIs
<1>6. /\ Q!Window(s \o rows) \in Seq(X) /\ Len(Q!Window(s \o rows)) = b
      /\ \A k \in 1..b : Q!Window(s \o rows)[k] = (s \o rows)[o + k]
  BY <1>2, WindowIs
<1>7. Takes(r, skip, rest, cut, take)
  OBVIOUS
<1> HIDE DEF o, l, n, r, a, b
<1>8. /\ a \in Nat /\ cut \in Nat /\ take \in Nat /\ cut + take <= r
      /\ a # 0 => o + a <= n
      /\ skip - cut = IF n + r <= o THEN o - (n + r) ELSE 0
      /\ b = a + take /\ rest - take = l - b
      /\ take # 0 => o + a = n + cut
  BY ONLY <1>1, <1>3, <1>7, TakesWhatIsShown
<1>9. new \in Seq(X) /\ Len(new) = take /\ \A k \in 1..take : new[k] = rows[cut + k]
  <2>1. rows \in Seq(X) /\ cut \in Nat /\ take \in Nat /\ cut + take <= Len(rows)
    BY <1>8 DEF r
  <2> QED
    BY ONLY <2>1, PieceIs
<1> HIDE DEF new
<1>10. shown \o new = Q!Window(s \o rows)
  <2> DEFINE u == shown \o new
             v == Q!Window(s \o rows)
  <2>1. shown \in Seq(X) /\ Len(shown) = a /\ \A k \in 1..a : shown[k] = s[o + k]
    BY <1>4, <1>5
  <2>2. /\ u \in Seq(X) /\ Len(u) = a + take
        /\ \A k \in 1..a : u[k] = shown[k]
        /\ \A k \in 1..take : u[a + k] = new[k]
    <3>1. /\ u \in Seq(X) /\ Len(u) = Len(shown) + Len(new)
          /\ \A k \in 1..Len(shown) : u[k] = shown[k]
          /\ \A k \in 1..Len(new) : u[Len(shown) + k] = new[k]
      <4>1. new \in Seq(X) /\ shown \in Seq(X)
        BY <1>9, <2>1
      <4> QED
        BY ONLY <4>1, ConcatIs DEF u
    <3> QED
      BY <1>9, <2>1, <3>1
  <2>3. v \in Seq(X) /\ Len(v) = a + take /\ \A k \in 1..(a + take) : v[k] = (s \o rows)[o + k]
    BY <1>6, <1>8
  <2> HIDE DEF u, v
  <2>4. ASSUME NEW k \in 1..a
        PROVE  u[k] = v[k]
    <3>1. o + k \in 1..n /\ k \in 1..(a + take)
      BY <1>1, <1>8
    <3>2. u[k] = s[o + k]
      BY <2>1, <2>2
    <3>3. v[k] = s[o + k]
      BY <1>2, <2>3, <3>1
    <3> QED
      BY <3>2, <3>3
  <2>5. ASSUME NEW k \in 1..take
        PROVE  u[a + k] = v[a + k]
    <3>1. take # 0 /\ o + a = n + cut
      BY <1>8
    <3>2. o + (a + k) = n + (cut + k) /\ cut + k \in 1..r /\ a + k \in 1..(a + take)
      BY <1>1, <1>8, <3>1
    <3>3. u[a + k] = rows[cut + k]
      BY <1>9, <2>2
    <3>4. v[a + k] = (s \o rows)[n + (cut + k)]
      BY <2>3, <3>2
    <3> QED
      BY <1>2, <3>2, <3>3, <3>4
  <2>6. \A k \in 1..(a + take) : u[k] = v[k]
    <3> SUFFICES ASSUME NEW k \in 1..(a + take) PROVE u[k] = v[k]
      OBVIOUS
    <3>1. CASE k <= a
      BY <1>8, <2>4, <3>1
    <3>2. CASE a < k
      <4>1. k - a \in 1..take /\ a + (k - a) = k
        BY <1>8, <3>2
      <4> QED
        BY <2>5, <4>1
    <3> QED
      BY <1>8, <3>1, <3>2
  <2>7. u = v
    <3>1. Len(u) = Len(v) /\ \A k \in 1..Len(u) : u[k] = v[k]
      BY <2>2, <2>3, <2>6
    <3> QED
      BY ONLY <2>2, <2>3, <3>1, SeqEqual
  <2> QED
    BY <2>7 DEF u, v
<1> QED
  BY <1>2, <1>8, <1>10 DEF Passed, o, l, b, n, r, new

\* Once the limit has all the rows it may yield, more of them change nothing.
LEMMA WindowFull ==
  ASSUME Given, NEW X, NEW s \in Seq(X), NEW rest \in Seq(X),
         Shown(Len(s)) = Q!Limit \/ rest = <<>>
  PROVE  Q!Window(s \o rest) = Q!Window(s)
<1> DEFINE o == query.offset
           l == Q!Limit
           n == Len(s)
           r == Len(rest)
           u == Q!Window(s)
           v == Q!Window(s \o rest)
<1>1. o \in Nat /\ l \in Nat /\ n \in Nat /\ r \in Nat
  BY QueryIs
<1>2. s \o rest \in Seq(X) /\ Len(s \o rest) = n + r
      /\ \A k \in 1..n : (s \o rest)[k] = s[k]
  OBVIOUS
<1>3. CASE rest = <<>>
  <2>1. s \o rest = s
    BY <1>3, ConcatEmptySeq
  <2> QED
    BY <2>1
<1>4. CASE Shown(n) = l
  <2>1. /\ u \in Seq(X) /\ Len(u) = l /\ (l # 0 => o + l <= n)
        /\ \A k \in 1..l : u[k] = s[o + k]
    BY <1>4, WindowIs
  <2>2. /\ v \in Seq(X) /\ Len(v) = Shown(n + r)
        /\ \A k \in 1..Shown(n + r) : v[k] = (s \o rest)[o + k]
    BY <1>2, WindowIs
  <2>3. Shown(n + r) = IF n + r <= o THEN 0 ELSE IF (n + r) - o <= l THEN (n + r) - o ELSE l
    BY DEF Shown
  <2> HIDE DEF o, l, n, r, u, v
  <2>4. Shown(n + r) = l
    <3>1. CASE l = 0
      BY <1>1, <2>3, <3>1
    <3>2. CASE l # 0
      BY <1>1, <2>1, <2>3, <3>2
    <3> QED
      BY <3>1, <3>2
  <2>5. \A k \in 1..l : o + k \in 1..n
    BY <1>1, <2>1
  <2>6. \A k \in 1..l : u[k] = v[k]
    BY <1>2, <2>1, <2>2, <2>4, <2>5
  <2>7. u = v
    <3>1. Len(u) = Len(v) /\ \A k \in 1..Len(u) : u[k] = v[k]
      BY <2>1, <2>2, <2>4, <2>6
    <3> QED
      BY ONLY <2>1, <2>2, <3>1, SeqEqual
  <2> QED
    BY <2>7 DEF u, v
<1> QED
  BY <1>3, <1>4

-----------------------------------------------------------------------------
\* The sort.

\* The keys are in order, NULL first.
LEMMA KeysOrdered ==
  ASSUME NEW a \in SortKeys \cup {Null}, NEW b \in SortKeys \cup {Null},
         NEW c \in SortKeys \cup {Null}
  PROVE  /\ ~NullsFirst(a, a)
         /\ a # b => NullsFirst(a, b) \/ NullsFirst(b, a)
         /\ NullsFirst(a, b) /\ NullsFirst(b, c) => NullsFirst(a, c)
<1>1. SortKeys \subseteq Int /\ Null \notin Int
  BY StreamAssumption
<1>2. CASE a = Null
  BY <1>1, <1>2 DEF NullsFirst
<1>3. CASE a # Null
  <2>1. a \in Int
    BY <1>1, <1>3
  <2>2. CASE b = Null
    BY <1>1, <1>3, <2>1, <2>2 DEF NullsFirst
  <2>3. CASE b # Null
    <3>1. b \in Int
      BY <1>1, <2>3
    <3>2. CASE c = Null
      BY <1>1, <1>3, <2>1, <2>3, <3>1, <3>2 DEF NullsFirst
    <3>3. CASE c # Null
      <4>1. c \in Int
        BY <1>1, <3>3
      <4> QED
        BY <1>1, <1>3, <2>1, <2>3, <3>1, <3>3, <4>1 DEF NullsFirst
    <3> QED
      BY <3>2, <3>3
  <2> QED
    BY <2>2, <2>3
<1> QED
  BY <1>2, <1>3

\* The rows are in order, by their keys and then as they come in.
LEMMA RowsOrdered ==
  ASSUME Given, query.sort # "none",
         NEW p \in Place, NEW q \in Place, NEW r \in Place
  PROVE  /\ ComesFirst(p, q) <=> Q!Before(p, q)
         /\ ~Q!Before(p, p)
         /\ p # q => Q!Before(p, q) \/ Q!Before(q, p)
         /\ Q!Before(p, q) /\ Q!Before(q, r) => Q!Before(p, r)
<1> DEFINE Less(a, b) == IF query.sort = "asc" THEN NullsFirst(a, b) ELSE NullsFirst(b, a)
<1>1. query.sort = "asc" \/ query.sort = "desc"
  BY QueryIs
<1>2. \A x \in Place : Key(x) \in SortKeys \cup {Null} /\ Q!Key(x) = Key(x)
  <2> SUFFICES ASSUME NEW x \in Place
               PROVE  Key(x) \in SortKeys \cup {Null} /\ Q!Key(x) = Key(x)
    OBVIOUS
  <2>1. x[1] \in 1..Len(batches) /\ x[2] \in 1..Len(batches[x[1]].rows)
    BY DEF Place
  <2>2. batches[x[1]].rows \in Seq(Rows)
    BY <2>1, InputIs
  <2>3. batches[x[1]].rows[x[2]] \in Rows
    BY <2>1, <2>2
  <2> QED
    BY <2>3 DEF Key, Q!Key, Rows
<1>3. \A a, b \in SortKeys \cup {Null} : /\ ~Less(a, a)
                                         /\ a # b => Less(a, b) \/ Less(b, a)
  BY <1>1, KeysOrdered
<1>4. \A a, b, c \in SortKeys \cup {Null} : Less(a, b) /\ Less(b, c) => Less(a, c)
  BY <1>1, KeysOrdered
<1>5. \A x, y \in Place :
        /\ ComesFirst(x, y) <=> (IF Key(x) # Key(y) THEN Less(Key(x), Key(y)) ELSE Q!Earlier(x, y))
        /\ Q!Before(x, y) <=> (Less(Key(x), Key(y)) \/ (Key(x) = Key(y) /\ Q!Earlier(x, y)))
  BY <1>1, <1>2 DEF ComesFirst, Q!Before, Q!Earlier, Q!Smaller, NullsFirst
<1>6. \A x \in Place : x = <<x[1], x[2]>> /\ x[1] \in Int /\ x[2] \in Int
  BY DEF Place
<1>7. \A x, y \in Place : /\ ~Q!Earlier(x, x)
                          /\ x # y => Q!Earlier(x, y) \/ Q!Earlier(y, x)
  <2> SUFFICES ASSUME NEW x \in Place, NEW y \in Place
               PROVE  ~Q!Earlier(x, x) /\ (x # y => Q!Earlier(x, y) \/ Q!Earlier(y, x))
    OBVIOUS
  <2>1. x # y => x[1] # y[1] \/ x[2] # y[2]
    BY <1>6
  <2>2. x[1] \in Int /\ x[2] \in Int /\ y[1] \in Int /\ y[2] \in Int
    BY <1>6
  <2> QED
    BY <2>1, <2>2 DEF Q!Earlier
<1>8. \A x, y, z \in Place : Q!Earlier(x, y) /\ Q!Earlier(y, z) => Q!Earlier(x, z)
  BY <1>6 DEF Q!Earlier
<1> HIDE DEF Less
<1>9. ComesFirst(p, q) <=> Q!Before(p, q)
  BY <1>2, <1>3, <1>5
<1>10. ~Q!Before(p, p)
  BY <1>2, <1>3, <1>5, <1>7
<1>11. p # q => Q!Before(p, q) \/ Q!Before(q, p)
  BY <1>2, <1>3, <1>5, <1>7
<1>12. Q!Before(p, q) /\ Q!Before(q, r) => Q!Before(p, r)
  BY <1>2, <1>4, <1>5, <1>8
<1> QED
  BY <1>9, <1>10, <1>11, <1>12

\* The rows of P that come before p.
Ahead(P, p) == {q \in P : Q!Before(q, p)}

\* No two rows have as many rows before them.
LEMMA RanksDiffer ==
  ASSUME Given, query.sort # "none", NEW P \in SUBSET Place, IsFiniteSet(P),
         NEW p \in P, NEW q \in P, p # q
  PROVE  Cardinality(Ahead(P, p)) # Cardinality(Ahead(P, q))
<1>1. ASSUME NEW x \in P, NEW y \in P, Q!Before(x, y)
      PROVE  Cardinality(Ahead(P, x)) # Cardinality(Ahead(P, y))
  <2>1. x \in Ahead(P, y)
    BY <1>1 DEF Ahead
  <2>2. x \notin Ahead(P, x)
    BY RowsOrdered DEF Ahead
  <2>3. Ahead(P, x) \subseteq Ahead(P, y)
    BY <1>1, RowsOrdered DEF Ahead
  <2>4. IsFiniteSet(Ahead(P, y))
    BY FS_Subset DEF Ahead
  <2> QED
    BY <2>1, <2>2, <2>3, <2>4, FS_Subset
<1>2. Q!Before(p, q) \/ Q!Before(q, p)
  BY RowsOrdered
<1> QED
  BY <1>1, <1>2

\* Rows S that no other of P comes before, in order: each has as many rows of P before it as
\* it has in this order.
LEMMA OrderRanks ==
  ASSUME Given, query.sort # "none", NEW P \in SUBSET Place, IsFiniteSet(P),
         NEW S \in SUBSET P, \A p \in S, q \in P \ S : ~ComesFirst(q, p),
         NEW s \in Orders(S)
  PROVE  /\ s \in Seq(S) /\ Len(s) = Cardinality(S) /\ Cardinality(S) \in Nat
         /\ \A i \in 1..Len(s) : Cardinality(Ahead(P, s[i])) = i - 1
<1> DEFINE n == Cardinality(S)
<1>1. IsFiniteSet(S) /\ n \in Nat
  BY FS_Subset, FS_CardinalityType
<1>2. /\ s \in [1..n -> S]
      /\ \A i, j \in 1..n : i # j => s[i] # s[j]
      /\ \A i, j \in 1..n : i < j => ~ComesFirst(s[j], s[i])
  BY DEF Orders, SetToSeqs
<1>3. S = {s[i] : i \in 1..n}
  <2>1. s \in Injection(1..n, S)
    BY <1>2 DEF Injection, IsInjective
  <2>2. Cardinality(1..n) = n
    BY <1>1, FS_Interval
  <2>3. s \in Surjection(1..n, S)
    BY <1>1, <2>1, <2>2, FS_Injection
  <2> QED
    BY <1>2, <2>3 DEF Surjection
<1> HIDE DEF n
<1>4. s \in Seq(S) /\ Len(s) = n
  BY <1>1, <1>2
<1>5. \A i, j \in 1..n : i < j => Q!Before(s[i], s[j])
  <2> SUFFICES ASSUME NEW i \in 1..n, NEW j \in 1..n, i < j
               PROVE  Q!Before(s[i], s[j])
    OBVIOUS
  <2>1. s[i] \in Place /\ s[j] \in Place /\ s[i] # s[j] /\ ~ComesFirst(s[j], s[i])
    BY <1>1, <1>2
  <2> QED
    BY <2>1, RowsOrdered
<1>6. ASSUME NEW i \in 1..n
      PROVE  Cardinality(Ahead(P, s[i])) = i - 1
  <2> DEFINE F == [h \in 1..(i - 1) |-> s[h]]
             A == Ahead(P, s[i])
  <2>1. i \in Nat /\ i - 1 \in Nat /\ \A h \in 1..(i - 1) : h \in 1..n /\ h < i
    BY <1>1
  <2>2. s[i] \in S /\ s[i] \in P /\ s[i] \in Place
    BY <1>2
  <2>3. \A h \in 1..(i - 1) : s[h] \in A
    <3> SUFFICES ASSUME NEW h \in 1..(i - 1) PROVE s[h] \in A
      OBVIOUS
    <3>1. h \in 1..n /\ h < i
      BY <2>1
    <3>2. s[h] \in P /\ Q!Before(s[h], s[i])
      BY <1>2, <1>5, <3>1
    <3> QED
      BY <3>2 DEF Ahead
  <2>4. ASSUME NEW q \in A
        PROVE  \E h \in 1..(i - 1) : s[h] = q
    <3>1. q \in P /\ Q!Before(q, s[i])
      BY DEF Ahead
    <3>2. ComesFirst(q, s[i])
      BY <2>2, <3>1, RowsOrdered
    <3>3. q \in S
      BY <2>2, <3>1, <3>2
    <3>4. PICK h \in 1..n : s[h] = q
      BY <1>3, <3>3
    <3>5. h < i
      <4>1. h # i
        BY <2>2, <3>1, <3>4, RowsOrdered
      <4>2. ~(i < h)
        <5> SUFFICES ASSUME i < h PROVE FALSE
          OBVIOUS
        <5>1. Q!Before(s[i], q)
          BY <1>5, <3>4
        <5>2. Q!Before(q, q)
          BY <2>2, <3>1, <5>1, RowsOrdered
        <5> QED
          BY <3>1, <5>2, RowsOrdered
      <4> QED
        BY <1>1, <2>1, <4>1, <4>2
    <3>6. h \in 1..(i - 1)
      BY <1>1, <2>1, <3>5
    <3> QED
      BY <3>4, <3>6
  <2> HIDE DEF A
  <2>5. F \in Bijection(1..(i - 1), A)
    <3>1. F \in [1..(i - 1) -> A]
      BY <2>3
    <3>2. \A g, h \in 1..(i - 1) : F[g] = F[h] => g = h
      BY <1>2, <2>1
    <3>3. \A q \in A : \E h \in 1..(i - 1) : F[h] = q
      BY <2>4
    <3> HIDE DEF F
    <3> QED
      BY <3>1, <3>2, <3>3 DEF Bijection, Injection, Surjection, IsInjective
  <2>6. Cardinality(A) = i - 1
    <3>1. ExistsBijection(1..(i - 1), A)
      BY <2>5 DEF ExistsBijection
    <3> QED
      BY <2>1, <3>1, FS_CountingElements
  <2> QED
    BY <2>6 DEF A
<1> QED
  BY <1>1, <1>4, <1>6 DEF n

\* How many of n rows the sort keeps.
Kept(n) == IF Keep # Null /\ Keep < n THEN Keep ELSE n

\* `top_k` is the number of rows that the query may show, unless that is more than there
\* can be.
LEMMA KeepIs ==
  ASSUME Given, NEW n \in Nat, n <= MaxUsize
  PROVE  /\ Kept(n) \in Nat /\ Kept(n) <= n
         /\ Keep # Null /\ Keep < n => Keep = query.offset + Q!Limit
<1> DEFINE sum == query.offset + query.limit
<1>1. query.offset \in Nat /\ MaxUsize \in Nat /\ Q!Limit \in Nat
      /\ (query.limit # Null => Q!Limit = query.limit)
  BY QueryIs
<1>2. CASE query.limit = Null
  <2>1. Keep = Null
    BY <1>2 DEF Keep
  <2> QED
    BY <2>1 DEF Kept
<1>3. CASE query.limit # Null
  <2>1. sum \in Nat /\ sum = query.offset + Q!Limit
    BY <1>1, <1>3
  <2>2. Keep = Min({sum, MaxUsize})
    BY <1>3 DEF Keep
  <2> HIDE DEF sum
  <2>3. Keep = IF sum <= MaxUsize THEN sum ELSE MaxUsize
    BY <1>1, <2>1, <2>2, MinOfTwo
  <2>4. Keep \in Nat
    BY <1>1, <2>1, <2>3
  <2>5. Kept(n) \in Nat /\ Kept(n) <= n
    BY <2>4 DEF Kept
  <2> QED
    BY <1>1, <2>1, <2>3, <2>5
<1> QED
  BY <1>2, <1>3

\* What the sort makes of the rows it has read is the head of the rows in order.
LEMMA SortingIs ==
  ASSUME Given, query.sort # "none",
         NEW rows \in Seq(Place), InOrder(rows), Len(rows) <= MaxUsize,
         NEW s \in Sortings(rows)
  PROVE  /\ s \in Seq(Place) /\ Len(s) = Kept(Len(rows))
         /\ \A i \in 1..Len(s) : s[i] = Q!Sorted(rows)[i]
<1> DEFINE n == Len(rows)
           P == {rows[i] : i \in 1..n}
<1>1. n \in Nat /\ DOMAIN rows = 1..n /\ P \in SUBSET Place /\ \A i \in 1..n : rows[i] \in Place
  OBVIOUS
<1>2. ToSet(rows) = P /\ Q!ToSet(rows) = P
  BY <1>1 DEF ToSet, Q!ToSet
<1>3. IsFiniteSet(P) /\ Cardinality(P) = n
  <2> DEFINE F == [i \in 1..n |-> rows[i]]
  <2>1. \A i, j \in 1..n : rows[i] = rows[j] => i = j
    <3>1. ASSUME NEW i \in 1..n, NEW j \in 1..n, i < j, rows[i] = rows[j]
          PROVE  FALSE
      <4>1. rows[i][1] \in Int /\ rows[i][2] \in Int
        BY <1>1 DEF Place
      <4>2. Q!Earlier(rows[i], rows[i])
        BY <3>1 DEF InOrder
      <4> QED
        BY <4>1, <4>2 DEF Q!Earlier
    <3> SUFFICES ASSUME NEW i \in 1..n, NEW j \in 1..n, rows[i] = rows[j]
                 PROVE  i = j
      OBVIOUS
    <3>2. ~(i < j) /\ ~(j < i)
      BY <3>1
    <3> QED
      BY <1>1, <3>2
  <2>2. F \in Bijection(1..n, P)
    <3>1. F \in [1..n -> P]
      OBVIOUS
    <3>2. \A i, j \in 1..n : F[i] = F[j] => i = j
      BY <2>1
    <3>3. \A q \in P : \E i \in 1..n : F[i] = q
      OBVIOUS
    <3> HIDE DEF F, P
    <3> QED
      BY <3>1, <3>2, <3>3 DEF Bijection, Injection, Surjection, IsInjective
  <2>3. ExistsBijection(1..n, P)
    BY <2>2 DEF ExistsBijection
  <2>4. IsFiniteSet(P)
    <3> HIDE DEF P
    <3> QED
      BY <1>1, <2>3, FS_NatBijection
  <2> QED
    BY <1>1, <2>3, <2>4, FS_CountingElements
<1>4. \A i \in 1..n : Q!Sorted(rows)[i] = CHOOSE p \in Q!ToSet(rows) :
                        Q!Cardinality({q \in Q!ToSet(rows) : Q!Before(q, p)}) = i - 1
  BY DEF Q!Sorted
<1> HIDE DEF n, P
<1>5. \E S \in SUBSET P : /\ Cardinality(S) = Kept(n)
                          /\ \A p \in S, q \in P \ S : ~ComesFirst(q, p)
                          /\ s \in Orders(S)
  <2>1. CASE Keep # Null /\ Keep < n
    <3>1. PICK S \in Selections(P, Keep) : s \in Orders(S)
      BY <1>2, <2>1 DEF Sortings, n
    <3>2. S \in SUBSET P /\ Cardinality(S) = Keep /\ \A p \in S, q \in P \ S : ~ComesFirst(q, p)
      BY <3>1 DEF Selections, kSubset
    <3> QED
      BY <2>1, <3>1, <3>2 DEF Kept
  <2>2. CASE ~(Keep # Null /\ Keep < n)
    <3>1. s \in Orders(P)
      BY <1>2, <2>2 DEF Sortings, n
    <3>2. P \in SUBSET P /\ P \ P = {}
      OBVIOUS
    <3>3. Cardinality(P) = Kept(n)
      BY <1>3, <2>2 DEF Kept
    <3> QED
      BY <3>1, <3>2, <3>3
  <2> QED
    BY <2>1, <2>2
<1>6. PICK S \in SUBSET P : /\ Cardinality(S) = Kept(n)
                            /\ \A p \in S, q \in P \ S : ~ComesFirst(q, p)
                            /\ s \in Orders(S)
  BY <1>5
<1>7. /\ s \in Seq(S) /\ Len(s) = Kept(n)
      /\ \A i \in 1..Len(s) : Cardinality(Ahead(P, s[i])) = i - 1
  BY <1>1, <1>3, <1>6, OrderRanks
<1>8. Kept(n) \in Nat /\ Kept(n) <= n
  BY <1>1, KeepIs DEF n
<1>9. ASSUME NEW i \in 1..Len(s)
      PROVE  s[i] = Q!Sorted(rows)[i]
  <2>1. s[i] \in P /\ i \in 1..n
    BY <1>1, <1>7, <1>8
  <2>2. \A p \in P : Cardinality(Ahead(P, p)) = i - 1 <=> p = s[i]
    BY <1>1, <1>3, <1>7, <2>1, RanksDiffer
  <2>3. \A p : {q \in Q!ToSet(rows) : Q!Before(q, p)} = Ahead(P, p)
    BY <1>2 DEF Ahead
  <2>4. \A p \in Q!ToSet(rows) :
          Q!Cardinality({q \in Q!ToSet(rows) : Q!Before(q, p)}) = i - 1 <=> p = s[i]
    BY <1>2, <2>2, <2>3, SameCardinality
  <2>5. s[i] \in Q!ToSet(rows)
    BY <1>2, <2>1
  <2>6. s[i] = CHOOSE p \in Q!ToSet(rows) :
                 Q!Cardinality({q \in Q!ToSet(rows) : Q!Before(q, p)}) = i - 1
    BY <2>4, <2>5
  <2> QED
    BY <1>4, <2>1, <2>6
<1>10. s \in Seq(Place)
  BY <1>1, <1>7
<1> QED
  BY <1>7, <1>9, <1>10 DEF n

\* The query shows the same of the rows the sort keeps as of all rows in order.
LEMMA SortingShows ==
  ASSUME Given, query.sort # "none",
         NEW rows \in Seq(Place), InOrder(rows), Len(rows) <= MaxUsize,
         NEW s \in Sortings(rows)
  PROVE  s \in Seq(Place) /\ Q!Window(s) = Q!Window(Q!Sorted(rows))
<1> DEFINE n == Len(rows)
           all == Q!Sorted(rows)
           X == Place \cup {all[i] : i \in 1..n}
           m == Len(s)
           rest == SubSeq(all, m + 1, n)
<1>1. s \in Seq(Place) /\ m = Kept(n) /\ \A i \in 1..m : s[i] = all[i]
  BY SortingIs
<1>2. n \in Nat /\ m \in Nat /\ m <= n
  BY <1>1, KeepIs
<1>3. all \in Seq(X) /\ Len(all) = n
  <2>1. DOMAIN all = 1..n /\ all = [i \in 1..n |-> all[i]]
    BY DEF Q!Sorted
  <2> HIDE DEF all
  <2>2. \A i \in 1..n : all[i] \in X
    OBVIOUS
  <2> HIDE DEF X
  <2>3. all \in [1..n -> X]
    BY <2>1, <2>2
  <2> QED
    BY <1>2, <2>3
<1>4. s \in Seq(X)
  <2>1. Place \subseteq X
    OBVIOUS
  <2> HIDE DEF X
  <2> QED
    BY <1>1, <2>1
<1> HIDE DEF all, X
<1>5. /\ rest \in Seq(X)
      /\ SubSeq(all, 1, n) = SubSeq(all, 1, m) \o rest
      /\ SubSeq(all, 1, m) \in Seq(X)
  <2>1. m \in Nat /\ n \in Nat /\ m <= n /\ n <= Len(all) /\ all \in Seq(X)
    BY <1>2, <1>3
  <2> HIDE DEF m, n
  <2> QED
    BY ONLY <2>1, NextChunk
<1>6. SubSeq(all, 1, n) = all
  BY <1>3
<1>7. SubSeq(all, 1, m) = s
  <2> DEFINE u == SubSeq(all, 1, m)
  <2>1. u \in Seq(X) /\ Len(u) = m /\ \A k \in 1..m : u[k] = all[k]
    BY <1>2, <1>3
  <2> HIDE DEF u
  <2>2. Len(u) = Len(s) /\ \A k \in 1..Len(u) : u[k] = s[k]
    BY <1>1, <2>1
  <2>3. u = s
    BY ONLY <1>4, <2>1, <2>2, SeqEqual
  <2> QED
    BY <2>3 DEF u
<1>8. all = s \o rest
  BY <1>5, <1>6, <1>7
<1>9. Shown(m) = Q!Limit \/ rest = <<>>
  <2>1. query.offset \in Nat /\ Q!Limit \in Nat
    BY QueryIs
  <2>2. CASE Keep # Null /\ Keep < n
    <3>1. m = query.offset + Q!Limit
      BY <1>1, <1>2, <2>2, KeepIs DEF Kept
    <3> HIDE DEF m
    <3>2. Shown(m) = Q!Limit
      BY <2>1, <3>1 DEF Shown
    <3> QED
      BY <3>2
  <2>3. CASE ~(Keep # Null /\ Keep < n)
    <3>1. m = n
      BY <1>1, <2>3 DEF Kept
    <3>2. SubSeq(all, n + 1, n) = <<>>
      BY <1>2, <1>3
    <3> QED
      BY <3>1, <3>2
  <2> QED
    BY <2>2, <2>3
<1> HIDE DEF rest
<1>10. Q!Window(s \o rest) = Q!Window(s)
  BY <1>4, <1>5, <1>9, WindowFull
<1> QED
  BY <1>1, <1>8, <1>10 DEF all

-----------------------------------------------------------------------------
\* What the query answers.

\* None of the first n batches fails.
Sound(n) == \A b \in 1..n : ~batches[b].fails

\* The answer needs the first n batches.
Needs(n) == \A b \in 1..n : \/ query.sort # "none"
                            \/ /\ Q!Limit # 0
                               /\ Len(Q!FirstRows(b - 1)) < query.offset + Q!Limit

\* What the query shows of the rows in order.
ShownInOrder == Q!Window(Q!Sorted(Q!FirstRows(Len(batches))))

\* What the limit has yet to skip and to keep are numbers, and its rows are rows.
LEMMA PassedTypes ==
  ASSUME Given, NEW X, NEW s \in Seq(X), NEW skip, NEW rest, NEW shown,
         Passed(s, skip, rest, shown)
  PROVE  skip \in 0..MaxUsize /\ rest \in 0..MaxUsize /\ shown \in Seq(X)
<1> DEFINE n == Len(s)
<1>1. /\ skip = IF n <= query.offset THEN query.offset - n ELSE 0
      /\ rest = Q!Limit - Shown(n)
      /\ shown = Q!Window(s)
  BY DEF Passed
<1>2. /\ query.offset \in Nat /\ query.offset <= MaxUsize
      /\ Q!Limit \in Nat /\ Q!Limit <= MaxUsize /\ MaxUsize \in Nat
  BY QueryIs
<1>3. Shown(n) \in Nat /\ Shown(n) <= Q!Limit /\ Q!Window(s) \in Seq(X) /\ n \in Nat
  BY WindowIs
<1> HIDE DEF n
<1> QED
  BY <1>1, <1>2, <1>3

\* Before the first batch.
LEMMA PassedNothing ==
  ASSUME Given
  PROVE  /\ Passed(<<>>, query.offset, Q!Limit, <<>>)
         /\ \A skip, rest, shown : Passed(<<>>, skip, rest, shown) => rest = Q!Limit /\ shown = <<>>
<1>1. query.offset \in Nat /\ Q!Limit \in Nat
  BY QueryIs
<1>2. Len(<<>>) = 0 /\ <<>> \in Seq(Place)
  OBVIOUS
<1>3. Shown(0) = 0
  BY <1>1 DEF Shown
<1>4. Q!Window(<<>>) = <<>>
  <2>1. Q!Window(<<>>) \in Seq(Place) /\ Len(Q!Window(<<>>)) = 0
    BY <1>2, <1>3, WindowIs
  <2> QED
    BY <2>1
<1> QED
  BY <1>1, <1>2, <1>3, <1>4 DEF Passed

\* A batch that is needed and fails makes the query fail.
LEMMA FailureAnswers ==
  ASSUME Given, NEW n \in 1..Len(batches), Needs(n), batches[n].fails
  PROVE  Q!Answer = [status |-> "error", rows |-> <<>>]
<1>1. n \in 1..n
  BY Counted
<1>2. \/ query.sort # "none"
      \/ Q!Limit # 0 /\ Len(Q!FirstRows(n - 1)) < query.offset + Q!Limit
  BY <1>1 DEF Needs
<1>3. Q!Fails
  BY <1>2 DEF Q!Fails
<1> QED
  BY <1>3 DEF Q!Answer

\* Without a sort, the limit has the answer when it needs no more rows or there are none.
LEMMA LimitAnswers ==
  ASSUME Given, query.sort = "none", NEW n \in 0..Len(batches), Sound(n),
         NEW skip, NEW rest, NEW shown, Passed(Q!FirstRows(n), skip, rest, shown),
         rest = 0 \/ n = Len(batches)
  PROVE  Q!Answer = [status |-> "ok", rows |-> shown]
<1> DEFINE s == Q!FirstRows(n)
           N == Len(batches)
<1>1. N \in Nat /\ n \in Nat /\ n <= N
  BY Counted
<1>2. s \in Seq(Place) /\ Len(s) \in Nat
  BY FirstRowsAre
<1>3. rest = Q!Limit - Shown(Len(s)) /\ shown = Q!Window(s)
  BY DEF Passed
<1>4. query.offset \in Nat /\ Q!Limit \in Nat
  BY QueryIs
<1>5. Shown(Len(s)) \in Nat /\ (Shown(Len(s)) # 0 => query.offset + Shown(Len(s)) <= Len(s))
  BY <1>2, WindowIs
<1> HIDE DEF s, N
<1>6. rest = 0 => Shown(Len(s)) = Q!Limit
  BY <1>3, <1>4, <1>5
<1>7. ~Q!Fails
  <2> SUFFICES ASSUME NEW b \in 1..N, batches[b].fails, Q!Limit # 0,
                      Len(Q!FirstRows(b - 1)) < query.offset + Q!Limit
               PROVE  FALSE
    BY DEF Q!Fails, N
  <2>1. ~(b <= n)
    BY <1>1 DEF Sound
  <2>2. n # N /\ b - 1 \in n..N /\ b - 1 \in 0..N
    BY <1>1, <2>1
  <2>3. Shown(Len(s)) = Q!Limit
    BY <1>6, <2>2 DEF N
  <2>4. query.offset + Q!Limit <= Len(s)
    BY <1>5, <2>3
  <2>5. PICK more \in Seq(Place) : Q!FirstRows(b - 1) = s \o more
    BY <2>2, FirstRowsGrow DEF s, N
  <2>6. Len(Q!FirstRows(b - 1)) = Len(s) + Len(more) /\ Len(more) \in Nat
    BY <1>2, <2>5
  <2> QED
    BY <1>2, <1>4, <2>4, <2>6
<1>8. Q!Window(Q!FirstRows(N)) = shown
  <2>1. N \in n..N
    BY <1>1
  <2>2. PICK more \in Seq(Place) : Q!FirstRows(N) = s \o more
    BY <2>1, FirstRowsGrow DEF s, N
  <2>3. CASE rest = 0
    BY <1>2, <1>3, <1>6, <2>2, <2>3, WindowFull
  <2>4. CASE n = N
    BY <1>3, <2>4 DEF s
  <2> QED
    BY <2>3, <2>4 DEF N
<1>9. Q!Rows = shown
  BY <1>8 DEF Q!Rows, N
<1> QED
  BY <1>7, <1>9 DEF Q!Answer

\* With a sort, the answer is what is shown of the rows in order.
LEMMA SortAnswers ==
  ASSUME Given, query.sort # "none", Sound(Len(batches))
  PROVE  Q!Answer = [status |-> "ok", rows |-> ShownInOrder]
<1>1. ~Q!Fails
  BY DEF Q!Fails, Sound
<1>2. Q!Rows = ShownInOrder
  BY DEF Q!Rows, ShownInOrder
<1> QED
  BY <1>1, <1>2 DEF Q!Answer

\* While the limit may keep a row more, the answer needs one batch more.
LEMMA NeedsNext ==
  ASSUME Given, query.sort = "none", NEW n \in 0..(Len(batches) - 1), Needs(n),
         NEW skip, NEW rest, NEW shown, Passed(Q!FirstRows(n), skip, rest, shown), rest > 0
  PROVE  Needs(n + 1)
<1> DEFINE l == Len(Q!FirstRows(n))
<1>1. n \in 0..Len(batches) /\ n \in Nat
  BY Counted
<1>2. l \in Nat
  BY <1>1, FirstRowsFew
<1>3. rest = Q!Limit - Shown(l)
  BY DEF Passed
<1>4. query.offset \in Nat /\ Q!Limit \in Nat
  BY QueryIs
<1> HIDE DEF l
<1>5. Q!Limit # 0 /\ l < query.offset + Q!Limit
  BY <1>2, <1>3, <1>4 DEF Shown
<1>6. ASSUME NEW b \in 1..(n + 1)
      PROVE  Q!Limit # 0 /\ Len(Q!FirstRows(b - 1)) < query.offset + Q!Limit
  <2>1. CASE b \in 1..n
    BY <2>1 DEF Needs
  <2>2. CASE b = n + 1
    <3>1. b - 1 = n
      BY <1>1, <2>2
    <3> QED
      BY <1>5, <3>1 DEF l
  <2> QED
    BY <1>1, <2>1, <2>2
<1> QED
  BY <1>6 DEF Needs

\* No batch beyond those the answer needs is among the first n.
LEMMA NeededCounts ==
  ASSUME Given, NEW n \in 0..Len(batches), Needs(n)
  PROVE  n <= Q!Needed
<1> DEFINE N == Len(batches)
           T == {N} \cup {m \in 0..N : Len(Q!FirstRows(m)) >= query.offset + Q!Limit}
<1>1. N \in Nat /\ n \in Nat /\ n <= N
  BY Counted
<1>2. query.offset \in Nat /\ Q!Limit \in Nat
  BY QueryIs
<1>3. CASE query.sort # "none"
  BY <1>1, <1>3 DEF Q!Needed
<1>4. CASE query.sort = "none" /\ Q!Limit = 0
  <2>1. n = 0
    <3> SUFFICES ASSUME n # 0 PROVE FALSE
      OBVIOUS
    <3>1. 1 \in 1..n
      BY <1>1
    <3> QED
      BY <1>4, <3>1 DEF Needs
  <2>2. Q!Needed = 0
    BY <1>4 DEF Q!Needed
  <2> QED
    BY <2>1, <2>2
<1>5. CASE query.sort = "none" /\ Q!Limit # 0
  <2>1. Q!Needed = Min(T)
    BY <1>5 DEF Q!Needed, Q!Min, Min
  <2>2. T \in SUBSET Nat /\ T # {}
    BY <1>1
  <2>3. \A t \in T : n <= t
    <3> SUFFICES ASSUME NEW m \in 0..N, Len(Q!FirstRows(m)) >= query.offset + Q!Limit, m < n
                 PROVE  FALSE
      BY <1>1
    <3>1. m + 1 \in 1..n /\ (m + 1) - 1 = m
      BY <1>1
    <3>2. Len(Q!FirstRows((m + 1) - 1)) < query.offset + Q!Limit
      BY <1>5, <3>1 DEF Needs
    <3>3. Len(Q!FirstRows(m)) \in Nat
      BY FirstRowsFew
    <3> QED
      BY <1>2, <3>1, <3>2, <3>3
  <2> HIDE DEF T
  <2>4. PICK t \in T : \A u \in T : t <= u
    BY <2>2, LeastNatural
  <2>5. Min(T) \in T
    BY <2>4 DEF Min
  <2> QED
    BY <2>1, <2>3, <2>5
<1> QED
  BY <1>3, <1>4, <1>5

-----------------------------------------------------------------------------
\* The invariant.

\* The types of what the operators keep.
Cells == (1..MaxBatches) \X (1..MaxRows)
Types == /\ phase \in {"open", "pull", "done"}
         /\ pulled \in 0..Len(batches)
         /\ sorted \in Seq(Cells)
         /\ toSkip \in 0..MaxUsize
         /\ remaining \in 0..MaxUsize
         /\ out \in Seq(Cells)

\* While the plan is opened the sort has read the passing rows of the batches pulled.
Opening ==
  /\ Sound(pulled)
  /\ Passed(<<>>, toSkip, remaining, out)
  /\ query.sort = "none" => pulled = 0 /\ sorted = <<>>
  /\ query.sort # "none" => sorted = Q!FirstRows(pulled)

\* While the limit pulls it has yielded what the query shows of the batches pulled, or it has
\* the sort's batch before it, or behind it.
Pulling ==
  /\ Sound(pulled)
  /\ query.sort = "none" => Passed(Q!FirstRows(pulled), toSkip, remaining, out) /\ sorted = <<>>
  /\ query.sort # "none" =>
       /\ pulled = Len(batches)
       /\ \/ Passed(<<>>, toSkip, remaining, out) /\ Q!Window(sorted) = ShownInOrder
          \/ sorted = <<>> /\ out = ShownInOrder

SInv ==
  /\ Given
  /\ Types
  /\ Needs(pulled)
  /\ phase = "open" => Opening
  /\ phase = "pull" => Pulling
  /\ phase # "done" => outcome = Q!Pending
  /\ phase = "done" => outcome = Q!Answer

\* Q!Sorted of a given input and a given query.
SortedOf(bs, qy, s) ==
  [i \in 1..Len(s) |-> CHOOSE p \in Q!ToSet(s) :
     Q!Cardinality({q \in Q!ToSet(s) :
       LET Key1 == bs[q[1]].rows[q[2]].key
           Key2 == bs[p[1]].rows[p[2]].key
       IN  \/ qy.sort = "asc" /\ Q!Smaller(Key1, Key2)
           \/ qy.sort = "desc" /\ Q!Smaller(Key2, Key1)
           \/ Key1 = Key2 /\ Q!Earlier(q, p)}) = i - 1]

\* The input and the query stay, and all that is defined by them.
LEMMA GivenStays ==
  ASSUME UNCHANGED given
  PROVE  /\ Given' <=> Given
         /\ batches' = batches /\ query' = query
         /\ \A n : Q!FirstRows(n)' = Q!FirstRows(n)
         /\ \A s : Q!Window(s)' = Q!Window(s)
         /\ \A s, skip, rest, shown : Passed(s, skip, rest, shown)' <=> Passed(s, skip, rest, shown)
         /\ \A n : (Sound(n)' <=> Sound(n)) /\ (Needs(n)' <=> Needs(n))
         /\ ShownInOrder' = ShownInOrder
         /\ Q!Answer' = Q!Answer /\ Q!Pending' = Q!Pending
<1>1. batches' = batches /\ query' = query
  BY DEF given
<1>2. Given' <=> Given
  BY <1>1 DEF Given
<1>3. \A b : Q!Passing(b)' = Q!Passing(b)
  BY <1>1 DEF Q!Passing
<1>4. \A n : Q!FirstRows(n)' = Q!FirstRows(n)
  BY <1>3 DEF Q!FirstRows
<1>5. Q!Limit' = Q!Limit
  BY <1>1 DEF Q!Limit
<1>6. \A s : Q!Window(s)' = Q!Window(s)
  BY <1>1, <1>5 DEF Q!Window
<1>7. \A n : Shown(n)' = Shown(n)
  BY <1>1, <1>5 DEF Shown
<1>8. \A s, skip, rest, shown : Passed(s, skip, rest, shown)' <=> Passed(s, skip, rest, shown)
  BY <1>1, <1>5, <1>6, <1>7 DEF Passed
<1>9. \A n : (Sound(n)' <=> Sound(n)) /\ (Needs(n)' <=> Needs(n))
  BY <1>1, <1>4, <1>5 DEF Sound, Needs
<1>10. \A s : Q!Sorted(s) = SortedOf(batches, query, s)
  BY DEF Q!Sorted, SortedOf, Q!Before, Q!Key
<1>11. \A s : Q!Sorted(s)' = Q!Sorted(s)
  <2>1. \A s : Q!Sorted(s)' = SortedOf(batches', query', s)
    BY DEF Q!Sorted, SortedOf, Q!Before, Q!Key
  <2> QED
    BY <1>1, <1>10, <2>1
<1>12. ShownInOrder' = ShownInOrder
  BY <1>1, <1>4, <1>6, <1>11 DEF ShownInOrder
<1>13. Q!Fails' <=> Q!Fails
  BY <1>1, <1>4, <1>5 DEF Q!Fails
<1>14. Q!Rows' = Q!Rows
  BY <1>1, <1>4, <1>6, <1>11 DEF Q!Rows
<1>15. Q!Answer' = Q!Answer /\ Q!Pending' = Q!Pending
  BY <1>13, <1>14 DEF Q!Answer, Q!Pending
<1> QED
  BY <1>1, <1>2, <1>4, <1>6, <1>8, <1>9, <1>12, <1>15

\* The rows found are of the type of the operators' rows.
LEMMA PlacesAreCells == Seq(Place) \subseteq Seq(Cells)
<1>1. Place \subseteq Cells
  BY DEF Place, Cells
<1> HIDE DEF Place, Cells
<1> QED
  BY <1>1

\* At the start nothing has been read.
LEMMA InitSInv == Init => SInv
<1> SUFFICES ASSUME Init PROVE SInv
  OBVIOUS
<1>1. /\ Given /\ phase = "open" /\ pulled = 0 /\ sorted = <<>> /\ toSkip = query.offset
      /\ remaining = Q!Limit /\ out = <<>> /\ outcome = Q!Pending
  BY DEF Init, Given, Q!Limit
<1>2. Len(batches) \in Nat
  BY <1>1, Counted
<1>3. Passed(<<>>, toSkip, remaining, out)
  BY <1>1, PassedNothing
<1>4. <<>> \in Seq(Cells)
  OBVIOUS
<1>5. toSkip \in 0..MaxUsize /\ remaining \in 0..MaxUsize
  BY <1>1, <1>3, <1>4, PassedTypes
<1>6. Types
  BY <1>1, <1>2, <1>4, <1>5 DEF Types
<1>7. Sound(0) /\ Needs(0)
  BY DEF Sound, Needs
<1>8. query.sort # "none" => sorted = Q!FirstRows(pulled)
  BY <1>1, FirstRowsNone
<1>9. Opening
  BY <1>1, <1>3, <1>7, <1>8 DEF Opening
<1> QED
  BY <1>1, <1>6, <1>7, <1>9 DEF SInv

-----------------------------------------------------------------------------
\* The steps.

\* A step of the operators changes neither the input nor the query.
LEMMA NextState ==
  ASSUME Given, UNCHANGED given,
         phase' \in {"open", "pull", "done"}, pulled' \in 0..Len(batches),
         sorted' \in Seq(Cells), toSkip' \in 0..MaxUsize, remaining' \in 0..MaxUsize,
         out' \in Seq(Cells),
         Needs(pulled'),
         phase' # "done" => Sound(pulled'),
         phase' = "open" =>
           /\ Passed(<<>>, toSkip', remaining', out')
           /\ query.sort = "none" => pulled' = 0 /\ sorted' = <<>>
           /\ query.sort # "none" => sorted' = Q!FirstRows(pulled'),
         phase' = "pull" =>
           /\ query.sort = "none" =>
                Passed(Q!FirstRows(pulled'), toSkip', remaining', out') /\ sorted' = <<>>
           /\ query.sort # "none" =>
                /\ pulled' = Len(batches)
                /\ \/ Passed(<<>>, toSkip', remaining', out') /\ Q!Window(sorted') = ShownInOrder
                   \/ sorted' = <<>> /\ out' = ShownInOrder,
         phase' # "done" => outcome' = Q!Pending,
         phase' = "done" => outcome' = Q!Answer
  PROVE  SInv'
<1>1. /\ Given' /\ batches' = batches /\ query' = query
      /\ \A n : Q!FirstRows(n)' = Q!FirstRows(n)
      /\ \A s : Q!Window(s)' = Q!Window(s)
      /\ \A s, skip, rest, shown : Passed(s, skip, rest, shown)' <=> Passed(s, skip, rest, shown)
      /\ \A n : (Sound(n)' <=> Sound(n)) /\ (Needs(n)' <=> Needs(n))
      /\ ShownInOrder' = ShownInOrder
      /\ Q!Answer' = Q!Answer /\ Q!Pending' = Q!Pending
  BY GivenStays
<1>2. Types'
  BY <1>1 DEF Types
<1>3. Needs(pulled)' /\ (phase' # "done" => Sound(pulled)')
  BY <1>1
<1>4. phase' = "open" => Opening'
  BY <1>1, <1>3 DEF Opening
<1>5. phase' = "pull" => Pulling'
  BY <1>1, <1>3 DEF Pulling
<1> QED
  BY <1>1, <1>2, <1>3, <1>4, <1>5 DEF SInv

\* The filter opens.
LEMMA OpenFilterKeeps == SInv /\ OpenFilter => SInv'
<1> SUFFICES ASSUME SInv, OpenFilter PROVE SInv'
  OBVIOUS
<1>1. /\ Given /\ Types /\ Needs(pulled) /\ Opening /\ phase = "open" /\ query.sort = "none"
      /\ outcome = Q!Pending
  BY DEF SInv, OpenFilter
<1>2. /\ UNCHANGED given /\ phase' = "pull" /\ pulled' = pulled /\ sorted' = sorted
      /\ toSkip' = toSkip /\ remaining' = remaining /\ out' = out /\ outcome' = outcome
  BY DEF OpenFilter
<1>3. /\ Sound(pulled) /\ Passed(<<>>, toSkip, remaining, out) /\ pulled = 0 /\ sorted = <<>>
      /\ Q!FirstRows(pulled) = <<>>
  BY <1>1, FirstRowsNone DEF Opening
<1> QED
  BY <1>1, <1>2, <1>3, NextState DEF Types

\* The rows of a batch that the filter yields, after those of the batches before it.
LEMMA FilterNext ==
  ASSUME Given, NEW n \in 0..Len(batches), n < Len(batches)
  PROVE  /\ n + 1 \in 1..Len(batches) /\ n \in 0..(Len(batches) - 1)
         /\ Filter(n + 1) \in Seq(Place)
         /\ Q!FirstRows(n) \in Seq(Place) /\ Q!FirstRows(n + 1) \in Seq(Place)
         /\ Q!FirstRows(n + 1) = Q!FirstRows(n) \o Filter(n + 1)
<1>1. Len(batches) \in Nat
  BY Counted
<1>2. n + 1 \in 1..Len(batches) /\ n \in 0..(Len(batches) - 1) /\ n + 1 \in 0..Len(batches)
  BY <1>1
<1>3. Filter(n + 1) = Q!Passing(n + 1) /\ Q!Passing(n + 1) \in Seq(Place)
  BY <1>2, FilterIs, PassingRows
<1> QED
  BY <1>2, <1>3, FirstRowsNext, FirstRowsAre

\* None of the first n + 1 batches fails, if the last of them does not.
LEMMA SoundNext ==
  ASSUME NEW n \in Nat, Sound(n), ~batches[n + 1].fails
  PROVE  Sound(n + 1)
<1>1. \A b \in 1..(n + 1) : b \in 1..n \/ b = n + 1
  OBVIOUS
<1> QED
  BY <1>1 DEF Sound

\* The sort reads a batch.
LEMMA SortReadsKeeps == SInv /\ SortReads => SInv'
<1> SUFFICES ASSUME SInv, SortReads PROVE SInv'
  OBVIOUS
<1> DEFINE n == pulled + 1
<1>1. /\ Given /\ Types /\ Needs(pulled) /\ Opening /\ phase = "open" /\ query.sort # "none"
      /\ outcome = Q!Pending /\ pulled \in 0..Len(batches) /\ pulled < Len(batches)
  BY DEF SInv, SortReads, Types
<1>2. /\ UNCHANGED given /\ pulled' = n
      /\ toSkip' = toSkip /\ remaining' = remaining /\ out' = out
      /\ batches[n].fails => /\ phase' = "done" /\ sorted' = sorted
                             /\ outcome' = [status |-> "error", rows |-> <<>>]
      /\ ~batches[n].fails => /\ phase' = phase /\ outcome' = outcome
                              /\ sorted' = sorted \o Filter(n)
  BY DEF SortReads, Fail
<1>3. /\ Sound(pulled) /\ Passed(<<>>, toSkip, remaining, out) /\ sorted = Q!FirstRows(pulled)
  BY <1>1 DEF Opening
<1>4. /\ n \in 1..Len(batches) /\ Q!FirstRows(n) \in Seq(Place)
      /\ Q!FirstRows(n) = Q!FirstRows(pulled) \o Filter(n)
  BY <1>1, FilterNext
<1>5. pulled \in Nat /\ n \in 0..Len(batches)
  BY <1>1, <1>4, Counted
<1>6. Needs(n)
  BY <1>1 DEF Needs
<1>7. CASE batches[n].fails
  <2>1. outcome' = Q!Answer
    BY <1>1, <1>2, <1>4, <1>6, <1>7, FailureAnswers
  <2> HIDE DEF n
  <2> QED
    BY <1>1, <1>2, <1>5, <1>6, <1>7, <2>1, NextState DEF Types
<1>8. CASE ~batches[n].fails
  <2>1. Sound(n)
    BY <1>3, <1>5, <1>8, SoundNext
  <2>2. sorted' = Q!FirstRows(n) /\ Q!FirstRows(n) \in Seq(Cells)
    BY <1>2, <1>3, <1>4, <1>8, PlacesAreCells
  <2> HIDE DEF n
  <2> QED
    BY <1>1, <1>2, <1>3, <1>5, <1>6, <1>8, <2>1, <2>2, NextState DEF Types
<1> QED
  BY <1>7, <1>8

\* The sort sorts what it has read.
LEMMA OpenSortKeeps == SInv /\ OpenSort => SInv'
<1> SUFFICES ASSUME SInv, OpenSort PROVE SInv'
  OBVIOUS
<1> DEFINE rows == Q!FirstRows(Len(batches))
<1>1. /\ Given /\ Types /\ Needs(pulled) /\ Opening /\ phase = "open" /\ query.sort # "none"
      /\ outcome = Q!Pending /\ pulled = Len(batches)
  BY DEF SInv, OpenSort
<1>2. /\ UNCHANGED given /\ phase' = "pull" /\ pulled' = pulled /\ sorted' \in Sortings(sorted)
      /\ toSkip' = toSkip /\ remaining' = remaining /\ out' = out /\ outcome' = outcome
  BY DEF OpenSort
<1>3. Sound(pulled) /\ Passed(<<>>, toSkip, remaining, out) /\ sorted = rows
  BY <1>1 DEF Opening
<1>4. /\ rows \in Seq(Place) /\ InOrder(rows) /\ Len(rows) <= MaxUsize
  <2>1. Len(batches) \in 0..Len(batches)
    BY <1>1, Counted
  <2> QED
    BY <1>1, <2>1, FirstRowsAre, FirstRowsFew
<1>5. sorted' \in Seq(Place) /\ Q!Window(sorted') = ShownInOrder
  <2>1. \A s \in Sortings(rows) : s \in Seq(Place) /\ Q!Window(s) = Q!Window(Q!Sorted(rows))
    <3> HIDE DEF rows
    <3> QED
      BY <1>1, <1>4, SortingShows
  <2>2. sorted' \in Sortings(rows)
    BY <1>2, <1>3
  <2> QED
    BY <2>1, <2>2 DEF ShownInOrder
<1>6. sorted' \in Seq(Cells)
  BY <1>5, PlacesAreCells
<1> QED
  BY <1>1, <1>2, <1>3, <1>5, <1>6, NextState DEF Types

\* What the limit has of a batch is what the query shows of the rows up to there.
LEMMA PassOnShows ==
  ASSUME Given, NEW X, NEW s \in Seq(X), NEW rows \in Seq(X),
         Passed(s, toSkip, remaining, out), PassOn(rows)
  PROVE  Passed(s \o rows, toSkip', remaining', out')
<1> DEFINE cut == Min({toSkip, Len(rows)})
           take == Min({Len(rows) - cut, remaining})
<1>1. toSkip' = toSkip - cut /\ remaining' = remaining - take
      /\ out' = out \o SubSeq(rows, cut + 1, cut + take)
  BY DEF PassOn
<1>2. Takes(Len(rows), toSkip, remaining, cut, take)
  BY DEF Takes
<1> HIDE DEF cut, take
<1>3. Passed(s \o rows, toSkip - cut, remaining - take,
             out \o SubSeq(rows, cut + 1, cut + take))
  BY <1>2, PassOnWindow
<1> QED
  BY <1>1, <1>3

\* The limit pulls a batch from the filter.
LEMMA LimitPullsKeeps == SInv /\ LimitPulls => SInv'
<1> SUFFICES ASSUME SInv, LimitPulls PROVE SInv'
  OBVIOUS
<1> DEFINE n == pulled + 1
<1>1. /\ Given /\ Types /\ Needs(pulled) /\ Pulling /\ phase = "pull" /\ query.sort = "none"
      /\ outcome = Q!Pending /\ pulled \in 0..Len(batches) /\ pulled < Len(batches)
      /\ remaining > 0
  BY DEF SInv, LimitPulls, Types
<1>2. /\ UNCHANGED given /\ pulled' = n /\ sorted' = sorted
      /\ batches[n].fails => /\ phase' = "done" /\ UNCHANGED <<toSkip, remaining, out>>
                             /\ outcome' = [status |-> "error", rows |-> <<>>]
      /\ ~batches[n].fails => phase' = phase /\ outcome' = outcome /\ PassOn(Filter(n))
  BY DEF LimitPulls, Fail
<1>3. Sound(pulled) /\ Passed(Q!FirstRows(pulled), toSkip, remaining, out) /\ sorted = <<>>
  BY <1>1 DEF Pulling
<1>4. /\ n \in 1..Len(batches) /\ pulled \in 0..(Len(batches) - 1)
      /\ Filter(n) \in Seq(Place) /\ Q!FirstRows(pulled) \in Seq(Place)
      /\ Q!FirstRows(n) \in Seq(Place) /\ Q!FirstRows(n) = Q!FirstRows(pulled) \o Filter(n)
  BY <1>1, FilterNext
<1>5. pulled \in Nat /\ n \in 0..Len(batches)
  BY <1>1, <1>4, Counted
<1>6. Needs(n)
  BY <1>1, <1>3, <1>4, NeedsNext
<1>7. CASE batches[n].fails
  <2>1. outcome' = Q!Answer
    BY <1>1, <1>2, <1>4, <1>6, <1>7, FailureAnswers
  <2> HIDE DEF n
  <2> QED
    BY <1>1, <1>2, <1>5, <1>6, <1>7, <2>1, NextState DEF Types
<1>8. CASE ~batches[n].fails
  <2>1. Sound(n)
    BY <1>3, <1>5, <1>8, SoundNext
  <2>2. Passed(Q!FirstRows(n), toSkip', remaining', out')
    <3> HIDE DEF n
    <3>1. Passed(Q!FirstRows(pulled) \o Filter(n), toSkip', remaining', out')
      BY <1>1, <1>2, <1>3, <1>4, <1>8, PassOnShows
    <3> QED
      BY <1>4, <3>1
  <2>3. toSkip' \in 0..MaxUsize /\ remaining' \in 0..MaxUsize /\ out' \in Seq(Place)
    BY <1>1, <1>4, <2>2, PassedTypes
  <2>4. out' \in Seq(Cells)
    BY <2>3, PlacesAreCells
  <2> HIDE DEF n
  <2> QED
    BY <1>1, <1>2, <1>3, <1>5, <1>6, <1>8, <2>1, <2>2, <2>3, <2>4, NextState DEF Types
<1> QED
  BY <1>7, <1>8

\* The limit takes the sort's batch.
LEMMA LimitTakesSortedKeeps == SInv /\ LimitTakesSorted => SInv'
<1> SUFFICES ASSUME SInv, LimitTakesSorted PROVE SInv'
  OBVIOUS
<1>1. /\ Given /\ Types /\ Needs(pulled) /\ Pulling /\ phase = "pull" /\ query.sort # "none"
      /\ outcome = Q!Pending /\ sorted # <<>> /\ sorted \in Seq(Cells)
  BY DEF SInv, LimitTakesSorted, Types
<1>2. /\ UNCHANGED given /\ phase' = phase /\ pulled' = pulled /\ outcome' = outcome
      /\ sorted' = <<>> /\ PassOn(sorted)
  BY DEF LimitTakesSorted
<1>3. /\ Sound(pulled) /\ pulled = Len(batches)
      /\ Passed(<<>>, toSkip, remaining, out) /\ Q!Window(sorted) = ShownInOrder
  BY <1>1 DEF Pulling
<1>4. <<>> \in Seq(Cells) /\ <<>> \o sorted = sorted
  BY <1>1
<1>5. Passed(sorted, toSkip', remaining', out')
  <2>1. Passed(<<>> \o sorted, toSkip', remaining', out')
    BY <1>1, <1>2, <1>3, <1>4, PassOnShows
  <2> QED
    BY <1>4, <2>1
<1>6. toSkip' \in 0..MaxUsize /\ remaining' \in 0..MaxUsize /\ out' \in Seq(Cells)
  BY <1>1, <1>5, PassedTypes
<1>7. out' = ShownInOrder
  BY <1>3, <1>5 DEF Passed
<1> QED
  BY <1>1, <1>2, <1>3, <1>4, <1>6, <1>7, NextState DEF Types

\* The limit has ended: it has yielded what the query answers.
LEMMA CollectKeeps == SInv /\ Collect => SInv'
<1> SUFFICES ASSUME SInv, Collect PROVE SInv'
  OBVIOUS
<1>1. /\ Given /\ Types /\ Needs(pulled) /\ Pulling /\ phase = "pull"
      /\ sorted \in Seq(Cells) /\ pulled \in 0..Len(batches)
      /\ \/ remaining = 0
         \/ query.sort = "none" /\ pulled = Len(batches)
         \/ query.sort # "none" /\ sorted = <<>>
  BY DEF SInv, Collect, Types
<1>2. /\ UNCHANGED given /\ phase' = "done" /\ pulled' = pulled /\ sorted' = sorted
      /\ toSkip' = toSkip /\ remaining' = remaining /\ out' = out
      /\ outcome' = [status |-> "ok", rows |-> out]
  BY DEF Collect
<1>3. Sound(pulled)
  BY <1>1 DEF Pulling
<1>4. Q!Answer = [status |-> "ok", rows |-> out]
  <2>1. CASE query.sort = "none"
    <3>1. Passed(Q!FirstRows(pulled), toSkip, remaining, out)
      BY <1>1, <2>1 DEF Pulling
    <3>2. remaining = 0 \/ pulled = Len(batches)
      BY <1>1, <2>1
    <3> QED
      BY <1>1, <1>3, <2>1, <3>1, <3>2, LimitAnswers
  <2>2. CASE query.sort # "none"
    <3>1. pulled = Len(batches)
      BY <1>1, <2>2 DEF Pulling
    <3>2. out = ShownInOrder
      <4> SUFFICES ASSUME Passed(<<>>, toSkip, remaining, out),
                          Q!Window(sorted) = ShownInOrder
                   PROVE  out = ShownInOrder
        BY <1>1, <2>2 DEF Pulling
      <4>1. remaining = Q!Limit /\ out = <<>> /\ out = Q!Window(<<>>)
        BY <1>1, PassedNothing DEF Passed
      <4>2. CASE sorted = <<>>
        BY <4>1, <4>2
      <4>3. CASE remaining = 0
        <5>1. Q!Window(sorted) \in Seq(Cells) /\ Len(Q!Window(sorted)) = Shown(Len(sorted))
              /\ Shown(Len(sorted)) \in Nat /\ Shown(Len(sorted)) <= Q!Limit
          BY <1>1, WindowIs
        <5>2. Len(Q!Window(sorted)) = 0
          BY <4>1, <4>3, <5>1
        <5>3. Q!Window(sorted) = <<>>
          BY <5>1, <5>2
        <5> QED
          BY <4>1, <5>3
      <4> QED
        BY <1>1, <2>2, <4>2, <4>3
    <3> QED
      BY <1>1, <1>3, <2>2, <3>1, <3>2, SortAnswers
  <2> QED
    BY <2>1, <2>2
<1>5. outcome' = Q!Answer
  BY <1>2, <1>4
<1> QED
  BY <1>1, <1>2, <1>3, <1>5, NextState DEF Types

\* Nothing changes.
LEMMA StutterKeeps == SInv /\ UNCHANGED vars => SInv'
<1> SUFFICES ASSUME SInv, UNCHANGED vars PROVE SInv'
  OBVIOUS
<1>1. /\ UNCHANGED given /\ phase' = phase /\ pulled' = pulled /\ sorted' = sorted
      /\ toSkip' = toSkip /\ remaining' = remaining /\ out' = out /\ outcome' = outcome
  BY DEF vars
<1>2. Given /\ Types /\ Needs(pulled)
  BY DEF SInv
<1>3. phase # "done" => Sound(pulled)
  BY <1>2 DEF SInv, Types, Opening, Pulling
<1>4. phase = "open" => /\ Passed(<<>>, toSkip, remaining, out)
                        /\ query.sort = "none" => pulled = 0 /\ sorted = <<>>
                        /\ query.sort # "none" => sorted = Q!FirstRows(pulled)
  BY DEF SInv, Opening
<1>5. phase = "pull" =>
        /\ query.sort = "none" =>
             Passed(Q!FirstRows(pulled), toSkip, remaining, out) /\ sorted = <<>>
        /\ query.sort # "none" =>
             /\ pulled = Len(batches)
             /\ \/ Passed(<<>>, toSkip, remaining, out) /\ Q!Window(sorted) = ShownInOrder
                \/ sorted = <<>> /\ out = ShownInOrder
  BY DEF SInv, Pulling
<1>6. (phase # "done" => outcome = Q!Pending) /\ (phase = "done" => outcome = Q!Answer)
  BY DEF SInv
<1> QED
  BY <1>1, <1>2, <1>3, <1>4, <1>5, <1>6, NextState DEF Types

-----------------------------------------------------------------------------
\* The invariant holds throughout: while the operators are pulled from, what they hold is
\* what the query's definition finds in the batches pulled so far.
THEOREM SInvHolds == Spec => []SInv
<1>1. SInv /\ [Next]_vars => SInv'
  BY OpenFilterKeeps, SortReadsKeeps, OpenSortKeeps, LimitPullsKeeps, LimitTakesSortedKeeps,
     CollectKeeps, StutterKeeps DEF Next, Done
<1> QED
  BY InitSInv, <1>1, PTL DEF Spec

\* The variables keep their types: in particular the limit's counters stay within a usize,
\* so that none of its subtractions underflows.
THEOREM StreamTypeOK == Spec => []TypeOK
<1>1. SInv => TypeOK
  <2> SUFFICES ASSUME SInv PROVE TypeOK
    OBVIOUS
  <2>1. Types
    BY DEF SInv
  <2>2. Q!Pending.status = "pending"
    BY DEF Q!Pending
  <2>3. Q!Answer.status \in {"ok", "error"}
    <3>1. CASE Q!Fails
      BY <3>1 DEF Q!Answer
    <3>2. CASE ~Q!Fails
      BY <3>2 DEF Q!Answer
    <3> QED
      BY <3>1, <3>2
  <2>4. outcome = Q!Pending \/ outcome = Q!Answer
    BY <2>1 DEF SInv
  <2>5. outcome.status \in {"pending", "ok", "error"}
    BY <2>2, <2>3, <2>4
  <2> QED
    BY <2>1, <2>5 DEF TypeOK, Types, Cells
<1> QED
  BY <1>1, SInvHolds, PTL

\* The source is never asked for a batch that the answer does not need.
THEOREM StreamReadsNoMore == Spec => []ReadsNoMore
<1>1. SInv => ReadsNoMore
  <2> SUFFICES ASSUME SInv PROVE ReadsNoMore
    OBVIOUS
  <2>1. Given /\ pulled \in 0..Len(batches) /\ Needs(pulled)
    BY DEF SInv, Types
  <2> QED
    BY <2>1, NeededCounts DEF ReadsNoMore
<1> QED
  BY <1>1, SInvHolds, PTL

\* The operators answer the query as it is defined on all batches at once: a step either
\* gives the answer, or changes nothing that the definition speaks of.
THEOREM StreamImplementsRowQuery == Spec => ImplementsRowQuery
<1>1. Init => Q!Init
  BY DEF Init, Q!Init
<1>2. SInv /\ SInv' /\ [Next]_vars => [Q!Execute]_<<batches, query, outcome>>
  <2> SUFFICES ASSUME SInv, SInv', [Next]_vars, outcome' # outcome
               PROVE  Q!Execute
    BY DEF Next, OpenFilter, SortReads, OpenSort, LimitPulls, LimitTakesSorted, Collect,
           Done, vars, given
  <2>1. UNCHANGED given
    BY DEF Next, OpenFilter, SortReads, OpenSort, LimitPulls, LimitTakesSorted, Collect,
           Done, vars
  <2>2. phase # "done" /\ phase' = "done"
    BY DEF Next, OpenFilter, SortReads, OpenSort, LimitPulls, LimitTakesSorted, Collect,
           Done, vars, Fail
  <2>3. outcome = Q!Pending
    BY <2>2 DEF SInv
  <2>4. outcome' = Q!Answer'
    BY <2>2 DEF SInv
  <2>5. Q!Answer' = Q!Answer /\ batches' = batches /\ query' = query
    BY <2>1, GivenStays
  <2> QED
    BY <2>3, <2>4, <2>5 DEF Q!Execute
<1> QED
  BY <1>1, <1>2, SInvHolds, PTL DEF Spec, ImplementsRowQuery, Q!Spec
=============================================================================
