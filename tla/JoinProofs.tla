----------------------------- MODULE JoinProofs -----------------------------
(***************************************************************************)
(* That a parallel hash join answers what the definition of the join says, *)
(* for all inputs, sizes of integers, batches and numbers of threads.      *)
(*                                                                         *)
(* A lookup in the index finds the rows of exactly its key, in order, so   *)
(* that a turn of a worker's loop makes the probe of a run of left rows    *)
(* that of one row more.  The jobs cut the left rows into runs that follow *)
(* one another, so that the merged probes are those of all the rows.       *)
(***************************************************************************)
EXTENDS Join, Induction

Modulus == 2 * (MaxInt + 1)

\* The index covers every key of the right rows, and each of its slots holds the
\* rows indexed so far whose key is the slot's.
IndexInv ==
  /\ index.dense = Dense
  /\ index.dense => /\ index.lo = Min(RightKeys)
                    /\ DOMAIN index.slots = 0..(Span - 1)
  /\ ~index.dense => index.lo = 0 /\ DOMAIN index.slots = Keys
  /\ \A o \in DOMAIN index.slots :
       /\ index.slots[o] \in Seq(Nat)
       /\ AreRowsOf(index.slots[o], index.lo + o, indexed)

IInv ==
  /\ right \in Seq(Keys \cup {Null})
  /\ indexed \in 0..Len(right)
  /\ phase # "index" => indexed = Len(right)
  /\ index = [dense |-> index.dense, lo |-> index.lo, slots |-> index.slots]
  /\ index.slots = [o \in DOMAIN index.slots |-> index.slots[o]]
  /\ IndexInv

\* A set of i64 that is not empty has a smallest element.
LEMMA Smallest ==
  ASSUME NEW S \in SUBSET I64, S # {}
  PROVE  Min(S) \in S /\ \A x \in S : Min(S) <= x
<1>1. MaxInt \in Nat
  BY JoinAssumption
<1>2. \A k \in S : k \in Int /\ k + (MaxInt + 1) \in Nat
  BY <1>1 DEF I64
<1> DEFINE T == {k + (MaxInt + 1) : k \in S}
<1>3. PICK t \in T : \A u \in T : t <= u
  <2>1. T \in SUBSET Nat /\ T # {}
    BY <1>2
  <2> HIDE DEF T
  <2> QED
    BY <2>1, LeastNatural
<1>4. PICK k \in S : t = k + (MaxInt + 1)
  BY <1>3
<1>5. ASSUME NEW x \in S
      PROVE  k <= x
  <2>1. x + (MaxInt + 1) \in T
    OBVIOUS
  <2> QED
    BY <1>1, <1>2, <1>3, <1>4, <2>1
<1> QED
  BY <1>4, <1>5 DEF Min

\* And a largest one.
LEMMA Largest ==
  ASSUME NEW S \in SUBSET I64, S # {}
  PROVE  Max(S) \in S /\ \A x \in S : Max(S) >= x
<1>1. MaxInt \in Nat
  BY JoinAssumption
<1>2. \A k \in S : k \in Int /\ MaxInt - k \in Nat
  BY <1>1 DEF I64
<1> DEFINE T == {MaxInt - k : k \in S}
<1>3. PICK t \in T : \A u \in T : t <= u
  <2>1. T \in SUBSET Nat /\ T # {}
    BY <1>2
  <2> HIDE DEF T
  <2> QED
    BY <2>1, LeastNatural
<1>4. PICK k \in S : t = MaxInt - k
  BY <1>3
<1>5. ASSUME NEW x \in S
      PROVE  k >= x
  <2>1. MaxInt - x \in T
    OBVIOUS
  <2>2. MaxInt - k <= MaxInt - x
    BY <1>3, <1>4, <2>1
  <2>3. MaxInt \in Int /\ k \in Int /\ x \in Int
    BY <1>1, <1>2
  <2> HIDE DEF T
  <2> QED
    BY <2>2, <2>3
<1> QED
  BY <1>4, <1>5 DEF Max

\* The keys of the right rows, and the range of the slots of a dense index.
LEMMA KeyRange ==
  ASSUME right \in Seq(Keys \cup {Null})
  PROVE  /\ RightKeys \in SUBSET Keys /\ RightKeys \in SUBSET I64
         /\ Dense => /\ Min(RightKeys) \in I64 /\ Max(RightKeys) \in I64
                     /\ Span = Max(RightKeys) - Min(RightKeys) + 1 /\ Span \in Nat
                     /\ \A k \in RightKeys : Min(RightKeys) <= k /\ k <= Max(RightKeys)
<1>1. RightKeys \in SUBSET Keys
  BY DEF RightKeys
<1>2. RightKeys \in SUBSET I64 /\ MaxInt \in Nat
  BY <1>1, JoinAssumption
<1>3. ASSUME Dense
      PROVE  /\ Min(RightKeys) \in I64 /\ Max(RightKeys) \in I64
             /\ \A k \in RightKeys : Min(RightKeys) <= k /\ k <= Max(RightKeys)
             /\ Min(RightKeys) <= Max(RightKeys)
  <2>1. RightKeys # {}
    BY <1>3 DEF Dense
  <2>2. Min(RightKeys) \in RightKeys /\ \A k \in RightKeys : Min(RightKeys) <= k
    BY <1>2, <2>1, Smallest
  <2>3. Max(RightKeys) \in RightKeys /\ \A k \in RightKeys : Max(RightKeys) >= k
    BY <1>2, <2>1, Largest
  <2> QED
    BY <1>2, <2>2, <2>3 DEF I64
<1>4. ASSUME Dense
      PROVE  Span = Max(RightKeys) - Min(RightKeys) + 1 /\ Span \in Nat
  <2>1. Min(RightKeys) \in Int /\ Max(RightKeys) \in Int /\ Min(RightKeys) <= Max(RightKeys)
    BY <1>2, <1>3, <1>4 DEF I64
  <2> QED
    BY <2>1 DEF Span
<1> QED
  BY <1>1, <1>2, <1>3, <1>4

\* A row that joins the rows of its key is the last of them, and the rows of the
\* other keys stay as they are.
LEMMA RowsGrow ==
  ASSUME NEW rows \in Seq(Nat), NEW key \in Int, NEW n \in Nat, AreRowsOf(rows, key, n)
  PROVE  /\ right[n + 1] = key => AreRowsOf(Append(rows, n + 1), key, n + 1)
         /\ right[n + 1] # key => AreRowsOf(rows, key, n + 1)
<1>1. key # Null
  BY JoinAssumption
<1>2. {r \in 1..n + 1 : key # Null /\ right[r] = key}
        = {r \in 1..n : key # Null /\ right[r] = key}
          \cup IF right[n + 1] = key THEN {n + 1} ELSE {}
  <2>1. 1..n + 1 = 1..n \cup {n + 1}
    OBVIOUS
  <2> QED
    BY <1>1, <2>1
<1>3. CASE right[n + 1] = key
  <2> DEFINE more == Append(rows, n + 1)
  <2>1. /\ DOMAIN more = DOMAIN rows \cup {Len(rows) + 1}
        /\ \A h \in DOMAIN rows : more[h] = rows[h]
        /\ more[Len(rows) + 1] = n + 1
        /\ DOMAIN rows = 1..Len(rows) /\ Len(rows) \in Nat
    OBVIOUS
  <2>2. {more[h] : h \in DOMAIN more} = {rows[h] : h \in DOMAIN rows} \cup {n + 1}
    BY <2>1
  <2>3. \A h \in DOMAIN rows : rows[h] \in 1..n
    BY DEF AreRowsOf
  <2>4. ASSUME NEW h \in DOMAIN more, NEW i \in DOMAIN more, h < i
        PROVE  more[h] < more[i]
    <3>1. h \in DOMAIN rows
      BY <2>1, <2>4
    <3>2. CASE i = Len(rows) + 1
      BY <2>1, <2>3, <3>1, <3>2
    <3>3. CASE i \in DOMAIN rows
      BY <2>1, <2>4, <3>1, <3>3 DEF AreRowsOf
    <3> QED
      BY <2>1, <3>2, <3>3
  <2> HIDE DEF more
  <2>5. AreRowsOf(more, key, n + 1)
    BY <1>2, <1>3, <2>2, <2>4 DEF AreRowsOf
  <2> QED
    BY <1>3, <2>5 DEF more
<1>4. CASE right[n + 1] # key
  BY <1>2, <1>4 DEF AreRowsOf
<1> QED
  BY <1>3, <1>4

\* Nothing is indexed at first.
LEMMA InitIndex == Init => IInv
<1> SUFFICES ASSUME Init PROVE IInv
  OBVIOUS
<1>1. right \in Seq(Keys \cup {Null})
  BY DEF Init, Inputs
<1>2. \A key \in Int : AreRowsOf(<<>>, key, 0)
  BY DEF AreRowsOf
<1>3. <<>> \in Seq(Nat)
  OBVIOUS
<1>4. CASE Dense
  <2>1. Min(RightKeys) \in Int
    BY <1>1, <1>4, KeyRange DEF I64
  <2>2. index = [dense |-> TRUE, lo |-> Min(RightKeys),
                 slots |-> [o \in 0..Span - 1 |-> <<>>]]
    BY <1>4 DEF Init, EmptyIndex
  <2>3. \A o \in 0..Span - 1 : o \in Int /\ index.lo + o \in Int
    BY <2>1, <2>2, <1>1, <1>4, KeyRange
  <2> QED
    BY <1>1, <1>2, <1>3, <1>4, <2>2, <2>3 DEF IInv, IndexInv, Init
<1>5. CASE ~Dense
  <2>1. index = [dense |-> FALSE, lo |-> 0, slots |-> [k \in Keys |-> <<>>]]
    BY <1>5 DEF Init, EmptyIndex
  <2>2. \A o \in Keys : o \in Int /\ index.lo + o \in Int
    BY <2>1, JoinAssumption DEF I64
  <2>3. index.dense = Dense
    BY <1>5, <2>1 DEF Dense
  <2>4. /\ DOMAIN index.slots = Keys
        /\ \A o \in Keys : index.slots[o] \in Seq(Nat)
                          /\ AreRowsOf(index.slots[o], index.lo + o, 0)
    BY <1>2, <1>3, <2>1, <2>2
  <2>5. ~index.dense /\ index.lo = 0
    BY <2>1
  <2>6. IndexInv
    BY <2>3, <2>4, <2>5 DEF IndexInv, Init
  <2>7. /\ index = [dense |-> index.dense, lo |-> index.lo, slots |-> index.slots]
        /\ index.slots = [o \in DOMAIN index.slots |-> index.slots[o]]
    BY <2>1
  <2> QED
    BY <1>1, <2>6, <2>7 DEF IInv, Init
<1> QED
  BY <1>4, <1>5

\* Indexing a row puts it in the slot of its key, which the index has, and in no other.
LEMMA IndexRowKeeps == IInv /\ IndexRow => IInv'
<1> SUFFICES ASSUME IInv, IndexRow PROVE IInv'
  OBVIOUS
<1> DEFINE row == indexed + 1
           key == right[row]
<1>1. /\ right \in Seq(Keys \cup {Null}) /\ indexed \in Nat /\ row \in 1..Len(right)
      /\ key \in Keys \cup {Null}
      /\ indexed' = row /\ right' = right /\ phase' = phase /\ phase = "index"
  BY DEF IInv, IndexRow, given
<1>2. Dense' = Dense /\ RightKeys' = RightKeys /\ Span' = Span
  BY <1>1 DEF Dense, RightKeys, Span
<1>3. \A rows, k, n : AreRowsOf(rows, k, n)' <=> AreRowsOf(rows, k, n)
  BY <1>1 DEF AreRowsOf
<1>4. \A o \in DOMAIN index.slots : o \in Int /\ index.lo + o \in Int
  <2>1. CASE Dense
    BY <1>1, <2>1, KeyRange DEF IInv, IndexInv, I64
  <2>2. CASE ~Dense
    BY <2>2, JoinAssumption DEF IInv, IndexInv, I64
  <2> QED
    BY <2>1, <2>2
<1>5. CASE key = Null
  <2>1. index' = index
    BY <1>5 DEF IndexRow
  <2>2. \A o \in DOMAIN index.slots : AreRowsOf(index.slots[o], index.lo + o, row)
    BY <1>1, <1>4, <1>5, RowsGrow, JoinAssumption DEF IInv, IndexInv
  <2> QED
    BY <1>1, <1>2, <1>3, <2>1, <2>2 DEF IInv, IndexInv
<1>6. CASE key # Null
  <2>1. key \in RightKeys /\ key \in Keys /\ key \in Int
    <3>1. key \in Keys /\ \E r \in 1..Len(right) : key = right[r]
      BY <1>1, <1>6
    <3>2. Keys \subseteq Int
      BY JoinAssumption DEF I64
    <3> QED
      BY <1>6, <3>1, <3>2 DEF RightKeys
  <2>2. key - index.lo \in DOMAIN index.slots
    <3>1. CASE Dense
      <4>1. /\ Min(RightKeys) \in Int /\ Max(RightKeys) \in Int
            /\ Min(RightKeys) <= key /\ key <= Max(RightKeys)
            /\ Span = Max(RightKeys) - Min(RightKeys) + 1
        BY <1>1, <2>1, <3>1, KeyRange DEF I64
      <4> QED
        BY <2>1, <3>1, <4>1 DEF IInv, IndexInv
    <3>2. CASE ~Dense
      BY <2>1, <3>2 DEF IInv, IndexInv
    <3> QED
      BY <3>1, <3>2
  <2> DEFINE slot == key - index.lo
  <2>3. /\ index'.dense = index.dense /\ index'.lo = index.lo
        /\ index'.slots = [index.slots EXCEPT ![slot] = Append(@, row)]
        /\ index' = [dense |-> index'.dense, lo |-> index'.lo, slots |-> index'.slots]
    BY <1>6 DEF IndexRow, IInv
  <2>4. /\ DOMAIN index'.slots = DOMAIN index.slots
        /\ index'.slots = [o \in DOMAIN index'.slots |-> index'.slots[o]]
        /\ index'.slots[slot] = Append(index.slots[slot], row)
        /\ \A o \in DOMAIN index.slots : o # slot => index'.slots[o] = index.slots[o]
    BY <2>2, <2>3
  <2>5. index.lo \in Int
    <3>1. CASE Dense
      BY <1>1, <3>1, KeyRange DEF IInv, IndexInv, I64
    <3>2. CASE ~Dense
      BY <3>2 DEF IInv, IndexInv
    <3> QED
      BY <3>1, <3>2
  <2>6. ASSUME NEW o \in DOMAIN index.slots
        PROVE  index'.slots[o] \in Seq(Nat) /\ AreRowsOf(index'.slots[o], index.lo + o, row)
    <3>1. index.slots[o] \in Seq(Nat) /\ AreRowsOf(index.slots[o], index.lo + o, indexed)
      BY DEF IInv, IndexInv
    <3>2. o \in Int /\ index.lo + o \in Int
      BY <1>4
    <3>3. CASE o = slot
      <4>1. index.lo + o = key
        BY <2>1, <2>5, <3>3
      <4>2. row \in Nat /\ index'.slots[o] = Append(index.slots[o], row)
        BY <1>1, <2>4, <3>3
      <4>3. AreRowsOf(Append(index.slots[o], indexed + 1), key, indexed + 1)
        BY <1>1, <2>1, <3>1, <4>1, RowsGrow
      <4> QED
        BY <3>1, <4>1, <4>2, <4>3
    <3>4. CASE o # slot
      <4>1. index.lo + o # key
        BY <2>1, <2>5, <3>2, <3>4
      <4> QED
        BY <1>1, <2>4, <3>1, <3>2, <3>4, <4>1, RowsGrow
    <3> QED
      BY <3>3, <3>4
  <2> QED
    BY <1>1, <1>2, <1>3, <2>3, <2>4, <2>6 DEF IInv, IndexInv
<1> QED
  BY <1>5, <1>6

\* The other steps leave the index alone, and probing starts when it holds every row.
LEMMA StepIndex == IInv /\ [Next]_vars => IInv'
<1> SUFFICES ASSUME IInv, [Next]_vars PROVE IInv'
  OBVIOUS
<1>1. CASE IndexRow
  BY <1>1, IndexRowKeeps
<1>2. CASE /\ UNCHANGED <<right, index, indexed>>
           /\ phase' # "index" => indexed = Len(right)
  <2>1. Dense' = Dense /\ RightKeys' = RightKeys /\ Span' = Span
    BY <1>2 DEF Dense, RightKeys, Span
  <2>2. \A rows, k, n : AreRowsOf(rows, k, n)' <=> AreRowsOf(rows, k, n)
    BY <1>2 DEF AreRowsOf
  <2> QED
    BY <1>2, <2>1, <2>2 DEF IInv, IndexInv
<1>3. CASE StartProbes
  BY <1>2, <1>3 DEF StartProbes, given
<1>4. CASE \E j \in 1..Len(jobs) : Probe(j)
  BY <1>2, <1>4 DEF Probe, given, IInv
<1>5. CASE JoinWorker
  BY <1>2, <1>5 DEF JoinWorker, given, IInv
<1>6. CASE Output
  BY <1>2, <1>6 DEF Output, given, IInv
<1>7. CASE Done
  BY <1>2, <1>7 DEF Done, vars, given, IInv
<1>8. CASE UNCHANGED vars
  BY <1>2, <1>8 DEF vars, given, IInv
<1> QED
  BY <1>1, <1>3, <1>4, <1>5, <1>6, <1>7, <1>8 DEF Next

\* The difference of two i64 wraps around exactly when it is negative.
LEMMA Wrapping ==
  ASSUME NEW a \in I64, NEW b \in I64
  PROVE  WrappingSub(a, b) = IF a >= b THEN a - b ELSE a - b + Modulus
<1>1. MaxInt \in Nat
  BY JoinAssumption
<1>2. /\ a \in Int /\ b \in Int
      /\ -MaxInt - 1 <= a /\ a <= MaxInt /\ -MaxInt - 1 <= b /\ b <= MaxInt
  BY <1>1 DEF I64
<1>3. Modulus \in Int /\ Modulus > 0 /\ a - b < Modulus /\ -Modulus <= a - b
  BY <1>1, <1>2 DEF Modulus
<1> DEFINE d == a - b
<1>4. d \in Int /\ d < Modulus /\ -Modulus <= d
  BY <1>2, <1>3
<1>5. d % Modulus = IF 0 <= d THEN d ELSE d + Modulus
  <2> HIDE DEF d, Modulus
  <2>1. CASE 0 <= d
    BY <1>3, <1>4, <2>1
  <2>2. CASE ~(0 <= d)
    BY <1>3, <1>4, <2>2
  <2> QED
    BY <2>1, <2>2
<1> QED
  BY <1>2, <1>5 DEF WrappingSub, Modulus

\* In a dense index, the wrapped offset of a key is a slot only for a key of the slots'
\* range, and the slot is its own.
LEMMA OffsetIsExact ==
  ASSUME right \in Seq(Keys \cup {Null}), Dense, NEW key \in Keys,
         WrappingSub(key, Min(RightKeys)) \in 0..Span - 1
  PROVE  WrappingSub(key, Min(RightKeys)) = key - Min(RightKeys)
<1>1. /\ MaxInt \in Nat /\ key \in I64 /\ Min(RightKeys) \in I64 /\ Max(RightKeys) \in I64
      /\ Span = Max(RightKeys) - Min(RightKeys) + 1
  BY JoinAssumption, KeyRange
<1>2. /\ key \in Int /\ -MaxInt - 1 <= key
      /\ Min(RightKeys) \in Int /\ Max(RightKeys) \in Int /\ Max(RightKeys) <= MaxInt
  BY <1>1 DEF I64
<1>3. CASE key >= Min(RightKeys)
  BY <1>1, <1>3, Wrapping
<1>4. CASE ~(key >= Min(RightKeys))
  <2>1. WrappingSub(key, Min(RightKeys)) = key - Min(RightKeys) + Modulus
    BY <1>1, <1>4, Wrapping
  <2>2. key - Min(RightKeys) + Modulus <= Span - 1
    BY <2>1, <1>1, <1>2
  <2>3. key + Modulus <= Max(RightKeys)
    BY <1>1, <1>2, <2>2 DEF Modulus
  <2> QED
    BY <1>1, <1>2, <2>3 DEF Modulus
<1> QED
  BY <1>3, <1>4

\* An index that holds all the rows finds those of exactly the key looked up: the slot
\* of a key that has one holds them, and a key that has none is not among the right rows'.
LEMMA LookupFinds == IInv => LookupIsExact
<1> SUFFICES ASSUME IInv, phase # "index", NEW key \in Keys \cup {Null}
             PROVE  AreRowsOf(Hits(key), key, Len(right))
  BY DEF LookupIsExact
<1>1. right \in Seq(Keys \cup {Null}) /\ indexed = Len(right) /\ Len(right) \in Nat
  BY DEF IInv
<1>2. ASSUME \A r \in 1..Len(right) : key = Null \/ right[r] # key
      PROVE  AreRowsOf(<<>>, key, Len(right))
  BY <1>2 DEF AreRowsOf
<1>3. CASE key = Null
  BY <1>2, <1>3 DEF Hits, HitsWith
<1>4. CASE key # Null /\ ~index.dense
  <2>1. key \in Int /\ index.lo = 0 /\ key \in DOMAIN index.slots
    BY <1>4, JoinAssumption DEF IInv, IndexInv, I64
  <2>2. Hits(key) = index.slots[key]
    BY <1>4 DEF Hits, HitsWith
  <2>3. AreRowsOf(index.slots[key], index.lo + key, Len(right))
    BY <1>1, <2>1 DEF IInv, IndexInv
  <2> QED
    BY <2>1, <2>2, <2>3
<1>5. CASE key # Null /\ index.dense
  <2> DEFINE o == WrappingSub(key, index.lo)
  <2>1. /\ Dense /\ index.lo = Min(RightKeys) /\ DOMAIN index.slots = 0..Span - 1
        /\ key \in Keys
    BY <1>5 DEF IInv, IndexInv
  <2>2. Min(RightKeys) \in Int /\ key \in Int
    BY <1>1, <2>1, KeyRange, JoinAssumption DEF I64
  <2>3. CASE o \in 0..Span - 1
    <3>1. index.lo + o = key
      BY <1>1, <2>1, <2>2, <2>3, OffsetIsExact
    <3>2. Hits(key) = index.slots[o]
      BY <1>5, <2>1, <2>3 DEF Hits, HitsWith
    <3>3. AreRowsOf(index.slots[o], index.lo + o, Len(right))
      BY <1>1, <2>1, <2>3 DEF IInv, IndexInv
    <3> QED
      BY <3>1, <3>2, <3>3
  <2>4. CASE o \notin 0..Span - 1
    <3>1. key \notin RightKeys
      <4>1. ASSUME key \in RightKeys
            PROVE  FALSE
        <5>1. /\ Min(RightKeys) <= key /\ key <= Max(RightKeys)
              /\ Max(RightKeys) \in Int /\ Span = Max(RightKeys) - Min(RightKeys) + 1
              /\ key \in I64 /\ Min(RightKeys) \in I64
          BY <1>1, <2>1, <4>1, KeyRange, JoinAssumption DEF I64
        <5>2. o = key - Min(RightKeys)
          BY <2>1, <2>2, <5>1, Wrapping
        <5> QED
          BY <2>2, <2>4, <5>1, <5>2
      <4> QED
        BY <4>1
    <3>2. \A r \in 1..Len(right) : right[r] # key
      BY <1>5, <3>1 DEF RightKeys
    <3>3. Hits(key) = <<>>
      BY <1>5, <2>1, <2>4 DEF Hits, HitsWith
    <3> QED
      BY <1>2, <3>2, <3>3
  <2> QED
    BY <2>3, <2>4
<1> QED
  BY <1>3, <1>4, <1>5

\* Whatever the keys, the width of the integers and the limits on slots, a lookup in the
\* finished index finds the rows of exactly the key looked up: `hits` gives no row of
\* another key when an offset wraps around, and misses none.
THEOREM LookupsAreExact == Spec => []LookupIsExact
<1>1. Init => IInv
  BY InitIndex
<1>2. IInv /\ [Next]_vars => IInv'
  BY StepIndex
<1>3. IInv => LookupIsExact
  BY LookupFinds
<1> QED
  BY <1>1, <1>2, <1>3, PTL DEF Spec

-----------------------------------------------------------------------------
\* What the probes of a run of left rows come to.

PairType == (0..MaxLeft) \X (0..MaxRight)

\* What is given, and stays.
Given ==
  /\ left \in Seq(Keys \cup {Null}) /\ Len(left) <= MaxLeft
  /\ right \in Seq(Keys \cup {Null}) /\ Len(right) <= MaxRight
  /\ left \in Inputs(MaxLeft) /\ right \in Inputs(MaxRight)
  /\ starts \in SUBSET (1..Len(left)) /\ (left # <<>> => 1 \in starts)
  /\ kind \in {"inner", "left", "right", "full"}

\* What the two modules share is the same in both.
LEMMA SameFlatten == \A ss : E!FlattenSeq(ss) = FlattenSeq(ss)
BY DEF FlattenSeq, E!FlattenSeq

LEMMA SameAscending == \A S, n : E!Ascending(S, n) = Ascending(S, n)
BY SameFlatten DEF Ascending, E!Ascending

\* The right rows that match a left row, in order.
LEMMA HitsList ==
  ASSUME Given, NEW l
  PROVE  /\ Lists(E!Hits(l), {r \in 1..Len(right) : E!Match(l, r)})
         /\ \A h \in 1..Len(E!Hits(l)) : E!Hits(l)[h] \in 1..Len(right)
<1> DEFINE S == {r \in 1..Len(right) : E!Match(l, r)}
<1>1. Len(right) \in Nat
  BY DEF Given
<1>2. E!Hits(l) = Ascending(S, Len(right))
  BY SameAscending DEF E!Hits
<1>3. S \cap 1..Len(right) = S
  OBVIOUS
<1> HIDE DEF S
<1>4. Lists(Ascending(S, Len(right)), S)
  BY <1>1, <1>3, AscendingLists
<1>5. Lists(E!Hits(l), S)
  BY <1>2, <1>4
<1>6. /\ E!Hits(l) \in Seq(Nat) /\ {E!Hits(l)[h] : h \in DOMAIN E!Hits(l)} = S
  BY <1>5 DEF Lists
<1>7. DOMAIN E!Hits(l) = 1..Len(E!Hits(l))
  BY <1>6
<1>8. \A h \in 1..Len(E!Hits(l)) : E!Hits(l)[h] \in S
  BY <1>6, <1>7
<1> QED
  BY <1>5, <1>8 DEF S

\* The pairs of a left row.
LEMMA PairsOfType ==
  ASSUME Given, NEW l \in 1..Len(left)
  PROVE  E!PairsOf(l) \in Seq(PairType)
<1>1. Len(left) \in Nat /\ Len(right) \in Nat /\ MaxLeft \in Nat /\ MaxRight \in Nat
  BY JoinAssumption DEF Given
<1>2. l \in 0..MaxLeft /\ 0 \in 0..MaxRight
  BY <1>1 DEF Given
<1> DEFINE hits == E!Hits(l)
<1>3. Len(hits) \in Nat /\ \A h \in 1..Len(hits) : hits[h] \in 0..MaxRight
  <2>1. hits \in Seq(Nat)
    BY HitsList DEF Lists
  <2>2. \A h \in 1..Len(hits) : hits[h] \in 1..Len(right)
    BY HitsList
  <2>3. 1..Len(right) \subseteq 0..MaxRight
    BY <1>1 DEF Given
  <2> HIDE DEF hits
  <2> QED
    BY <2>1, <2>2, <2>3
<1>4. E!PairsOf(l) = IF hits # <<>> THEN [h \in 1..Len(hits) |-> <<l, hits[h]>>]
                     ELSE IF E!KeepsLeft THEN << <<l, 0>> >>
                     ELSE <<>>
  BY DEF E!PairsOf, E!NoRow
<1> HIDE DEF hits
<1>5. [h \in 1..Len(hits) |-> <<l, hits[h]>>] \in Seq(PairType)
  <2>1. \A h \in 1..Len(hits) : <<l, hits[h]>> \in PairType
    BY <1>2, <1>3 DEF PairType
  <2> HIDE DEF PairType
  <2> QED
    BY <1>3, <2>1
<1>6. << <<l, 0>> >> \in Seq(PairType)
  <2>1. <<l, 0>> \in PairType
    BY <1>2 DEF PairType
  <2> HIDE DEF PairType
  <2> QED
    BY <2>1
<1> QED
  BY <1>4, <1>5, <1>6

\* One left row more.
LEMMA PairsGrow ==
  ASSUME Given, NEW f \in Nat \ {0}, NEW t \in Nat, f <= t + 1, t + 1 <= Len(left)
  PROVE  /\ E!Pairs(f, t + 1) = E!Pairs(f, t) \o E!PairsOf(t + 1)
         /\ E!Pairs(f, t) \in Seq(PairType)
<1> DEFINE one(i) == E!PairsOf(f + i - 1)
           n == t - f + 1
           ss == [i \in 1..n |-> one(i)]
           tt == [i \in 1..(n + 1) |-> one(i)]
<1>1. n \in Nat /\ (t + 1) - f + 1 = n + 1 /\ f + (n + 1) - 1 = t + 1 /\ Len(left) \in Nat
  BY DEF Given
<1>2. \A i \in 1..(n + 1) : f + i - 1 \in 1..Len(left)
  BY <1>1
<1>3. \A i \in 1..(n + 1) : one(i) \in Seq(PairType)
  BY <1>2, PairsOfType
<1>4. E!Pairs(f, t) = FlattenSeq(ss)
  BY SameFlatten DEF E!Pairs
<1>5. E!Pairs(f, t + 1) = FlattenSeq(tt)
  <2>1. E!Pairs(f, t + 1) = FlattenSeq([i \in 1..((t + 1) - f + 1) |-> one(i)])
    BY SameFlatten DEF E!Pairs
  <2> HIDE DEF one, n
  <2> QED
    BY <1>1, <2>1
<1>6. one(n + 1) = E!PairsOf(t + 1)
  BY <1>1
<1> HIDE DEF one, n, PairType
<1>7. \A i \in 1..n : i \in 1..(n + 1)
  BY <1>1
<1>8. n + 1 \in 1..(n + 1) /\ n + 1 \in Nat
  BY <1>1
<1>9. /\ ss \in Seq(Seq(PairType)) /\ Len(ss) = n
      /\ tt \in Seq(Seq(PairType)) /\ Len(tt) = n + 1
      /\ \A i \in 1..n : ss[i] = tt[i]
      /\ tt[n + 1] = one(n + 1)
  BY <1>1, <1>3, <1>7, <1>8
<1> HIDE DEF ss, tt
<1>10. FlattenSeq(tt) = FlattenSeq(ss) \o tt[n + 1]
  BY ONLY <1>1, <1>9, FlattenLast
<1>11. FlattenSeq(ss) \in Seq(PairType)
  BY <1>9, FlattenType
<1> QED
  BY <1>4, <1>5, <1>6, <1>9, <1>10, <1>11

\* No left row.
LEMMA PairsEmpty ==
  ASSUME NEW f \in Nat \ {0}, NEW t \in Nat, f = t + 1
  PROVE  E!Pairs(f, t) = <<>>
<1>1. t - f + 1 = 0
  OBVIOUS
<1>2. [i \in 1..0 |-> E!PairsOf(f + i - 1)] = <<>>
  OBVIOUS
<1>3. E!Pairs(f, t) = FlattenSeq([i \in 1..(t - f + 1) |-> E!PairsOf(f + i - 1)])
  BY SameFlatten DEF E!Pairs
<1> QED
  BY <1>1, <1>2, <1>3, FlattenEmpty

\* The pairs of any run of left rows.
LEMMA PairsType ==
  ASSUME Given, NEW f \in Nat \ {0}, NEW t \in Nat, f <= t + 1, t <= Len(left)
  PROVE  E!Pairs(f, t) \in Seq(PairType)
<1>1. CASE f = t + 1
  <2>1. E!Pairs(f, t) = <<>>
    BY <1>1, PairsEmpty
  <2> QED
    BY <2>1
<1>2. CASE f # t + 1
  <2>1. t - 1 \in Nat /\ f <= (t - 1) + 1 /\ (t - 1) + 1 = t
    BY <1>2
  <2>2. /\ E!Pairs(f, t) = E!Pairs(f, t - 1) \o E!PairsOf(t)
        /\ E!Pairs(f, t - 1) \in Seq(PairType)
    <3>1. (t - 1) + 1 <= Len(left)
      BY <2>1
    <3> QED
      BY <2>1, <3>1, PairsGrow
  <2>3. E!PairsOf(t) \in Seq(PairType)
    <3>1. t \in 1..Len(left)
      BY <2>1 DEF Given
    <3> QED
      BY <3>1, PairsOfType
  <2> HIDE DEF PairType
  <2> QED
    BY <2>2, <2>3
<1> QED
  BY <1>1, <1>2

\* The pairs of a run of left rows and of the run behind it.
LEMMA PairsMeet ==
  ASSUME Given, NEW f \in Nat \ {0}, NEW m \in Nat, NEW t \in Nat,
         f <= m + 1, m <= t, t <= Len(left)
  PROVE  E!Pairs(f, m) \o E!Pairs(m + 1, t) = E!Pairs(f, t)
<1> DEFINE T == {u \in m..t : E!Pairs(f, m) \o E!Pairs(m + 1, u) = E!Pairs(f, u)}
<1>0. Len(left) \in Nat /\ m <= Len(left) /\ m + 1 \in Nat \ {0}
  BY DEF Given
<1>1. m \in T
  <2>1. E!Pairs(m + 1, m) = <<>>
    BY <1>0, PairsEmpty
  <2>2. E!Pairs(f, m) \in Seq(PairType)
    BY <1>0, PairsType
  <2>3. E!Pairs(f, m) \o <<>> = E!Pairs(f, m)
    BY <2>2, ConcatEmptySeq
  <2>4. m \in m..t
    OBVIOUS
  <2> QED
    BY <2>1, <2>3, <2>4
<1>2. ASSUME NEW u \in m..(t - 1), E!Pairs(f, m) \o E!Pairs(m + 1, u) = E!Pairs(f, u)
      PROVE  E!Pairs(f, m) \o E!Pairs(m + 1, u + 1) = E!Pairs(f, u + 1)
  <2>1. /\ u \in Nat /\ u + 1 <= Len(left) /\ u <= Len(left)
        /\ f <= u + 1 /\ m + 1 <= u + 1 /\ u + 1 \in 1..Len(left)
    BY <1>0
  <2>2. E!Pairs(f, u + 1) = E!Pairs(f, u) \o E!PairsOf(u + 1)
    BY <2>1, PairsGrow
  <2>3. E!Pairs(m + 1, u + 1) = E!Pairs(m + 1, u) \o E!PairsOf(u + 1)
    BY <1>0, <2>1, PairsGrow
  <2>4. /\ E!Pairs(f, m) \in Seq(PairType) /\ E!Pairs(m + 1, u) \in Seq(PairType)
        /\ E!PairsOf(u + 1) \in Seq(PairType)
    BY <1>0, <2>1, PairsType, PairsOfType
  <2>5. (E!Pairs(f, m) \o E!Pairs(m + 1, u)) \o E!PairsOf(u + 1)
          = E!Pairs(f, m) \o (E!Pairs(m + 1, u) \o E!PairsOf(u + 1))
    BY ONLY <2>4, ConcatAssociative
  <2> QED
    BY <1>2, <2>2, <2>3, <2>5
<1>3. Inductive(T, m, t)
  <2>1. \A u \in m..(t - 1) : u \in m..t /\ u + 1 \in m..t
    OBVIOUS
  <2> QED
    BY <1>2, <2>1 DEF Inductive
<1> HIDE DEF T
<1>4. t \in T
  <2>1. m \in Int /\ t \in Int /\ t \in m..t
    OBVIOUS
  <2> QED
    BY <1>1, <1>3, <2>1, IntervalInduction
<1> QED
  BY <1>4 DEF T

-----------------------------------------------------------------------------
\* Every probe is that of a run of left rows.

FlagsOf(from, to) == [r \in 1..Len(right) |-> \E l \in from..to : E!Match(l, r)]

IsProbeOf(p, from, to) == p = [pairs |-> E!Pairs(from, to), matched |-> FlagsOf(from, to)]

\* The last row of the workers merged.
LastJoined == IF joined = 0 THEN 0 ELSE jobs[joined].to

Idle ==
  /\ jobs = <<>> /\ at = <<>> /\ part = <<>>
  /\ joined = 0 /\ probe = NoProbe

Probing ==
  /\ Covers(jobs, Len(left))
  /\ at \in [1..Len(jobs) -> Nat]
  /\ \A j \in 1..Len(jobs) : jobs[j].from <= at[j] /\ at[j] <= jobs[j].to + 1
  /\ DOMAIN part = 1..Len(jobs) /\ part = [j \in 1..Len(jobs) |-> part[j]]
  /\ \A j \in 1..Len(jobs) : IsProbeOf(part[j], jobs[j].from, at[j] - 1)
  /\ joined \in 0..Len(jobs)
  /\ joined > 0 => \A j \in 1..Len(jobs) : at[j] > jobs[j].to
  /\ IsProbeOf(probe, 1, LastJoined)

Answered ==
  /\ phase # "done" => outcome = E!Pending
  /\ phase = "done" => outcome = [status |-> "ok", pairs |-> E!Answer]

JInv ==
  /\ Given /\ IInv
  /\ phase \in {"index", "probe", "done"}
  /\ phase = "index" => Idle
  /\ phase # "index" => Probing
  /\ Answered

\* Before any row nothing has been found.
LEMMA NoProbeIs ==
  ASSUME Given, NEW f \in Nat \ {0}, NEW t \in Nat, f = t + 1
  PROVE  IsProbeOf(NoProbe, f, t)
<1>1. E!Pairs(f, t) = <<>>
  BY PairsEmpty
<1>2. f..t = {}
  OBVIOUS
<1>3. FlagsOf(f, t) = [r \in 1..Len(right) |-> FALSE]
  BY <1>2 DEF FlagsOf
<1> QED
  BY <1>1, <1>3 DEF IsProbeOf, NoProbe

\* A finished index gives a left row the right rows that match it, in order.
LEMMA HitsAreThose ==
  ASSUME Given, IInv, phase # "index", NEW l \in 1..Len(left)
  PROVE  Hits(left[l]) = E!Hits(l)
<1> DEFINE key == left[l]
           S == {r \in 1..Len(right) : E!Match(l, r)}
<1>1. key \in Keys \cup {Null}
  BY DEF Given
<1>2. AreRowsOf(Hits(key), key, Len(right))
  BY <1>1, LookupFinds DEF LookupIsExact
<1>3. {r \in 1..Len(right) : key # Null /\ right[r] = key} = S
  BY DEF E!Match
<1>4. Hits(key) \in Seq(Nat)
  <2>1. key # Null /\ ~index.dense => key \in DOMAIN index.slots
    BY <1>1 DEF IInv, IndexInv
  <2>2. \A o \in DOMAIN index.slots : index.slots[o] \in Seq(Nat)
    BY DEF IInv, IndexInv
  <2> QED
    BY <2>1, <2>2 DEF Hits, HitsWith
<1> HIDE DEF key, S
<1>5. Lists(Hits(key), S)
  BY <1>2, <1>3, <1>4 DEF AreRowsOf, Lists
<1>6. Lists(E!Hits(l), S)
  BY HitsList DEF S
<1> QED
  BY <1>5, <1>6, ListsUnique DEF key

\* One turn of `probe_segments`' loop makes the probe of a run of rows that of one row more.
LEMMA ProbeRowIs ==
  ASSUME Given, IInv, phase # "index", NEW p, NEW f \in Nat \ {0}, NEW l \in 1..Len(left),
         f <= l, IsProbeOf(p, f, l - 1)
  PROVE  IsProbeOf(ProbeRow(p, l), f, l)
<1> DEFINE hits == E!Hits(l)
           more == [h \in 1..Len(hits) |-> <<l, hits[h]>>]
           S == {r \in 1..Len(right) : E!Match(l, r)}
<1>1. Hits(left[l]) = hits
  BY HitsAreThose
<1>2. l \in Nat /\ l - 1 \in Nat /\ (l - 1) + 1 = l /\ Len(left) \in Nat
  BY DEF Given
<1>3. E!Pairs(f, l) = E!Pairs(f, l - 1) \o E!PairsOf(l) /\ E!Pairs(f, l - 1) \in Seq(PairType)
  <2>1. f <= (l - 1) + 1 /\ (l - 1) + 1 <= Len(left)
    BY <1>2
  <2> QED
    BY <1>2, <2>1, PairsGrow
<1>4. E!PairsOf(l) = IF hits # <<>> THEN more ELSE IF E!KeepsLeft THEN << <<l, 0>> >> ELSE <<>>
  BY DEF E!PairsOf, E!NoRow
<1>5. /\ p.pairs = E!Pairs(f, l - 1) /\ p.matched = FlagsOf(f, l - 1)
      /\ p = [pairs |-> p.pairs, matched |-> p.matched]
  BY DEF IsProbeOf
<1>6. hits \in Seq(Nat) /\ {hits[h] : h \in DOMAIN hits} = S
  BY HitsList DEF Lists
<1>7. DOMAIN hits = 1..Len(hits) /\ Len(hits) \in Nat
  BY <1>6
<1>8. \A r \in 1..Len(right) : E!Match(l, r) <=> \E h \in 1..Len(hits) : hits[h] = r
  <2>1. \A r \in 1..Len(right) : E!Match(l, r) <=> r \in S
    OBVIOUS
  <2> HIDE DEF S, hits
  <2> QED
    BY <1>6, <1>7, <2>1
<1>9. FlagsOf(f, l) = [r \in 1..Len(right) |-> FlagsOf(f, l - 1)[r] \/ \E h \in 1..Len(hits) : hits[h] = r]
  <2>1. f..l = f..(l - 1) \cup {l}
    BY <1>2
  <2>2. \A r \in 1..Len(right) : (\E k \in f..l : E!Match(k, r)) <=>
                                   (\E k \in f..(l - 1) : E!Match(k, r)) \/ E!Match(l, r)
    BY <2>1
  <2> DEFINE old(r) == \E k \in f..(l - 1) : E!Match(k, r)
             new(r) == \E k \in f..l : E!Match(k, r)
             hit(r) == \E h \in 1..Len(hits) : hits[h] = r
  <2>3. \A r \in 1..Len(right) : new(r) <=> old(r) \/ hit(r)
    BY <1>8, <2>2
  <2>4. \A r \in 1..Len(right) : new(r) \in BOOLEAN /\ (old(r) \/ hit(r)) \in BOOLEAN
    OBVIOUS
  <2>5. /\ FlagsOf(f, l) = [r \in 1..Len(right) |-> new(r)]
        /\ FlagsOf(f, l - 1) = [r \in 1..Len(right) |-> old(r)]
    BY DEF FlagsOf
  <2> HIDE DEF hits, old, new, hit
  <2>6. \A r \in 1..Len(right) : new(r) = (old(r) \/ hit(r))
    BY <2>3, <2>4
  <2>7. [r \in 1..Len(right) |-> new(r)] = [r \in 1..Len(right) |-> FlagsOf(f, l - 1)[r] \/ hit(r)]
    BY <2>5, <2>6
  <2> QED
    BY <2>5, <2>7 DEF hit
<1>10. DOMAIN FlagsOf(f, l - 1) = 1..Len(right)
  BY DEF FlagsOf
<1> HIDE DEF hits, more, S
<1>11. CASE hits # <<>>
  <2>1. ProbeRow(p, l) = [pairs |-> p.pairs \o more,
                          matched |-> [r \in DOMAIN p.matched |->
                                         p.matched[r] \/ \E h \in 1..Len(hits) : hits[h] = r]]
    BY <1>1, <1>11 DEF ProbeRow, more
  <2>2. p.pairs \o more = E!Pairs(f, l)
    BY <1>3, <1>4, <1>5, <1>11
  <2>3. [r \in DOMAIN p.matched |-> p.matched[r] \/ \E h \in 1..Len(hits) : hits[h] = r]
          = FlagsOf(f, l)
    BY <1>5, <1>9, <1>10
  <2> QED
    BY <2>1, <2>2, <2>3 DEF IsProbeOf
<1>12. CASE hits = <<>>
  <2>1. ProbeRow(p, l) = [p EXCEPT !.pairs = IF E!KeepsLeft THEN Append(@, <<l, NoRow>>) ELSE @]
    BY <1>1, <1>12 DEF ProbeRow
  <2>2. ProbeRow(p, l) = [pairs |-> IF E!KeepsLeft THEN Append(p.pairs, <<l, 0>>) ELSE p.pairs,
                          matched |-> p.matched]
    BY <1>5, <2>1 DEF NoRow
  <2>3. (IF E!KeepsLeft THEN Append(p.pairs, <<l, 0>>) ELSE p.pairs) = E!Pairs(f, l)
    <3>1. E!Pairs(f, l) = p.pairs \o IF E!KeepsLeft THEN << <<l, 0>> >> ELSE <<>>
      BY <1>3, <1>4, <1>5, <1>12
    <3>2. p.pairs \in Seq(PairType)
      BY <1>3, <1>5
    <3>3. p.pairs \o <<>> = p.pairs /\ p.pairs \o << <<l, 0>> >> = Append(p.pairs, <<l, 0>>)
      <4> HIDE DEF PairType
      <4> QED
        BY <3>2
    <3> QED
      BY <3>1, <3>3
  <2>4. p.matched = FlagsOf(f, l)
    <3>1. \A r \in 1..Len(right) : ~\E h \in 1..Len(hits) : hits[h] = r
      BY <1>12
    <3>2. \A r \in 1..Len(right) : FlagsOf(f, l - 1)[r] \in BOOLEAN
      BY DEF FlagsOf
    <3>3. FlagsOf(f, l - 1) = [r \in 1..Len(right) |-> FlagsOf(f, l - 1)[r]]
      BY DEF FlagsOf
    <3>4. \A r \in 1..Len(right) :
            FlagsOf(f, l - 1)[r] = (FlagsOf(f, l - 1)[r] \/ \E h \in 1..Len(hits) : hits[h] = r)
      BY <3>1, <3>2
    <3> QED
      BY <1>5, <1>9, <3>3, <3>4
  <2> QED
    BY <2>2, <2>3, <2>4 DEF IsProbeOf
<1> QED
  BY <1>11, <1>12

\* One turn of `merge_probes`' loop makes of the probes of two runs that of both.
LEMMA JoinProbesIs ==
  ASSUME Given, NEW p, NEW q, NEW f \in Nat \ {0}, NEW m \in Nat, NEW t \in Nat,
         f <= m + 1, m <= t, t <= Len(left), IsProbeOf(p, f, m), IsProbeOf(q, m + 1, t)
  PROVE  IsProbeOf(JoinProbes(p, q), f, t)
<1>1. /\ p.pairs = E!Pairs(f, m) /\ p.matched = FlagsOf(f, m)
      /\ q.pairs = E!Pairs(m + 1, t) /\ q.matched = FlagsOf(m + 1, t)
  BY DEF IsProbeOf
<1>2. p.pairs \o q.pairs = E!Pairs(f, t)
  <2>1. /\ Given /\ f \in Nat \ {0} /\ m \in Nat /\ t \in Nat
        /\ f <= m + 1 /\ m <= t /\ t <= Len(left)
    OBVIOUS
  <2>2. E!Pairs(f, m) \o E!Pairs(m + 1, t) = E!Pairs(f, t)
    BY ONLY <2>1, PairsMeet
  <2> QED
    BY ONLY <1>1, <2>2
<1>3. [r \in DOMAIN q.matched |-> p.matched[r] \/ q.matched[r]] = FlagsOf(f, t)
  <2> DEFINE one(r) == \E k \in f..m : E!Match(k, r)
             two(r) == \E k \in (m + 1)..t : E!Match(k, r)
             all(r) == \E k \in f..t : E!Match(k, r)
  <2>1. f..t = f..m \cup (m + 1)..t
    OBVIOUS
  <2>2. \A r \in 1..Len(right) : all(r) <=> one(r) \/ two(r)
    BY <2>1
  <2>3. \A r \in 1..Len(right) : all(r) \in BOOLEAN /\ (one(r) \/ two(r)) \in BOOLEAN
    OBVIOUS
  <2>4. /\ p.matched = [r \in 1..Len(right) |-> one(r)]
        /\ q.matched = [r \in 1..Len(right) |-> two(r)]
        /\ FlagsOf(f, t) = [r \in 1..Len(right) |-> all(r)]
    BY <1>1 DEF FlagsOf
  <2> HIDE DEF one, two, all
  <2>5. \A r \in 1..Len(right) : all(r) = (one(r) \/ two(r))
    BY <2>2, <2>3
  <2> QED
    BY <2>4, <2>5
<1> QED
  BY <1>2, <1>3 DEF JoinProbes, IsProbeOf

-----------------------------------------------------------------------------
\* The steps.

\* What depends on the inputs alone stays as they do.
LEMMA GivenStays ==
  ASSUME UNCHANGED given
  PROVE  /\ Given' <=> Given
         /\ \A p, f, t : IsProbeOf(p, f, t)' <=> IsProbeOf(p, f, t)
         /\ E!Answer' = E!Answer /\ E!Pending' = E!Pending
         /\ NoProbe' = NoProbe
         /\ Len(left)' = Len(left)
<1>1. left' = left /\ right' = right /\ starts' = starts /\ kind' = kind
  BY DEF given
<1>2. Given' <=> Given
  BY <1>1 DEF Given, Inputs
<1>3. \A l, r : E!Match(l, r)' <=> E!Match(l, r)
  BY <1>1 DEF E!Match
<1>4. \A f, t : FlagsOf(f, t)' = FlagsOf(f, t)
  BY <1>1 DEF FlagsOf, E!Match
<1>5. \A f, t : E!Pairs(f, t)' = E!Pairs(f, t)
  BY <1>1 DEF E!Pairs, E!PairsOf, E!Hits, E!Match, E!KeepsLeft
<1>6. \A f, t : E!Unmatched(f, t)' = E!Unmatched(f, t)
  BY <1>1 DEF E!Unmatched, E!Match
<1>7. E!Answer' = E!Answer
  BY <1>1, <1>5, <1>6 DEF E!Answer, E!KeepsRight
<1>8. \A p, f, t : IsProbeOf(p, f, t)' <=> IsProbeOf(p, f, t)
  BY <1>4, <1>5 DEF IsProbeOf
<1> QED
  BY <1>1, <1>2, <1>7, <1>8 DEF NoProbe, E!Pending

LEMMA InitJInv == Init => JInv
<1> SUFFICES ASSUME Init PROVE JInv
  OBVIOUS
<1>1. IInv
  BY InitIndex
<1>2. Given
  <2>1. MaxLeft \in Nat /\ MaxRight \in Nat
    BY JoinAssumption
  <2>2. left \in Inputs(MaxLeft) /\ right \in Inputs(MaxRight)
    BY DEF Init
  <2>3. left \in Seq(Keys \cup {Null}) /\ Len(left) <= MaxLeft
    BY <2>1, <2>2 DEF Inputs
  <2>4. right \in Seq(Keys \cup {Null}) /\ Len(right) <= MaxRight
    BY <2>1, <2>2 DEF Inputs
  <2> QED
    BY <2>2, <2>3, <2>4 DEF Given, Init
<1>3. Idle /\ phase = "index" /\ outcome = E!Pending
  BY DEF Init, Idle
<1> QED
  BY <1>1, <1>2, <1>3 DEF JInv, Answered

LEMMA IndexRowJoins == JInv /\ IndexRow => JInv'
<1> SUFFICES ASSUME JInv, IndexRow PROVE JInv'
  OBVIOUS
<1>1. Given /\ IInv /\ Idle /\ Answered /\ phase = "index"
  BY DEF JInv, IndexRow
<1>2. UNCHANGED <<given, phase, jobs, at, part, joined, probe, outcome>>
  BY DEF IndexRow
<1>3. Given' /\ NoProbe' = NoProbe /\ E!Answer' = E!Answer /\ E!Pending' = E!Pending
  BY <1>1, <1>2, GivenStays
<1>4. IInv'
  BY <1>1, IndexRowKeeps
<1> QED
  BY <1>1, <1>2, <1>3, <1>4 DEF JInv, Idle, Answered

LEMMA StartProbesJoins == JInv /\ StartProbes => JInv'
<1> SUFFICES ASSUME JInv, StartProbes PROVE JInv'
  OBVIOUS
<1> DEFINE js == Jobs(Len(left), starts, SegmentRows, Threads)
<1>1. Given /\ IInv /\ Idle /\ Answered /\ phase = "index"
  BY DEF JInv, StartProbes
<1>2. /\ UNCHANGED <<given, index, indexed, joined, probe, outcome>>
      /\ phase' = "probe" /\ jobs' = js
      /\ at' = [j \in 1..Len(js) |-> js[j].from]
      /\ part' = [j \in 1..Len(js) |-> NoProbe]
  BY DEF StartProbes
<1>3. /\ Given' /\ E!Pending' = E!Pending /\ Len(left)' = Len(left)
      /\ \A p, f, t : IsProbeOf(p, f, t)' <=> IsProbeOf(p, f, t)
  BY <1>1, <1>2, GivenStays
<1>4. IInv'
  BY <1>1, StepIndex DEF Next
<1>5. Covers(js, Len(left))
  <2>1. Len(left) \in Nat /\ (Len(left) > 0 => 1 \in starts) /\ starts \in SUBSET 1..Len(left)
        /\ Threads \in Nat \ {0} /\ SegmentRows \in Nat \ {0}
    BY <1>1, JoinAssumption DEF Given
  <2> QED
    BY <2>1, JobsCover
<1> HIDE DEF js
<1>6. /\ js \in Seq(Job) /\ Len(js) \in Nat /\ Len(js) > 0
      /\ \A j \in 1..Len(js) : js[j].from \in Nat \ {0} /\ js[j].to \in Nat
                               /\ js[j].from <= js[j].to + 1
  <2>1. /\ js \in Seq(Job) /\ Len(js) > 0
        /\ \A j \in 1..Len(js) : 1 <= js[j].from /\ js[j].from <= js[j].to + 1
    BY <1>5 DEF Covers
  <2>2. Len(js) \in Nat /\ \A j \in 1..Len(js) : js[j] \in Job
    BY <2>1
  <2>3. \A j \in 1..Len(js) : js[j].from \in Nat /\ js[j].to \in Nat
    BY <2>2 DEF Job
  <2> QED
    BY <2>1, <2>2, <2>3
<1>7. /\ at' \in [1..Len(js) -> Nat]
      /\ \A j \in 1..Len(js) : at'[j] = js[j].from /\ part'[j] = NoProbe
      /\ part' = [j \in 1..Len(js) |-> part'[j]]
      /\ DOMAIN part' = 1..Len(js)
  BY <1>2, <1>6
<1>8. \A j \in 1..Len(js) : IsProbeOf(NoProbe, js[j].from, js[j].from - 1)
  <2>1. \A j \in 1..Len(js) : js[j].from - 1 \in Nat /\ js[j].from = (js[j].from - 1) + 1
    BY <1>6
  <2> QED
    BY <1>1, <1>6, <2>1, NoProbeIs
<1>9. \A j \in 1..Len(js) : IsProbeOf(part'[j], js[j].from, at'[j] - 1)
  BY <1>7, <1>8
<1>10. IsProbeOf(probe, 1, 0) /\ joined = 0
  <2>1. 1 \in Nat \ {0} /\ 0 \in Nat /\ 1 = 0 + 1
    OBVIOUS
  <2> QED
    BY <1>1, <2>1, NoProbeIs DEF Idle
<1>11. LastJoined' = 0 /\ joined' = 0
  BY <1>2, <1>10 DEF LastJoined
<1>12. Probing'
  BY <1>2, <1>3, <1>5, <1>6, <1>7, <1>9, <1>10, <1>11 DEF Probing
<1> QED
  BY <1>1, <1>2, <1>3, <1>4, <1>12 DEF JInv, Answered

\* What Probing says of the jobs.
LEMMA Rows ==
  ASSUME Given, Probing
  PROVE  /\ Len(left) \in Nat /\ Len(jobs) \in Nat /\ Len(jobs) > 0 /\ joined \in Nat
         /\ \A j \in 1..Len(jobs) : /\ jobs[j].from \in Nat \ {0} /\ jobs[j].to \in Nat
                                    /\ jobs[j].to <= Len(left) /\ jobs[j].from <= jobs[j].to + 1
                                    /\ at[j] \in Nat
         /\ LastJoined \in Nat /\ LastJoined <= Len(left)
         /\ \A j \in 1..Len(jobs) : joined + 1 = j => jobs[j].from = LastJoined + 1
         /\ joined = Len(jobs) => LastJoined = Len(left)
<1>1. Len(left) \in Nat
  BY DEF Given
<1>2. /\ jobs \in Seq(Job) /\ Len(jobs) > 0 /\ jobs[1].from = 1 /\ jobs[Len(jobs)].to = Len(left)
      /\ \A j \in 1..Len(jobs) : /\ 1 <= jobs[j].from /\ jobs[j].from <= jobs[j].to + 1
                                 /\ jobs[j].to <= Len(left)
      /\ \A j \in 1..(Len(jobs) - 1) : jobs[j + 1].from = jobs[j].to + 1
  BY DEF Probing, Covers
<1>3. Len(jobs) \in Nat /\ \A j \in 1..Len(jobs) : jobs[j] \in Job
  BY <1>2
<1>4. \A j \in 1..Len(jobs) : jobs[j].from \in Nat \ {0} /\ jobs[j].to \in Nat
  BY <1>2, <1>3 DEF Job
<1>5. joined \in 0..Len(jobs) /\ \A j \in 1..Len(jobs) : at[j] \in Nat
  BY DEF Probing
<1>6. CASE joined = 0
  BY <1>1, <1>2, <1>3, <1>4, <1>5, <1>6 DEF LastJoined
<1>7. CASE joined # 0
  <2>1. joined \in 1..Len(jobs) /\ LastJoined = jobs[joined].to
    BY <1>3, <1>5, <1>7 DEF LastJoined
  <2>2. \A j \in 1..Len(jobs) : joined + 1 = j => joined \in 1..(Len(jobs) - 1)
    BY <1>3, <2>1
  <2>3. LastJoined \in Nat /\ LastJoined <= Len(left)
    BY <1>2, <1>4, <2>1
  <2>4. \A j \in 1..Len(jobs) : joined + 1 = j => jobs[j].from = LastJoined + 1
    BY <1>2, <2>1, <2>2
  <2>5. joined = Len(jobs) => LastJoined = Len(left)
    BY <1>2, <2>1
  <2>6. joined \in Nat
    BY <1>3, <2>1
  <2> QED
    BY ONLY <1>1, <1>2, <1>3, <1>4, <1>5, <2>3, <2>4, <2>5, <2>6
<1> QED
  BY <1>6, <1>7

LEMMA ProbeJoins == JInv /\ (\E j \in 1..Len(jobs) : Probe(j)) => JInv'
<1> SUFFICES ASSUME JInv, NEW k \in 1..Len(jobs), Probe(k) PROVE JInv'
  OBVIOUS
<1>1. Given /\ IInv /\ Probing /\ Answered /\ phase = "probe"
  BY DEF JInv, Probe
<1>2. /\ UNCHANGED <<given, phase, index, indexed, jobs, joined, probe, outcome>>
      /\ at[k] <= jobs[k].to
      /\ part' = [part EXCEPT ![k] = ProbeRow(@, at[k])]
      /\ at' = [at EXCEPT ![k] = @ + 1]
  BY DEF Probe
<1>3. /\ Given' /\ E!Pending' = E!Pending /\ Len(left)' = Len(left)
      /\ \A p, f, t : IsProbeOf(p, f, t)' <=> IsProbeOf(p, f, t)
  BY <1>1, <1>2, GivenStays
<1>4. IInv'
  BY <1>1, StepIndex DEF Next
<1>5. /\ Len(left) \in Nat
      /\ \A j \in 1..Len(jobs) : /\ jobs[j].from \in Nat \ {0} /\ jobs[j].to \in Nat
                                 /\ jobs[j].to <= Len(left) /\ at[j] \in Nat
                                 /\ jobs[j].from <= at[j]
  BY <1>1, Rows DEF Probing
<1>6. /\ DOMAIN at = 1..Len(jobs) /\ DOMAIN part = 1..Len(jobs)
      /\ part = [j \in 1..Len(jobs) |-> part[j]]
      /\ \A j \in 1..Len(jobs) : IsProbeOf(part[j], jobs[j].from, at[j] - 1)
      /\ \A j \in 1..Len(jobs) : at[j] <= jobs[j].to + 1
      /\ at \in [1..Len(jobs) -> Nat]
  BY <1>1 DEF Probing
<1>7. /\ at'[k] = at[k] + 1 /\ \A j \in 1..Len(jobs) : j # k => at'[j] = at[j]
      /\ at' \in [1..Len(jobs) -> Nat]
      /\ part'[k] = ProbeRow(part[k], at[k]) /\ \A j \in 1..Len(jobs) : j # k => part'[j] = part[j]
      /\ DOMAIN part' = 1..Len(jobs) /\ part' = [j \in 1..Len(jobs) |-> part'[j]]
  <2>1. k \in DOMAIN at /\ k \in DOMAIN part
    BY <1>6
  <2>2. /\ at'[k] = at[k] + 1 /\ \A j \in 1..Len(jobs) : j # k => at'[j] = at[j]
        /\ at' = [j \in 1..Len(jobs) |-> at'[j]]
    BY <1>2, <1>6, <2>1
  <2>3. \A j \in 1..Len(jobs) : at'[j] \in Nat
    BY <1>5, <2>2
  <2>4. at' \in [1..Len(jobs) -> Nat]
    BY <2>2, <2>3
  <2>5. /\ part'[k] = ProbeRow(part[k], at[k])
        /\ \A j \in 1..Len(jobs) : j # k => part'[j] = part[j]
    BY <1>2, <1>6, <2>1
  <2>6. DOMAIN part' = 1..Len(jobs) /\ part' = [j \in 1..Len(jobs) |-> part'[j]]
    BY <1>2, <1>6
  <2> QED
    BY <2>2, <2>4, <2>5, <2>6
<1>8. IsProbeOf(part'[k], jobs[k].from, at'[k] - 1)
  <2>1. at[k] \in 1..Len(left) /\ jobs[k].from \in Nat \ {0} /\ jobs[k].from <= at[k]
    BY <1>2, <1>5
  <2>2. IsProbeOf(part[k], jobs[k].from, at[k] - 1) /\ phase # "index"
    BY <1>1, <1>6
  <2>3. IsProbeOf(ProbeRow(part[k], at[k]), jobs[k].from, at[k])
    BY ONLY <1>1, <2>1, <2>2, ProbeRowIs
  <2>4. at'[k] - 1 = at[k]
    BY <1>5, <1>7
  <2> QED
    BY <1>7, <2>3, <2>4
<1>9. joined = 0
  BY <1>1, <1>2, <1>5 DEF Probing
<1>10. \A j \in 1..Len(jobs) : /\ jobs[j].from <= at'[j] /\ at'[j] <= jobs[j].to + 1
                               /\ IsProbeOf(part'[j], jobs[j].from, at'[j] - 1)
  <2> TAKE j \in 1..Len(jobs)
  <2>1. CASE j = k
    BY <1>2, <1>5, <1>7, <1>8, <2>1
  <2>2. CASE j # k
    BY <1>5, <1>6, <1>7, <2>2
  <2> QED
    BY <2>1, <2>2
<1>11. Probing'
  <2>1. LastJoined' = LastJoined /\ joined' = 0
    BY <1>2, <1>9 DEF LastJoined
  <2>2. IsProbeOf(probe, 1, LastJoined) /\ Covers(jobs, Len(left))
    BY <1>1 DEF Probing
  <2>3. 0 \in 0..Len(jobs)
    BY <1>1, Rows
  <2> QED
    BY <1>2, <1>3, <1>7, <1>10, <2>1, <2>2, <2>3 DEF Probing
<1> QED
  BY <1>1, <1>2, <1>3, <1>4, <1>11 DEF JInv, Answered

LEMMA JoinWorkerJoins == JInv /\ JoinWorker => JInv'
<1> SUFFICES ASSUME JInv, JoinWorker PROVE JInv'
  OBVIOUS
<1>1. Given /\ IInv /\ Probing /\ Answered /\ phase = "probe"
  BY DEF JInv, JoinWorker
<1> DEFINE j == joined + 1
<1>2. /\ UNCHANGED <<given, phase, index, indexed, jobs, at, part, outcome>>
      /\ \A i \in 1..Len(jobs) : at[i] > jobs[i].to
      /\ joined < Len(jobs)
      /\ probe' = JoinProbes(probe, part[j])
      /\ joined' = j
  BY DEF JoinWorker
<1>3. /\ Given' /\ E!Pending' = E!Pending /\ Len(left)' = Len(left)
      /\ \A p, f, t : IsProbeOf(p, f, t)' <=> IsProbeOf(p, f, t)
  BY <1>1, <1>2, GivenStays
<1>4. IInv'
  BY <1>1, StepIndex DEF Next
<1>5. j \in 1..Len(jobs) /\ j # 0
  BY <1>1, <1>2, Rows
<1> HIDE DEF j
<1>6. /\ jobs[j].to \in Nat /\ jobs[j].to <= Len(left) /\ LastJoined \in Nat
      /\ jobs[j].from = LastJoined + 1 /\ jobs[j].from <= jobs[j].to + 1
  BY <1>1, <1>5, Rows DEF j
<1>7. IsProbeOf(part[j], LastJoined + 1, jobs[j].to)
  <2>1. at[j] \in Nat /\ at[j] > jobs[j].to /\ at[j] <= jobs[j].to + 1
    BY <1>1, <1>2, <1>5, Rows DEF Probing
  <2>2. at[j] - 1 = jobs[j].to
    BY <1>6, <2>1
  <2>3. IsProbeOf(part[j], jobs[j].from, at[j] - 1)
    BY <1>1, <1>5 DEF Probing
  <2> QED
    BY <1>6, <2>2, <2>3
<1>8. IsProbeOf(probe', 1, jobs[j].to)
  <2>1. /\ 1 \in Nat \ {0} /\ 1 <= LastJoined + 1 /\ LastJoined <= jobs[j].to
        /\ IsProbeOf(probe, 1, LastJoined)
    BY <1>1, <1>6 DEF Probing
  <2>2. IsProbeOf(JoinProbes(probe, part[j]), 1, jobs[j].to)
    BY ONLY <1>1, <1>6, <1>7, <2>1, JoinProbesIs
  <2> QED
    BY <1>2, <2>2
<1>9. LastJoined' = jobs[j].to
  BY <1>2, <1>5 DEF LastJoined
<1>10. Probing'
  <2>1. j \in 0..Len(jobs)
    BY <1>5
  <2> QED
    BY <1>1, <1>2, <1>3, <1>8, <1>9, <2>1 DEF Probing
<1> QED
  BY <1>1, <1>2, <1>3, <1>4, <1>10 DEF JInv, Answered

\* The answer is that of all the probes, and the right rows without a partner.
LEMMA OutputAnswers ==
  ASSUME JInv, Output
  PROVE  outcome' = [status |-> "ok", pairs |-> E!Answer]
<1>1. Given /\ Probing /\ joined = Len(jobs)
  BY DEF JInv, Output
<1>2. outcome' = [status |-> "ok",
                  pairs |-> probe.pairs \o IF E!KeepsRight THEN UnmatchedRight ELSE <<>>]
  BY DEF Output
<1>3. probe.pairs = E!Pairs(1, Len(left)) /\ probe.matched = FlagsOf(1, Len(left))
  BY <1>1, Rows DEF Probing, IsProbeOf
<1>4. {r \in 1..Len(right) : ~probe.matched[r]}
        = {r \in 1..Len(right) : \A l \in 1..Len(left) : ~E!Match(l, r)}
  BY <1>3 DEF FlagsOf
<1>5. Ascending({r \in 1..Len(right) : ~probe.matched[r]}, Len(right)) = E!Unmatched(1, Len(left))
  BY <1>4, SameAscending DEF E!Unmatched
<1>6. UnmatchedRight = [u \in 1..Len(E!Unmatched(1, Len(left))) |-> <<0, E!Unmatched(1, Len(left))[u]>>]
  BY <1>5 DEF UnmatchedRight, NoRow
<1> QED
  BY <1>2, <1>3, <1>6 DEF E!Answer, E!NoRow

LEMMA OutputJoins == JInv /\ Output => JInv'
<1> SUFFICES ASSUME JInv, Output PROVE JInv'
  OBVIOUS
<1>1. Given /\ IInv /\ Probing /\ Answered /\ phase = "probe"
  BY DEF JInv, Output
<1>2. /\ UNCHANGED <<given, index, indexed, jobs, at, part, joined, probe>>
      /\ phase' = "done"
  BY DEF Output
<1>3. /\ Given' /\ E!Answer' = E!Answer /\ Len(left)' = Len(left)
      /\ \A p, f, t : IsProbeOf(p, f, t)' <=> IsProbeOf(p, f, t)
  BY <1>1, <1>2, GivenStays
<1>4. IInv'
  BY <1>1, StepIndex DEF Next
<1>5. outcome' = [status |-> "ok", pairs |-> E!Answer]
  BY OutputAnswers
<1>6. LastJoined' = LastJoined
  BY <1>2 DEF LastJoined
<1>7. Probing'
  BY <1>1, <1>2, <1>3, <1>6 DEF Probing
<1> QED
  BY <1>1, <1>2, <1>3, <1>4, <1>5, <1>7 DEF JInv, Answered

LEMMA StutterJoins == JInv /\ UNCHANGED vars => JInv'
<1> SUFFICES ASSUME JInv, UNCHANGED vars PROVE JInv'
  OBVIOUS
<1>1. /\ UNCHANGED given
      /\ UNCHANGED <<phase, index, indexed, jobs, at, part, joined, probe, outcome>>
  BY DEF vars
<1>2. /\ Given' <=> Given
      /\ E!Answer' = E!Answer /\ E!Pending' = E!Pending /\ Len(left)' = Len(left)
      /\ \A p, f, t : IsProbeOf(p, f, t)' <=> IsProbeOf(p, f, t)
      /\ NoProbe' = NoProbe
  BY <1>1, GivenStays
<1>3. IInv'
  BY StepIndex DEF JInv
<1>4. LastJoined' = LastJoined
  BY <1>1 DEF LastJoined
<1>5. (Probing' <=> Probing) /\ (Idle' <=> Idle) /\ (Answered' <=> Answered)
  BY <1>1, <1>2, <1>4 DEF Probing, Idle, Answered
<1> QED
  BY <1>1, <1>2, <1>3, <1>5 DEF JInv

LEMMA JInvHolds == Spec => []JInv
<1>1. JInv /\ [Next]_vars => JInv'
  BY IndexRowJoins, StartProbesJoins, ProbeJoins, JoinWorkerJoins, OutputJoins, StutterJoins
     DEF Next, Done
<1> QED
  BY <1>1, InitJInv, PTL DEF Spec

-----------------------------------------------------------------------------
\* TypeOK: the types of the variables of a join, for all inputs.
THEOREM JoinTypeOK == Spec => []TypeOK
<1>1. ASSUME JInv PROVE TypeOK
  <2>1. Given /\ IInv /\ phase \in {"index", "probe", "done"} /\ Answered
    BY <1>1 DEF JInv
  <2>2. /\ MaxLeft \in Nat /\ MaxRight \in Nat /\ MaxInt \in Nat
        /\ Len(left) \in Nat /\ Len(right) \in Nat
    BY <2>1, JoinAssumption DEF Given
  <2>3. index.dense \in BOOLEAN /\ index.lo \in I64
    <3>1. index.dense \in BOOLEAN
      BY <2>1 DEF IInv, IndexInv, Dense
    <3>2. CASE Dense
      BY <2>1, <3>2, KeyRange DEF IInv, IndexInv, Given
    <3>3. CASE ~Dense
      <4>1. index.lo = 0
        BY <2>1, <3>3 DEF IInv, IndexInv
      <4> QED
        BY <2>2, <3>1, <4>1 DEF I64
    <3> QED
      BY <3>1, <3>2, <3>3
  <2>4. indexed \in 0..MaxRight
    BY <2>1, <2>2 DEF IInv, Given
  <2>5. index.slots \in [DOMAIN index.slots -> Seq(1..MaxRight)]
    <3>1. ASSUME NEW o \in DOMAIN index.slots
          PROVE  index.slots[o] \in Seq(1..MaxRight)
      <4> DEFINE rows == index.slots[o]
      <4>1. rows \in Seq(Nat) /\ AreRowsOf(rows, index.lo + o, indexed)
        BY <2>1 DEF IInv, IndexInv
      <4>2. \A h \in DOMAIN rows : rows[h] \in 1..indexed
        BY <4>1 DEF AreRowsOf
      <4> HIDE DEF rows
      <4>3. \A h \in 1..Len(rows) : rows[h] \in 1..MaxRight
        BY <2>2, <2>4, <4>1, <4>2
      <4>4. rows \in Seq(1..MaxRight)
        <5>1. Len(rows) \in Nat /\ rows = [h \in 1..Len(rows) |-> rows[h]]
          BY <4>1
        <5>2. rows \in [1..Len(rows) -> 1..MaxRight]
          BY <4>3, <5>1
        <5> QED
          BY <5>1, <5>2, SeqDef
      <4> QED
        BY <4>4 DEF rows
    <3> QED
      BY <2>1, <3>1 DEF IInv
  <2>6. \A p, f, t : /\ IsProbeOf(p, f, t) /\ f \in Nat \ {0} /\ t \in Nat
                     /\ f <= t + 1 /\ t <= Len(left)
                     => p \in ProbeType
    <3> SUFFICES ASSUME NEW p, NEW f \in Nat \ {0}, NEW t \in Nat, f <= t + 1, t <= Len(left),
                        IsProbeOf(p, f, t)
                 PROVE  p \in ProbeType
      OBVIOUS
    <3>1. E!Pairs(f, t) \in Seq(PairType)
      BY <2>1, PairsType
    <3>2. FlagsOf(f, t) \in [1..Len(right) -> BOOLEAN]
      BY DEF FlagsOf
    <3> QED
      BY <3>1, <3>2 DEF IsProbeOf, ProbeType, PairType
  <2>7. /\ jobs \in Seq(Job) /\ at \in [1..Len(jobs) -> 1..MaxLeft + 1]
        /\ part \in [1..Len(jobs) -> ProbeType]
        /\ joined \in 0..Len(jobs) /\ probe \in ProbeType
    <3>1. CASE phase = "index"
      <4>1. Idle
        BY <1>1, <3>1 DEF JInv
      <4>2. IsProbeOf(NoProbe, 1, 0)
        <5>1. 1 \in Nat \ {0} /\ 0 \in Nat /\ 1 = 0 + 1
          OBVIOUS
        <5> QED
          BY <2>1, <5>1, NoProbeIs
      <4>3. probe \in ProbeType
        <5>1. 1 \in Nat \ {0} /\ 0 \in Nat /\ 1 <= 0 + 1 /\ 0 <= Len(left)
          BY <2>2
        <5> QED
          BY <2>6, <4>1, <4>2, <5>1 DEF Idle
      <4> HIDE DEF JInv
      <4>4. /\ jobs = <<>> /\ at = <<>> /\ part = <<>> /\ joined = 0
        BY <4>1 DEF Idle
      <4>5. jobs \in Seq(Job) /\ Len(jobs) = 0 /\ 1..Len(jobs) = {} /\ 0 \in 0..Len(jobs)
        BY <4>4
      <4>6. at \in [{} -> 1..MaxLeft + 1] /\ part \in [{} -> ProbeType]
        BY <4>4
      <4> QED
        BY <4>3, <4>4, <4>5, <4>6
    <3>2. CASE phase # "index"
      <4>1. Probing
        BY <1>1, <3>2 DEF JInv
      <4>2. /\ \A j \in 1..Len(jobs) : /\ jobs[j].from \in Nat \ {0} /\ jobs[j].to \in Nat
                                       /\ jobs[j].to <= Len(left) /\ jobs[j].from <= jobs[j].to + 1
                                       /\ at[j] \in Nat
            /\ LastJoined \in Nat /\ LastJoined <= Len(left)
        BY <2>1, <4>1, Rows
      <4>3. jobs \in Seq(Job) /\ joined \in 0..Len(jobs) /\ at \in [1..Len(jobs) -> Nat]
        BY <4>1 DEF Probing, Covers
      <4>4. \A j \in 1..Len(jobs) : /\ at[j] \in 1..MaxLeft + 1
                                    /\ at[j] - 1 \in Nat /\ at[j] - 1 <= Len(left)
                                    /\ jobs[j].from <= (at[j] - 1) + 1
        <5>1. \A j \in 1..Len(jobs) : jobs[j].from <= at[j] /\ at[j] <= jobs[j].to + 1
          BY <4>1 DEF Probing
        <5>2. Len(left) <= MaxLeft
          BY <2>1 DEF Given
        <5> TAKE j \in 1..Len(jobs)
        <5> DEFINE a == at[j]  from == jobs[j].from  to == jobs[j].to  n == Len(left)
        <5>3. /\ a \in Nat /\ from \in Nat \ {0} /\ to \in Nat /\ n \in Nat /\ MaxLeft \in Nat
              /\ from <= a /\ a <= to + 1 /\ to <= n /\ n <= MaxLeft
          BY <2>2, <4>2, <5>1, <5>2
        <5> HIDE DEF a, from, to, n
        <5>4. a \in 1..MaxLeft + 1 /\ a - 1 \in Nat /\ a - 1 <= n /\ from <= (a - 1) + 1
          BY ONLY <5>3
        <5> QED
          BY <5>4 DEF a, from, to, n
      <4>5. \A j \in 1..Len(jobs) : part[j] \in ProbeType
        BY <2>6, <4>1, <4>2, <4>4 DEF Probing
      <4>6. probe \in ProbeType
        <5>1. 1 \in Nat \ {0} /\ 1 <= LastJoined + 1
          BY <4>2
        <5> QED
          BY <2>6, <4>1, <4>2, <5>1 DEF Probing
      <4>7. at \in [1..Len(jobs) -> 1..MaxLeft + 1] /\ part \in [1..Len(jobs) -> ProbeType]
        <5>1. part = [j \in 1..Len(jobs) |-> part[j]]
          BY <4>1 DEF Probing
        <5> QED
          BY <4>3, <4>4, <4>5, <5>1
      <4> QED
        BY <4>3, <4>6, <4>7
    <3> QED
      BY <3>1, <3>2
  <2>8. outcome.status \in {"pending", "ok"}
    BY <2>1 DEF Answered, E!Pending
  <2> QED
    BY <2>1, <2>3, <2>4, <2>5, <2>7, <2>8 DEF TypeOK, Given
<1> QED
  BY <1>1, JInvHolds, PTL

\* FlagsAreExact: whichever worker probes when, its match flags are those of the rows it has
\* probed, and the merged flags those of all the rows of the workers merged.
THEOREM JoinFlagsAreExact == Spec => []FlagsAreExact
<1>1. ASSUME JInv PROVE FlagsAreExact
  <2>1. Given
    BY <1>1 DEF JInv
  <2>2. \A j \in 1..Len(jobs) : part[j].matched = FlagsOf(jobs[j].from, at[j] - 1)
    <3>1. CASE phase = "index"
      BY <1>1, <3>1 DEF JInv, Idle
    <3>2. CASE phase # "index"
      BY <1>1, <3>2 DEF JInv, Probing, IsProbeOf
    <3> QED
      BY <3>1, <3>2
  <2>3. probe.matched = FlagsOf(1, LastJoined)
    <3>1. CASE phase = "index"
      <4>1. 1 \in Nat \ {0} /\ 0 \in Nat /\ 1 = 0 + 1
        OBVIOUS
      <4>2. IsProbeOf(NoProbe, 1, 0)
        BY <2>1, <4>1, NoProbeIs
      <4> QED
        BY <1>1, <3>1, <4>2 DEF JInv, Idle, LastJoined, IsProbeOf
    <3>2. CASE phase # "index"
      BY <1>1, <3>2 DEF JInv, Probing, IsProbeOf
    <3> QED
      BY <3>1, <3>2
  <2> QED
    BY <2>2, <2>3 DEF FlagsAreExact, FlagsOf, LastJoined
<1> QED
  BY <1>1, JInvHolds, PTL

\* ImplementsEquiJoin: the parallel hash join answers what the definition of the join says,
\* for all inputs, kinds of join, batches and numbers of threads.
THEOREM JoinImplementsEquiJoin == Spec => ImplementsEquiJoin
<1>1. Init => E!Init
  BY DEF Init, E!Init
<1>2. JInv /\ [Next]_vars => [E!Execute]_<<left, right, kind, outcome>>
  <2> SUFFICES ASSUME JInv, [Next]_vars
               PROVE  E!Execute \/ UNCHANGED <<left, right, kind, outcome>>
    OBVIOUS
  <2>1. CASE Output
    <3>1. outcome = E!Pending
      BY <2>1 DEF JInv, Answered, Output
    <3> QED
      BY <2>1, <3>1, OutputAnswers DEF Output, given, E!Execute
  <2>2. CASE IndexRow \/ StartProbes \/ JoinWorker \/ Done \/ UNCHANGED vars
    BY <2>2 DEF IndexRow, StartProbes, JoinWorker, Done, vars, given
  <2>3. CASE \E j \in 1..Len(jobs) : Probe(j)
    BY <2>3 DEF Probe, given
  <2> QED
    BY <2>1, <2>2, <2>3 DEF Next
<1> QED
  BY <1>1, <1>2, JInvHolds, PTL DEF Spec, ImplementsEquiJoin, E!Spec
=============================================================================
