----------------------------- MODULE LikeProofs -----------------------------
(***************************************************************************)
(* LIKE, for all texts and patterns that are valid UTF-8: `like_match`     *)
(* never reads beyond the text or the pattern, never splits a character,   *)
(* loses nothing by remembering the last `%` only, and returns what the    *)
(* pattern means; and `like_matches` returns the same for the patterns     *)
(* that need no loop.                                                      *)
(***************************************************************************)
EXTENDS Like, Induction, SequenceTheorems, TLAPS

\* The text and the pattern are both between two characters, or both behind the
\* same lead byte.
Aligned ==
  \/ Boundary(text, ti) /\ Boundary(pattern, pi)
  \/ /\ ti > 0 /\ pi > 0
     /\ text[ti] = pattern[pi] /\ text[ti] \in Lead

StarOnCharacter ==
  star => Boundary(text, st) /\ sp < pi /\ pattern[sp + 1] = AnyRun

IInv ==
  /\ TypeOK
  /\ text \in Utf8 /\ pattern \in Utf8
  /\ Aligned
  /\ StarOnCharacter

\* From the first byte of a character, its width leads to the next one.
LEMMA NextCharacter ==
  ASSUME NEW s \in Utf8, NEW i \in 0..(Len(s) - 1), s[i + 1] \notin Continuation
  PROVE  /\ Width(s[i + 1]) \in {1, 2}
         /\ i + Width(s[i + 1]) \in 0..Len(s)
         /\ Boundary(s, i + Width(s[i + 1]))
<1>1. s \in Seq(Byte) /\ s[i + 1] \in Single \cup Lead
  BY DEF Utf8, Byte
<1>2. Width(s[i + 1]) \in {1, 2}
  BY <1>1 DEF Width
<1> QED
  BY <1>1, <1>2 DEF Utf8

\* Behind a lead byte there is one continuation byte, and the character ends.
LEMMA BehindLead ==
  ASSUME NEW s \in Utf8, NEW i \in 1..Len(s), s[i] \in Lead
  PROVE  /\ i < Len(s) /\ s[i + 1] \in Continuation
         /\ Boundary(s, i + 1)
<1>1. s[i] \notin Continuation /\ s[i] \notin Single
  BY LikeAssumption
<1>2. Width(s[i]) = 2
  BY <1>1 DEF Width
<1>3. i - 1 \in 0..(Len(s) - 1) /\ s[(i - 1) + 1] = s[i] /\ Len(s) \in Nat
  BY DEF Utf8
<1>4. (i - 1) + 2 <= Len(s) /\ Boundary(s, (i - 1) + 2) /\ s[(i - 1) + 2] \in Continuation
  BY <1>1, <1>2, <1>3 DEF Utf8
<1> QED
  BY <1>3, <1>4

\* One byte of a text that is a character of its own.
LEMMA BehindSingle ==
  ASSUME NEW s \in Utf8, NEW i \in 0..(Len(s) - 1), s[i + 1] \in Single
  PROVE  Boundary(s, i + 1) /\ i + 1 \in 0..Len(s)
<1>1. s[i + 1] \notin Continuation /\ Width(s[i + 1]) = 1
  BY LikeAssumption DEF Width
<1> QED
  BY <1>1, NextCharacter

LEMMA InitIInv == Init => IInv
<1> SUFFICES ASSUME Init PROVE IInv
  OBVIOUS
<1>1. text \in Utf8 /\ pattern \in Utf8
  BY LikeAssumption DEF Init
<1>2. text \in Seq(Byte) /\ pattern \in Seq(Byte) /\ Boundary(text, 0) /\ Boundary(pattern, 0)
  BY <1>1 DEF Utf8
<1>3. TypeOK
  <2>1. star \in BOOLEAN /\ result \in BOOLEAN /\ pc \in {"scan", "done"}
    BY DEF Init
  <2>2. Len(text) \in Nat /\ Len(pattern) \in Nat /\ ti = 0 /\ pi = 0 /\ sp = 0 /\ st = 0
    BY <1>2 DEF Init
  <2> QED
    BY <1>2, <2>1, <2>2 DEF TypeOK
<1>4. Aligned
  BY <1>2 DEF Init, Aligned
<1>5. StarOnCharacter
  <2>1. ~star
    BY DEF Init
  <2> QED
    BY <2>1 DEF StarOnCharacter
<1> QED
  BY <1>1, <1>3, <1>4, <1>5 DEF IInv

\* What a step at a byte of both the text and the pattern may use.
LEMMA WhereSpecial ==
  ASSUME IInv, InText, NEW b \in {AnyRun, AnyChar}, AtByte(b)
  PROVE  /\ Boundary(text, ti) /\ Boundary(pattern, pi)
         /\ Boundary(pattern, pi + 1) /\ pi + 1 \in 0..Len(pattern)
<1>1. /\ text \in Utf8 /\ pattern \in Utf8 /\ TypeOK /\ Aligned
      /\ pi \in 0..(Len(pattern) - 1) /\ pattern[pi + 1] \in Single
  BY LikeAssumption DEF IInv, TypeOK, AtByte
<1>2. ~(pi > 0 /\ pattern[pi] \in Lead)
  BY <1>1, BehindLead, LikeAssumption DEF TypeOK
<1>3. Boundary(text, ti) /\ Boundary(pattern, pi)
  BY <1>1, <1>2 DEF Aligned
<1> QED
  BY <1>1, <1>3, BehindSingle

LEMMA PassAnyRunStep == IInv /\ PassAnyRun => IInv'
<1> SUFFICES ASSUME IInv, PassAnyRun PROVE IInv'
  OBVIOUS
<1>1. /\ Boundary(text, ti) /\ Boundary(pattern, pi + 1) /\ pi + 1 \in 0..Len(pattern)
  BY WhereSpecial DEF PassAnyRun
<1>2. TypeOK'
  BY <1>1 DEF IInv, TypeOK, PassAnyRun, InText
<1>3. Aligned'
  BY <1>1 DEF IInv, Aligned, PassAnyRun, Boundary
<1>4. StarOnCharacter'
  BY <1>1 DEF IInv, TypeOK, StarOnCharacter, PassAnyRun, AtByte, Boundary
<1> QED
  BY <1>2, <1>3, <1>4 DEF IInv, PassAnyRun

LEMMA PassAnyCharStep == IInv /\ PassAnyChar => IInv'
<1> SUFFICES ASSUME IInv, PassAnyChar PROVE IInv'
  OBVIOUS
<1>1. /\ Boundary(text, ti) /\ Boundary(pattern, pi + 1) /\ pi + 1 \in 0..Len(pattern)
  BY WhereSpecial DEF PassAnyChar
<1>2. ti \in 0..(Len(text) - 1) /\ text[ti + 1] \notin Continuation
  BY <1>1 DEF IInv, TypeOK, PassAnyChar, InText, Boundary
<1>3. /\ Width(text[ti + 1]) \in {1, 2} /\ ti' \in 0..Len(text) /\ Boundary(text, ti')
  BY <1>2, NextCharacter DEF IInv, PassAnyChar
<1>4. TypeOK'
  BY <1>1, <1>2, <1>3 DEF IInv, TypeOK, PassAnyChar
<1>5. Aligned'
  BY <1>1, <1>3 DEF Aligned, PassAnyChar, Boundary
<1>6. StarOnCharacter'
  BY DEF IInv, TypeOK, StarOnCharacter, PassAnyChar, Boundary
<1> QED
  BY <1>4, <1>5, <1>6 DEF IInv, PassAnyChar

LEMMA PassByteStep == IInv /\ PassByte => IInv'
<1> SUFFICES ASSUME IInv, PassByte PROVE IInv'
  OBVIOUS
<1> DEFINE b == text[ti + 1]
<1>1. /\ text \in Utf8 /\ pattern \in Utf8 /\ text \in Seq(Byte) /\ pattern \in Seq(Byte)
      /\ ti \in 0..(Len(text) - 1) /\ pi \in 0..(Len(pattern) - 1)
      /\ pattern[pi + 1] = b /\ b \in Byte
      /\ ti' = ti + 1 /\ pi' = pi + 1 /\ text' = text /\ pattern' = pattern
  BY DEF IInv, TypeOK, PassByte, InText, SameByte, AtByte
<1>2. TypeOK'
  BY <1>1 DEF IInv, TypeOK, PassByte
<1>3. Aligned'
  <2>1. CASE b \in Single
    <3>1. text[ti + 1] \in Single /\ pattern[pi + 1] \in Single
      BY <1>1, <2>1
    <3>2. Boundary(text, ti + 1) /\ Boundary(pattern, pi + 1)
      BY <1>1, <3>1, BehindSingle
    <3>3. Boundary(text, ti)' /\ Boundary(pattern, pi)'
      BY <3>2, <1>1 DEF Boundary
    <3> QED
      BY <3>3 DEF Aligned
  <2>2. CASE b \in Lead
    <3>1. text'[ti'] = b /\ pattern'[pi'] = b /\ ti' > 0 /\ pi' > 0
      BY <1>1
    <3> QED
      BY <3>1, <2>2 DEF Aligned
  <2>3. CASE b \in Continuation
    <3>1. ti > 0 /\ pi > 0 /\ text[ti] \in Lead /\ pattern[pi] \in Lead
      BY <1>1, <2>3 DEF IInv, Aligned, Boundary
    <3>2. ti \in 1..Len(text) /\ pi \in 1..Len(pattern)
      BY <1>1, <3>1
    <3>3. Boundary(text, ti + 1) /\ Boundary(pattern, pi + 1)
      BY <1>1, <3>1, <3>2, BehindLead
    <3>4. Boundary(text, ti)' /\ Boundary(pattern, pi)'
      BY <3>3, <1>1 DEF Boundary
    <3> QED
      BY <3>4 DEF Aligned
  <2> QED
    BY <1>1, <2>1, <2>2, <2>3 DEF Byte
<1>4. StarOnCharacter'
  BY DEF IInv, TypeOK, StarOnCharacter, PassByte, Boundary
<1> QED
  BY <1>1, <1>2, <1>3, <1>4 DEF IInv

LEMMA BacktrackStep == IInv /\ Backtrack => IInv'
<1> SUFFICES ASSUME IInv, Backtrack PROVE IInv'
  OBVIOUS
<1>1. /\ text \in Utf8 /\ pattern \in Utf8
      /\ st \in 0..(Len(text) - 1) /\ sp \in 0..(Len(pattern) - 1)
      /\ Boundary(text, st) /\ pattern[sp + 1] = AnyRun
  BY DEF IInv, TypeOK, StarOnCharacter, Backtrack, NoStep, InText
<1>2. text[st + 1] \notin Continuation
  BY <1>1 DEF Boundary
<1>3. st' \in 0..Len(text) /\ Boundary(text, st')
  BY <1>1, <1>2, NextCharacter DEF Backtrack
<1>4. Boundary(pattern, sp + 1) /\ sp + 1 \in 0..Len(pattern)
  BY <1>1, BehindSingle, LikeAssumption
<1>5. TypeOK'
  BY <1>1, <1>3, <1>4 DEF IInv, TypeOK, Backtrack
<1>6. Aligned'
  BY <1>3, <1>4 DEF Aligned, Backtrack, Boundary
<1>7. StarOnCharacter'
  BY <1>1, <1>3 DEF StarOnCharacter, Backtrack, Boundary
<1> QED
  BY <1>1, <1>5, <1>6, <1>7 DEF IInv, Backtrack

LEMMA EndingStep == IInv /\ (Fail \/ Finish \/ UNCHANGED vars) => IInv'
<1> SUFFICES ASSUME IInv, Fail \/ Finish \/ UNCHANGED vars PROVE IInv'
  OBVIOUS
<1>1. UNCHANGED <<text, pattern, loop>>
  BY DEF Fail, Finish, vars
<1>2. TypeOK'
  BY <1>1 DEF IInv, TypeOK, Fail, Finish, vars, loop
<1> QED
  BY <1>1, <1>2 DEF IInv, Aligned, StarOnCharacter, Boundary, loop

LEMMA IInvHolds == Spec => []IInv
<1>1. IInv /\ [Next]_vars => IInv'
  BY PassAnyRunStep, PassAnyCharStep, PassByteStep, BacktrackStep, EndingStep
     DEF Next, Match, Done
<1> QED
  BY <1>1, InitIInv, PTL DEF Spec

\* TypeOK: the loop of `like_match` keeps every index within the text and the pattern.
THEOREM LikeInBounds == Spec => []TypeOK
<1>1. IInv => TypeOK
  BY DEF IInv
<1> QED
  BY <1>1, IInvHolds, PTL

\* OnCharacters: the loop of `like_match` compares bytes and never splits a character.
THEOREM LikeOnCharacters == Spec => []OnCharacters
<1>1. ASSUME IInv PROVE OnCharacters
  <2>1. /\ text \in Utf8 /\ pattern \in Utf8 /\ ti \in 0..Len(text) /\ pi \in 0..Len(pattern)
    BY <1>1 DEF IInv, TypeOK
  <2>2. ASSUME Boundary(pattern, pi) PROVE Boundary(text, ti)
    <3>1. ~(pi > 0 /\ pattern[pi] \in Lead)
      BY <2>1, <2>2, BehindLead DEF Boundary
    <3> QED
      BY <1>1, <3>1 DEF IInv, Aligned
  <2> QED
    BY <1>1, <2>2 DEF IInv, StarOnCharacter, OnCharacters
<1> QED
  BY <1>1, IInvHolds, PTL

-----------------------------------------------------------------------------
\* What a pattern means, without recursion: the positions that its bytes lead through.

\* f leads through s along the bytes m + 1..n of p.
Path(s, p, m, n, f) ==
  /\ f \in [m..n -> 0..Len(s)]
  /\ \A j \in (m + 1)..n : Takes(s, p[j], f[j - 1], f[j])

\* What is left of s from i on matches what is left of p from j on.
Rest(s, p, i, j) == \E f : Path(s, p, j, Len(p), f) /\ f[j] = i /\ f[Len(p)] = Len(s)

\* The sets of positions that `Reach` goes through.
Steps(s, p, i, step) ==
  /\ step \in [0..Len(p) -> SUBSET (0..Len(s))]
  /\ step[0] = {i}
  /\ \A j \in 1..Len(p) :
       step[j] = {k \in 0..Len(s) : \E h \in step[j - 1] : Takes(s, p[j], h, k)}

\* They exist: its recursion is well-founded.
LEMMA ReachSteps ==
  ASSUME NEW s \in Seq(Byte), NEW p \in Seq(Byte), NEW i \in 0..Len(s)
  PROVE  \E step : Steps(s, p, i, step) /\ Reach(s, p, i) = step[Len(p)]
<1> DEFINE n == Len(p)
           X == SUBSET (0..Len(s))
           Next1(j, at) == {k \in 0..Len(s) : \E h \in at : Takes(s, p[j], h, k)}
           Body(step) == [j \in 0..n |-> IF j = 0 THEN {i} ELSE Next1(j, step[j - 1])]
           Step == [j \in 1..n |-> [at \in X |-> Next1(j, at)]]
           fixed == CHOOSE step : step = Body(step)
<1>1. n \in Nat /\ {i} \in X
  OBVIOUS
<1>2. Step \in [1..n -> [X -> X]]
  OBVIOUS
<1>3. PICK f \in [0..n -> X] : f[0] = {i} /\ \A j \in 1..n : f[j] = Step[j][f[j - 1]]
  <2> HIDE DEF n, X, Step
  <2>1. \E f \in [0..n -> X] : Follows(f, n, {i}, Step)
    BY <1>1, <1>2, Recursion
  <2> QED
    BY <2>1 DEF Follows
<1>4. f = Body(f)
  <2>1. ASSUME NEW j \in 0..n
        PROVE  f[j] = IF j = 0 THEN {i} ELSE Next1(j, f[j - 1])
    <3>1. CASE j = 0
      BY <1>3, <3>1
    <3>2. CASE j # 0
      <4>1. j \in 1..n /\ j - 1 \in 0..n
        BY <3>2
      <4>2. f[j - 1] \in X
        BY <4>1
      <4>3. Step[j][f[j - 1]] = Next1(j, f[j - 1])
        BY <4>1, <4>2
      <4> HIDE DEF Step, Next1
      <4> QED
        BY <1>3, <3>2, <4>1, <4>3
    <3> QED
      BY <3>1, <3>2
  <2> HIDE DEF Next1, X
  <2> QED
    BY <2>1
<1>5. fixed = Body(fixed)
  <2> HIDE DEF Body
  <2> QED
    BY <1>4
<1>6. Reach(s, p, i) = fixed[n]
  BY DEF Reach
<1>7. ASSUME NEW j \in 0..n
      PROVE  fixed[j] = IF j = 0 THEN {i} ELSE Next1(j, fixed[j - 1])
  <2> HIDE DEF fixed, Next1
  <2> QED
    BY <1>5
<1>8. \A j \in 0..n : fixed[j] \in X
  <2> HIDE DEF fixed
  <2> QED
    BY <1>1, <1>7
<1>9. fixed \in [0..n -> X]
  <2>1. fixed = [j \in 0..n |-> fixed[j]]
    <3> HIDE DEF fixed, Next1
    <3> QED
      BY <1>5
  <2> HIDE DEF fixed, X
  <2> QED
    BY <1>8, <2>1
<1>10. fixed[0] = {i} /\ \A j \in 1..n : fixed[j] = Next1(j, fixed[j - 1])
  <2>1. 0 \in 0..n /\ \A j \in 1..n : j \in 0..n /\ j # 0
    BY <1>1
  <2> HIDE DEF fixed, Next1, n
  <2> QED
    BY <1>7, <2>1
<1> HIDE DEF fixed
<1> QED
  BY <1>6, <1>9, <1>10 DEF Steps

\* A path that goes on for one byte more.
LEMMA PathGrows ==
  ASSUME NEW s, NEW p, NEW m \in Nat, NEW n \in Nat, m <= n, NEW f, Path(s, p, m, n, f),
         NEW k \in 0..Len(s), Takes(s, p[n + 1], f[n], k)
  PROVE  \E g : /\ Path(s, p, m, n + 1, g) /\ g[n + 1] = k
                /\ \A j \in m..n : g[j] = f[j]
<1> DEFINE g == [j \in m..(n + 1) |-> IF j = n + 1 THEN k ELSE f[j]]
<1>1. f \in [m..n -> 0..Len(s)] /\ \A j \in (m + 1)..n : Takes(s, p[j], f[j - 1], f[j])
  BY DEF Path
<1>2. g \in [m..(n + 1) -> 0..Len(s)]
  BY <1>1
<1>3. /\ g[n + 1] = k /\ g[n] = f[n]
      /\ \A j \in m..n : g[j] = f[j]
  OBVIOUS
<1>4. ASSUME NEW j \in (m + 1)..(n + 1)
      PROVE  Takes(s, p[j], g[j - 1], g[j])
  <2>1. CASE j = n + 1
    BY <1>3, <2>1
  <2>2. CASE j # n + 1
    <3>1. j \in (m + 1)..n /\ j \in m..n /\ j - 1 \in m..n
      BY <2>2
    <3> HIDE DEF g
    <3> QED
      BY <1>1, <1>3, <3>1
  <2> QED
    BY <2>1, <2>2
<1> HIDE DEF g
<1> QED
  BY <1>2, <1>3, <1>4 DEF Path

\* A path may be cut.
LEMMA PathPart ==
  ASSUME NEW s, NEW p, NEW m \in Nat, NEW n \in Nat, NEW f, Path(s, p, m, n, f),
         NEW a \in m..n, NEW b \in a..n
  PROVE  Path(s, p, a, b, [j \in a..b |-> f[j]])
BY DEF Path

\* Paths that meet are a path.
LEMMA PathsJoin ==
  ASSUME NEW s, NEW p, NEW m \in Nat, NEW l \in Nat, NEW n \in Nat, m <= l, l <= n,
         NEW f, Path(s, p, m, l, f), NEW g, Path(s, p, l, n, g), f[l] = g[l]
  PROVE  \E h : Path(s, p, m, n, h) /\ h[m] = f[m] /\ h[n] = g[n]
<1> DEFINE h == [j \in m..n |-> IF j <= l THEN f[j] ELSE g[j]]
<1>1. /\ f \in [m..l -> 0..Len(s)] /\ \A j \in (m + 1)..l : Takes(s, p[j], f[j - 1], f[j])
      /\ g \in [l..n -> 0..Len(s)] /\ \A j \in (l + 1)..n : Takes(s, p[j], g[j - 1], g[j])
  BY DEF Path
<1>2. h \in [m..n -> 0..Len(s)]
  BY <1>1
<1>3. /\ \A j \in m..l : h[j] = f[j]
      /\ \A j \in l..n : h[j] = g[j]
  OBVIOUS
<1>4. ASSUME NEW j \in (m + 1)..n
      PROVE  Takes(s, p[j], h[j - 1], h[j])
  <2>1. CASE j <= l
    <3>1. j \in (m + 1)..l /\ j \in m..l /\ j - 1 \in m..l
      BY <2>1
    <3> HIDE DEF h
    <3> QED
      BY <1>1, <1>3, <3>1
  <2>2. CASE ~(j <= l)
    <3>1. j \in (l + 1)..n /\ j \in l..n /\ j - 1 \in l..n
      BY <2>2
    <3> HIDE DEF h
    <3> QED
      BY <1>1, <1>3, <3>1
  <2> QED
    BY <2>1, <2>2
<1>5. h[m] = f[m] /\ h[n] = g[n]
  BY <1>3
<1> HIDE DEF h
<1> QED
  BY <1>2, <1>4, <1>5 DEF Path

\* Reach is where the paths along a pattern end.
LEMMA ReachIsPath ==
  ASSUME NEW s \in Seq(Byte), NEW p \in Seq(Byte), NEW i \in 0..Len(s), NEW k
  PROVE  k \in Reach(s, p, i) <=>
           \E f : Path(s, p, 0, Len(p), f) /\ f[0] = i /\ f[Len(p)] = k
<1> DEFINE n == Len(p)
<1>1. n \in Nat
  OBVIOUS
<1>2. PICK step : Steps(s, p, i, step) /\ Reach(s, p, i) = step[n]
  BY ReachSteps
<1> DEFINE At(m) == {l \in 0..Len(s) : \E h \in step[m] : Takes(s, p[m + 1], h, l)}
<1>0. step[0] = {i} /\ \A m \in 0..(n - 1) : step[m + 1] = At(m)
  BY <1>1, <1>2 DEF Steps
<1> HIDE DEF n
<1> DEFINE Led(m) == \A h \in step[m] : \E f : Path(s, p, 0, m, f) /\ f[0] = i /\ f[m] = h
           T == {m \in 0..n : Led(m)}
<1>3. Led(0)
  <2> DEFINE f == [j \in 0..0 |-> i]
  <2>1. Path(s, p, 0, 0, f) /\ f[0] = i
    BY DEF Path
  <2> HIDE DEF f
  <2> QED
    BY <1>0, <2>1
<1>4. ASSUME NEW m \in 0..(n - 1), Led(m)
      PROVE  Led(m + 1)
  <2> SUFFICES ASSUME NEW h \in step[m + 1]
               PROVE  \E f : Path(s, p, 0, m + 1, f) /\ f[0] = i /\ f[m + 1] = h
    OBVIOUS
  <2>1. m \in Nat /\ 0 \in Nat /\ 0 <= m
    OBVIOUS
  <2>2. h \in 0..Len(s) /\ \E g \in step[m] : Takes(s, p[m + 1], g, h)
    BY <1>0
  <2>3. PICK g \in step[m] : Takes(s, p[m + 1], g, h)
    BY <2>2
  <2>4. PICK f : Path(s, p, 0, m, f) /\ f[0] = i /\ f[m] = g
    BY <1>4
  <2>5. PICK e : Path(s, p, 0, m + 1, e) /\ e[m + 1] = h /\ \A j \in 0..m : e[j] = f[j]
    <3>1. Takes(s, p[m + 1], f[m], h) /\ Path(s, p, 0, m, f)
      BY <2>3, <2>4
    <3> HIDE DEF Led
    <3> QED
      BY ONLY <2>1, <2>2, <3>1, PathGrows
  <2>6. 0 \in 0..m
    BY <2>1
  <2> QED
    BY <2>4, <2>5, <2>6
<1>5. Led(n)
  <2> HIDE DEF Led
  <2>0. \A m \in 0..(n - 1) : m \in 0..n /\ m + 1 \in 0..n
    BY <1>1
  <2>1. 0 \in T /\ Inductive(T, 0, n)
    BY <1>1, <1>3, <1>4, <2>0 DEF Inductive
  <2> HIDE DEF T
  <2>2. \A m \in 0..n : m \in T
    BY <1>1, <2>1, IntervalInduction
  <2> QED
    BY <1>1, <2>2 DEF T
<1>6. ASSUME NEW f, Path(s, p, 0, n, f), f[0] = i
      PROVE  f[n] \in step[n]
  <2> DEFINE U == {m \in 0..n : f[m] \in step[m]}
  <2>1. 0 \in U
    BY <1>0, <1>1, <1>6
  <2>2. ASSUME NEW m \in 0..(n - 1), f[m] \in step[m]
        PROVE  f[m + 1] \in step[m + 1]
    <3>1. m + 1 \in 1..n /\ (m + 1) - 1 = m
      BY <1>1
    <3>2. Takes(s, p[m + 1], f[m], f[m + 1]) /\ f[m + 1] \in 0..Len(s)
      BY <1>6, <3>1 DEF Path
    <3> QED
      BY <1>0, <2>2, <3>2
  <2>3. Inductive(U, 0, n)
    <3>1. \A m \in 0..(n - 1) : m \in 0..n /\ m + 1 \in 0..n
      BY <1>1
    <3> QED
      BY <2>2, <3>1 DEF Inductive
  <2> HIDE DEF U
  <2>4. \A m \in 0..n : m \in U
    BY <1>1, <2>1, <2>3, IntervalInduction
  <2> QED
    BY <1>1, <2>4 DEF U
<1>7. k \in step[n] <=> \E f : Path(s, p, 0, n, f) /\ f[0] = i /\ f[n] = k
  BY <1>5, <1>6
<1> QED
  BY <1>2, <1>7 DEF n

\* What the model calls a match of the rest is a path through the rest.
LEMMA MatchesFromIsRest ==
  ASSUME text \in Seq(Byte), pattern \in Seq(Byte),
         NEW i \in 0..Len(text), NEW j \in 0..Len(pattern)
  PROVE  MatchesFrom(i, j) <=> Rest(text, pattern, i, j)
<1> DEFINE n == Len(pattern)
           left == Drop(pattern, j)
<1>1. n \in Nat /\ j \in Nat /\ j <= n
  OBVIOUS
<1>2. left \in Seq(Byte) /\ Len(left) = n - j /\ \A m \in 1..(n - j) : left[m] = pattern[m + j]
  BY DEF Drop
<1>0. MatchesFrom(i, j) <=> Len(text) \in Reach(text, left, i)
  BY DEF MatchesFrom
<1> HIDE DEF n, left
<1>3. MatchesFrom(i, j) <=>
        \E f : Path(text, left, 0, Len(left), f) /\ f[0] = i /\ f[Len(left)] = Len(text)
  <2>1. Len(text) \in Reach(text, left, i) <=>
          \E f : Path(text, left, 0, Len(left), f) /\ f[0] = i /\ f[Len(left)] = Len(text)
    BY <1>2, ReachIsPath
  <2> QED
    BY <1>0, <2>1
<1>4. ASSUME NEW f, Path(text, left, 0, n - j, f), f[0] = i, f[n - j] = Len(text)
      PROVE  Rest(text, pattern, i, j)
  <2> DEFINE g == [m \in j..n |-> f[m - j]]
  <2>1. /\ f \in [0..(n - j) -> 0..Len(text)]
        /\ \A m \in 1..(n - j) : Takes(text, left[m], f[m - 1], f[m])
    BY <1>4 DEF Path
  <2>2. g \in [j..n -> 0..Len(text)] /\ g[j] = i /\ g[n] = Len(text)
    BY <1>1, <1>4, <2>1
  <2>3. ASSUME NEW m \in (j + 1)..n
        PROVE  Takes(text, pattern[m], g[m - 1], g[m])
    <3>1. m - j \in 1..(n - j) /\ m - 1 \in j..n /\ m \in j..n
      BY <1>1
    <3>2. left[m - j] = pattern[m]
      BY <1>1, <1>2, <3>1
    <3>3. Takes(text, left[m - j], f[(m - j) - 1], f[m - j])
      BY <2>1, <3>1
    <3>4. g[m - 1] = f[(m - j) - 1] /\ g[m] = f[m - j]
      BY <1>1, <3>1
    <3> HIDE DEF g
    <3> QED
      BY <3>2, <3>3, <3>4
  <2> HIDE DEF g
  <2>4. Path(text, pattern, j, n, g)
    BY <2>2, <2>3 DEF Path
  <2> QED
    BY <2>2, <2>4 DEF Rest, n
<1>5. ASSUME Rest(text, pattern, i, j)
      PROVE  \E f : Path(text, left, 0, n - j, f) /\ f[0] = i /\ f[n - j] = Len(text)
  <2>1. PICK g : Path(text, pattern, j, n, g) /\ g[j] = i /\ g[n] = Len(text)
    BY <1>5 DEF Rest, n
  <2> DEFINE f == [m \in 0..(n - j) |-> g[m + j]]
  <2>2. /\ g \in [j..n -> 0..Len(text)]
        /\ \A m \in (j + 1)..n : Takes(text, pattern[m], g[m - 1], g[m])
    BY <2>1 DEF Path
  <2>3. f \in [0..(n - j) -> 0..Len(text)] /\ f[0] = i /\ f[n - j] = Len(text)
    BY <1>1, <2>1, <2>2
  <2>4. ASSUME NEW m \in 1..(n - j)
        PROVE  Takes(text, left[m], f[m - 1], f[m])
    <3>1. m + j \in (j + 1)..n /\ m - 1 \in 0..(n - j) /\ m \in 0..(n - j)
      BY <1>1
    <3>2. Takes(text, pattern[m + j], g[(m + j) - 1], g[m + j])
      BY <2>2, <3>1
    <3>3. f[m - 1] = g[(m + j) - 1] /\ f[m] = g[m + j]
      BY <1>1, <3>1
    <3> HIDE DEF f
    <3> QED
      BY <1>2, <3>2, <3>3
  <2> HIDE DEF f
  <2>5. Path(text, left, 0, n - j, f)
    BY <2>3, <2>4 DEF Path
  <2> QED
    BY <2>3, <2>5
<1> QED
  BY <1>2, <1>3, <1>4, <1>5

\* Nothing is left of the pattern: nothing may be left of the text.
LEMMA RestEnds ==
  ASSUME NEW s \in Seq(Byte), NEW p \in Seq(Byte), NEW i \in 0..Len(s)
  PROVE  Rest(s, p, i, Len(p)) <=> i = Len(s)
<1> DEFINE n == Len(p)
           f == [m \in n..n |-> i]
<1>1. n \in Nat
  OBVIOUS
<1>2. Path(s, p, n, n, f) /\ f[n] = i
  BY <1>1 DEF Path
<1> HIDE DEF f, n
<1>3. \A g : Path(s, p, n, n, g) /\ g[n] = i /\ g[n] = Len(s) => i = Len(s)
  OBVIOUS
<1> QED
  BY <1>2, <1>3 DEF Rest, n

\* The next byte of the pattern leads to a position from which the rest matches.
LEMMA RestUnfolds ==
  ASSUME NEW s \in Seq(Byte), NEW p \in Seq(Byte), NEW i \in 0..Len(s), NEW j \in 0..(Len(p) - 1)
  PROVE  Rest(s, p, i, j) <=> \E k \in 0..Len(s) : Takes(s, p[j + 1], i, k) /\ Rest(s, p, k, j + 1)
<1> DEFINE n == Len(p)
<1>1. n \in Nat /\ j \in Nat /\ j + 1 \in j..n /\ n \in j..n /\ j \in j..n /\ n \in (j + 1)..n
      /\ j + 1 \in (j + 1)..n /\ j + 1 \in Nat /\ j <= j + 1 /\ j + 1 <= n
  OBVIOUS
<1> HIDE DEF n
<1>2. ASSUME NEW f, Path(s, p, j, n, f), f[j] = i, f[n] = Len(s)
      PROVE  \E k \in 0..Len(s) : Takes(s, p[j + 1], i, k) /\ Rest(s, p, k, j + 1)
  <2>1. f[j + 1] \in 0..Len(s) /\ Takes(s, p[j + 1], f[j], f[j + 1])
    BY <1>1, <1>2 DEF Path
  <2> DEFINE g == [m \in (j + 1)..n |-> f[m]]
  <2>2. Path(s, p, j + 1, n, g)
    BY <1>1, <1>2, PathPart
  <2>3. g[j + 1] = f[j + 1] /\ g[n] = Len(s)
    BY <1>1, <1>2
  <2> HIDE DEF g
  <2>4. Rest(s, p, f[j + 1], j + 1)
    BY <2>2, <2>3 DEF Rest, n
  <2> QED
    BY <1>2, <2>1, <2>4
<1>3. ASSUME NEW k \in 0..Len(s), Takes(s, p[j + 1], i, k), Rest(s, p, k, j + 1)
      PROVE  Rest(s, p, i, j)
  <2>1. PICK g : Path(s, p, j + 1, n, g) /\ g[j + 1] = k /\ g[n] = Len(s)
    BY <1>3 DEF Rest, n
  <2> DEFINE f == [m \in j..(j + 1) |-> IF m = j THEN i ELSE k]
  <2>2. f[j] = i /\ f[j + 1] = k
    OBVIOUS
  <2>3. Path(s, p, j, j + 1, f)
    <3>1. \A m \in (j + 1)..(j + 1) : m = j + 1
      OBVIOUS
    <3>2. f \in [j..(j + 1) -> 0..Len(s)]
      OBVIOUS
    <3>3. (j + 1) - 1 = j
      OBVIOUS
    <3> HIDE DEF f
    <3> QED
      BY <1>3, <2>2, <3>1, <3>2, <3>3 DEF Path
  <2> HIDE DEF f
  <2>4. PICK h : Path(s, p, j, n, h) /\ h[j] = f[j] /\ h[n] = g[n]
    <3>1. f[j + 1] = g[j + 1]
      BY <2>1, <2>2
    <3> QED
      BY ONLY <1>1, <2>1, <2>3, <3>1, PathsJoin
  <2> QED
    BY <2>1, <2>2, <2>4 DEF Rest, n
<1> QED
  BY <1>2, <1>3 DEF Rest, n

\* Position i of s and position j of p are both between two characters, or both behind
\* the same lead byte.
Abreast(s, i, p, j) ==
  \/ Boundary(s, i) /\ Boundary(p, j)
  \/ i > 0 /\ j > 0 /\ s[i] = p[j] /\ s[i] \in Lead

\* At a `%` or a `_` of the pattern, both are between two characters.
LEMMA SpecialOnCharacter ==
  ASSUME NEW s \in Utf8, NEW p \in Utf8, NEW i \in 0..Len(s), NEW j \in 0..(Len(p) - 1),
         Abreast(s, i, p, j), p[j + 1] \in Single
  PROVE  Boundary(s, i) /\ Boundary(p, j) /\ Boundary(p, j + 1)
<1>1. ~(j > 0 /\ p[j] \in Lead)
  <2>1. ASSUME j > 0, p[j] \in Lead
        PROVE  FALSE
    <3>1. j \in 1..Len(p)
      BY <2>1
    <3>2. p[j + 1] \in Continuation
      BY <2>1, <3>1, BehindLead
    <3> QED
      BY <3>2, LikeAssumption
  <2> QED
    BY <2>1
<1> QED
  BY <1>1, BehindSingle DEF Abreast

\* A byte of the pattern leads from where they are abreast to where they are.
LEMMA StaysAbreast ==
  ASSUME NEW s \in Utf8, NEW p \in Utf8, NEW i \in 0..Len(s), NEW j \in 0..(Len(p) - 1),
         Abreast(s, i, p, j), NEW k \in 0..Len(s), Takes(s, p[j + 1], i, k)
  PROVE  Abreast(s, k, p, j + 1)
<1>1. s \in Seq(Byte) /\ p \in Seq(Byte) /\ p[j + 1] \in Byte /\ Len(s) \in Nat /\ Len(p) \in Nat
  BY DEF Utf8
<1>2. CASE p[j + 1] = AnyRun
  <2>1. Boundary(p, j + 1)
    BY <1>2, SpecialOnCharacter, LikeAssumption
  <2>2. Boundary(s, k)
    BY <1>2 DEF Takes
  <2> QED
    BY <2>1, <2>2 DEF Abreast
<1>3. CASE p[j + 1] = AnyChar
  <2>1. Boundary(s, i) /\ Boundary(p, j + 1)
    BY <1>3, SpecialOnCharacter, LikeAssumption
  <2>2. i \in 0..(Len(s) - 1) /\ k = i + Width(s[i + 1])
    BY <1>1, <1>3, LikeAssumption DEF Takes
  <2>3. s[i + 1] \notin Continuation
    BY <1>1, <2>1, <2>2 DEF Boundary
  <2>4. Boundary(s, k)
    BY <2>2, <2>3, NextCharacter
  <2> QED
    BY <2>1, <2>4 DEF Abreast
<1>4. CASE p[j + 1] \notin {AnyRun, AnyChar}
  <2>1. i \in 0..(Len(s) - 1) /\ s[i + 1] = p[j + 1] /\ k = i + 1
    BY <1>1, <1>4 DEF Takes
  <2>2. CASE p[j + 1] \in Single
    BY <2>1, <2>2, BehindSingle DEF Abreast
  <2>3. CASE p[j + 1] \in Lead
    BY <1>1, <2>1, <2>3 DEF Abreast
  <2>4. CASE p[j + 1] \in Continuation
    <3>1. ~Boundary(p, j)
      BY <1>1, <2>4 DEF Boundary
    <3>2. i \in 1..Len(s) /\ j \in 1..Len(p) /\ s[i] \in Lead /\ p[j] \in Lead
      BY <1>1, <3>1 DEF Abreast
    <3>3. Boundary(s, i + 1) /\ Boundary(p, j + 1)
      BY <3>2, BehindLead
    <3> QED
      BY <2>1, <3>3 DEF Abreast
  <2> QED
    BY <1>1, <2>2, <2>3, <2>4 DEF Byte
<1> QED
  BY <1>2, <1>3, <1>4

\* A path that begins between two characters is abreast of the pattern all along.
LEMMA PathOnCharacters ==
  ASSUME NEW s \in Utf8, NEW p \in Utf8, NEW m \in Nat, NEW n \in Nat, n <= Len(p),
         NEW f, Path(s, p, m, n, f), m <= n, Boundary(s, f[m]), Boundary(p, m)
  PROVE  \A j \in m..n : Abreast(s, f[j], p, j)
<1> DEFINE T == {j \in m..n : Abreast(s, f[j], p, j)}
<1>1. m \in T
  BY DEF Abreast
<1>2. ASSUME NEW j \in m..(n - 1), j \in T
      PROVE  j + 1 \in T
  <2>1. j \in 0..(Len(p) - 1) /\ j + 1 \in (m + 1)..n /\ j + 1 \in m..n /\ j \in m..n
        /\ (j + 1) - 1 = j
    BY DEF Utf8
  <2>2. f[j] \in 0..Len(s) /\ f[j + 1] \in 0..Len(s) /\ Takes(s, p[j + 1], f[j], f[j + 1])
    BY <2>1 DEF Path
  <2>3. Abreast(s, f[j + 1], p, j + 1)
    BY <1>2, <2>1, <2>2, StaysAbreast
  <2> QED
    BY <2>1, <2>3
<1>3. Inductive(T, m, n)
  BY <1>2 DEF Inductive
<1> HIDE DEF T
<1>4. \A j \in m..n : j \in T
  BY <1>1, <1>3, IntervalInduction
<1> QED
  BY <1>4 DEF T

\* Two characters begin a whole character apart.
LEMMA CharactersApart ==
  ASSUME NEW s \in Utf8, NEW i \in 0..(Len(s) - 1), NEW k \in 0..(Len(s) - 1),
         Boundary(s, i), Boundary(s, k), i <= k
  PROVE  i + Width(s[i + 1]) <= k + Width(s[k + 1])
<1>1. s \in Seq(Byte) /\ s[i + 1] \notin Continuation /\ s[k + 1] \notin Continuation /\ Len(s) \in Nat
  BY DEF Utf8, Boundary
<1>2. /\ Width(s[i + 1]) \in {1, 2} /\ Width(s[k + 1]) \in {1, 2}
  BY <1>1, NextCharacter
<1>3. CASE k = i + 1
  <2>1. Width(s[i + 1]) # 2
    <3>1. Width(s[i + 1]) = 2 => s[i + 2] \in Continuation
      BY <1>1 DEF Utf8
    <3>2. i + 2 = k + 1
      BY <1>3
    <3> QED
      BY <1>1, <3>1, <3>2
  <2> QED
    BY <1>2, <1>3, <2>1
<1>4. CASE k # i + 1
  BY <1>2, <1>4
<1> QED
  BY <1>3, <1>4

\* The bytes m + 1..n of p are no `%`.
Fixed(p, m, n) == \A j \in (m + 1)..n : p[j] # AnyRun

\* Without a `%`, a match that begins later is later all along.
LEMMA PathsInOrder ==
  ASSUME NEW s \in Utf8, NEW p \in Utf8, NEW m \in Nat, NEW n \in Nat, m <= n, n <= Len(p),
         Fixed(p, m, n), Boundary(p, m),
         NEW f, Path(s, p, m, n, f), Boundary(s, f[m]),
         NEW g, Path(s, p, m, n, g), Boundary(s, g[m]), f[m] <= g[m]
  PROVE  \A j \in m..n : f[j] <= g[j]
<1> DEFINE T == {j \in m..n : f[j] <= g[j]}
<1>1. m \in T
  OBVIOUS
<1>2. ASSUME NEW j \in m..(n - 1), j \in T
      PROVE  j + 1 \in T
  <2>1. j \in 0..(Len(p) - 1) /\ j + 1 \in (m + 1)..n /\ j + 1 \in m..n /\ j \in m..n
        /\ (j + 1) - 1 = j
    BY DEF Utf8
  <2>2. /\ f[j] \in 0..Len(s) /\ f[j + 1] \in 0..Len(s) /\ Takes(s, p[j + 1], f[j], f[j + 1])
        /\ g[j] \in 0..Len(s) /\ g[j + 1] \in 0..Len(s) /\ Takes(s, p[j + 1], g[j], g[j + 1])
        /\ f[j] <= g[j]
    BY <1>2, <2>1 DEF Path
  <2>3. p[j + 1] # AnyRun
    BY <2>1 DEF Fixed
  <2>4. CASE p[j + 1] = AnyChar
    <3>1. /\ f[j] \in 0..(Len(s) - 1) /\ f[j + 1] = f[j] + Width(s[f[j] + 1])
          /\ g[j] \in 0..(Len(s) - 1) /\ g[j + 1] = g[j] + Width(s[g[j] + 1])
      BY <2>2, <2>3, <2>4 DEF Takes, Utf8
    <3>2. Abreast(s, f[j], p, j) /\ Abreast(s, g[j], p, j)
      BY <2>1, PathOnCharacters
    <3>3. Boundary(s, f[j]) /\ Boundary(s, g[j])
      BY <2>1, <2>2, <2>4, <3>2, SpecialOnCharacter, LikeAssumption
    <3> QED
      BY <2>1, <2>2, <3>1, <3>3, CharactersApart
  <2>5. CASE p[j + 1] # AnyChar
    <3>1. f[j + 1] = f[j] + 1 /\ g[j + 1] = g[j] + 1
      BY <2>2, <2>3, <2>5 DEF Takes
    <3> QED
      BY <2>1, <2>2, <3>1
  <2> QED
    BY <2>4, <2>5
<1>3. Inductive(T, m, n)
  BY <1>2 DEF Inductive
<1> HIDE DEF T
<1>4. \A j \in m..n : j \in T
  BY <1>1, <1>3, IntervalInduction
<1> QED
  BY <1>4 DEF T

\* At the end of the text, the rest of the pattern matches if it is all `%`.
LEMMA RestAtEnd ==
  ASSUME NEW s \in Seq(Byte), NEW p \in Seq(Byte), NEW j \in 0..Len(p)
  PROVE  Rest(s, p, Len(s), j) <=> \A m \in (j + 1)..Len(p) : p[m] = AnyRun
<1> DEFINE n == Len(p)
<1>1. n \in Nat /\ j \in Nat /\ j <= n /\ Len(s) \in Nat
  OBVIOUS
<1> HIDE DEF n
<1>2. ASSUME \A m \in (j + 1)..n : p[m] = AnyRun
      PROVE  Rest(s, p, Len(s), j)
  <2> DEFINE f == [m \in j..n |-> Len(s)]
  <2>1. \A m \in (j + 1)..n : Takes(s, p[m], Len(s), Len(s))
    BY <1>1, <1>2 DEF Takes, Boundary
  <2>2. Path(s, p, j, n, f)
    <3>1. f \in [j..n -> 0..Len(s)]
      BY <1>1
    <3>2. \A m \in (j + 1)..n : f[m - 1] = Len(s) /\ f[m] = Len(s)
      BY <1>1
    <3> HIDE DEF f
    <3> QED
      BY <2>1, <3>1, <3>2 DEF Path
  <2>3. f[j] = Len(s) /\ f[n] = Len(s)
    BY <1>1
  <2> HIDE DEF f
  <2> QED
    BY <2>2, <2>3 DEF Rest, n
<1>3. ASSUME NEW f, Path(s, p, j, n, f), f[j] = Len(s)
      PROVE  \A m \in (j + 1)..n : p[m] = AnyRun
  <2> DEFINE T == {m \in j..n : f[m] = Len(s)}
  <2>1. j \in T
    BY <1>1, <1>3
  <2>2. ASSUME NEW m \in j..(n - 1), f[m] = Len(s)
        PROVE  f[m + 1] = Len(s) /\ p[m + 1] = AnyRun
    <3>1. m + 1 \in (j + 1)..n /\ (m + 1) - 1 = m
      BY <1>1
    <3>2. Takes(s, p[m + 1], Len(s), f[m + 1]) /\ f[m + 1] \in 0..Len(s)
      BY <1>1, <1>3, <2>2, <3>1 DEF Path
    <3> QED
      BY <1>1, <3>2 DEF Takes
  <2>3. \A m \in j..(n - 1) : m \in j..n /\ m + 1 \in j..n
    BY <1>1
  <2>4. Inductive(T, j, n)
    BY <2>2, <2>3 DEF Inductive
  <2> HIDE DEF T
  <2>5. \A m \in j..n : m \in T
    BY <1>1, <2>1, <2>4, IntervalInduction
  <2>6. ASSUME NEW m \in (j + 1)..n
        PROVE  p[m] = AnyRun
    <3>1. m - 1 \in j..(n - 1) /\ m - 1 \in j..n /\ (m - 1) + 1 = m
      BY <1>1
    <3>2. f[m - 1] = Len(s)
      BY <2>5, <3>1 DEF T
    <3> QED
      BY <2>2, <3>1, <3>2
  <2> QED
    BY <2>6
<1> QED
  BY <1>2, <1>3 DEF Rest, n

-----------------------------------------------------------------------------
\* The inductive invariant of `like_match`.

\* The pattern between the last `%` and the position reached matches just the text
\* between them, and has no other `%`.
Traced ==
  star => /\ Fixed(pattern, sp + 1, pi)
          /\ \E f : Path(text, pattern, sp + 1, pi, f) /\ f[sp + 1] = st /\ f[pi] = ti

\* What is still to be decided decides the answer.
Sound ==
  /\ pc = "scan" => (Rest(text, pattern, 0, 0) <=> IF star THEN Rest(text, pattern, st, sp)
                                                   ELSE Rest(text, pattern, ti, pi))
  /\ pc = "done" => (result <=> Rest(text, pattern, 0, 0))

MInv == IInv /\ Traced /\ Sound

\* What the types say of the positions.
LEMMA Positions ==
  ASSUME IInv
  PROVE  /\ text \in Utf8 /\ pattern \in Utf8 /\ text \in Seq(Byte) /\ pattern \in Seq(Byte)
         /\ Len(text) \in Nat /\ Len(pattern) \in Nat
         /\ ti \in 0..Len(text) /\ pi \in 0..Len(pattern) /\ st \in 0..Len(text)
         /\ star => /\ sp \in 0..(Len(pattern) - 1) /\ sp + 1 \in Nat /\ sp + 1 <= pi
                    /\ Boundary(text, st) /\ pattern[sp + 1] = AnyRun
                    /\ Boundary(pattern, sp + 1)
<1>1. /\ text \in Utf8 /\ pattern \in Utf8 /\ text \in Seq(Byte) /\ pattern \in Seq(Byte)
      /\ Len(text) \in Nat /\ Len(pattern) \in Nat
      /\ ti \in 0..Len(text) /\ pi \in 0..Len(pattern) /\ st \in 0..Len(text)
  BY DEF IInv, TypeOK
<1>2. star => /\ sp \in 0..(Len(pattern) - 1) /\ sp + 1 \in Nat /\ sp + 1 <= pi
              /\ Boundary(text, st) /\ pattern[sp + 1] = AnyRun
  BY <1>1 DEF IInv, TypeOK, StarOnCharacter
<1>3. star => Boundary(pattern, sp + 1)
  BY <1>1, <1>2, BehindSingle, LikeAssumption
<1> QED
  BY <1>1, <1>2, <1>3

\* A `%` leads to every later character.
LEMMA RunUnfolds ==
  ASSUME NEW s \in Seq(Byte), NEW p \in Seq(Byte), NEW i \in 0..Len(s), NEW j \in 0..(Len(p) - 1),
         p[j + 1] = AnyRun
  PROVE  Rest(s, p, i, j) <=> \E k \in 0..Len(s) : i <= k /\ Boundary(s, k) /\ Rest(s, p, k, j + 1)
BY RestUnfolds DEF Takes

\* From the position of the last `%`, with nothing absorbed, the pattern leads to the
\* position reached and nowhere else.
LEMMA TraceLeads ==
  ASSUME IInv, Traced, star
  PROVE  Rest(text, pattern, st, sp + 1) <=> Rest(text, pattern, ti, pi)
<1> DEFINE n == Len(pattern)
<1>1. /\ text \in Utf8 /\ pattern \in Utf8 /\ n \in Nat /\ sp + 1 \in Nat /\ pi \in Nat
      /\ sp + 1 <= pi /\ pi <= n /\ Boundary(text, st) /\ Boundary(pattern, sp + 1)
  BY Positions
<1>2. PICK f : Path(text, pattern, sp + 1, pi, f) /\ f[sp + 1] = st /\ f[pi] = ti
  BY DEF Traced
<1>3. Fixed(pattern, sp + 1, pi)
  BY DEF Traced
<1>4. ASSUME NEW g, Path(text, pattern, pi, n, g), g[pi] = ti, g[n] = Len(text)
      PROVE  Rest(text, pattern, st, sp + 1)
  <2> HIDE DEF n
  <2>1. PICK h : Path(text, pattern, sp + 1, n, h) /\ h[sp + 1] = f[sp + 1] /\ h[n] = g[n]
    <3>1. f[pi] = g[pi]
      BY <1>2, <1>4
    <3> QED
      BY ONLY <1>1, <1>2, <1>4, <3>1, PathsJoin
  <2> QED
    BY <1>2, <1>4, <2>1 DEF Rest, n
<1>5. ASSUME NEW h, Path(text, pattern, sp + 1, n, h), h[sp + 1] = st, h[n] = Len(text)
      PROVE  Rest(text, pattern, ti, pi)
  <2> DEFINE g == [j \in (sp + 1)..pi |-> h[j]]
             e == [j \in pi..n |-> h[j]]
  <2>0. /\ sp + 1 \in (sp + 1)..n /\ pi \in (sp + 1)..n /\ n \in pi..n
        /\ sp + 1 \in (sp + 1)..pi /\ pi \in (sp + 1)..pi /\ pi \in pi..n
    BY <1>1
  <2>1. Path(text, pattern, sp + 1, pi, g) /\ Path(text, pattern, pi, n, e)
    <3> HIDE DEF n
    <3> QED
      BY <1>1, <1>5, <2>0, PathPart
  <2>2. g[sp + 1] = st /\ g[pi] = h[pi] /\ e[pi] = h[pi] /\ e[n] = Len(text)
    BY <1>5, <2>0
  <2> HIDE DEF g, e, n
  <2>3. f[sp + 1] \in Int /\ f[sp + 1] <= g[sp + 1] /\ g[sp + 1] <= f[sp + 1]
    BY <1>2, <2>2, Positions
  <2>4. Boundary(text, f[sp + 1]) /\ Boundary(text, g[sp + 1])
    BY <1>1, <1>2, <2>2
  <2>5. pi <= Len(pattern)
    BY <1>1 DEF n
  <2>6. \A j \in (sp + 1)..pi : f[j] <= g[j]
    BY ONLY <1>1, <1>2, <1>3, <2>1, <2>3, <2>4, <2>5, PathsInOrder
  <2>7. \A j \in (sp + 1)..pi : g[j] <= f[j]
    BY ONLY <1>1, <1>2, <1>3, <2>1, <2>3, <2>4, <2>5, PathsInOrder
  <2>8. f[pi] \in Int /\ g[pi] \in Int
    BY <1>2, <2>0, <2>1 DEF Path
  <2>9. e[pi] = ti
    BY <1>2, <2>0, <2>2, <2>6, <2>7, <2>8
  <2> QED
    BY <2>1, <2>2, <2>9 DEF Rest, n
<1> QED
  BY <1>4, <1>5 DEF Rest

\* From a later character, it leads to the position reached or a later one.
LEMMA TraceLeadsOn ==
  ASSUME IInv, Traced, star, NEW k \in st..Len(text), Boundary(text, k),
         Rest(text, pattern, k, sp + 1)
  PROVE  \E l \in ti..Len(text) : Rest(text, pattern, l, pi)
<1> DEFINE n == Len(pattern)
<1>1. /\ text \in Utf8 /\ pattern \in Utf8 /\ n \in Nat /\ sp + 1 \in Nat /\ pi \in Nat
      /\ sp + 1 <= pi /\ pi <= n /\ Boundary(text, st) /\ Boundary(pattern, sp + 1)
  BY Positions
<1>2. PICK f : Path(text, pattern, sp + 1, pi, f) /\ f[sp + 1] = st /\ f[pi] = ti
  BY DEF Traced
<1>3. Fixed(pattern, sp + 1, pi)
  BY DEF Traced
<1>5. PICK h : Path(text, pattern, sp + 1, n, h) /\ h[sp + 1] = k /\ h[n] = Len(text)
  BY DEF Rest
<1> DEFINE g == [j \in (sp + 1)..pi |-> h[j]]
           e == [j \in pi..n |-> h[j]]
<1>6. /\ sp + 1 \in (sp + 1)..n /\ pi \in (sp + 1)..n /\ n \in pi..n
      /\ sp + 1 \in (sp + 1)..pi /\ pi \in (sp + 1)..pi /\ pi \in pi..n
  BY <1>1
<1>7. Path(text, pattern, sp + 1, pi, g) /\ Path(text, pattern, pi, n, e)
  <2> HIDE DEF n
  <2> QED
    BY <1>1, <1>5, <1>6, PathPart
<1>8. g[sp + 1] = k /\ g[pi] = h[pi] /\ e[pi] = h[pi] /\ e[n] = Len(text)
  BY <1>5, <1>6
<1> HIDE DEF g, e, n
<1>9. f[sp + 1] <= g[sp + 1] /\ Boundary(text, f[sp + 1]) /\ Boundary(text, g[sp + 1])
  BY <1>1, <1>2, <1>8
<1>10. pi <= Len(pattern)
  BY <1>1 DEF n
<1>11. \A j \in (sp + 1)..pi : f[j] <= g[j]
  BY ONLY <1>1, <1>2, <1>3, <1>7, <1>9, <1>10, PathsInOrder
<1>12. g[pi] \in 0..Len(text) /\ ti <= g[pi]
  BY <1>2, <1>6, <1>7, <1>11 DEF Path
<1>13. g[pi] \in ti..Len(text)
  BY <1>12, Positions
<1>14. Rest(text, pattern, g[pi], pi)
  BY <1>7, <1>8 DEF Rest, n
<1> QED
  BY <1>13, <1>14

\* Without a next step, the rest of the text from here on does not match.
LEMMA StuckIsNoMatch ==
  ASSUME IInv, NoStep
  PROVE  ~Rest(text, pattern, ti, pi)
<1>1. /\ text \in Seq(Byte) /\ pattern \in Seq(Byte) /\ Len(text) \in Nat /\ Len(pattern) \in Nat
      /\ ti \in 0..(Len(text) - 1) /\ ti \in 0..Len(text) /\ pi \in 0..Len(pattern)
  BY Positions DEF NoStep, InText
<1>2. CASE pi = Len(pattern)
  BY <1>1, <1>2, RestEnds
<1>3. CASE pi # Len(pattern)
  <2>1. pi \in 0..(Len(pattern) - 1)
    BY <1>1, <1>3
  <2>2. pattern[pi + 1] \notin {AnyRun, AnyChar, text[ti + 1]}
    BY <1>1, <2>1 DEF NoStep, AtByte, SameByte
  <2>3. \A k : ~Takes(text, pattern[pi + 1], ti, k)
    BY <2>2 DEF Takes
  <2> QED
    BY <1>1, <2>1, <2>3, RestUnfolds
<1> QED
  BY <1>2, <1>3

\* `PassAnyRun`: the earlier `%` can be forgotten.
LEMMA RunForgets ==
  ASSUME IInv, Traced, PassAnyRun, star
  PROVE  Rest(text, pattern, st, sp) <=> Rest(text, pattern, ti, pi)
<1>1. /\ text \in Seq(Byte) /\ pattern \in Seq(Byte) /\ Len(text) \in Nat /\ Len(pattern) \in Nat
      /\ ti \in 0..Len(text) /\ st \in 0..Len(text)
      /\ pi \in 0..(Len(pattern) - 1) /\ pattern[pi + 1] = AnyRun
      /\ sp \in 0..(Len(pattern) - 1) /\ pattern[sp + 1] = AnyRun /\ Boundary(text, st)
  BY Positions DEF PassAnyRun, AtByte
<1>2. ASSUME Rest(text, pattern, st, sp)
      PROVE  Rest(text, pattern, ti, pi)
  <2>1. PICK k \in 0..Len(text) : st <= k /\ Boundary(text, k) /\ Rest(text, pattern, k, sp + 1)
    BY <1>1, <1>2, RunUnfolds
  <2>2. k \in st..Len(text)
    BY <1>1, <2>1
  <2>3. PICK l \in ti..Len(text) : Rest(text, pattern, l, pi)
    BY <2>1, <2>2, TraceLeadsOn
  <2>4. l \in 0..Len(text) /\ ti <= l
    BY <1>1
  <2>5. PICK h \in 0..Len(text) : l <= h /\ Boundary(text, h) /\ Rest(text, pattern, h, pi + 1)
    BY <1>1, <2>3, <2>4, RunUnfolds
  <2>6. ti <= h
    BY <1>1, <2>4, <2>5
  <2> QED
    BY <1>1, <2>5, <2>6, RunUnfolds
<1>3. ASSUME Rest(text, pattern, ti, pi)
      PROVE  Rest(text, pattern, st, sp)
  <2>1. Rest(text, pattern, st, sp + 1)
    BY <1>3, TraceLeads
  <2>2. st <= st
    BY <1>1
  <2> QED
    BY <1>1, <2>1, <2>2, RunUnfolds
<1> QED
  BY <1>2, <1>3

\* `Backtrack`: the `%` absorbs the character from which the rest does not match.
LEMMA AbsorbsOne ==
  ASSUME IInv, Traced, Backtrack
  PROVE  Rest(text, pattern, st, sp) <=> Rest(text, pattern, st + Width(text[st + 1]), sp)
<1> DEFINE next == st + Width(text[st + 1])
<1>1. /\ text \in Utf8 /\ text \in Seq(Byte) /\ pattern \in Seq(Byte)
      /\ Len(text) \in Nat /\ Len(pattern) \in Nat
      /\ st \in 0..Len(text) /\ ti \in 0..Len(text) /\ st <= ti /\ ti < Len(text)
      /\ sp \in 0..(Len(pattern) - 1) /\ pattern[sp + 1] = AnyRun /\ Boundary(text, st)
  BY Positions DEF Backtrack, NoStep, InText, IInv, TypeOK
<1>2. st \in 0..(Len(text) - 1) /\ text[st + 1] \notin Continuation
  BY <1>1 DEF Boundary
<1>3. Width(text[st + 1]) \in {1, 2} /\ next \in 0..Len(text) /\ Boundary(text, next)
  BY <1>1, <1>2, NextCharacter
<1>4. ~Rest(text, pattern, st, sp + 1)
  BY StuckIsNoMatch, TraceLeads DEF Backtrack
<1>5. ASSUME NEW k \in 0..Len(text), st <= k, Boundary(text, k), k # st
      PROVE  next <= k
  <2>1. CASE k = st + 1
    <3>1. Width(text[st + 1]) # 2
      <4>1. Width(text[st + 1]) = 2 => text[st + 2] \in Continuation
        BY <1>1, <1>2 DEF Utf8
      <4>2. ASSUME Width(text[st + 1]) = 2
            PROVE  FALSE
        <5>1. k \in 0..(Len(text) - 1) /\ st + 2 = k + 1
          BY <1>1, <1>3, <2>1, <4>2
        <5> QED
          BY <1>1, <1>5, <4>1, <4>2, <5>1 DEF Boundary
      <4> QED
        BY <4>2
    <3> QED
      BY <1>1, <1>3, <2>1, <3>1
  <2>2. CASE k # st + 1
    BY <1>1, <1>3, <1>5, <2>2
  <2> QED
    BY <2>1, <2>2
<1> HIDE DEF next
<1>6. st <= next
  BY <1>1, <1>3 DEF next
<1>7. \A k \in 0..Len(text) : Boundary(text, k) /\ Rest(text, pattern, k, sp + 1)
                              => (st <= k <=> next <= k)
  <2> SUFFICES ASSUME NEW k \in 0..Len(text), Boundary(text, k), Rest(text, pattern, k, sp + 1)
               PROVE  st <= k <=> next <= k
    OBVIOUS
  <2>1. k # st
    BY <1>4
  <2> QED
    BY <1>1, <1>3, <1>5, <1>6, <2>1
<1>8. Rest(text, pattern, st, sp) <=>
        \E k \in 0..Len(text) : st <= k /\ Boundary(text, k) /\ Rest(text, pattern, k, sp + 1)
  BY <1>1, RunUnfolds
<1>9. Rest(text, pattern, next, sp) <=>
        \E k \in 0..Len(text) : next <= k /\ Boundary(text, k) /\ Rest(text, pattern, k, sp + 1)
  BY <1>1, <1>3, RunUnfolds
<1>10. Rest(text, pattern, st, sp) <=> Rest(text, pattern, next, sp)
  BY <1>7, <1>8, <1>9
<1> QED
  BY <1>10 DEF next

\* A step over a character or a byte.
LEMMA PassingUnfolds ==
  ASSUME IInv, PassAnyChar \/ PassByte
  PROVE  /\ pi + 1 \in 0..Len(pattern) /\ pattern[pi + 1] # AnyRun
         /\ ti' \in 0..Len(text) /\ pi' = pi + 1
         /\ Takes(text, pattern[pi + 1], ti, ti')
         /\ Rest(text, pattern, ti, pi) <=> Rest(text, pattern, ti', pi + 1)
<1>1. /\ text \in Seq(Byte) /\ pattern \in Seq(Byte) /\ Len(text) \in Nat /\ Len(pattern) \in Nat
      /\ ti \in 0..(Len(text) - 1) /\ ti \in 0..Len(text)
      /\ pi \in 0..(Len(pattern) - 1) /\ pi' = pi + 1
      /\ text' = text
  BY Positions DEF PassAnyChar, PassByte, InText, AtByte, SameByte
<1>2. ti' \in 0..Len(text)
  BY <1>1, PassAnyCharStep, PassByteStep DEF IInv, TypeOK
<1>3. pattern[pi + 1] # AnyRun
  BY <1>1, LikeAssumption DEF PassAnyChar, PassByte, AtByte
<1>4. \A k : Takes(text, pattern[pi + 1], ti, k) <=> k = ti'
  <2>1. CASE PassAnyChar
    BY <1>1, <1>3, <2>1 DEF PassAnyChar, AtByte, Takes
  <2>2. CASE PassByte
    <3>1. pattern[pi + 1] = text[ti + 1] /\ ti' = ti + 1 /\ pattern[pi + 1] # AnyChar
      BY <1>1, <2>2 DEF PassByte, AtByte, SameByte
    <3> QED
      BY <1>1, <1>3, <3>1 DEF Takes
  <2> QED
    BY <2>1, <2>2
<1>5. Rest(text, pattern, ti, pi) <=> Rest(text, pattern, ti', pi + 1)
  <2>1. Rest(text, pattern, ti, pi) <=>
          \E k \in 0..Len(text) : Takes(text, pattern[pi + 1], ti, k) /\ Rest(text, pattern, k, pi + 1)
    BY <1>1, RestUnfolds
  <2> QED
    BY <1>2, <1>4, <2>1
<1>6. Takes(text, pattern[pi + 1], ti, ti')
  BY <1>4
<1> QED
  BY <1>1, <1>2, <1>3, <1>5, <1>6

LEMMA InitMInv == Init => MInv
<1> SUFFICES ASSUME Init PROVE MInv
  OBVIOUS
<1>1. IInv
  BY InitIInv
<1>2. Traced
  BY DEF Init, Traced
<1>3. Sound
  BY DEF Init, Sound
<1> QED
  BY <1>1, <1>2, <1>3 DEF MInv

LEMMA PassAnyRunSound == MInv /\ PassAnyRun => Traced' /\ Sound'
<1> SUFFICES ASSUME MInv, PassAnyRun PROVE Traced' /\ Sound'
  OBVIOUS
<1>1. IInv /\ Traced /\ Sound
  BY DEF MInv
<1>2. /\ text' = text /\ pattern' = pattern /\ ti' = ti /\ pc' = pc /\ pc = "scan"
      /\ star' = TRUE /\ sp' = pi /\ st' = ti /\ pi' = pi + 1
  BY DEF PassAnyRun, InText
<1>3. Traced'
  <2> DEFINE f == [j \in (pi + 1)..(pi + 1) |-> ti]
  <2>1. pi \in Nat /\ ti \in 0..Len(text)
    BY <1>1, Positions
  <2>2. Path(text, pattern, pi + 1, pi + 1, f) /\ f[pi + 1] = ti
    BY <2>1 DEF Path
  <2>3. Fixed(pattern, pi + 1, pi + 1)
    BY <2>1 DEF Fixed
  <2> HIDE DEF f
  <2> QED
    BY <1>2, <2>2, <2>3 DEF Traced
<1>4. Sound'
  <2>1. Rest(text, pattern, 0, 0) <=> Rest(text, pattern, ti, pi)
    BY <1>1, <1>2, RunForgets DEF Sound
  <2> QED
    BY <1>2, <2>1 DEF Sound
<1> QED
  BY <1>3, <1>4

LEMMA PassingSound == MInv /\ (PassAnyChar \/ PassByte) => Traced' /\ Sound'
<1> SUFFICES ASSUME MInv, PassAnyChar \/ PassByte PROVE Traced' /\ Sound'
  OBVIOUS
<1>1. IInv /\ Traced /\ Sound
  BY DEF MInv
<1>2. /\ text' = text /\ pattern' = pattern /\ pc' = pc /\ pc = "scan"
      /\ star' = star /\ sp' = sp /\ st' = st
  BY DEF PassAnyChar, PassByte, InText
<1>3. /\ pi + 1 \in 0..Len(pattern) /\ pattern[pi + 1] # AnyRun
      /\ ti' \in 0..Len(text) /\ pi' = pi + 1
      /\ Takes(text, pattern[pi + 1], ti, ti')
      /\ Rest(text, pattern, ti, pi) <=> Rest(text, pattern, ti', pi + 1)
  BY <1>1, PassingUnfolds
<1>4. Traced'
  <2> SUFFICES ASSUME star PROVE Traced'
    BY <1>2 DEF Traced
  <2>1. sp + 1 \in Nat /\ pi \in Nat /\ sp + 1 <= pi
    BY <1>1, Positions
  <2>2. Fixed(pattern, sp + 1, pi + 1)
    BY <1>1, <1>3, <2>1 DEF Traced, Fixed
  <2>3. PICK f : Path(text, pattern, sp + 1, pi, f) /\ f[sp + 1] = st /\ f[pi] = ti
    BY <1>1 DEF Traced
  <2>4. PICK g : /\ Path(text, pattern, sp + 1, pi + 1, g) /\ g[pi + 1] = ti'
                 /\ \A j \in (sp + 1)..pi : g[j] = f[j]
    <3>1. Takes(text, pattern[pi + 1], f[pi], ti') /\ ti' \in 0..Len(text)
      BY <1>3, <2>3
    <3> QED
      BY ONLY <2>1, <2>3, <3>1, PathGrows
  <2>5. g[sp + 1] = st
    BY <2>1, <2>3, <2>4
  <2> QED
    BY <1>2, <1>3, <2>2, <2>4, <2>5 DEF Traced
<1>5. Sound'
  BY <1>1, <1>2, <1>3 DEF Sound
<1> QED
  BY <1>4, <1>5

LEMMA BacktrackSound == MInv /\ Backtrack => Traced' /\ Sound'
<1> SUFFICES ASSUME MInv, Backtrack PROVE Traced' /\ Sound'
  OBVIOUS
<1>1. IInv /\ Traced /\ Sound
  BY DEF MInv
<1>2. /\ text' = text /\ pattern' = pattern /\ pc' = pc /\ pc = "scan" /\ star
      /\ star' = star /\ sp' = sp /\ st' = st + Width(text[st + 1]) /\ ti' = st' /\ pi' = sp + 1
  BY DEF Backtrack, NoStep, InText
<1>3. Traced'
  <2> DEFINE f == [j \in (sp + 1)..(sp + 1) |-> st']
  <2>1. sp + 1 \in Nat
    BY <1>1, <1>2, Positions
  <2>2. st' \in 0..Len(text)
    BY <1>1, <1>2, BacktrackStep DEF IInv, TypeOK
  <2>3. Path(text, pattern, sp + 1, sp + 1, f) /\ f[sp + 1] = st'
    BY <2>1, <2>2 DEF Path
  <2>4. Fixed(pattern, sp + 1, sp + 1)
    BY <2>1 DEF Fixed
  <2> HIDE DEF f
  <2> QED
    BY <1>2, <2>3, <2>4 DEF Traced
<1>4. Sound'
  <2>1. Rest(text, pattern, st, sp) <=> Rest(text, pattern, st', sp)
    BY <1>1, <1>2, AbsorbsOne
  <2> QED
    BY <1>1, <1>2, <2>1 DEF Sound
<1> QED
  BY <1>3, <1>4

LEMMA FailSound == MInv /\ Fail => Traced' /\ Sound'
<1> SUFFICES ASSUME MInv, Fail PROVE Traced' /\ Sound'
  OBVIOUS
<1>1. IInv /\ Traced /\ Sound
  BY DEF MInv
<1>2. /\ UNCHANGED <<text, pattern, loop>> /\ pc = "scan" /\ pc' = "done" /\ ~star /\ result' = FALSE
  BY DEF Fail, NoStep, InText
<1>3. ~Rest(text, pattern, 0, 0)
  BY <1>1, <1>2, StuckIsNoMatch DEF Fail, Sound
<1> QED
  BY <1>1, <1>2, <1>3 DEF Traced, Sound, loop

LEMMA FinishSound == MInv /\ Finish => Traced' /\ Sound'
<1> SUFFICES ASSUME MInv, Finish PROVE Traced' /\ Sound'
  OBVIOUS
<1>1. IInv /\ Traced /\ Sound
  BY DEF MInv
<1>2. /\ UNCHANGED <<text, pattern, loop>> /\ pc = "scan" /\ pc' = "done"
      /\ result' = \A i \in (pi + 1)..Len(pattern) : pattern[i] = AnyRun
  BY DEF Finish
<1>3. /\ text \in Seq(Byte) /\ pattern \in Seq(Byte) /\ Len(text) \in Nat
      /\ ti = Len(text) /\ pi \in 0..Len(pattern) /\ st \in 0..Len(text)
  BY <1>1, Positions DEF Finish
<1>4. result' <=> Rest(text, pattern, ti, pi)
  BY <1>2, <1>3, RestAtEnd
<1>5. ASSUME star
      PROVE  Rest(text, pattern, st, sp) <=> Rest(text, pattern, ti, pi)
  <2>0. sp \in 0..(Len(pattern) - 1) /\ pattern[sp + 1] = AnyRun /\ Boundary(text, st)
    BY <1>1, <1>5, Positions
  <2>1. Rest(text, pattern, st, sp) <=>
          \E k \in 0..Len(text) : st <= k /\ Boundary(text, k) /\ Rest(text, pattern, k, sp + 1)
    BY <1>3, <2>0, RunUnfolds
  <2>2. ASSUME NEW k \in 0..Len(text), st <= k, Boundary(text, k), Rest(text, pattern, k, sp + 1)
        PROVE  Rest(text, pattern, ti, pi)
    <3>1. k \in st..Len(text)
      BY <1>3, <2>2
    <3>2. PICK l \in ti..Len(text) : Rest(text, pattern, l, pi)
      BY <1>1, <1>5, <2>2, <3>1, TraceLeadsOn
    <3>3. l = ti
      BY <1>3
    <3> QED
      BY <3>2, <3>3
  <2>3. ASSUME Rest(text, pattern, ti, pi)
        PROVE  Rest(text, pattern, st, sp + 1) /\ st <= st
    BY <1>1, <1>3, <1>5, <2>3, TraceLeads
  <2> QED
    BY <1>3, <2>0, <2>1, <2>2, <2>3
<1>6. result' <=> Rest(text, pattern, 0, 0)
  BY <1>1, <1>2, <1>4, <1>5 DEF Sound
<1> QED
  BY <1>1, <1>2, <1>6 DEF Traced, Sound, loop

LEMMA MInvHolds == Spec => []MInv
<1>1. MInv /\ [Next]_vars => MInv'
  <2> SUFFICES ASSUME MInv, [Next]_vars PROVE MInv'
    OBVIOUS
  <2>1. IInv'
    BY PassAnyRunStep, PassAnyCharStep, PassByteStep, BacktrackStep, EndingStep
       DEF Next, Match, Done, MInv
  <2>2. ASSUME UNCHANGED vars PROVE Traced' /\ Sound'
    BY <2>2 DEF MInv, Traced, Sound, vars, loop
  <2>3. Traced' /\ Sound'
    BY <2>2, PassAnyRunSound, PassingSound, BacktrackSound, FailSound, FinishSound
       DEF Next, Match, Done, MInv
  <2> QED
    BY <2>1, <2>3 DEF MInv
<1> QED
  BY <1>1, InitMInv, PTL DEF Spec

\* LastRunSuffices: `like_match` remembers the last `%` only, and what is left to be matched
\* from it on decides the whole match, for all texts and patterns.
THEOREM LikeLastRunSuffices == Spec => []LastRunSuffices
<1>1. ASSUME MInv PROVE LastRunSuffices
  <2>1. IInv /\ Sound
    BY <1>1 DEF MInv
  <2>2. /\ text \in Seq(Byte) /\ pattern \in Seq(Byte) /\ ti \in 0..Len(text) /\ pi \in 0..Len(pattern)
        /\ st \in 0..Len(text) /\ 0 \in 0..Len(text) /\ 0 \in 0..Len(pattern)
        /\ star => sp \in 0..Len(pattern)
    BY <2>1, Positions
  <2>3. /\ MatchesFrom(ti, pi) <=> Rest(text, pattern, ti, pi)
        /\ MatchesFrom(0, 0) <=> Rest(text, pattern, 0, 0)
        /\ star => (MatchesFrom(st, sp) <=> Rest(text, pattern, st, sp))
    BY <2>2, MatchesFromIsRest
  <2>4. Matches(text, pattern) <=> MatchesFrom(0, 0)
    <3>1. Drop(pattern, 0) = pattern
      BY <2>2 DEF Drop
    <3> QED
      BY <3>1 DEF Matches, MatchesFrom
  <2>5. ASSUME pc = "scan"
        PROVE  Matches(text, pattern) <=> IF star THEN MatchesFrom(st, sp) ELSE MatchesFrom(ti, pi)
    BY <2>1, <2>3, <2>4, <2>5 DEF Sound
  <2>6. ASSUME pc = "scan", star
        PROVE  Matches(text, pattern) = MatchesFrom(st, sp)
    BY <2>5, <2>6 DEF Matches, MatchesFrom
  <2>7. ASSUME pc = "scan", ~star
        PROVE  Matches(text, pattern) = MatchesFrom(ti, pi)
    BY <2>5, <2>7 DEF Matches, MatchesFrom
  <2> QED
    BY <2>6, <2>7 DEF LastRunSuffices
<1> QED
  BY <1>1, MInvHolds, PTL

-----------------------------------------------------------------------------
\* The patterns that need no loop.

\* b is in s at `at`, byte by byte.
LEMMA PartByBytes ==
  ASSUME NEW s \in Seq(Byte), NEW b \in Seq(Byte), NEW at \in Nat
  PROVE  IsPart(b, s, at) <=> /\ at + Len(b) <= Len(s)
                              /\ \A t \in 1..Len(b) : s[at + t] = b[t]
<1> SUFFICES ASSUME at + Len(b) <= Len(s)
             PROVE  SubSeq(s, at + 1, at + Len(b)) = b <=> \A t \in 1..Len(b) : s[at + t] = b[t]
  BY DEF IsPart
<1> DEFINE part == SubSeq(s, at + 1, at + Len(b))
<1>1. /\ part \in Seq(Byte) /\ Len(part) = Len(b)
      /\ \A t \in 1..Len(b) : part[t] = s[at + t]
  <2>1. Len(b) \in Nat /\ Len(s) \in Nat
    OBVIOUS
  <2>2. part = [t \in 1..Len(b) |-> s[at + t]]
    BY <2>1
  <2>3. \A t \in 1..Len(b) : s[at + t] \in Byte
    BY <2>1
  <2> HIDE DEF part
  <2>4. Len(part) = Len(b) /\ part \in Seq(Byte)
    BY <2>1, <2>2, <2>3
  <2> QED
    BY <2>2, <2>4
<1> HIDE DEF part
<1>2. part = b <=> \A t \in 1..Len(b) : part[t] = b[t]
  BY <1>1, SeqEqual
<1> QED
  BY <1>1, <1>2 DEF part

\* A pattern's bytes that are no `%` and no `_` match themselves.
LEMMA LiteralUnfolds ==
  ASSUME NEW s \in Seq(Byte), NEW p \in Seq(Byte), NEW a \in 0..Len(s),
         NEW m \in 0..Len(p), NEW l \in m..Len(p),
         \A j \in (m + 1)..l : p[j] \notin {AnyRun, AnyChar}
  PROVE  Rest(s, p, a, m) <=> /\ a + (l - m) <= Len(s)
                              /\ \A t \in 1..(l - m) : s[a + t] = p[m + t]
                              /\ Rest(s, p, a + (l - m), l)
<1> DEFINE Upto(j) == /\ a + (j - m) <= Len(s)
                      /\ \A t \in 1..(j - m) : s[a + t] = p[m + t]
                      /\ Rest(s, p, a + (j - m), j)
           T == {j \in m..l : Rest(s, p, a, m) <=> Upto(j)}
<1>1. m \in T
  <2>1. a + (m - m) = a /\ a <= Len(s) /\ 1..(m - m) = {} /\ m \in m..l
    OBVIOUS
  <2> QED
    BY <2>1
<1>2. ASSUME NEW j \in m..(l - 1)
      PROVE  Upto(j) <=> Upto(j + 1)
  <2> DEFINE i == a + (j - m)
  <2>1. /\ j \in 0..(Len(p) - 1) /\ j + 1 \in (m + 1)..l /\ i \in Nat /\ Len(s) \in Nat
        /\ a + ((j + 1) - m) = i + 1 /\ (j + 1) - m = (j - m) + 1 /\ j - m \in Nat
        /\ m + ((j - m) + 1) = j + 1 /\ a + ((j - m) + 1) = i + 1
    OBVIOUS
  <2>2. p[j + 1] \notin {AnyRun, AnyChar}
    BY <2>1
  <2>3. ASSUME i <= Len(s)
        PROVE  Rest(s, p, i, j) <=> i < Len(s) /\ s[i + 1] = p[j + 1] /\ Rest(s, p, i + 1, j + 1)
    <3>1. i \in 0..Len(s)
      BY <2>1, <2>3
    <3>2. Rest(s, p, i, j) <=> \E k \in 0..Len(s) : Takes(s, p[j + 1], i, k) /\ Rest(s, p, k, j + 1)
      <4> HIDE DEF i
      <4> QED
        BY <2>1, <3>1, RestUnfolds
    <3>3. \A k : Takes(s, p[j + 1], i, k) <=> i < Len(s) /\ s[i + 1] = p[j + 1] /\ k = i + 1
      BY <2>2 DEF Takes
    <3>4. i < Len(s) => i + 1 \in 0..Len(s)
      BY <2>1
    <3> HIDE DEF i
    <3> QED
      BY <3>2, <3>3, <3>4
  <2>4. (\A t \in 1..((j - m) + 1) : s[a + t] = p[m + t])
          <=> (\A t \in 1..(j - m) : s[a + t] = p[m + t]) /\ s[i + 1] = p[j + 1]
    <3>1. 1..((j - m) + 1) = 1..(j - m) \cup {(j - m) + 1}
      BY <2>1
    <3> HIDE DEF i
    <3> QED
      BY <2>1, <3>1
  <2>5. i + 1 <= Len(s) <=> i < Len(s)
    BY <2>1
  <2>6. i < Len(s) => i <= Len(s)
    BY <2>1
  <2>7. Upto(j) <=> i <= Len(s) /\ (\A t \in 1..(j - m) : s[a + t] = p[m + t]) /\ Rest(s, p, i, j)
    OBVIOUS
  <2>8. Upto(j + 1) <=> /\ i + 1 <= Len(s)
                        /\ \A t \in 1..((j - m) + 1) : s[a + t] = p[m + t]
                        /\ Rest(s, p, i + 1, j + 1)
    BY <2>1
  <2> HIDE DEF i, Upto
  <2> QED
    BY <2>3, <2>4, <2>5, <2>6, <2>7, <2>8
<1>3. Inductive(T, m, l)
  <2> HIDE DEF Upto
  <2>1. \A j \in m..(l - 1) : j \in m..l /\ j + 1 \in m..l
    OBVIOUS
  <2> QED
    BY <1>2, <2>1 DEF Inductive
<1> HIDE DEF T
<1>4. l \in T
  <2>1. m \in Int /\ l \in Int /\ l \in m..l
    OBVIOUS
  <2> QED
    BY <1>1, <1>3, <2>1, IntervalInduction
<1> QED
  BY <1>4 DEF T

\* `%`s at the end of a pattern take what is left of the text.
LEMMA RunsAtEnd ==
  ASSUME NEW s \in Seq(Byte), NEW p \in Seq(Byte), NEW i \in 0..Len(s), NEW j \in 0..(Len(p) - 1),
         \A m \in (j + 1)..Len(p) : p[m] = AnyRun
  PROVE  Rest(s, p, i, j)
<1>1. p[j + 1] = AnyRun /\ j + 1 \in 0..Len(p) /\ Len(s) \in 0..Len(s) /\ i <= Len(s)
      /\ \A m \in ((j + 1) + 1)..Len(p) : p[m] = AnyRun
  OBVIOUS
<1>2. Rest(s, p, Len(s), j + 1)
  BY <1>1, RestAtEnd
<1>3. Boundary(s, Len(s))
  BY DEF Boundary
<1> QED
  BY <1>1, <1>2, <1>3, RunUnfolds

\* `%`s at the beginning of a pattern lead to every character.
LEMMA RunsAtStart ==
  ASSUME NEW s \in Utf8, NEW p \in Seq(Byte), NEW l \in 1..Len(p),
         \A m \in 1..l : p[m] = AnyRun
  PROVE  Rest(s, p, 0, 0) <=> \E a \in 0..Len(s) : Boundary(s, a) /\ Rest(s, p, a, l)
<1> DEFINE From(j) == \E a \in 0..Len(s) : Boundary(s, a) /\ Rest(s, p, a, j)
           T == {j \in 1..l : Rest(s, p, 0, 0) <=> From(j)}
<1>1. s \in Seq(Byte) /\ Len(s) \in Nat /\ l \in Nat /\ Len(p) \in Nat /\ l <= Len(p)
  BY DEF Utf8
<1>2. 1 \in T
  <2>1. 0 \in 0..Len(s) /\ 0 \in 0..(Len(p) - 1) /\ p[0 + 1] = AnyRun /\ 1 \in 1..l /\ 0 + 1 = 1
    BY <1>1
  <2>2. Rest(s, p, 0, 0) <=> \E a \in 0..Len(s) : 0 <= a /\ Boundary(s, a) /\ Rest(s, p, a, 0 + 1)
    BY <1>1, <2>1, RunUnfolds
  <2> QED
    BY <1>1, <2>1, <2>2
<1>3. ASSUME NEW j \in 1..(l - 1)
      PROVE  From(j) <=> From(j + 1)
  <2>1. j \in 0..(Len(p) - 1) /\ p[j + 1] = AnyRun
    BY <1>1
  <2>2. \A a \in 0..Len(s) :
          Rest(s, p, a, j) <=> \E k \in 0..Len(s) : a <= k /\ Boundary(s, k) /\ Rest(s, p, k, j + 1)
    BY <1>1, <2>1, RunUnfolds
  <2>3. \A a \in 0..Len(s) : a <= a
    BY <1>1
  <2> QED
    BY <2>2, <2>3
<1>4. Inductive(T, 1, l)
  <2> HIDE DEF From
  <2>1. \A j \in 1..(l - 1) : j \in 1..l /\ j + 1 \in 1..l
    BY <1>1
  <2> QED
    BY <1>3, <2>1 DEF Inductive
<1> HIDE DEF T
<1>5. l \in T
  BY <1>1, <1>2, <1>4, IntervalInduction
<1> QED
  BY <1>5 DEF T

\* Nothing but `%`: `trim_matches` leaves nothing.
LEMMA TrimmedEmpty ==
  ASSUME NEW p \in Seq(Byte), \A j \in 1..Len(p) : p[j] = AnyRun
  PROVE  Trimmed(p) = <<>>
<1>1. {j \in 1..Len(p) : p[j] # AnyRun} = {}
  OBVIOUS
<1> QED
  BY <1>1 DEF Trimmed

\* Otherwise it leaves the bytes from the first one that is no `%` to the last.
LEMMA TrimmedBody ==
  ASSUME NEW p \in Seq(Byte), NEW one \in 1..Len(p), p[one] # AnyRun
  PROVE  \E lo \in 1..Len(p), hi \in 1..Len(p) :
            /\ lo <= hi /\ Trimmed(p) = SubSeq(p, lo, hi)
            /\ p[lo] # AnyRun /\ p[hi] # AnyRun
            /\ \A j \in 1..(lo - 1) : p[j] = AnyRun
            /\ \A j \in (hi + 1)..Len(p) : p[j] = AnyRun
<1> DEFINE kept == {j \in 1..Len(p) : p[j] # AnyRun}
           lo == CHOOSE i \in kept : \A k \in kept : i <= k
           hi == CHOOSE i \in kept : \A k \in kept : k <= i
           below == {Len(p) - j : j \in kept}
<1>1. kept \in SUBSET Nat /\ kept # {} /\ Len(p) \in Nat
  OBVIOUS
<1>2. below \in SUBSET Nat /\ below # {}
  BY <1>1
<1>3. \E i \in kept : \A k \in kept : i <= k
  <2> HIDE DEF kept
  <2> QED
    BY <1>1, LeastNatural
<1>4. \E i \in kept : \A k \in kept : k <= i
  <2>1. PICK d \in below : \A e \in below : d <= e
    <3> HIDE DEF below
    <3> QED
      BY <1>2, LeastNatural
  <2>2. PICK i \in kept : d = Len(p) - i
    BY <2>1
  <2>3. ASSUME NEW k \in kept
        PROVE  k <= i
    <3>1. Len(p) - k \in below
      OBVIOUS
    <3>2. Len(p) - i <= Len(p) - k
      BY <2>1, <2>2, <3>1
    <3>3. i \in Nat /\ k \in Nat
      BY <1>1
    <3> HIDE DEF kept, below
    <3> QED
      BY <1>1, <3>2, <3>3
  <2> QED
    BY <2>3
<1>5. lo \in kept /\ \A k \in kept : lo <= k
  <2> HIDE DEF kept
  <2> QED
    BY <1>3
<1>6. hi \in kept /\ \A k \in kept : k <= hi
  <2> HIDE DEF kept
  <2> QED
    BY <1>4
<1>7. Trimmed(p) = SubSeq(p, lo, hi)
  BY <1>1 DEF Trimmed
<1> HIDE DEF lo, hi
<1>8. /\ lo \in 1..Len(p) /\ hi \in 1..Len(p) /\ lo <= hi /\ p[lo] # AnyRun /\ p[hi] # AnyRun
  BY <1>5, <1>6
<1>9. \A j \in 1..(lo - 1) : p[j] = AnyRun
  BY <1>1, <1>5, <1>8
<1>10. \A j \in (hi + 1)..Len(p) : p[j] = AnyRun
  BY <1>1, <1>6, <1>8
<1> QED
  BY <1>7, <1>8, <1>9, <1>10

\* What is left of a pattern p without its outer `%`s: p[lo..hi], with bytes that match themselves.
Plain(p, lo, hi) ==
  /\ lo \in 1..Len(p) /\ hi \in 1..Len(p) /\ lo <= hi
  /\ Trimmed(p) = SubSeq(p, lo, hi)
  /\ \A j \in lo..hi : p[j] \notin {AnyRun, AnyChar}
  /\ \A j \in 1..(lo - 1) : p[j] = AnyRun
  /\ \A j \in (hi + 1)..Len(p) : p[j] = AnyRun

\* The bytes of p[lo..hi].
LEMMA BodyBytes ==
  ASSUME NEW p \in Seq(Byte), NEW lo \in 1..Len(p), NEW hi \in 1..Len(p), lo <= hi
  PROVE  /\ SubSeq(p, lo, hi) \in Seq(Byte)
         /\ Len(SubSeq(p, lo, hi)) = (hi - lo) + 1
         /\ \A t \in 1..((hi - lo) + 1) : SubSeq(p, lo, hi)[t] = p[(lo - 1) + t]
<1> DEFINE n == (hi - lo) + 1
           body == SubSeq(p, lo, hi)
<1>1. n \in Nat /\ Len(p) \in Nat /\ lo \in Nat
  OBVIOUS
<1>2. body = [t \in 1..n |-> p[(lo - 1) + t]]
  OBVIOUS
<1>3. \A t \in 1..n : p[(lo - 1) + t] \in Byte
  <2> \A t \in 1..n : (lo - 1) + t \in 1..Len(p)
    OBVIOUS
  <2> QED
    OBVIOUS
<1> HIDE DEF n, body
<1>4. body \in Seq(Byte) /\ Len(body) = n
  BY <1>1, <1>2, <1>3
<1>5. \A t \in 1..n : body[t] = p[(lo - 1) + t]
  BY <1>2
<1> QED
  BY <1>4, <1>5 DEF n, body

\* A plain pattern's kind says on which sides it is open.
LEMMA PlainKind ==
  ASSUME NEW p \in Seq(Byte), NEW lo, NEW hi, Plain(p, lo, hi)
  PROVE  Kind(p) = IF lo > 1 THEN IF hi < Len(p) THEN "Contains" ELSE "Suffix"
                   ELSE IF hi < Len(p) THEN "Prefix" ELSE "Exact"
<1>1. /\ lo \in 1..Len(p) /\ hi \in 1..Len(p) /\ lo <= hi /\ Trimmed(p) = SubSeq(p, lo, hi)
      /\ \A j \in lo..hi : p[j] \notin {AnyRun, AnyChar}
      /\ \A j \in 1..(lo - 1) : p[j] = AnyRun
      /\ \A j \in (hi + 1)..Len(p) : p[j] = AnyRun
  BY DEF Plain
<1>2. ~\E t \in DOMAIN Trimmed(p) : Trimmed(p)[t] \in {AnyRun, AnyChar}
  <2> DEFINE body == SubSeq(p, lo, hi)
  <2>1. /\ body \in Seq(Byte) /\ Len(body) = (hi - lo) + 1
        /\ \A t \in 1..((hi - lo) + 1) : body[t] = p[(lo - 1) + t]
    BY <1>1, BodyBytes
  <2> HIDE DEF body
  <2>2. DOMAIN body = 1..((hi - lo) + 1)
    BY <2>1
  <2>3. \A t \in 1..((hi - lo) + 1) : (lo - 1) + t \in lo..hi
    BY <1>1
  <2>4. \A t \in DOMAIN body : body[t] \notin {AnyRun, AnyChar}
    BY <1>1, <2>1, <2>2, <2>3
  <2>5. Trimmed(p) = body
    BY <1>1 DEF body
  <2> QED
    BY <2>4, <2>5
<1>3. p # <<>> /\ Len(p) \in Nat
  BY <1>1
<1>4. p[1] = AnyRun <=> lo > 1
  <2>1. lo > 1 => 1 \in 1..(lo - 1)
    BY <1>1
  <2>2. ~(lo > 1) => lo = 1 /\ 1 \in lo..hi
    BY <1>1
  <2> QED
    BY <1>1, <2>1, <2>2
<1>5. p[Len(p)] = AnyRun <=> hi < Len(p)
  <2>1. hi < Len(p) => Len(p) \in (hi + 1)..Len(p)
    BY <1>1
  <2>2. ~(hi < Len(p)) => hi = Len(p) /\ Len(p) \in lo..hi
    BY <1>1
  <2> QED
    BY <1>1, <2>1, <2>2
<1> QED
  BY <1>2, <1>3, <1>4, <1>5 DEF Kind, StartsOpen, EndsOpen

\* Where a plain pattern's bytes are in the text decides its match.
LEMMA PlainMatch ==
  ASSUME NEW s \in Utf8, NEW p \in Utf8, NEW lo, NEW hi, Plain(p, lo, hi)
  PROVE  Rest(s, p, 0, 0) <=>
           \E a \in 0..Len(s) : /\ IsPart(Trimmed(p), s, a)
                                /\ lo = 1 => a = 0
                                /\ hi = Len(p) => a + Len(Trimmed(p)) = Len(s)
<1> DEFINE body == Trimmed(p)
           n == Len(p)
           A == lo - 1
<1>1. /\ lo \in 1..n /\ hi \in 1..n /\ lo <= hi /\ body = SubSeq(p, lo, hi)
      /\ \A j \in lo..hi : p[j] \notin {AnyRun, AnyChar}
      /\ \A j \in 1..A : p[j] = AnyRun
      /\ \A j \in (hi + 1)..n : p[j] = AnyRun
  BY DEF Plain
<1>2. s \in Seq(Byte) /\ p \in Seq(Byte) /\ Len(s) \in Nat /\ n \in Nat
  BY DEF Utf8
<1>3. body \in Seq(Byte) /\ Len(body) = hi - A /\ \A t \in 1..(hi - A) : body[t] = p[A + t]
  <2>1. (hi - lo) + 1 = hi - A
    BY <1>1, <1>2
  <2> HIDE DEF body
  <2> QED
    BY <1>1, <1>2, <2>1, BodyBytes
<1>4. A \in 0..n /\ hi \in A..n /\ A + 1 = lo /\ hi - A \in Nat /\ hi - A > 0
  BY <1>1, <1>2
<1> HIDE DEF body, A, n
<1>5. ASSUME NEW a \in 0..Len(s)
      PROVE  Rest(s, p, a, A) <=> IsPart(body, s, a) /\ Rest(s, p, a + Len(body), hi)
  <2>1. Rest(s, p, a, A) <=> /\ a + (hi - A) <= Len(s)
                             /\ \A t \in 1..(hi - A) : s[a + t] = p[A + t]
                             /\ Rest(s, p, a + (hi - A), hi)
    <3>1. A \in 0..Len(p) /\ hi \in A..Len(p) /\ \A j \in (A + 1)..hi : p[j] \notin {AnyRun, AnyChar}
      BY <1>1, <1>4 DEF n
    <3> QED
      BY ONLY <1>2, <3>1, LiteralUnfolds, a \in 0..Len(s)
  <2>2. IsPart(body, s, a) <=> /\ a + Len(body) <= Len(s)
                               /\ \A t \in 1..Len(body) : s[a + t] = body[t]
    <3>1. body \in Seq(Byte) /\ a \in Nat
      BY <1>2, <1>3
    <3> QED
      BY ONLY <1>2, <3>1, PartByBytes
  <2> QED
    BY <1>3, <2>1, <2>2
<1>6. ASSUME NEW a \in 0..Len(s), IsPart(body, s, a)
      PROVE  Rest(s, p, a + Len(body), hi) <=> (hi = n => a + Len(body) = Len(s))
  <2>1. a + Len(body) \in 0..Len(s)
    BY <1>2, <1>3, <1>4, <1>6 DEF IsPart
  <2>2. CASE hi = n
    BY <1>2, <2>1, <2>2, RestEnds DEF n
  <2>3. CASE hi # n
    <3>1. hi \in 0..(n - 1)
      BY <1>1, <1>2, <2>3
    <3> QED
      BY <1>1, <1>2, <2>1, <2>3, <3>1, RunsAtEnd DEF n
  <2> QED
    BY <2>2, <2>3
<1>7. \A a \in 0..Len(s) :
        Rest(s, p, a, A) <=> IsPart(body, s, a) /\ (hi = n => a + Len(body) = Len(s))
  BY <1>5, <1>6
<1>8. CASE lo = 1
  <2>1. A = 0 /\ 0 \in 0..Len(s)
    BY <1>2, <1>8 DEF A
  <2> QED
    BY <1>7, <1>8, <2>1 DEF n, body
<1>9. CASE lo # 1
  <2>1. A \in 1..n
    BY <1>1, <1>2, <1>4, <1>9
  <2>2. Rest(s, p, 0, 0) <=> \E a \in 0..Len(s) : Boundary(s, a) /\ Rest(s, p, a, A)
    BY <1>1, <1>2, <2>1, RunsAtStart DEF n
  <2>3. ASSUME NEW a \in 0..Len(s), IsPart(body, s, a)
        PROVE  Boundary(s, a)
    <3>1. a + Len(body) <= Len(s) /\ \A t \in 1..Len(body) : s[a + t] = body[t]
      BY <1>2, <1>3, <2>3, PartByBytes
    <3>2. 1 \in 1..(hi - A) /\ a \in 0..(Len(s) - 1)
      BY <1>2, <1>3, <1>4, <3>1
    <3>3. s[a + 1] = p[lo]
      BY <1>3, <1>4, <3>1, <3>2
    <3>4. p[A] = AnyRun
      BY <1>1, <2>1, <1>2
    <3>5. Boundary(p, A)
      <4>1. A - 1 \in 0..(Len(p) - 1) /\ p[(A - 1) + 1] \in Single /\ (A - 1) + 1 = A
        BY <1>2, <2>1, <3>4, LikeAssumption DEF n
      <4> QED
        BY <4>1, BehindSingle
    <3>6. p[lo] \notin Continuation
      <4>1. A # Len(p) /\ p[A + 1] = p[lo]
        BY <1>1, <1>2, <1>4 DEF n
      <4> QED
        BY <3>5, <4>1 DEF Boundary
    <3> QED
      BY <3>2, <3>3, <3>6 DEF Boundary
  <2> QED
    BY <1>7, <1>9, <2>2, <2>3 DEF n, body
<1> QED
  BY <1>8, <1>9

\* A text is a sequence of bytes just when it holds them from the start to the end.
LEMMA WholeIsPart ==
  ASSUME NEW s \in Seq(Byte), NEW b \in Seq(Byte)
  PROVE  s = b <=> IsPart(b, s, 0) /\ Len(b) = Len(s)
<1>1. IsPart(b, s, 0) <=> 0 + Len(b) <= Len(s) /\ \A t \in 1..Len(b) : s[0 + t] = b[t]
  BY PartByBytes
<1>2. Len(b) \in Nat /\ Len(s) \in Nat /\ \A t \in 1..Len(b) : 0 + t = t
  OBVIOUS
<1>3. s = b <=> Len(s) = Len(b) /\ \A t \in 1..Len(b) : s[t] = b[t]
  BY SeqEqual
<1> QED
  BY <1>1, <1>2, <1>3

\* The patterns that need no loop.
LEMMA PlainAnswers ==
  ASSUME NEW s \in Utf8, NEW p \in Utf8, NEW lo, NEW hi, Plain(p, lo, hi), NEW general
  PROVE  LikeMatches(Kind(p), s, p, general) <=> Rest(s, p, 0, 0)
<1> DEFINE body == Trimmed(p)
           n == Len(p)
<1>1. /\ lo \in 1..n /\ hi \in 1..n /\ lo <= hi /\ body = SubSeq(p, lo, hi)
  BY DEF Plain
<1>2. s \in Seq(Byte) /\ p \in Seq(Byte) /\ Len(s) \in Nat /\ n \in Nat
  BY DEF Utf8
<1>3. body \in Seq(Byte) /\ Len(body) \in Nat
  <2> HIDE DEF body
  <2>1. body \in Seq(Byte)
    BY <1>1, <1>2, BodyBytes
  <2> QED
    BY <2>1
<1>4. Rest(s, p, 0, 0) <=> \E a \in 0..Len(s) : /\ IsPart(body, s, a)
                                                /\ lo = 1 => a = 0
                                                /\ hi = n => a + Len(body) = Len(s)
  BY PlainMatch
<1>5. Kind(p) = IF lo > 1 THEN IF hi < n THEN "Contains" ELSE "Suffix"
                ELSE IF hi < n THEN "Prefix" ELSE "Exact"
  BY <1>2, PlainKind
<1>6. 0 \in 0..Len(s)
  BY <1>2
<1> HIDE DEF body, n
<1>7. CASE lo > 1 /\ hi < n
  <2>1. lo # 1 /\ hi # n /\ Kind(p) = "Contains"
    BY <1>1, <1>2, <1>5, <1>7
  <2>2. LikeMatches("Contains", s, p, general) <=> \E at \in 0..Len(s) : IsPart(body, s, at)
    BY DEF LikeMatches, body
  <2> QED
    BY <1>4, <2>1, <2>2
<1>8. CASE lo > 1 /\ ~(hi < n)
  <2>1. lo # 1 /\ hi = n /\ Kind(p) = "Suffix"
    BY <1>1, <1>2, <1>5, <1>8
  <2>2. LikeMatches("Suffix", s, p, general) <=>
          Len(body) <= Len(s) /\ IsPart(body, s, Len(s) - Len(body))
    BY DEF LikeMatches, body
  <2>3. \A a \in 0..Len(s) : a + Len(body) = Len(s) <=> Len(body) <= Len(s) /\ a = Len(s) - Len(body)
    BY <1>2, <1>3
  <2>4. Len(body) <= Len(s) => Len(s) - Len(body) \in 0..Len(s)
    BY <1>2, <1>3
  <2> QED
    BY <1>4, <2>1, <2>2, <2>3, <2>4
<1>9. CASE ~(lo > 1) /\ hi < n
  <2>1. lo = 1 /\ hi # n /\ Kind(p) = "Prefix"
    BY <1>1, <1>2, <1>5, <1>9
  <2>2. LikeMatches("Prefix", s, p, general) <=> IsPart(body, s, 0)
    BY DEF LikeMatches, body
  <2> QED
    BY <1>4, <1>6, <2>1, <2>2
<1>10. CASE ~(lo > 1) /\ ~(hi < n)
  <2>1. lo = 1 /\ hi = n /\ Kind(p) = "Exact"
    BY <1>1, <1>2, <1>5, <1>10
  <2>2. LikeMatches("Exact", s, p, general) <=> s = body
    BY DEF LikeMatches, body
  <2>3. s = body <=> IsPart(body, s, 0) /\ Len(body) = Len(s)
    BY <1>2, <1>3, WholeIsPart
  <2>4. 0 + Len(body) = Len(s) <=> Len(body) = Len(s)
    BY <1>3
  <2> QED
    BY <1>4, <1>6, <2>1, <2>2, <2>3, <2>4
<1> QED
  BY <1>7, <1>8, <1>9, <1>10

\* A pattern of `%`s alone, or of nothing.
LEMMA OnlyRuns ==
  ASSUME NEW s \in Utf8, NEW p \in Utf8, \A j \in 1..Len(p) : p[j] = AnyRun, NEW general
  PROVE  LikeMatches(Kind(p), s, p, general) <=> Rest(s, p, 0, 0)
<1>1. s \in Seq(Byte) /\ p \in Seq(Byte) /\ Len(s) \in Nat /\ Len(p) \in Nat /\ 0 \in 0..Len(s)
  BY DEF Utf8
<1>2. Trimmed(p) = <<>>
  BY <1>1, TrimmedEmpty
<1>3. ~\E t \in DOMAIN Trimmed(p) : Trimmed(p)[t] \in {AnyRun, AnyChar}
  BY <1>2
<1>4. CASE p = <<>>
  <2>1. Kind(p) = "Exact"
    BY <1>3, <1>4 DEF Kind, StartsOpen, EndsOpen
  <2>2. Len(p) = 0
    BY <1>4
  <2>3. Rest(s, p, 0, 0) <=> 0 = Len(s)
    BY <1>1, <2>2, RestEnds
  <2>4. LikeMatches("Exact", s, p, general) <=> s = <<>>
    BY <1>2 DEF LikeMatches
  <2>5. s = <<>> <=> Len(s) = 0
    BY <1>1
  <2> QED
    BY <2>1, <2>3, <2>4, <2>5
<1>5. CASE p # <<>>
  <2>1. Len(p) > 0 /\ 1 \in 1..Len(p) /\ Len(p) \in 1..Len(p) /\ 0 \in 0..(Len(p) - 1)
    BY <1>1, <1>5
  <2>2. Kind(p) = "Contains"
    BY <1>3, <1>5, <2>1 DEF Kind, StartsOpen, EndsOpen
  <2>3. Rest(s, p, 0, 0)
    BY <1>1, <2>1, RunsAtEnd
  <2>4. LikeMatches("Contains", s, p, general) <=> \E at \in 0..Len(s) : IsPart(<<>>, s, at)
    BY <1>2 DEF LikeMatches
  <2>5. IsPart(<<>>, s, 0)
    <3>1. <<>> \in Seq(Byte) /\ Len(<<>>) = 0 /\ 0 + 0 <= Len(s) /\ 1..0 = {}
      BY <1>1
    <3> QED
      BY <1>1, <3>1, PartByBytes
  <2> QED
    BY <1>1, <2>2, <2>3, <2>4, <2>5
<1> QED
  BY <1>4, <1>5

\* `like_matches` answers what the pattern means.
LEMMA KindAnswers ==
  ASSUME NEW s \in Utf8, NEW p \in Utf8, NEW general, general <=> Rest(s, p, 0, 0)
  PROVE  LikeMatches(Kind(p), s, p, general) <=> Rest(s, p, 0, 0)
<1>1. s \in Seq(Byte) /\ p \in Seq(Byte) /\ Len(p) \in Nat
  BY DEF Utf8
<1>2. CASE \A j \in 1..Len(p) : p[j] = AnyRun
  BY <1>2, OnlyRuns
<1>3. CASE \E t \in DOMAIN Trimmed(p) : Trimmed(p)[t] \in {AnyRun, AnyChar}
  <2>1. Kind(p) = "General"
    BY <1>3 DEF Kind
  <2>2. LikeMatches("General", s, p, general) <=> general
    BY DEF LikeMatches
  <2> QED
    BY <2>1, <2>2
<1>4. CASE /\ ~\A j \in 1..Len(p) : p[j] = AnyRun
           /\ ~\E t \in DOMAIN Trimmed(p) : Trimmed(p)[t] \in {AnyRun, AnyChar}
  <2>1. PICK one \in 1..Len(p) : p[one] # AnyRun
    BY <1>4
  <2>2. PICK lo \in 1..Len(p), hi \in 1..Len(p) :
            /\ lo <= hi /\ Trimmed(p) = SubSeq(p, lo, hi)
            /\ p[lo] # AnyRun /\ p[hi] # AnyRun
            /\ \A j \in 1..(lo - 1) : p[j] = AnyRun
            /\ \A j \in (hi + 1)..Len(p) : p[j] = AnyRun
    BY <1>1, <2>1, TrimmedBody
  <2>3. ASSUME NEW j \in lo..hi
        PROVE  p[j] \notin {AnyRun, AnyChar}
    <3> DEFINE body == SubSeq(p, lo, hi)
               t == j - (lo - 1)
    <3>1. /\ body \in Seq(Byte) /\ Len(body) = (hi - lo) + 1
          /\ \A i \in 1..((hi - lo) + 1) : body[i] = p[(lo - 1) + i]
      BY <1>1, <2>2, BodyBytes
    <3>2. t \in 1..((hi - lo) + 1) /\ (lo - 1) + t = j
      BY <1>1
    <3> HIDE DEF body, t
    <3>3. t \in DOMAIN body /\ body[t] = p[j]
      BY <3>1, <3>2
    <3>4. Trimmed(p) = body
      BY <2>2 DEF body
    <3> QED
      BY <1>4, <3>3, <3>4
  <2>4. Plain(p, lo, hi)
    BY <2>2, <2>3 DEF Plain
  <2> QED
    BY <2>4, PlainAnswers
<1> QED
  BY <1>2, <1>3, <1>4

\* AnswersAgree: `like_match` returns what the pattern means, and `like_matches` returns the
\* same for every kind of pattern, for all texts and patterns.
THEOREM LikeAnswersAgree == Spec => []AnswersAgree
<1>1. ASSUME MInv PROVE AnswersAgree
  <2> SUFFICES ASSUME pc = "done"
               PROVE  /\ result = Matches(text, pattern)
                      /\ LikeMatches(Kind(pattern), text, pattern, result) = result
    BY DEF AnswersAgree
  <2>1. IInv /\ (result <=> Rest(text, pattern, 0, 0))
    BY <1>1 DEF MInv, Sound
  <2>2. /\ text \in Utf8 /\ pattern \in Utf8 /\ text \in Seq(Byte) /\ pattern \in Seq(Byte)
        /\ 0 \in 0..Len(text) /\ 0 \in 0..Len(pattern)
    BY <2>1, Positions
  <2>3. result \in BOOLEAN
    BY <2>1 DEF IInv, TypeOK
  <2>4. Matches(text, pattern) <=> Rest(text, pattern, 0, 0)
    <3>1. Drop(pattern, 0) = pattern
      BY <2>2 DEF Drop
    <3>2. MatchesFrom(0, 0) <=> Rest(text, pattern, 0, 0)
      BY <2>2, MatchesFromIsRest
    <3> QED
      BY <3>1, <3>2 DEF Matches, MatchesFrom
  <2>5. result = Matches(text, pattern)
    <3>1. result <=> Matches(text, pattern)
      BY <2>1, <2>4
    <3> QED
      BY <2>3, <3>1 DEF Matches
  <2>6. LikeMatches(Kind(pattern), text, pattern, result) <=> result
    BY <2>1, <2>2, KindAnswers
  <2>7. LikeMatches(Kind(pattern), text, pattern, result) \in BOOLEAN
    <3>1. Kind(pattern) \in {"Exact", "Prefix", "Suffix", "Contains", "General"}
      BY DEF Kind
    <3> QED
      BY <2>3, <3>1 DEF LikeMatches, IsPart
  <2> HIDE DEF vars
  <2> QED
    BY <2>3, <2>5, <2>6, <2>7
<1> QED
  BY <1>1, MInvHolds, PTL
=============================================================================
