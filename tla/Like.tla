-------------------------------- MODULE Like --------------------------------
(***************************************************************************)
(* LIKE on UTF-8 bytes (tpt-strata/src/engine.rs).                         *)
(*                                                                         *)
(* `like_match` is one loop over the bytes of a text and a pattern that    *)
(* remembers only the last `%` it has passed; one action per branch of the *)
(* loop.  `like_kind` sorts out the patterns that need no loop.  The       *)
(* meaning both must have is `Matches`: a `_` stands for one character and *)
(* a `%` for any run of characters, wherever they stand in the pattern.    *)
(*                                                                         *)
(* A text is a sequence of bytes of three sorts: a character of one byte,  *)
(* the lead of a character of two, and a continuation byte.                *)
(***************************************************************************)
EXTENDS Integers, Sequences

CONSTANTS
  Single,        \* bytes below 0x80
  Lead,          \* bytes 0xC0..0xDF
  Continuation,  \* bytes 0x80..0xBF
  AnyRun,        \* the byte of `%`
  AnyChar,       \* the byte of `_`
  Texts,         \* the texts that are matched
  Patterns       \* the patterns they are matched against

Byte == Single \cup Lead \cup Continuation

\* The characters of two bytes stand for all the longer ones.  The last arm of
\* the code's `match` gives 4, which is what a continuation byte would get.
Width(b) == IF b \in Single THEN 1 ELSE IF b \in Lead THEN 2 ELSE 4

\* Byte i of s, from 0, begins a character, or s ends there.
Boundary(s, i) == i = Len(s) \/ (i \in 0..(Len(s) - 1) /\ s[i + 1] \notin Continuation)

\* `&str` is always valid UTF-8.
Utf8 == {s \in Seq(Byte) :
           /\ Boundary(s, 0)
           /\ \A i \in 0..(Len(s) - 1) :
                s[i + 1] \notin Continuation =>
                  /\ i + Width(s[i + 1]) <= Len(s)
                  /\ Boundary(s, i + Width(s[i + 1]))
                  /\ Width(s[i + 1]) = 2 => s[i + 2] \in Continuation}

ASSUME LikeAssumption ==
  /\ Single \cap Lead = {} /\ Single \cap Continuation = {} /\ Lead \cap Continuation = {}
  /\ {AnyRun, AnyChar} \subseteq Single /\ AnyRun # AnyChar
  /\ Texts \subseteq Utf8 /\ Patterns \subseteq Utf8

VARIABLES
  text, pattern,  \* given
  ti, pi,         \* the positions the loop has reached, from 0
  star,           \* whether a `%` has been passed,
  sp, st,         \* its position, and how far into the text it reaches
  pc,             \* "scan", then "done"
  result          \* what like_match returns

loop == <<ti, pi, star, sp, st>>
vars == <<text, pattern, loop, pc, result>>

-----------------------------------------------------------------------------
\* What a pattern means.

\* Byte b of a pattern takes a match of s from position i to position k.
Takes(s, b, i, k) ==
  IF b = AnyRun THEN i <= k /\ Boundary(s, k)
  ELSE /\ i < Len(s)
       /\ IF b = AnyChar THEN k = i + Width(s[i + 1]) ELSE s[i + 1] = b /\ k = i + 1

\* The positions in s to which the bytes of p may take a match from position `from`.
Reach(s, p, from) ==
  LET step[j \in 0..Len(p)] ==
        IF j = 0 THEN {from}
        ELSE LET at == step[j - 1]
             IN  {k \in 0..Len(s) : \E i \in at : Takes(s, p[j], i, k)}
  IN  step[Len(p)]

Matches(s, p) == Len(s) \in Reach(s, p, 0)

Drop(p, n) == SubSeq(p, n + 1, Len(p))

\* What is left of the text from i on matches what is left of the pattern from j on.
MatchesFrom(i, j) == Len(text) \in Reach(text, Drop(pattern, j), i)

-----------------------------------------------------------------------------
\* `like_kind` and `like_matches`.

IsPart(b, s, at) == at + Len(b) <= Len(s) /\ SubSeq(s, at + 1, at + Len(b)) = b

\* `trim_matches('%')`
Trimmed(p) ==
  LET kept == {i \in 1..Len(p) : p[i] # AnyRun}
      lo == CHOOSE i \in kept : \A k \in kept : i <= k
      hi == CHOOSE i \in kept : \A k \in kept : k <= i
  IN  IF kept = {} THEN <<>> ELSE SubSeq(p, lo, hi)

StartsOpen(p) == p # <<>> /\ p[1] = AnyRun
EndsOpen(p) == p # <<>> /\ p[Len(p)] = AnyRun

\* Mutant: `_` inside the pattern does not make it General.
KindIgnoringAnyChar(p) ==
  IF \E i \in DOMAIN Trimmed(p) : Trimmed(p)[i] = AnyRun
  THEN "General"
  ELSE IF StartsOpen(p)
       THEN IF EndsOpen(p) THEN "Contains" ELSE "Suffix"
       ELSE IF EndsOpen(p) THEN "Prefix" ELSE "Exact"

Kind(p) ==
  IF \E i \in DOMAIN Trimmed(p) : Trimmed(p)[i] \in {AnyRun, AnyChar}
  THEN "General"
  ELSE IF StartsOpen(p)
       THEN IF EndsOpen(p) THEN "Contains" ELSE "Suffix"
       ELSE IF EndsOpen(p) THEN "Prefix" ELSE "Exact"

\* `general` is what like_match returns.
LikeMatches(kind, s, p, general) ==
  LET body == Trimmed(p)
  IN  CASE kind = "Exact"    -> s = body
        [] kind = "Prefix"   -> IsPart(body, s, 0)
        [] kind = "Suffix"   -> Len(body) <= Len(s) /\ IsPart(body, s, Len(s) - Len(body))
        [] kind = "Contains" -> \E at \in 0..Len(s) : IsPart(body, s, at)
        [] kind = "General"  -> general

-----------------------------------------------------------------------------
\* `like_match`.

Init ==
  /\ text \in Texts /\ pattern \in Patterns
  /\ ti = 0 /\ pi = 0
  /\ star = FALSE /\ sp = 0 /\ st = 0
  /\ pc = "scan" /\ result = FALSE

InText == pc = "scan" /\ ti < Len(text)
AtByte(b) == pi < Len(pattern) /\ pattern[pi + 1] = b

\* Mutant: the first `%` is remembered instead of the last.
PassLaterRun ==
  /\ InText /\ AtByte(AnyRun)
  /\ star' = TRUE
  /\ sp' = IF star THEN sp ELSE pi
  /\ st' = IF star THEN st ELSE ti
  /\ pi' = pi + 1
  /\ UNCHANGED <<text, pattern, ti, pc, result>>

PassAnyRun ==
  /\ InText /\ AtByte(AnyRun)
  /\ star' = TRUE /\ sp' = pi /\ st' = ti
  /\ pi' = pi + 1
  /\ UNCHANGED <<text, pattern, ti, pc, result>>

\* Mutant: `_` moves over one byte.
PassAnyByte ==
  /\ InText /\ AtByte(AnyChar)
  /\ ti' = ti + 1
  /\ pi' = pi + 1
  /\ UNCHANGED <<text, pattern, star, sp, st, pc, result>>

PassAnyChar ==
  /\ InText /\ AtByte(AnyChar)
  /\ ti' = ti + Width(text[ti + 1])
  /\ pi' = pi + 1
  /\ UNCHANGED <<text, pattern, star, sp, st, pc, result>>

SameByte == AtByte(text[ti + 1])

PassByte ==
  /\ InText /\ ~AtByte(AnyRun) /\ ~AtByte(AnyChar) /\ SameByte
  /\ ti' = ti + 1
  /\ pi' = pi + 1
  /\ UNCHANGED <<text, pattern, star, sp, st, pc, result>>

NoStep == InText /\ ~AtByte(AnyRun) /\ ~AtByte(AnyChar) /\ ~SameByte

\* Mutant: the text is taken up again where it stopped matching.
BacktrackPattern ==
  /\ NoStep /\ star
  /\ pi' = sp + 1
  /\ st' = st + Width(text[st + 1])
  /\ ti' = ti
  /\ UNCHANGED <<text, pattern, star, sp, pc, result>>

\* Mutant: the `%` is not moved on.
BacktrackInPlace ==
  /\ NoStep /\ star
  /\ pi' = sp + 1
  /\ ti' = st
  /\ UNCHANGED <<text, pattern, star, sp, st, pc, result>>

\* The last `%` absorbs one more character.
Backtrack ==
  /\ NoStep /\ star
  /\ pi' = sp + 1
  /\ st' = st + Width(text[st + 1])
  /\ ti' = st'
  /\ UNCHANGED <<text, pattern, star, sp, pc, result>>

Fail ==
  /\ NoStep /\ ~star
  /\ pc' = "done" /\ result' = FALSE
  /\ UNCHANGED <<text, pattern, loop>>

\* The second loop: only `%` may be left of the pattern.
Finish ==
  /\ pc = "scan" /\ ti >= Len(text)
  /\ pc' = "done"
  /\ result' = \A i \in (pi + 1)..Len(pattern) : pattern[i] = AnyRun
  /\ UNCHANGED <<text, pattern, loop>>

Done == pc = "done" /\ UNCHANGED vars

Match == PassAnyRun \/ PassAnyChar \/ PassByte \/ Backtrack \/ Fail \/ Finish

Next == Match \/ Done

\* One thread runs the loop.
Spec == Init /\ [][Next]_vars /\ WF_vars(Match)

-----------------------------------------------------------------------------
\* The types, and the bounds of every index: the loop of `like_match` reads
\* text[ti], text[st] and pattern[pi], which panics beyond the end.
TypeOK ==
  /\ text \in Seq(Byte) /\ pattern \in Seq(Byte)
  /\ ti \in 0..Len(text) /\ pi \in 0..Len(pattern)
  /\ star \in BOOLEAN
  /\ sp \in 0..Len(pattern) /\ st \in 0..ti
  /\ pc \in {"scan", "done"} /\ result \in BOOLEAN

\* The loop of `like_match` compares bytes but counts characters: whenever the pattern
\* is between two characters the text is too, so no `_` or `%` ever splits a
\* character, nor does the position from which a `%` is tried again.
OnCharacters ==
  /\ Boundary(pattern, pi) => Boundary(text, ti)
  /\ star => Boundary(text, st) /\ sp < pi /\ pattern[sp + 1] = AnyRun

\* `like_match` forgets all but the last `%`, and loses nothing by it: until
\* the loop ends the text matches the pattern just when it matches from the last
\* `%` on, with that `%` absorbing at least what has been tried.
LastRunSuffices ==
  pc = "scan" => Matches(text, pattern) = IF star THEN MatchesFrom(st, sp) ELSE MatchesFrom(ti, pi)

\* `like_match` returns what the pattern means, and so does `like_matches` for the
\* kind of the pattern, whichever of the two a filter uses.
AnswersAgree ==
  pc = "done" =>
    /\ result = Matches(text, pattern)
    /\ LikeMatches(Kind(pattern), text, pattern, result) = result

\* The loop of `like_match` ends, however often it backtracks.
Ends == <>(pc = "done")
=============================================================================
