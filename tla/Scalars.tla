------------------------------ MODULE Scalars ------------------------------
(***************************************************************************)
(* Values and the ways to compare them (tpt-strata/src/types.rs, key.rs,   *)
(* query.rs).                                                              *)
(*                                                                         *)
(* A scalar is a type and an integer.  Floats are multiples of one half,   *)
(* counted in halves; texts and days are numbered in their order, texts    *)
(* from 0.  An i64 is an integer from MinI64 to MaxI64.                    *)
(***************************************************************************)
EXTENDS Integers

CONSTANTS
  MaxI64,     \* the largest i64
  NaN,        \* an integer that is no float
  DateOf,     \* the day a text stands for, by text; NoDate if it is no date
  NoDate

ASSUME ScalarAssumption ==
  /\ MaxI64 \in Nat /\ NaN \in Int /\ NoDate \in Int
  /\ \A text \in DOMAIN DateOf : DateOf[text] \in Int

MinI64 == -MaxI64 - 1

Scalar(t, v) == [t |-> t, v |-> v]
Null == Scalar("null", 0)

Numeric == {"i32", "i64", "f64"}

\* `Ordering`, and None of Option<Ordering>.
Less == -1
Equal == 0
Greater == 1
Unordered == 2

Cmp(a, b) == IF a < b THEN Less ELSE IF a > b THEN Greater ELSE Equal
Flipped(ord) == IF ord = Unordered THEN Unordered ELSE -ord

\* `f.trunc()` of a float counted in halves
Trunc(f) == IF f >= 0 THEN f \div 2 ELSE -((-f) \div 2)

\* Mutant: the fraction of a float that begins with the integer is ignored.
CmpIntTrunc(i, f) ==
  IF f = NaN THEN Unordered
  ELSE IF f >= 2 * (MaxI64 + 1) THEN Less
  ELSE IF f < 2 * MinI64 THEN Greater
  ELSE Cmp(i, Trunc(f))

CmpIntFloat(i, f) ==
  IF f = NaN THEN Unordered
  ELSE IF f >= 2 * (MaxI64 + 1) THEN Less
  ELSE IF f < 2 * MinI64 THEN Greater
  ELSE IF i # Trunc(f) THEN Cmp(i, Trunc(f))
  ELSE Cmp(2 * Trunc(f), f)

NumericCmp(a, b) ==
  CASE a.t = "f64" /\ b.t = "f64" -> IF NaN \in {a.v, b.v} THEN Unordered ELSE Cmp(a.v, b.v)
    [] a.t = "f64" /\ b.t \in {"i32", "i64"} -> Flipped(CmpIntFloat(b.v, a.v))
    [] a.t \in {"i32", "i64"} /\ b.t = "f64" -> CmpIntFloat(a.v, b.v)
    [] OTHER -> Cmp(a.v, b.v)

\* The order of two values, if they have one, as `compare_values` takes it.
OrderOf(a, b) ==
  IF (a.t \in Numeric /\ b.t \in Numeric) \/ (a.t = b.t /\ a.t # "null")
  THEN NumericCmp(a, b)
  ELSE Unordered

\* Whether an ordering satisfies a comparison.
Satisfies(op, ord) ==
  CASE op = "="  -> ord = Equal
    [] op = "!=" -> ord \in {Less, Greater}
    [] op = ">"  -> ord = Greater
    [] op = ">=" -> ord \in {Greater, Equal}
    [] op = "<"  -> ord = Less
    [] op = "<=" -> ord \in {Less, Equal}

Ordered == {"=", "!=", ">", ">=", "<", "<="}

-----------------------------------------------------------------------------
\* Keys: a cell or a literal without its type.

\* A key's variant: an i32 for dates too.
Rank(t) ==
  CASE t = "null" -> 0
    [] t = "bool" -> 1
    [] t \in {"i32", "date"} -> 2
    [] t = "i64" -> 3
    [] t = "f64" -> 4
    [] t = "str" -> 5

Key(r, v) == [rank |-> r, v |-> v]
NoKey == Key(-1, 0)

\* `f64_key_bits` has one pattern for all NaN, and NaN is above every float.
KeyAt(cell) == Key(Rank(cell.t), cell.v)

LiteralKey(v) == IF v.t \in {"f64", "null"} THEN NoKey ELSE Key(Rank(v.t), v.v)

-----------------------------------------------------------------------------
\* `coerce_literal`: the literal to compare a column of this type with.

Rejected == Scalar("rejected", 0)

Coerce(value, type) ==
  CASE value.t = "null" -> value
    [] value.t = "str" /\ type = "date" ->
         IF DateOf[value.v] = NoDate THEN Rejected ELSE Scalar("date", DateOf[value.v])
    [] value.t \in Numeric -> IF type \in Numeric THEN value ELSE Rejected
    [] OTHER -> IF value.t = type THEN value ELSE Rejected
=============================================================================
