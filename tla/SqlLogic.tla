------------------------------ MODULE SqlLogic ------------------------------
(***************************************************************************)
(* What a condition means: its truth in SQL's logic of three values, for   *)
(* each row, and which conditions are accepted at all.                     *)
(*                                                                         *)
(* An expression is what a user writes, so a literal has a sign of its own *)
(* in front of it, and NOT may stand in front of anything.                 *)
(***************************************************************************)
EXTENDS Scalars, Sequences, SequencesExt

CONSTANTS
  Schema,     \* the types of the columns
  Batch,      \* the rows, each with a scalar per column
  LikePairs   \* the texts with the patterns they match

\* A literal as it is written.
Written(minus, t, v) == [minus |-> minus, t |-> t, v |-> v]

\* An integer may be as low as MinI64, and DATE needs a date behind it.
IsValid(lit) ==
  /\ lit.minus => lit.t \in {"i64", "f64"}
  /\ lit.t = "i64" => lit.v <= IF lit.minus THEN -MinI64 ELSE MaxI64
  /\ lit.t = "date" => DateOf[lit.v] # NoDate

Value(lit) ==
  CASE lit.minus -> Scalar(lit.t, -lit.v)
    [] ~lit.minus /\ lit.t = "date" -> Scalar("date", DateOf[lit.v])
    [] OTHER -> Scalar(lit.t, lit.v)

\* What the literal is to a column of this type.
ValueFor(lit, type) ==
  IF lit.t = "str" /\ type = "date" THEN Scalar("date", DateOf[lit.v]) ELSE Value(lit)

MayCompare(a, b) == a = b \/ {a, b} \subseteq Numeric

FitsColumn(lit, type) ==
  \/ lit.t = "null"
  \/ MayCompare(lit.t, type)
  \/ lit.t = "str" /\ type = "date" /\ DateOf[lit.v] # NoDate

RECURSIVE IsAccepted(_)
IsAccepted(e) ==
  CASE e.k = "cmp"     -> IsValid(e.lit) /\ FitsColumn(e.lit, Schema[e.col])
    [] e.k = "columns" -> MayCompare(Schema[e.col], Schema[e.right])
    [] e.k \in {"in", "between"} ->
         \A i \in DOMAIN e.lits : IsValid(e.lits[i]) /\ FitsColumn(e.lits[i], Schema[e.col])
    [] e.k = "null"    -> TRUE
    [] e.k = "like"    -> ~e.lit.minus /\ e.lit.t = "str" /\ Schema[e.col] = "str"
    [] e.k = "not"     -> IsAccepted(e.part)
    [] OTHER           -> \A i \in DOMAIN e.parts : IsAccepted(e.parts[i])

-----------------------------------------------------------------------------
\* The three truth values.

Truth(b) == IF b THEN "true" ELSE "false"
Not(x) == CASE x = "true" -> "false" [] x = "false" -> "true" [] OTHER -> "unknown"
And(S) == IF "false" \in S THEN "false" ELSE IF "unknown" \in S THEN "unknown" ELSE "true"
Or(S) == IF "true" \in S THEN "true" ELSE IF "unknown" \in S THEN "unknown" ELSE "false"

\* Numbers of all types on one scale.
OnScale(x) == IF x.t \in {"i32", "i64"} THEN 2 * x.v ELSE x.v

Compare(a, op, b) ==
  IF "null" \in {a.t, b.t} \/ Scalar("f64", NaN) \in {a, b}
  THEN "unknown"
  ELSE LET x == OnScale(a)
           y == OnScale(b)
       IN  Truth(CASE op = "=" -> x = y [] op = "!=" -> x # y [] op = ">" -> x > y
                   [] op = ">=" -> x >= y [] op = "<" -> x < y [] op = "<=" -> x <= y)

RECURSIVE TruthOf(_, _)
TruthOf(e, row) ==
  CASE e.k = "cmp"     -> Compare(row[e.col], e.op, ValueFor(e.lit, Schema[e.col]))
    [] e.k = "columns" -> Compare(row[e.col], e.op, row[e.right])
    [] e.k = "in"      -> Or({Compare(row[e.col], "=", ValueFor(e.lits[i], Schema[e.col]))
                              : i \in DOMAIN e.lits})
    [] e.k = "between" -> And({Compare(row[e.col], ">=", ValueFor(e.lits[1], Schema[e.col])),
                               Compare(row[e.col], "<=", ValueFor(e.lits[2], Schema[e.col]))})
    [] e.k = "null"    -> Truth(row[e.col] = Null)
    [] e.k = "like"    -> IF row[e.col] = Null THEN "unknown"
                          ELSE Truth(<<row[e.col].v, e.lit.v>> \in LikePairs)
    [] e.k = "not"     -> Not(TruthOf(e.part, row))
    [] e.k = "and"     -> And({TruthOf(e.parts[i], row) : i \in DOMAIN e.parts})
    [] e.k = "or"      -> Or({TruthOf(e.parts[i], row) : i \in DOMAIN e.parts})

Selected(e) ==
  SelectSeq([i \in DOMAIN Batch |-> i], LAMBDA i : TruthOf(e, Batch[i]) = "true")
=============================================================================
