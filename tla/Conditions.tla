----------------------------- MODULE Conditions -----------------------------
(***************************************************************************)
(* A condition on its way from the text of a query to the rows that pass   *)
(* it (tpt-strata/src/sql.rs, engine.rs, aggregate.rs).                    *)
(*                                                                         *)
(* The parser turns the clause into comparisons under AND and OR: NOT, IN  *)
(* and BETWEEN are gone when it is done.  The binder checks the types and  *)
(* converts the literals.  Then one of three evaluators runs: a fused      *)
(* filter over comparisons, whose tests are specialised to the column      *)
(* types; a filter that walks the tree for each row; or, for HAVING, one   *)
(* that narrows a selection.  A caller of the library may also build a     *)
(* comparison and give it to the filter directly.                          *)
(***************************************************************************)
EXTENDS SqlLogic

CONSTANTS
  Exprs,      \* the clauses that are written
  Sources,    \* who makes the condition: "where", "having" or "filter"
  Literals,   \* the literals of a comparison that is given to the filter directly
  Threads,    \* pool::threads()
  MinRows     \* filter_rows' MIN_ROWS (1 << 18)

ASSUME ConditionsAssumption ==
  /\ Threads \in Nat \ {0} /\ MinRows \in Nat
  /\ Sources \subseteq {"where", "having", "filter"}

VARIABLES
  expr,       \* what is written, by someone who writes a clause
  source,     \* a member of Sources
  stage,      \* "written", "parsed", "bound", "done" or "error"
  cond,       \* the parser's condition, then the bound one
  kept        \* the rows that pass

vars == <<expr, source, stage, cond, kept>>

-----------------------------------------------------------------------------
\* The tokens of a clause.  Parentheses stand only where the precedence of
\* SQL needs them.

Tok(k, v) == [k |-> k, v |-> v]
Word(k) == <<Tok(k, 0)>>

\* `lex` of a literal: the magnitude of MinI64 is a token of its own.
LiteralToks(lit) ==
  (IF lit.minus THEN Word("minus") ELSE <<>>) \o
  CASE lit.t = "i64" /\ lit.v <= MaxI64 -> <<Tok("int", lit.v)>>
    [] lit.t = "i64" /\ lit.v > MaxI64  -> Word("min_magnitude")
    [] lit.t = "date" -> <<Tok("date", 0), Tok("str", lit.v)>>
    [] OTHER          -> <<Tok(lit.t, lit.v)>>

Separated(parts, word) ==
  FlattenSeq([i \in DOMAIN parts |-> IF i = 1 THEN parts[1] ELSE Word(word) \o parts[i]])

RECURSIVE Toks(_)
Toks(e) ==
  LET InParens(p, kinds) == IF p.k \in kinds THEN Word("(") \o Toks(p) \o Word(")") ELSE Toks(p)
      Words(x, negated) ==
        <<Tok("column", x.col)>> \o
        CASE x.k = "in" -> negated \o Word("in") \o Word("(")
                           \o Separated([i \in DOMAIN x.lits |-> LiteralToks(x.lits[i])], ",")
                           \o Word(")")
          [] x.k = "between" -> negated \o Word("between") \o LiteralToks(x.lits[1])
                                \o Word("and") \o LiteralToks(x.lits[2])
          [] x.k = "null" -> Word("is") \o negated \o Word("null")
          [] x.k = "like" -> negated \o Word("like") \o LiteralToks(x.lit)
          [] x.k = "cmp"  -> Word(x.op) \o LiteralToks(x.lit)
          [] x.k = "columns" -> Word(x.op) \o <<Tok("column", x.right)>>
  IN  CASE e.k = "or"  -> Separated([i \in DOMAIN e.parts |-> InParens(e.parts[i], {"or"})], "or")
        [] e.k = "and" -> Separated([i \in DOMAIN e.parts |-> InParens(e.parts[i], {"or", "and"})],
                                    "and")
        [] e.k = "not" -> IF e.inside THEN Words(e.part, Word("not"))
                          ELSE Word("not") \o InParens(e.part, {"or", "and"})
        [] OTHER       -> Words(e, <<>>)

-----------------------------------------------------------------------------
\* The parser.  A parse of a part ends before the token at `at`; 0 is an error.

Parsed(x, at) == [x |-> x, at |-> at]
Failed == Parsed(Null, 0)

KindAt(ts, i) == IF i \in DOMAIN ts THEN ts[i].k ELSE IF i = 0 THEN "failed" ELSE "end"

Leaf(col, op, v) == [k |-> "leaf", col |-> col, op |-> op, v |-> v]
Pair(col, op, right) == [k |-> "columns", col |-> col, op |-> op, right |-> right]
AllOf(parts) == [k |-> "and", parts |-> parts]
AnyOf(parts) == [k |-> "or", parts |-> parts]

\* Mutant: the opposite of > is <.
NegateOrder(op) ==
  CASE op = "=" -> "!=" [] op = "!=" -> "=" [] op = ">" -> "<" [] op = ">=" -> "<"
    [] op = "<" -> ">=" [] op = "<=" -> ">" [] op = "is null" -> "is not null"
    [] op = "is not null" -> "is null" [] op = "like" -> "not like" [] op = "not like" -> "like"

\* `negate_comparison`
NegateOp(op) ==
  CASE op = "=" -> "!=" [] op = "!=" -> "=" [] op = ">" -> "<=" [] op = ">=" -> "<"
    [] op = "<" -> ">=" [] op = "<=" -> ">" [] op = "is null" -> "is not null"
    [] op = "is not null" -> "is null" [] op = "like" -> "not like" [] op = "not like" -> "like"

RECURSIVE Negate(_)
Negate(c) ==
  CASE c.k = "and" -> AnyOf([i \in DOMAIN c.parts |-> Negate(c.parts[i])])
    [] c.k = "or"  -> AllOf([i \in DOMAIN c.parts |-> Negate(c.parts[i])])
    [] OTHER       -> [c EXCEPT !.op = NegateOp(c.op)]

Negated(r) == IF r.at = 0 THEN Failed ELSE Parsed(Negate(r.x), r.at)

ParseLiteral(ts, i) ==
  LET neg == KindAt(ts, i) = "minus"
      j == IF neg THEN i + 1 ELSE i
      k == KindAt(ts, j)
  IN  CASE k = "int" -> Parsed(Scalar("i64", IF neg THEN -ts[j].v ELSE ts[j].v), j + 1)
        [] k = "min_magnitude" /\ neg -> Parsed(Scalar("i64", MinI64), j + 1)
        [] k = "f64" -> Parsed(Scalar("f64", IF neg THEN -ts[j].v ELSE ts[j].v), j + 1)
        [] k \in {"str", "bool", "null"} /\ ~neg -> Parsed(Scalar(k, ts[j].v), j + 1)
        [] k = "date" /\ ~neg /\ KindAt(ts, j + 1) = "str" ->
             IF DateOf[ts[j + 1].v] = NoDate THEN Failed
             ELSE Parsed(Scalar("date", DateOf[ts[j + 1].v]), j + 2)
        [] OTHER -> Failed

\* The loop over the alternatives of IN, each a comparison of its own.
RECURSIVE ParseAlternatives(_, _, _, _)
ParseAlternatives(ts, i, col, before) ==
  LET lit == ParseLiteral(ts, i)
      parts == Append(before, Leaf(col, "=", lit.x))
  IN  CASE lit.at = 0 -> Failed
        [] KindAt(ts, lit.at) = "," -> ParseAlternatives(ts, lit.at + 1, col, parts)
        [] KindAt(ts, lit.at) = ")" -> Parsed(IF Len(parts) = 1 THEN parts[1] ELSE AnyOf(parts), lit.at + 1)
        [] OTHER -> Failed

ParseBetween(ts, i, col) ==
  LET low == ParseLiteral(ts, i)
      high == IF KindAt(ts, low.at) = "and" THEN ParseLiteral(ts, low.at + 1) ELSE Failed
  IN  IF high.at = 0 THEN Failed
      ELSE Parsed(AllOf(<<Leaf(col, ">=", low.x), Leaf(col, "<=", high.x)>>), high.at)

ParsePattern(ts, i, col, op) ==
  IF KindAt(ts, i) = "str" THEN Parsed(Leaf(col, op, Scalar("str", ts[i].v)), i + 1) ELSE Failed

\* An operator and a column or a literal.
ParseComparison(ts, i, col) ==
  LET lit == ParseLiteral(ts, i + 1)
  IN  CASE KindAt(ts, i) \notin Ordered -> Failed
        [] KindAt(ts, i + 1) = "column" -> Parsed(Pair(col, ts[i].k, ts[i + 1].v), i + 2)
        [] OTHER -> IF lit.at = 0 THEN Failed ELSE Parsed(Leaf(col, ts[i].k, lit.x), lit.at)

ParseLeaf(ts, i) ==
  LET col == ts[i].v
      not == KindAt(ts, i + 1) = "not" /\ KindAt(ts, i + 2) \in {"in", "between", "like"}
      j == IF not THEN i + 2 ELSE i + 1
      isNot == KindAt(ts, j + 1) = "not"
      k == KindAt(ts, j)
      Sign(r) == IF not THEN Negated(r) ELSE r
  IN  CASE KindAt(ts, i) # "column" -> Failed
        [] k = "in" -> IF KindAt(ts, j + 1) = "(" THEN Sign(ParseAlternatives(ts, j + 2, col, <<>>))
                       ELSE Failed
        [] k = "between" -> Sign(ParseBetween(ts, j + 1, col))
        [] k = "is" /\ isNot /\ KindAt(ts, j + 2) = "null" -> Parsed(Leaf(col, "is not null", Null), j + 3)
        [] k = "is" /\ KindAt(ts, j + 1) = "null" -> Parsed(Leaf(col, "is null", Null), j + 2)
        [] k = "like" -> ParsePattern(ts, j + 1, col, IF not THEN "not like" ELSE "like")
        [] OTHER -> ParseComparison(ts, j, col)

RECURSIVE ParseAnd(_, _), ParsePrimary(_, _), MoreOf(_, _, _, _)

\* `word` ("and" or "or") and what it joins to the parts before it, as often as it comes.
Joined(ts, word, parts, at) ==
  CASE KindAt(ts, at) = word -> MoreOf(ts, word, parts, at + 1)
    [] OTHER -> Parsed(IF Len(parts) = 1 THEN parts[1]
                       ELSE IF word = "and" THEN AllOf(parts) ELSE AnyOf(parts), at)

MoreOf(ts, word, parts, i) ==
  LET Add(n) == IF n.at = 0 THEN Failed ELSE Joined(ts, word, Append(parts, n.x), n.at)
  IN  Add(IF word = "and" THEN ParsePrimary(ts, i) ELSE ParseAnd(ts, i))

ParseAnd(ts, i) == MoreOf(ts, "and", <<>>, i)
ParseCond(ts, i) == MoreOf(ts, "or", <<>>, i)

Closed(ts, r) == IF KindAt(ts, r.at) = ")" THEN Parsed(r.x, r.at + 1) ELSE Failed

ParsePrimary(ts, i) ==
  CASE KindAt(ts, i) = "not" -> Negated(ParsePrimary(ts, i + 1))
    [] KindAt(ts, i) = "("   -> Closed(ts, ParseCond(ts, i + 1))
    [] OTHER -> ParseLeaf(ts, i)

-----------------------------------------------------------------------------
\* The binder.  Columns are numbered already.

BindOp(c) ==
  CASE c.op \in {"is null", "is not null"} -> Null
    [] c.op \in {"like", "not like"} -> IF Schema[c.col] = "str" THEN c.v ELSE Rejected
    [] OTHER -> Coerce(c.v, Schema[c.col])

RECURSIVE Binds(_), Bind(_)
Binds(c) ==
  CASE c.k = "leaf"    -> BindOp(c) # Rejected
    [] c.k = "columns" -> \/ Schema[c.col] = Schema[c.right]
                          \/ {Schema[c.col], Schema[c.right]} \subseteq Numeric
    [] OTHER           -> \A i \in DOMAIN c.parts : Binds(c.parts[i])

Bind(c) ==
  CASE c.k = "leaf"    -> [c EXCEPT !.v = BindOp(c)]
    [] c.k = "columns" -> c
    [] OTHER           -> [c EXCEPT !.parts = [i \in DOMAIN c.parts |-> Bind(c.parts[i])]]

-----------------------------------------------------------------------------
\* The evaluators.

\* `compare_values`, for two values that are not NULL.
CompareValues(a, op, b) ==
  IF op \in {"like", "not like"}
  THEN a.t = "str" /\ b.t = "str" /\ ((<<a.v, b.v>> \in LikePairs) = (op = "like"))
  ELSE Satisfies(op, OrderOf(a, b))

\* `Predicate::matches`
Matches(p, row) ==
  CASE p.op = "is null"     -> row[p.col] = Null
    [] p.op = "is not null" -> row[p.col] # Null
    [] OTHER -> row[p.col] # Null /\ p.v # Null /\ CompareValues(row[p.col], p.op, p.v)

\* `Condition::matches`
RECURSIVE Satisfied(_, _)
Satisfied(c, row) ==
  CASE c.k = "leaf"    -> Matches(c, row)
    [] c.k = "columns" -> /\ row[c.col] # Null /\ row[c.right] # Null
                          /\ CompareValues(row[c.col], c.op, row[c.right])
    [] c.k = "and"     -> \A i \in DOMAIN c.parts : Satisfied(c.parts[i], row)
    [] c.k = "or"      -> \E i \in DOMAIN c.parts : Satisfied(c.parts[i], row)

\* The plan a RowTest is specialised to.
Plan(p) ==
  CASE p.op \in Ordered /\ Schema[p.col] = "f64" /\ p.v.t = "f64" -> "float"
    [] p.op \in Ordered /\ Schema[p.col] = "i64" /\ p.v.t = "i64" -> "int"
    [] p.op \in {"like", "not like"} /\ Schema[p.col] = "str" /\ p.v.t = "str" -> "like"
    [] p.op \in Ordered /\ LiteralKey(p.v) # NoKey -> "key"
    [] OTHER -> "general"

\* Mutant: a NULL in a column of integers is tested as the 0 in its place.
TestWithoutValidity(p, row) ==
  LET cell == row[p.col]
      key == KeyAt(cell)
      lit == LiteralKey(p.v)
  IN  CASE Plan(p) = "float" -> /\ cell # Null /\ NaN \notin {cell.v, p.v.v}
                                /\ Satisfies(p.op, Cmp(cell.v, p.v.v))
        [] Plan(p) = "int"   -> Satisfies(p.op, Cmp(cell.v, p.v.v))
        [] Plan(p) = "like"  -> cell # Null /\ ((<<cell.v, p.v.v>> \in LikePairs) = (p.op = "like"))
        [] Plan(p) = "key" /\ key.rank = lit.rank -> Satisfies(p.op, Cmp(key.v, lit.v))
        [] OTHER -> Matches(p, row)

\* `RowTest::test`.  LIKE goes by the kind of the pattern, which gives what
\* `like_match` gives (module Like).
Test(p, row) ==
  LET cell == row[p.col]
      key == KeyAt(cell)
      lit == LiteralKey(p.v)
  IN  CASE Plan(p) = "float" -> /\ cell # Null /\ NaN \notin {cell.v, p.v.v}
                                /\ Satisfies(p.op, Cmp(cell.v, p.v.v))
        [] Plan(p) = "int"   -> cell # Null /\ Satisfies(p.op, Cmp(cell.v, p.v.v))
        [] Plan(p) = "like"  -> cell # Null /\ ((<<cell.v, p.v.v>> \in LikePairs) = (p.op = "like"))
        [] Plan(p) = "key" /\ key.rank = lit.rank -> Satisfies(p.op, Cmp(key.v, lit.v))
        [] OTHER -> Matches(p, row)

Rows == [i \in DOMAIN Batch |-> i]

\* The rows of a job: `div_ceil` of a large batch, or all of a small one.
PerThread(n) == IF Threads < 2 \/ n < MinRows THEN n ELSE (n + Threads - 1) \div Threads

\* Mutant: a chunk reaches one row into the next.
OverlappingChunk(j, per, n) ==
  SubSeq(Rows, (j - 1) * per + 1, IF j * per < n THEN j * per + 1 ELSE n)

Chunk(j, per, n) == SubSeq(Rows, (j - 1) * per + 1, IF j * per < n THEN j * per ELSE n)

\* `filter_rows`: all predicates in one pass, over chunks of a large batch
\* whose results are joined in order.
FilterRows(predicates) ==
  LET n == Len(Batch)
      per == PerThread(n)
      Passes(i) == \A j \in DOMAIN predicates : Test(predicates[j], Batch[i])
  IN  FlattenSeq([j \in 1..((n + per - 1) \div per) |-> SelectSeq(Chunk(j, per, n), Passes)])

\* `compact`: each row is written to the next place, which moves on at a match.
Compact(p, rows) ==
  LET Step(acc, row) == [out |-> [acc.out EXCEPT ![acc.k + 1] = row],
                         k |-> acc.k + (IF Test(p, Batch[row]) THEN 1 ELSE 0)]
      end == FoldLeft(Step, [out |-> [i \in DOMAIN rows |-> 0], k |-> 0], rows)
  IN  SubSeq(end.out, 1, end.k)

\* `for_rows` of all rows, in chunks too.
CompactRows(p) ==
  LET n == Len(Batch)
      per == PerThread(n)
  IN  FlattenSeq([j \in 1..((n + per - 1) \div per) |-> Compact(p, Chunk(j, per, n))])

\* `select_condition`: rows is the selection so far, or NoRows before there is one.
NoRows == <<0>>

RECURSIVE SelectCondition(_, _), Narrow(_, _, _)
SelectCondition(c, rows) ==
  LET candidates == IF rows = NoRows THEN Rows ELSE rows
  IN  CASE c.k = "leaf" /\ rows = NoRows -> CompactRows(c)
        [] c.k = "leaf" /\ rows # NoRows -> SelectSeq(rows, LAMBDA i : Test(c, Batch[i]))
        [] c.k = "and"  -> Narrow(c.parts, 1, rows)
        [] OTHER        -> SelectSeq(candidates, LAMBDA i : Satisfied(c, Batch[i]))

Narrow(parts, j, rows) ==
  IF j > Len(parts) THEN IF rows = NoRows THEN Rows ELSE rows
  ELSE Narrow(parts, j + 1, SelectCondition(parts[j], rows))

-----------------------------------------------------------------------------
\* The steps.

Init ==
  /\ source \in Sources
  /\ kept = <<>>
  /\ IF source = "filter"
     THEN /\ expr = <<>> /\ stage = "bound"
          /\ cond \in {Leaf(col, op, v) : col \in DOMAIN Schema, op \in Ordered, v \in Literals}
     ELSE expr \in Exprs /\ stage = "written" /\ cond = <<>>

Parse ==
  /\ stage = "written"
  /\ \E r \in {ParseCond(Toks(expr), 1)} :
       LET whole == r.at = Len(Toks(expr)) + 1
       IN  /\ stage' = IF whole THEN "parsed" ELSE "error"
           /\ cond' = IF whole THEN r.x ELSE cond
  /\ UNCHANGED <<expr, source, kept>>

BindCond ==
  /\ stage = "parsed"
  /\ stage' = IF Binds(cond) THEN "bound" ELSE "error"
  /\ cond' = IF Binds(cond) THEN Bind(cond) ELSE cond
  /\ UNCHANGED <<expr, source, kept>>

IsFused(c) == c.k = "leaf" \/ (c.k = "and" /\ \A i \in DOMAIN c.parts : c.parts[i].k = "leaf")

\* `apply_filter`, and FilterExec.
FilterFused ==
  /\ stage = "bound" /\ source # "having" /\ IsFused(cond)
  /\ kept' = FilterRows(IF cond.k = "leaf" THEN <<cond>> ELSE cond.parts)
  /\ stage' = "done"
  /\ UNCHANGED <<expr, source, cond>>

\* `apply_filter`, and CondFilterExec.
FilterTree ==
  /\ stage = "bound" /\ source = "where" /\ ~IsFused(cond)
  /\ kept' = SelectSeq(Rows, LAMBDA i : Satisfied(cond, Batch[i]))
  /\ stage' = "done"
  /\ UNCHANGED <<expr, source, cond>>

\* The filter of groups in AggregateExec.
FilterGroups ==
  /\ stage = "bound" /\ source = "having"
  /\ kept' = SelectCondition(cond, NoRows)
  /\ stage' = "done"
  /\ UNCHANGED <<expr, source, cond>>

Done == stage \in {"done", "error"} /\ UNCHANGED vars

Next == Parse \/ BindCond \/ FilterFused \/ FilterTree \/ FilterGroups \/ Done

Spec == Init /\ [][Next]_vars

-----------------------------------------------------------------------------
\* The types; a row is kept at most once, and in its place.
TypeOK ==
  /\ source \in Sources
  /\ stage \in {"written", "parsed", "bound", "done", "error"}
  /\ \A i \in DOMAIN kept : kept[i] \in DOMAIN Batch /\ (i > 1 => kept[i - 1] < kept[i])

\* The truth of a bound condition, comparison by comparison.
RECURSIVE BoundTruth(_, _)
BoundTruth(c, row) ==
  CASE c.k = "leaf" /\ c.op = "is null"     -> Truth(row[c.col] = Null)
    [] c.k = "leaf" /\ c.op = "is not null" -> Truth(row[c.col] # Null)
    [] c.k = "leaf" /\ c.op \in {"like", "not like"} ->
         IF row[c.col] = Null THEN "unknown"
         ELSE Truth((<<row[c.col].v, c.v.v>> \in LikePairs) = (c.op = "like"))
    [] c.k = "leaf"    -> Compare(row[c.col], c.op, c.v)
    [] c.k = "columns" -> Compare(row[c.col], c.op, row[c.right])
    [] c.k = "and"     -> And({BoundTruth(c.parts[i], row) : i \in DOMAIN c.parts})
    [] c.k = "or"      -> Or({BoundTruth(c.parts[i], row) : i \in DOMAIN c.parts})

\* `parse_cond`, `negate_cond` and `bind_cond`: a condition from which NOT, IN and BETWEEN are
\* gone is true, false and unknown for the same rows as what was written, so
\* that treating unknown as false at the end loses and adds no row.
BindingKeepsTruth ==
  stage = "bound" /\ source # "filter" =>
    \A i \in DOMAIN Batch : BoundTruth(cond, Batch[i]) = TruthOf(expr, Batch[i])

RECURSIVE Comparisons(_)
Comparisons(c) ==
  CASE c.k = "leaf"    -> {c}
    [] c.k = "columns" -> {}
    [] OTHER           -> UNION {Comparisons(c.parts[i]) : i \in DOMAIN c.parts}

\* "It gives the same answer as [`Predicate::matches`]" (the comment on RowTest): whichever plan a
\* RowTest is specialised to, it passes the rows that the general rules pass.
TestIsMatches ==
  stage = "bound" =>
    \A p \in Comparisons(cond), i \in DOMAIN Batch : Test(p, Batch[i]) = Matches(p, Batch[i])

\* Whatever evaluator runs, a WHERE or HAVING clause selects what `Where` says, or is
\* refused when it is not accepted.
Result == INSTANCE Where WITH
  answer <- CASE stage = "error" -> [state |-> "error", rows |-> <<>>]
              [] stage = "done"  -> [state |-> "rows", rows |-> kept]
              [] OTHER           -> [state |-> "none", rows |-> <<>>]

ImplementsWhere == Result!Spec
=============================================================================
