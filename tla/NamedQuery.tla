----------------------------- MODULE NamedQuery -----------------------------
(***************************************************************************)
(* What a query asks for, by names alone: the columns that are joined,     *)
(* compared, grouped by and sorted by, and the columns of the answer.  A   *)
(* column is its table's name and its own; columns have no numbers here,   *)
(* and none is left out.                                                   *)
(*                                                                         *)
(* A name that is several columns' or none's is refused.  There is one     *)
(* freedom: if a column's own name has a dot and ends in the name of       *)
(* another, it may be overlooked (`lenient`), for it is overlooked when    *)
(* nothing else in the query needs it.                                     *)
(***************************************************************************)
EXTENDS Queries

VARIABLES
  query,    \* what is asked
  answer    \* what came of it

NoAnswer == [status |-> "none"]
Refused == [status |-> "refused"]

\* The columns of a table, by their full names.
ColumnsOf(t) == [i \in DOMAIN Catalog[t] |-> Ref(<<t>> \o Catalog[t][i].name)]
TypeOf(column) == TypeIn(Head(column.parts), Tail(column.parts))

Only(S) == IF Cardinality(S) = 1 THEN CHOOSE x \in S : TRUE ELSE NoName

Unqualified(ref, columns, lenient) ==
  LET named == {c \in columns : Tail(c.parts) = ref.parts}
      ending == {c \in columns : IsSuffix(ref.parts, Tail(c.parts))}
  IN  IF lenient THEN Only(IF named = {} THEN ending ELSE named) ELSE Only(ending)

\* The column of `columns` that a reference denotes.
Denoted(q, ref, columns, lenient) ==
  LET own == {c \in columns : Tail(c.parts) = ref.parts}
      qualified == Head(ref.parts) \in ToSet(Tables(q)) /\ Len(ref.parts) > 1
  IN  CASE ~IsJoined(q) /\ own # {} -> Only(own)
        [] ref \in columns          -> ref
        [] IsJoined(q) /\ ref \notin columns /\ ~qualified -> Unqualified(ref, columns, lenient)
        [] OTHER                    -> NoName

\* The two columns of an ON clause, the one joined so far first.
OnColumns(q, i, lenient) ==
  LET sofar == UNION {ToSet(ColumnsOf(t)) : t \in {Tables(q)[k] : k \in 1..i}}
      next == ToSet(ColumnsOf(q.joins[i].right))
      Side(ref) ==
        LET qualified == Head(ref.parts) \in {Tables(q)[k] : k \in 1..(i + 1)} /\ Len(ref.parts) > 1
            before == {c \in sofar : IsSuffix(ref.parts, Tail(c.parts))
                                      /\ (lenient => Tail(c.parts) = ref.parts)}
            here == Ref(<<q.joins[i].right>> \o ref.parts)
        IN  CASE qualified -> IF ref \in sofar \cup next THEN ref ELSE NoName
              [] ~qualified /\ before # {} -> Only(before)
              [] OTHER -> IF here \in next THEN here ELSE NoName
      a == Side(q.joins[i].a)
      b == Side(q.joins[i].b)
  IN  CASE a \in sofar /\ b \in next /\ TypeOf(a) = TypeOf(b) -> <<a, b>>
        [] a \in next /\ b \in sofar /\ TypeOf(a) = TypeOf(b) -> <<b, a>>
        [] OTHER -> <<NoName, NoName>>

Meaning(q, lenient) ==
  LET all == FlattenSeq([i \in DOMAIN Tables(q) |-> ColumnsOf(Tables(q)[i])])
      Column(ref) == Denoted(q, ref, ToSet(all), lenient)
      Value(x) ==
        LET c == Column(Ref(x.parts))
        IN  CASE x = CountAll    -> x
              [] ~IsAggregate(x) -> Column(x)
              [] OTHER -> IF c = NoName \/ (x.agg \in {"sum", "avg"} /\ ~IsNumeric(TypeOf(c)))
                          THEN NoName ELSE Name(x.agg, c.parts)
      joins == [i \in DOMAIN q.joins |->
                  LET on == OnColumns(q, i, lenient)
                  IN  [left |-> on[1], right |-> on[2], kind |-> q.joins[i].kind]]
      listed == FlattenSeq([i \in DOMAIN q.items |->
                  IF q.items[i] = Wild THEN all ELSE <<Value(q.items[i].operand)>>])
      keys == CASE q.group_by # <<>> -> [i \in DOMAIN q.group_by |-> Column(q.group_by[i])]
                [] q.group_by = <<>> /\ q.distinct /\ ~HasAggregates(q) -> listed
                [] OTHER -> <<>>
      uses == AggregateUses(q)
      aggregates == Once([i \in DOMAIN uses |-> Value(uses[i])])
      \* HAVING and ORDER BY may name an alias, and see a group only by its keys.
      Later(operand) ==
        LET x == AliasOperand(q, operand)
        IN  IF IsGrouped(q) /\ ~IsAggregate(x) THEN Denoted(q, x, ToSet(keys) \ {NoName}, lenient) ELSE Value(x)
      output == IF ~IsGrouped(q) THEN listed
                ELSE FlattenSeq([i \in DOMAIN q.items |->
                       LET x == q.items[i].operand
                       IN  CASE q.items[i] = Wild -> keys \o aggregates
                             [] q.items[i] # Wild /\ IsAggregate(x) -> <<Value(x)>>
                             [] OTHER -> <<IF Column(x) \in ToSet(keys) THEN Column(x) ELSE NoName>>])
      where == [i \in DOMAIN q.where.operands |-> Column(q.where.operands[i])]
      having == [i \in DOMAIN q.having.operands |-> Later(q.having.operands[i])]
      sort == [i \in DOMAIN q.order_by |-> Key(Later(q.order_by[i].operand), q.order_by[i].desc)]
      used == ToSet(listed) \cup ToSet(keys) \cup ToSet(aggregates) \cup ToSet(output)
              \cup ToSet(where) \cup ToSet(having) \cup {k.operand : k \in ToSet(sort)}
              \cup UNION {{j.left, j.right} : j \in ToSet(joins)}
  IN  IF NoName \in used THEN Refused
      ELSE [status |-> "answer", joins |-> joins, where |-> where, grouped |-> IsGrouped(q),
            keys |-> keys, having |-> having, sort |-> sort, columns |-> output]

\* The tables exist, and each is read once.
HasTables(q) ==
  /\ ToSet(Tables(q)) \subseteq DOMAIN Catalog
  /\ IsInjective(Tables(q))

\* What the calls of a query builder ask of one table: names are a column's own,
\* and SELECT and ORDER BY name columns of what stands below them.
BuilderMeaning(q) ==
  LET all == ColumnsOf(q.from)
      Full(x) == IF x = CountAll THEN x ELSE Name(x.agg, <<q.from>> \o x.parts)
      In(x, columns) == IF Full(x) \in ToSet(columns) THEN Full(x) ELSE NoName
      where == [i \in DOMAIN q.where |-> In(q.where[i], all)]
      keys == [i \in DOMAIN q.group_by |-> In(q.group_by[i], all)]
      aggregates == [i \in DOMAIN q.aggregates |->
        LET x == q.aggregates[i]
        IN  IF \/ x = CountAll
               \/ In(Ref(x.parts), all) # NoName
                  /\ (x.agg \in {"sum", "avg"} => IsNumeric(TypeIn(q.from, x.parts)))
            THEN Full(x) ELSE NoName]
      grouped == keys \o aggregates # <<>>
      below == IF grouped THEN keys \o aggregates ELSE all
      output == IF q.project = <<>> THEN below ELSE [i \in DOMAIN q.project |-> In(q.project[i], below)]
      sort == [i \in DOMAIN q.order_by |-> Key(In(q.order_by[i].operand, output), q.order_by[i].desc)]
  IN  IF NoName \in ToSet(where) \cup ToSet(keys) \cup ToSet(aggregates) \cup ToSet(output)
                    \cup {k.operand : k \in ToSet(sort)}
      THEN Refused
      ELSE [status |-> "answer", joins |-> <<>>, where |-> where, grouped |-> grouped, keys |-> keys,
            having |-> <<>>, sort |-> sort, columns |-> output]

Meanings(q) ==
  CASE q.kind = "builder" -> {BuilderMeaning(q)}
    [] q.kind = "sql" /\ HasTables(q) -> {Meaning(q, TRUE), Meaning(q, FALSE)}
    [] OTHER -> {Refused}

Init == answer = NoAnswer

Evaluate == answer = NoAnswer /\ answer' \in Meanings(query) /\ UNCHANGED query

Spec == Init /\ [][Evaluate]_<<query, answer>>
=============================================================================
