------------------------------ MODULE Queries ------------------------------
(***************************************************************************)
(* Names, tables and queries, as a user writes them: what the planner of   *)
(* tpt-strata/src/sql.rs and the builder of query.rs start from.           *)
(*                                                                         *)
(* A name is the sequence of its parts between dots, so that a name ends   *)
(* in ".a" when its last part is a.  A column may have a dot in its own    *)
(* name.  An aggregate's name is its function and what it is taken of.     *)
(***************************************************************************)
EXTENDS Integers, Sequences, SequencesExt, FiniteSets

CONSTANTS
  Catalog     \* the tables: for each name, its columns, each a name and a type

ASSUME CatalogAssumption ==
  \A t \in DOMAIN Catalog :
    /\ Catalog[t] # <<>>
    /\ \A i, j \in DOMAIN Catalog[t] :
         /\ Catalog[t][i].name # <<>> /\ Catalog[t][i].type \in {"int", "float", "str"}
         /\ Catalog[t][i].name = Catalog[t][j].name => i = j

Name(agg, parts) == [agg |-> agg, parts |-> parts]
Ref(parts) == Name("", parts)
IsAggregate(operand) == operand.agg # ""

CountAll == Name("count", <<>>)
NoName == Name("none", <<>>)

\* A projection: a column or an aggregate and an alias, or a star.
Item(operand, alias) == [operand |-> operand, alias |-> alias]
Wild == Item(Name("wild", <<>>), NoName)

Join(right, a, b, kind) == [right |-> right, a |-> a, b |-> b, kind |-> kind]
Key(operand, desc) == [operand |-> operand, desc |-> desc]

\* A condition is the operands it compares, and whether it is a comparison or
\* an AND of comparisons with literals.
Cond(operands, simple) == [operands |-> operands, simple |-> simple]
NoCond == Cond(<<>>, TRUE)

-----------------------------------------------------------------------------
\* What the text of a query tells by itself.

Tables(q) == <<q.from>> \o [i \in DOMAIN q.joins |-> q.joins[i].right]
IsJoined(q) == q.joins # <<>>

\* All aggregates of the SELECT list, HAVING and ORDER BY.
AggregateUses(q) ==
  SelectSeq([i \in DOMAIN q.items |-> q.items[i].operand], LAMBDA x : IsAggregate(x) /\ x.agg # "wild")
  \o SelectSeq(q.having.operands, IsAggregate)
  \o SelectSeq([i \in DOMAIN q.order_by |-> q.order_by[i].operand], IsAggregate)

HasAggregates(q) == AggregateUses(q) # <<>>

IsGrouped(q) ==
  HasAggregates(q) \/ q.group_by # <<>> \/ q.having # NoCond \/ q.distinct

\* `alias_operand`: what a name stands for where an alias may stand.
AliasOperand(q, operand) ==
  LET i == SelectInSeq(q.items, LAMBDA item : item.alias # NoName /\ item.alias = operand)
  IN  IF i = 0 THEN operand ELSE q.items[i].operand

\* The first of equals stays.
Once(s) == FoldLeft(LAMBDA seen, x : IF x \in ToSet(seen) THEN seen ELSE Append(seen, x), <<>>, s)

TypeIn(t, parts) == Catalog[t][SelectInSeq(Catalog[t], LAMBDA c : c.name = parts)].type
IsNumeric(type) == type \in {"int", "float"}
=============================================================================
