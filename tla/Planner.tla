------------------------------ MODULE Planner ------------------------------
(***************************************************************************)
(* The planner of tpt-strata/src/sql.rs, and the query builder of          *)
(* query.rs: from the names of a query to operators that read columns by   *)
(* their number.                                                           *)
(*                                                                         *)
(* Columns the query does not need are left out of the tables, a filter    *)
(* leaves out what only it reads, an aggregate is moved below a join: each *)
(* gives the columns above it new numbers.  Running a plan is modelled by  *)
(* which columns its operators read (Read), so that a number that is used  *)
(* with another schema than its own reads another column.                  *)
(*                                                                         *)
(* Conditions and types are those of module Conditions, LIMIT and top-k    *)
(* those of module Stream; what the moved aggregate computes is module     *)
(* Pushdown's subject.                                                     *)
(***************************************************************************)
EXTENDS Queries

CONSTANTS
  Asked       \* the queries

VARIABLES
  query,      \* a member of Asked
  stage,      \* what build_plan does next: "start", "rewrite", "join", "filter",
              \* "output"; then "planned", "done" or "error"
  needed,     \* the references of the query, or NoRefs
  joined,     \* how many of the joins are planned
  plan,       \* the plan so far
  pushed,     \* the rewriting of the join, or NoPushdown
  answer      \* what the plan read

vars == <<query, stage, needed, joined, plan, pushed, answer>>

NoRefs == {NoName}
NoPlan == [op |-> "none"]
NoPushdown == [fields |-> <<>>, width |-> 0]

-----------------------------------------------------------------------------
\* Schemas and plans.  Columns are numbered from 1; 0 is no column.

Field(name, type) == [name |-> name, type |-> type]

IndexOf(fields, name) == SelectInSeq(fields, LAMBDA f : f.name = name)

InOrder(S, n) == SelectSeq([i \in 1..n |-> i], LAMBDA i : i \in S)

\* A table: its schema, and the columns its batches hold.
Base(t) ==
  [fields  |-> [i \in DOMAIN Catalog[t] |-> Field(Ref(Catalog[t][i].name), Catalog[t][i].type)],
   columns |-> [i \in DOMAIN Catalog[t] |-> Ref(<<t>> \o Catalog[t][i].name)]]

\* `select_columns`
SelectColumns(table, keep) ==
  [fields  |-> [i \in DOMAIN keep |-> table.fields[keep[i]]],
   columns |-> [i \in DOMAIN keep |-> table.columns[keep[i]]]]

Source(table) == [op |-> "source", fields |-> table.fields, columns |-> table.columns]

QualifiedSource(table, t) ==
  Source([table EXCEPT !.fields =
            [i \in DOMAIN table.fields |->
               Field(Ref(<<t>> \o table.fields[i].name.parts), table.fields[i].type)]])

\* `JoinExec::try_new_join`, for keys of one type.
JoinExec(left, right, lk, rk, kind) ==
  [op |-> "join", left |-> left, right |-> right, lk |-> lk, rk |-> rk, kind |-> kind,
   fields |-> left.fields \o right.fields]

NoKeep == <<0>>
RowsField == Field(Ref(<<"$rows">>), "int")

\* Mutant: the columns left out stay in the schema.
FilterExecWholeSchema(input, on, keep) ==
  [op |-> "filter", input |-> input, on |-> on, keep |-> keep, fields |-> input.fields]

\* `FilterExec`, and its output with `with_keep`: NoKeep outputs every column.
FilterExec(input, on, keep) ==
  [op |-> "filter", input |-> input, on |-> on, keep |-> keep,
   fields |-> CASE keep = NoKeep -> input.fields
                [] keep = <<>>   -> <<RowsField>>
                [] OTHER         -> [i \in DOMAIN keep |-> input.fields[keep[i]]]]

CondFilterExec(input, on) == [op |-> "cond_filter", input |-> input, on |-> on, fields |-> input.fields]

\* `aggregate_output_type`
OutputType(agg, input) ==
  CASE agg.func = "count" -> "int"
    [] agg.func = "avg"   -> "float"
    [] OTHER              -> input[agg.column].type

\* `AggregateExec::new`, which refuses a SUM or AVG of what is not numeric.
AggregateExec(input, group_by, aggs) ==
  [op |-> "aggregate", input |-> input, group_by |-> group_by, aggs |-> aggs, having |-> <<>>,
   fields |-> [i \in DOMAIN group_by |-> input.fields[group_by[i]]]
              \o [i \in DOMAIN aggs |-> Field(aggs[i].name, OutputType(aggs[i], input.fields))]]

CanAggregate(input, aggs) ==
  \A i \in DOMAIN aggs :
    aggs[i].func \in {"sum", "avg"} => IsNumeric(input[aggs[i].column].type)

SortExec(input, keys) == [op |-> "sort", input |-> input, keys |-> keys, fields |-> input.fields]

ProjectExec(input, exprs, names) ==
  [op |-> "project", input |-> input, exprs |-> exprs,
   fields |-> [i \in DOMAIN exprs |-> Field(names[i], input.fields[exprs[i]].type)]]

-----------------------------------------------------------------------------
\* Resolving names.

Scope(tables, isJoined) == [tables |-> tables, joined |-> isJoined]

\* `split_table`: which table the reference is qualified with, or 0.
SplitTable(ref, tables) ==
  IF ~IsAggregate(ref) /\ Len(ref.parts) > 1
  THEN SelectInSeq(tables, LAMBDA t : t = Head(ref.parts))
  ELSE 0
Bare(ref) == Ref(Tail(ref.parts))

\* The columns whose name ends in a dot and the reference.
EndingIn(ref, fields) ==
  {i \in DOMAIN fields : fields[i].name.agg = "" /\ IsStrictSuffix(ref.parts, fields[i].name.parts)}

Resolve(fields, scope, ref) ==
  LET exact == IndexOf(fields, ref)
      qualified == SplitTable(ref, scope.tables) # 0
      hits == EndingIn(ref, fields)
  IN  CASE exact # 0 -> exact
        [] exact = 0 /\ qualified -> IF scope.joined THEN 0 ELSE IndexOf(fields, Bare(ref))
        [] exact = 0 /\ ~qualified /\ scope.joined /\ Cardinality(hits) = 1 -> CHOOSE i \in hits : TRUE
        [] OTHER -> 0

\* `join_keys`: the column of the tables so far and that of the next, or zeros.
JoinKeys(acc, tables, right, t, a, b) ==
  LET all == Append(tables, t)
      Located(sofar, at) == [sofar |-> sofar, at |-> at]
      Locate(ref) ==
        LET which == SplitTable(ref, all)
            hits == EndingIn(ref, acc)
        IN  CASE which = Len(all) -> Located(FALSE, IndexOf(right, Bare(ref)))
              [] which \in DOMAIN tables -> Located(TRUE, IndexOf(acc, ref))
              [] which = 0 /\ Cardinality(hits) = 1 -> Located(TRUE, CHOOSE i \in hits : TRUE)
              [] which = 0 /\ hits = {} -> Located(FALSE, IndexOf(right, ref))
              [] OTHER -> Located(TRUE, 0)
      x == Locate(a)
      y == Locate(b)
  IN  CASE x.at = 0 \/ y.at = 0 \/ x.sofar = y.sofar -> <<0, 0>>
        [] OTHER -> IF x.sofar THEN <<x.at, y.at>> ELSE <<y.at, x.at>>

-----------------------------------------------------------------------------
\* Leaving columns out.

\* `needed_refs`: NoRefs if there is a star.  An ORDER BY of an alias needs nothing.
NeededRefs(q) ==
  LET operands == {q.items[i].operand : i \in DOMAIN q.items}
                  \cup ToSet(q.where.operands) \cup ToSet(q.having.operands)
                  \cup {x \in {q.order_by[i].operand : i \in DOMAIN q.order_by} :
                          IsAggregate(x) \/ \A i \in DOMAIN q.items : q.items[i].alias # x}
  IN  IF Wild \in ToSet(q.items) THEN NoRefs
      ELSE {Ref(x.parts) : x \in operands \ {CountAll}} \cup ToSet(q.group_by)
           \cup UNION {{q.joins[i].a, q.joins[i].b} : i \in DOMAIN q.joins}

\* Whether a reference names this column of a table, bare or qualified.
Names(ref, name, t) == ref.parts = name \/ ref.parts = <<t>> \o name

\* `refs_resolve`
RefsResolve(refs, tables) ==
  \A ref \in refs : \E k \in DOMAIN tables : \E i \in DOMAIN Catalog[tables[k]] :
    Names(ref, Catalog[tables[k]][i].name, tables[k])

\* A table without the columns the query does not need, but never without any.
Prune(t, refs) ==
  LET table == Base(t)
      named == {i \in DOMAIN table.fields : \E ref \in refs : Names(ref, table.fields[i].name.parts, t)}
      keep == IF named = {} THEN {1} ELSE named
  IN  IF refs = NoRefs THEN table ELSE SelectColumns(table, InOrder(keep, Len(table.fields)))

\* `filter_keep`: what is read above WHERE, by its number below.
FilterKeep(q, scope, fields) ==
  LET refs == NeededRefs([q EXCEPT !.where = NoCond])
      cols == {Resolve(fields, scope, ref) : ref \in refs}
  IN  IF refs = NoRefs \/ 0 \in cols \/ cols = DOMAIN fields THEN NoKeep
      ELSE InOrder(cols, Len(fields))

-----------------------------------------------------------------------------
\* The upper part of a plan.

\* `aggregate_name`, and the aggregate it is the name of.  Column 0: no such column.
Bound(fields, scope, x) ==
  LET i == Resolve(fields, scope, Ref(x.parts))
  IN  CASE x = CountAll -> [func |-> "count", column |-> 1, name |-> CountAll, star |-> TRUE]
        [] x # CountAll /\ i = 0 -> [func |-> x.agg, column |-> 0, name |-> NoName, star |-> FALSE]
        [] OTHER -> [func |-> x.agg, column |-> i, name |-> Name(x.agg, fields[i].name.parts), star |-> FALSE]

\* `aggregates_of`: each once, by name.
AggregatesOf(q, fields, scope) ==
  LET uses == AggregateUses(q)
      Add(aggs, x) == LET agg == Bound(fields, scope, x)
                      IN  IF \E k \in DOMAIN aggs : aggs[k].name = agg.name THEN aggs ELSE Append(aggs, agg)
  IN  FoldLeft(Add, <<>>, uses)

\* What is projected: a column of the plan, its name, and an alias.
Entry(i, name, alias) == [column |-> i, name |-> name, alias |-> alias]

Stripped(name, scope) == IF SplitTable(name, scope.tables) # 0 THEN Bare(name) ELSE name

\* Mutant: outputs that collide are not told apart.
StrippedNames(entries, scope) ==
  [i \in DOMAIN entries |->
     CASE entries[i].alias # NoName -> entries[i].alias
       [] entries[i].alias = NoName /\ scope.joined -> Stripped(entries[i].name, scope)
       [] OTHER -> entries[i].name]

\* `output_names`
OutputNames(entries, scope) ==
  LET short == [i \in DOMAIN entries |->
                  CASE entries[i].alias # NoName -> entries[i].alias
                    [] entries[i].alias = NoName /\ scope.joined -> Stripped(entries[i].name, scope)
                    [] OTHER -> entries[i].name]
      Apart(out, i) ==
        IF /\ scope.joined /\ entries[i].alias = NoName
           /\ \E j \in DOMAIN out \ {i} : out[j] = out[i]
        THEN [out EXCEPT ![i] = entries[i].name]
        ELSE out
  IN  FoldLeft(Apart, short, [i \in DOMAIN entries |-> i])

\* `project_items`: a projection that changes nothing is left out.
ProjectItems(p, entries, scope) ==
  LET names == OutputNames(entries, scope)
      exprs == [i \in DOMAIN entries |-> entries[i].column]
      identity == /\ exprs = [i \in DOMAIN p.fields |-> i]
                  /\ \A i \in DOMAIN entries : entries[i].alias = NoName /\ names[i] = p.fields[i].name
  IN  IF identity THEN p ELSE ProjectExec(p, exprs, names)

\* The keys of ORDER BY, for the columns it was found to name.
SortKeys(q, columns) ==
  [i \in DOMAIN columns |-> [column |-> columns[i], desc |-> q.order_by[i].desc]]

Sorted(p, keys) == IF keys = <<>> THEN p ELSE SortExec(p, keys)

\* `plan_plain`: NoPlan is an error.
Plain(p, scope, q) ==
  LET Column(x) == Resolve(p.fields, scope, x)
      keys == SortKeys(q, [i \in DOMAIN q.order_by |-> Column(AliasOperand(q, q.order_by[i].operand))])
      all == [i \in DOMAIN p.fields |-> Entry(i, p.fields[i].name, NoName)]
      found == \A i \in DOMAIN q.items : q.items[i] = Wild \/ Column(q.items[i].operand) # 0
      entries == FlattenSeq([i \in DOMAIN q.items |->
        IF q.items[i] = Wild THEN all
        ELSE LET c == Column(q.items[i].operand)
             IN  <<Entry(c, p.fields[c].name, q.items[i].alias)>>])
  IN  IF ~found \/ \E i \in DOMAIN keys : keys[i].column = 0 THEN NoPlan
      ELSE ProjectItems(Sorted(p, keys), entries, scope)

\* `final_aggregates`
FinalAggregates(aggs) ==
  [i \in DOMAIN aggs |->
     [func |-> IF aggs[i].func = "count" THEN "sum" ELSE aggs[i].func,
      column |-> 1 + i, name |-> aggs[i].name, star |-> FALSE]]

\* The columns of the GROUP BY, or of the SELECT list of a DISTINCT.
GroupNames(q, input) ==
  CASE q.group_by # <<>> -> q.group_by
    [] q.group_by = <<>> /\ q.distinct /\ ~HasAggregates(q) ->
         FlattenSeq([i \in DOMAIN q.items |->
           IF q.items[i] = Wild THEN [k \in DOMAIN input |-> input[k].name]
           ELSE <<q.items[i].operand>>])
    [] OTHER -> <<>>

\* `GroupNames` and aggregates that are columns of `input`, and items that are grouped by.
GroupBound(q, input, scope, group, aggs) ==
  /\ 0 \notin ToSet(group)
  /\ \A i \in DOMAIN aggs : aggs[i].column # 0
  /\ \A i \in DOMAIN q.items :
       q.items[i] # Wild /\ ~IsAggregate(q.items[i].operand) =>
         Resolve(input, scope, q.items[i].operand) \in ToSet(group)

\* `plan_grouped` above the groups.  Output(x) is the column of `agg` for an operand.
GroupedOutput(agg, input, scope, q) ==
  LET Output(x) == IF IsAggregate(x) THEN IndexOf(agg.fields, Bound(input, scope, x).name)
                   ELSE Resolve(agg.fields, scope, x)
      all == [i \in DOMAIN agg.fields |-> i]
      Columns(operands) == [i \in DOMAIN operands |-> Output(AliasOperand(q, operands[i]))]
      Shown(items) == [i \in DOMAIN items |-> IF items[i] = Wild THEN all ELSE <<Output(items[i].operand)>>]
      Entries(shown) == FlattenSeq([i \in DOMAIN shown |-> [k \in DOMAIN shown[i] |->
        Entry(shown[i][k], agg.fields[shown[i][k]].name, q.items[i].alias)]])
      Made(having, keys, shown) ==
        IF 0 \in ToSet(having) \cup ToSet(keys) \/ <<0>> \in ToSet(shown) THEN NoPlan
        ELSE ProjectItems(Sorted([agg EXCEPT !.having = having], SortKeys(q, keys)), Entries(shown), scope)
  IN  Made(Columns(q.having.operands), Columns([i \in DOMAIN q.order_by |-> q.order_by[i].operand]),
           Shown(q.items))

\* `plan_grouped`: names are those of `input`, which is not the schema of the
\* plan below when the join was rewritten.
GroupedPlan(p, scope, q, input) ==
  LET names == GroupNames(q, input)
      Below(group, aggs) == IF pushed = NoPushdown THEN group
                            ELSE [i \in DOMAIN group |-> group[i] - pushed.width + 1 + Len(aggs)]
      Over(group, list) == IF CanAggregate(p.fields, list)
                           THEN GroupedOutput(AggregateExec(p, group, list), input, scope, q) ELSE NoPlan
      With(group, aggs) == IF GroupBound(q, input, scope, group, aggs)
                           THEN Over(Below(group, aggs), IF pushed = NoPushdown THEN aggs ELSE FinalAggregates(aggs))
                           ELSE NoPlan
  IN  With([i \in DOMAIN names |-> Resolve(input, scope, names[i])], AggregatesOf(q, input, scope))

-----------------------------------------------------------------------------
\* What the operators of a plan read.

\* An aggregate of a column, or of a partial aggregate of it.
Combined(agg, column) ==
  CASE agg.star -> CountAll
    [] ~agg.star /\ ~IsAggregate(column) -> Name(agg.func, column.parts)
    [] ~agg.star /\ agg.func = "sum" /\ column.agg \in {"sum", "count"} -> column
    [] ~agg.star /\ agg.func \in {"min", "max"} /\ column.agg = agg.func -> column
    [] OTHER -> Name("nested", column.parts)

\* `global_selectable`, over a filter, whose `selection` is the rows of its input.
ReadsSelection(p) ==
  /\ p.group_by = <<>> /\ p.input.op = "filter"
  /\ \A i \in DOMAIN p.aggs :
       \/ p.aggs[i].func = "count"
       \/ p.aggs[i].func = "sum" /\ p.input.fields[p.aggs[i].column].type = "int"

\* Mutant: a selection's columns are read by their number above the filter.
SourceAbove(p, i) == i

\* The column of a selection for a column of the filter's output.
SourceColumn(p, i) == IF p.input.keep = NoKeep THEN i ELSE p.input.keep[i]

\* `kept_groups`: a batch of only the columns HAVING reads.
ProbedBy(having, columns) ==
  LET referenced == InOrder(ToSet(having), Len(columns))
      probe == [i \in DOMAIN referenced |-> columns[referenced[i]]]
      Remapped(i) == SelectInSeq(referenced, LAMBDA c : c = i)
  IN  [i \in DOMAIN having |-> probe[Remapped(having[i])]]

RECURSIVE Read(_)
Read(p) ==
  CASE p.op = "source" ->
         [status |-> "answer", joins |-> <<>>, where |-> <<>>, grouped |-> FALSE, keys |-> <<>>,
          having |-> <<>>, sort |-> <<>>, columns |-> p.columns]
    [] p.op = "join" ->
         LET l == Read(p.left)
             r == Read(p.right)
             on == l.columns[p.lk]
         IN  [l EXCEPT !.joins = Append(l.joins, [left |-> IF l.grouped /\ l.keys # <<on>> THEN NoName ELSE on,
                                                  right |-> r.columns[p.rk], kind |-> p.kind]),
                       !.grouped = FALSE, !.keys = <<>>, !.columns = l.columns \o r.columns]
    [] p.op = "filter" ->
         LET in == Read(p.input)
         IN  [in EXCEPT !.where = [i \in DOMAIN p.on |-> in.columns[p.on[i]]],
                        !.columns = CASE p.keep = NoKeep -> in.columns
                                      [] p.keep = <<>>   -> <<RowsField.name>>
                                      [] OTHER -> [i \in DOMAIN p.keep |-> in.columns[p.keep[i]]]]
    [] p.op = "cond_filter" ->
         LET in == Read(p.input)
         IN  [in EXCEPT !.where = [i \in DOMAIN p.on |-> in.columns[p.on[i]]]]
    [] p.op = "aggregate" ->
         LET in == Read(p.input)
             under == IF ReadsSelection(p) THEN Read(p.input.input).columns ELSE in.columns
             Column(i) == under[IF ReadsSelection(p) THEN SourceColumn(p, i) ELSE i]
             keys == [i \in DOMAIN p.group_by |-> in.columns[p.group_by[i]]]
             columns == keys \o [i \in DOMAIN p.aggs |->
               IF p.aggs[i].star THEN CountAll ELSE Combined(p.aggs[i], Column(p.aggs[i].column))]
         IN  [in EXCEPT !.grouped = TRUE, !.keys = keys, !.columns = columns,
                        !.having = ProbedBy(p.having, columns)]
    [] p.op = "sort" ->
         LET in == Read(p.input)
         IN  [in EXCEPT !.sort = [i \in DOMAIN p.keys |-> Key(in.columns[p.keys[i].column], p.keys[i].desc)]]
    [] p.op = "project" ->
         LET in == Read(p.input)
         IN  [in EXCEPT !.columns = [i \in DOMAIN p.exprs |-> in.columns[p.exprs[i]]]]

-----------------------------------------------------------------------------
\* The steps of build_plan.

Init ==
  /\ query \in Asked
  /\ stage = "start" /\ needed = NoRefs /\ joined = 0
  /\ plan = NoPlan /\ pushed = NoPushdown /\ answer = NoPlan

FullScope == Scope(Tables(query), IsJoined(query))

Fail(why) == stage' = why /\ UNCHANGED <<query, needed, joined, plan, pushed, answer>>

\* The tables are looked up, and left out of them is what is not needed, unless
\* some reference names none of their columns.
LookUp ==
  /\ stage = "start" /\ query.kind = "sql"
  /\ IF ToSet(Tables(query)) \subseteq DOMAIN Catalog
     THEN LET refs == NeededRefs(query)
          IN  /\ needed' = IF refs # NoRefs /\ RefsResolve(refs, Tables(query)) THEN refs ELSE NoRefs
              /\ stage' = "rewrite"
              /\ UNCHANGED <<query, joined, plan, pushed, answer>>
     ELSE Fail("error")

\* What the rewritten join may group by and aggregate, over columns of which
\* the first `width` are the left table's.
CanPush(fields, width, aggs) ==
  /\ Len(query.joins) = 1 /\ query.joins[1].kind = "inner"
  /\ query.where = NoCond /\ ~query.distinct /\ query.group_by # <<>>
  /\ \A i \in DOMAIN query.group_by : Resolve(fields, FullScope, query.group_by[i]) > width
  /\ \A i \in DOMAIN aggs :
       /\ aggs[i].column # 0 /\ aggs[i].func # "avg"
       /\ \/ aggs[i].star
          \/ /\ aggs[i].column <= width
             /\ aggs[i].func = "sum" => fields[aggs[i].column].type = "int"

\* The groups of the left table, joined to the right.
JoinPushed(left, right, on, aggs) ==
  IF left.fields[on[1]].type = right.fields[on[2]].type
  THEN /\ plan' = JoinExec(AggregateExec(left, <<on[1]>>, aggs), right, 1, on[2], "inner")
       /\ pushed' = [fields |-> left.fields \o right.fields, width |-> Len(left.fields)]
       /\ stage' = "filter"
       /\ UNCHANGED <<query, needed, joined, answer>>
  ELSE Fail("error")

StartJoins(left) ==
  /\ plan' = left
  /\ stage' = IF IsJoined(query) THEN "join" ELSE "filter"
  /\ UNCHANGED <<query, needed, joined, pushed, answer>>

\* `pushdown_join`, for a query of one join; where it does not apply, the joins are
\* taken in turn.
PushdownJoin ==
  LET j == query.joins[1]
      Rewrite(left, rightTable, aggs, on) ==
        IF CanPush(left.fields \o QualifiedSource(rightTable, j.right).fields, Len(left.fields), aggs) /\ on # <<0, 0>>
        THEN JoinPushed(left, QualifiedSource(rightTable, j.right), on, aggs) ELSE StartJoins(left)
      Sides(left, rightTable) ==
        Rewrite(left, rightTable,
                AggregatesOf(query, left.fields \o QualifiedSource(rightTable, j.right).fields, FullScope),
                JoinKeys(left.fields, <<query.from>>, rightTable.fields, j.right, j.a, j.b))
  IN  /\ stage = "rewrite"
      /\ IF IsJoined(query)
         THEN Sides(QualifiedSource(Prune(query.from, needed), query.from), Prune(j.right, needed))
         ELSE StartJoins(Source(Prune(query.from, needed)))

\* The next join of the chain.
JoinNext ==
  LET j == query.joins[joined + 1]
      before == SubSeq(Tables(query), 1, joined + 1)
      rightTable == Prune(j.right, needed)
      right == QualifiedSource(rightTable, j.right)
      on == JoinKeys(plan.fields, before, rightTable.fields, j.right, j.a, j.b)
  IN  /\ stage = "join"
      /\ IF /\ j.right \notin ToSet(before)
            /\ on # <<0, 0>>
            /\ plan.fields[on[1]].type = right.fields[on[2]].type
         THEN /\ plan' = JoinExec(plan, right, on[1], on[2], j.kind)
              /\ joined' = joined + 1
              /\ stage' = IF joined' = Len(query.joins) THEN "filter" ELSE "join"
              /\ UNCHANGED <<query, needed, pushed, answer>>
         ELSE Fail("error")

\* `finish_plan` down to the filter, and `apply_filter`.
ApplyFilter ==
  LET on == [i \in DOMAIN query.where.operands |->
               Resolve(plan.fields, FullScope, query.where.operands[i])]
      keep == FilterKeep(query, FullScope, plan.fields)
  IN  /\ stage = "filter"
      /\ IF 0 \in ToSet(on) THEN Fail("error")
         ELSE /\ plan' = CASE query.where = NoCond -> plan
                           [] query.where # NoCond /\ query.where.simple -> FilterExec(plan, on, keep)
                           [] OTHER -> CondFilterExec(plan, on)
              /\ stage' = "output"
              /\ UNCHANGED <<query, needed, joined, pushed, answer>>

PlanOutput(p) ==
  /\ stage' = IF p = NoPlan THEN "error" ELSE "planned"
  /\ plan' = IF p = NoPlan THEN plan ELSE p
  /\ UNCHANGED <<query, needed, joined, pushed, answer>>

PlanPlain == stage = "output" /\ ~IsGrouped(query) /\ PlanOutput(Plain(plan, FullScope, query))

PlanGrouped ==
  /\ stage = "output" /\ IsGrouped(query)
  /\ LET input == IF pushed = NoPushdown THEN plan.fields ELSE pushed.fields
     IN  PlanOutput(GroupedPlan(plan, FullScope, query, input))

\* `QueryBuilder`: the columns are looked up as the calls are made, then `execute`
\* puts the operators together.
BuildQuery ==
  LET table == Base(query.from)
      Column(ref) == IndexOf(table.fields, ref)
      on == [i \in DOMAIN query.where |-> Column(query.where[i])]
      group == [i \in DOMAIN query.group_by |-> Column(query.group_by[i])]
      aggs == [i \in DOMAIN query.aggregates |->
        LET x == query.aggregates[i]
        IN  IF x = CountAll THEN Bound(table.fields, Scope(<<>>, FALSE), x)
            ELSE [func |-> x.agg, column |-> Column(Ref(x.parts)), name |-> x, star |-> FALSE]]
      filtered == IF on = <<>> THEN Source(table) ELSE FilterExec(Source(table), on, NoKeep)
      grouped == IF group \o aggs = <<>> THEN filtered ELSE AggregateExec(filtered, group, aggs)
      exprs == [i \in DOMAIN query.project |-> IndexOf(grouped.fields, query.project[i])]
      projected == IF exprs = <<>> THEN grouped ELSE ProjectExec(grouped, exprs, query.project)
      keys == SortKeys(query, [i \in DOMAIN query.order_by |-> IndexOf(projected.fields, query.order_by[i].operand)])
      calls == /\ 0 \notin ToSet(on) \cup ToSet(group)
               /\ \A i \in DOMAIN aggs : aggs[i].column # 0
      executes == /\ CanAggregate(table.fields, aggs)
                  /\ 0 \notin ToSet(exprs)
                  /\ \A i \in DOMAIN keys : keys[i].column # 0
  IN  /\ stage = "start" /\ query.kind = "builder"
      /\ PlanOutput(IF ~calls THEN NoPlan ELSE IF ~executes THEN NoPlan ELSE Sorted(projected, keys))

Execute ==
  /\ stage = "planned"
  /\ answer' = Read(plan)
  /\ stage' = "done"
  /\ UNCHANGED <<query, needed, joined, plan, pushed>>

Done == stage \in {"done", "error"} /\ UNCHANGED vars

Next ==
  \/ LookUp \/ PushdownJoin \/ JoinNext \/ ApplyFilter \/ PlanPlain \/ PlanGrouped
  \/ BuildQuery \/ Execute \/ Done

Spec == Init /\ [][Next]_vars

-----------------------------------------------------------------------------
\* The stages, and that a plan's schema has a field for each column it gives out, of that
\* column's type: an operator that leaves columns out has to say so.
TypeOK ==
  /\ stage \in {"start", "rewrite", "join", "filter", "output", "planned", "done", "error"}
  /\ joined \in 0..Len(IF query.kind = "sql" THEN query.joins ELSE <<>>)
  /\ plan # NoPlan => Len(plan.fields) = Len(Read(plan).columns)

\* `output_names`: an output without an alias is named so that its column can be told from the
\* name, and outputs of different columns differ in their names.
NamesApart ==
  LET columns == answer.columns
      names == [i \in DOMAIN plan.fields |-> plan.fields[i].name]
  IN  stage = "done" /\ (query.kind = "sql" => \A i \in DOMAIN query.items : query.items[i].alias = NoName) =>
        \A i \in DOMAIN names :
          /\ names[i].agg = columns[i].agg /\ IsSuffix(names[i].parts, columns[i].parts)
          /\ \A j \in DOMAIN names : columns[i] # columns[j] => names[i] # names[j]

\* `build_plan`: whatever is left out, renumbered or moved below a join, the plan joins,
\* compares, groups, sorts and returns the columns that the query names.
Result == INSTANCE NamedQuery WITH
  answer <- CASE stage = "done"  -> answer
              [] stage = "error" -> [status |-> "refused"]
              [] OTHER           -> [status |-> "none"]

ImplementsNamedQuery == Result!Spec
=============================================================================
