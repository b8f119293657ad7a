----------------------------- MODULE MCPlanner -----------------------------
(***************************************************************************)
(* Three tables: two share the names k and a, and one has a column "x.a".  *)
(***************************************************************************)
EXTENDS Planner

Col(name, type) == [name |-> name, type |-> type]

MCCatalog == [t |-> <<Col(<<"k">>, "int"), Col(<<"a">>, "int"), Col(<<"x", "a">>, "int"), Col(<<"s">>, "str")>>,
              u |-> <<Col(<<"b">>, "str"), Col(<<"k">>, "int"), Col(<<"a">>, "float")>>,
              v |-> <<Col(<<"j">>, "int"), Col(<<"b">>, "str")>>]

K == Ref(<<"k">>)
A == Ref(<<"a">>)
B == Ref(<<"b">>)
S == Ref(<<"s">>)
J == Ref(<<"j">>)
TK == Ref(<<"t", "k">>)
TA == Ref(<<"t", "a">>)
XA == Ref(<<"x", "a">>)
UK == Ref(<<"u", "k">>)
UA == Ref(<<"u", "a">>)
UB == Ref(<<"u", "b">>)
VB == Ref(<<"v", "b">>)
Missing == Ref(<<"t", "z">>)
Alias == Ref(<<"y">>)
Sum(ref) == Name("sum", ref.parts)
MinOf(ref) == Name("min", ref.parts)
CountOf(ref) == Name("count", ref.parts)

Sql(distinct, items, from, joins, where, group_by, having, order_by) ==
  [kind |-> "sql", distinct |-> distinct, items |-> items, from |-> from, joins |-> joins,
   where |-> where, group_by |-> group_by, having |-> having, order_by |-> order_by]

As(x) == Item(x, Alias)
I(x) == Item(x, NoName)
Up(x) == Key(x, FALSE)
Down(x) == Key(x, TRUE)

\* One table.
Alone ==
  {Sql(d, items, "t", <<>>, where, group, having, order) :
     d \in BOOLEAN,
     items \in {<<I(A)>>, <<I(S), As(TA)>>, <<I(TA), I(XA)>>, <<Wild>>, <<I(K), I(Sum(A))>>,
                <<I(CountAll)>>, <<As(Sum(XA)), I(CountAll)>>, <<I(Sum(S))>>},
     where \in {NoCond, Cond(<<K>>, TRUE), Cond(<<XA, S>>, TRUE), Cond(<<K, TA>>, FALSE), Cond(<<Missing>>, TRUE)},
     group \in {<<>>, <<K>>, <<Ref(<<"t", "s">>), A>>},
     having \in {NoCond, Cond(<<Sum(A)>>, TRUE), Cond(<<Alias, CountAll>>, FALSE)},
     order \in {<<>>, <<Up(A)>>, <<Down(Alias), Up(TK)>>, <<Up(MinOf(XA))>>}}

\* Two tables.
One(a, b, kind) == <<Join("u", a, b, kind)>>
Two ==
  {Sql(d, items, "t", join, where, group, having, order) :
     d \in BOOLEAN,
     items \in {<<I(B), I(TA)>>, <<I(TK), I(UK)>>, <<I(UB), I(Sum(TA)), As(CountAll)>>, <<Wild>>, <<I(A)>>},
     join \in {One(TK, UK, "inner"), One(UK, TK, "left"), One(K, UK, "inner")},
     where \in {NoCond, Cond(<<S>>, TRUE), Cond(<<UA, B>>, FALSE)},
     group \in {<<>>, <<B>>, <<UB, TK>>},
     having \in {NoCond, Cond(<<MinOf(S), Alias>>, TRUE)},
     order \in {<<>>, <<Up(B)>>, <<Down(Sum(TA)), Up(UB)>>}}

\* What the rewriting of a join asks for, and nearly.
Pushed ==
  {Sql(FALSE, <<I(UB), As(agg)>>, "t", join, NoCond, group, having, order) :
     agg \in {Sum(TA), Sum(UA), Sum(A), CountOf(S), MinOf(S), CountAll, Name("avg", TA.parts), Sum(S)},
     join \in {One(TK, UK, "inner"), One(TA, UA, "inner"), One(S, B, "inner"), One(TK, UK, "full"), One(TK, UA, "inner"),
               One(A, UK, "inner"), <<Join("t", TK, TA, "inner")>>, <<Join("w", TK, TA, "inner")>>},
     group \in {<<B>>, <<UK, UB>>, <<B, S>>, <<Missing>>},
     having \in {NoCond, Cond(<<Sum(TA), Alias>>, TRUE), Cond(<<CountOf(TA), UB>>, FALSE)},
     order \in {<<>>, <<Down(Alias)>>, <<Up(MinOf(TK)), Up(B)>>}}

\* Three tables.
Three ==
  {Sql(FALSE, items, "t", <<Join("u", TK, K, "inner"), Join("v", on, J, "left")>>, where, <<>>, NoCond, order) :
     items \in {<<I(UB), I(VB), I(J)>>, <<I(S)>>, <<I(B)>>, <<I(VB), I(CountAll)>>},
     on \in {UK, A, UB, TA, XA},
     where \in {NoCond, Cond(<<VB, TK>>, TRUE)},
     order \in {<<>>, <<Up(UA)>>}}

Built ==
  {[kind |-> "builder", from |-> "t", where |-> where, group_by |-> group, aggregates |-> aggs,
    project |-> project, order_by |-> order] :
     where \in {<<>>, <<A, S>>, <<TK>>},
     group \in {<<>>, <<S>>, <<XA, K>>},
     aggs \in {<<>>, <<CountAll>>, <<Sum(A), Sum(XA), Sum(A)>>, <<Sum(S)>>},
     project \in {<<>>, <<S, A>>, <<Sum(XA), S>>, <<CountAll>>},
     order \in {<<>>, <<Down(S)>>, <<Up(Sum(XA))>>, <<Up(K)>>}}

MCAsked == Alone \cup Two \cup Pushed \cup Three \cup Built
=============================================================================
