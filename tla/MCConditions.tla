---------------------------- MODULE MCConditions ----------------------------
(***************************************************************************)
(* Columns of four types over twenty-one rows, in which every integer meets   *)
(* every float; every comparison with every literal, and conditions of up  *)
(* to three parts under NOT, AND and OR.                                   *)
(***************************************************************************)
EXTENDS Conditions

MCSchema == <<"i64", "f64", "str", "date">>

\* Texts 0, 1 and 2; 1 is a date, the third day.
MCDateOf == [text \in 0..2 |-> IF text = 1 THEN 2 ELSE NoDate]
MCLikePairs == {<<0, 0>>, <<1, 0>>, <<1, 1>>, <<2, 2>>}

\* The largest float is above every i64; -5 halves are below.
Ints == <<Null, Scalar("i64", -2), Scalar("i64", 1)>>
Floats == <<Null, Scalar("f64", 9), Scalar("f64", 1), Scalar("f64", 2), Scalar("f64", 3), Scalar("f64", 4), Scalar("f64", -5)>>
Strings == <<Null, Scalar("str", 0), Scalar("str", 1), Scalar("str", 2)>>
Days == <<Null, Scalar("date", 1), Scalar("date", 2)>>

MCBatch == [i \in 1..21 |-> <<Ints[(i - 1) \div 7 + 1], Floats[((i - 1) % 7) + 1],
                              Strings[((i - 1) % 4) + 1], Days[((i - 1) % 3) + 1]>>]

Lits == {Written(minus, "i64", v) : minus \in BOOLEAN, v \in 1..2}
        \cup {Written(minus, "f64", v) : minus \in BOOLEAN, v \in {1, 4, 5}}
        \cup {Written(minus, "str", v) : minus \in BOOLEAN, v \in 0..1}
        \cup {Written(FALSE, "date", v) : v \in 0..1}
        \cup {Written(FALSE, "null", 0), Written(FALSE, "bool", 1)}

WCmp(col, op, lit) == [k |-> "cmp", col |-> col, op |-> op, lit |-> lit]
WIn(col, lits) == [k |-> "in", col |-> col, lits |-> lits]
WBetween(col, a, b) == [k |-> "between", col |-> col, lits |-> <<a, b>>]
WNull(col) == [k |-> "null", col |-> col]
WLike(col, lit) == [k |-> "like", col |-> col, lit |-> lit]
WNot(e, inside) == [k |-> "not", part |-> e, inside |-> inside]
WBoth(a, b) == [k |-> "and", parts |-> <<a, b>>]
WEither(a, b) == [k |-> "or", parts |-> <<a, b>>]

Sided == {WIn(col, <<a, b>>) : col \in {1, 2, 4}, a \in Lits, b \in {Written(FALSE, "null", 0), Written(FALSE, "i64", 1)}}
         \cup {WIn(col, <<a>>) : col \in {1, 4}, a \in Lits}
         \cup {WBetween(col, a, b) : col \in {2, 3}, a \in Lits, b \in Lits}
         \cup {WNull(col) : col \in 1..4}
         \cup {WLike(col, lit) : col \in {1, 3}, lit \in Lits}

Single == {WCmp(col, op, lit) : col \in 1..4, op \in Ordered, lit \in Lits}
          \cup {[k |-> "columns", col |-> a, op |-> op, right |-> b] : a \in 1..4, op \in Ordered, b \in 1..4}
          \cup Sided \cup {WNot(e, TRUE) : e \in Sided}

Base == {WCmp(1, ">", Written(TRUE, "i64", 2)),
         WCmp(2, "<=", Written(FALSE, "f64", 1)),
         WCmp(3, "=", Written(FALSE, "str", 1)),
         WBetween(2, Written(TRUE, "i64", 1), Written(FALSE, "i64", 1)),
         WIn(4, <<Written(FALSE, "str", 1), Written(FALSE, "null", 0)>>),
         [k |-> "columns", col |-> 1, op |-> "<", right |-> 2],
         WNull(3)}

Parts == Base \cup {WNot(e, FALSE) : e \in Base}
         \cup {WNot(WBetween(2, Written(FALSE, "null", 0), Written(FALSE, "f64", 1)), TRUE)}
Two == {WBoth(a, b) : a, b \in Parts} \cup {WEither(a, b) : a, b \in Parts}

MCExprs == Single \cup {WNot(e, FALSE) : e \in Single} \cup Two \cup {WNot(e, FALSE) : e \in Two}
           \cup {WBoth(e, b) : e \in Two, b \in Base} \cup {WEither(b, e) : e \in Two, b \in Base}

MCSources == {"where", "having"}
MCNoLiterals == {}
MCNoExprs == {}

MCFilterSource == {"filter"}
MCLiterals == {Scalar(t, v) : t \in {"i32", "i64", "f64", "str", "date", "null"}, v \in 0..2}
=============================================================================
