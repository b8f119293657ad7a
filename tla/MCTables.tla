------------------------------ MODULE MCTables ------------------------------
(***************************************************************************)
(* An i64 of -2 to 1, whole floats from 3.0 on shown without a point, ten  *)
(* microseconds to the second, and batches of fewer than eight rows.       *)
(***************************************************************************)
EXTENDS Tables

Word(c) == <<Sym(c)>>
Digits(n) == <<Char("int", <<n>>)>>
Decimal(n) == <<Char("decimal", <<n>>)>>
X == Sym("x")
Day(y, m, d) == Char("date", <<y, m, d>>)
Moment(y, m, d, h, mi, s, f) == Char("timestamp", <<y, m, d, h, mi, s, f>>)

Plain(s) == Cell(s, FALSE)
Quoted(s) == Cell(s, TRUE)

-----------------------------------------------------------------------------
\* CSV.

Csv(rows, crlf, blanks, last, steps) ==
  [kind |-> "csv", rows |-> rows, crlf |-> crlf, blanks |-> blanks, last |-> last, steps |-> steps]

PlainTexts == {<<>>, Digits(1), Digits(2), Decimal(15), Word("true"), Word("TRUE"), Word("x"), <<X, Quote>>,
               <<Blank>> \o Digits(-2), Decimal(30)}
QuotedTexts == {<<>>, Digits(0), <<Quote>>, <<X, Comma>>, <<CR, NL>>, Digits(1) \o <<NL>>, <<Quote, Comma, Quote>>}
AllCells == {Plain(s) : s \in PlainTexts} \cup {Quoted(s) : s \in QuotedTexts}

Header(names) == [c \in DOMAIN names |-> Plain(names[c])]

\* One column of two rows of any text, and any header.
OneColumn == {Csv(<<Header(<<Word("x")>>), <<a>>, <<b>>>>, FALSE, FALSE, "ended", 1) : a, b \in AllCells}
Headers == {Csv(<<<<name, Quoted(<<X, NL>>)>>, <<Plain(Digits(1)), cell>>>>, TRUE, FALSE, last, 1) :
              name, cell \in AllCells, last \in {"ended", "bare"}}

\* Lines of several lengths, and their ends.
Cells3 == {Plain(<<>>), Quoted(<<Quote>>), Plain(Digits(1))}
Lines == {<<a>> : a \in Cells3} \cup {<<a, b>> : a, b \in Cells3}
Lengths == {Csv(<<h, line>>, crlf, blanks, last, 0) :
              h \in {Header(<<Word("x")>>), Header(<<Word("x"), Digits(1)>>)}, line \in Lines,
              crlf, blanks \in BOOLEAN, last \in {"ended", "bare", "open"}}
Empty == {Csv(<<>>, FALSE, FALSE, last, 0) : last \in {"ended", "open"}}

-----------------------------------------------------------------------------
\* JSON.

Json(k, s) == [k |-> k, text |-> s]
JsonValues == {Json("null", <<>>), Json("bool", Word("false")), Json("number", Digits(1)), Json("number", Digits(2)),
               Json("number", Decimal(15)), Json("str", Digits(1)), Json("str", <<>>), Json("nested", <<>>)}
Entry(key, value) == [key |-> Word(key), value |-> value]

Records(records) == [kind |-> "json", records |-> records, steps |-> 1]

Objects == {Records(<<<<Entry("x", a), Entry("y", b)>>, <<Entry(k, c)>>>>) : a, b, c \in JsonValues, k \in {"x", "y", "z"}}
Twice == {Records(<<<<Entry("x", a), Entry("x", b)>>>>) : a, b \in JsonValues}
NoKeys == {Records(<<>>), Records(<<<<>>>>), Records(<<<<>>, <<Entry("x", Json("number", Digits(1)))>>>>)}

-----------------------------------------------------------------------------
\* Rows, and what is done with them.

Rows(names, rows, steps) == [kind |-> "rows", names |-> names, rows |-> rows, steps |-> steps]

V(t, n) == Value(t, <<n>>, <<>>)
Names2 == <<Word("x"), Word("y")>>

\* Days at the ends of years, leap years and centuries; micros around midnight.
Days == {-719528, -719527, -141428, -25509, -25508, -1, 0, 58, 59, 789, 790, 10956, 11016, 11017, 47540, 47541,
         2932896}
Micro == {-8640001, -864001, -1, 0, 9, 863999, 864000}

Dates == {Rows(Names2, <<<<V("date", a), V("timestamp", b)>>>>, 1) : a \in Days, b \in Micro}
DateLists == {Rows(<<Word("x")>>, [r \in 1..2 |-> <<days[r]>>], 1) : days \in [1..2 -> {V("date", -1), V("date", 789), Null}]}

Mixed == {Rows(<<Word("x")>>, [r \in 1..3 |-> <<values[r]>>], 1) :
            values \in [1..3 -> {V("i64", 1), V("f64", 30), V("f64", 25), Null, Str(<<>>), V("bool", 1)}]}

\* Tables that are worked on longer.
Worked ==
  {Rows(Names2, [r \in 1..Len(values) |-> <<values[r], Str(IF r = 1 THEN <<Comma>> ELSE Digits(1))>>], 2) :
     values \in {<<V("i64", 1), Null>>, <<Null, V("i64", 1)>>, <<V("i64", 0), V("i64", 1)>>}}
  \cup {Csv(<<Header(Names2), <<Plain(Digits(1)), Plain(Word("x"))>>, <<Plain(<<>>), Quoted(<<>>)>>>>, FALSE, FALSE, "bare", 2)}
  \cup {Rows(<<Word("x")>>, <<<<V("i64", 1)>>, <<Null>>>>, 3)}

Ragged == {Rows(Names2, <<<<V("i64", 1), Null>>, <<V("i64", 1)>>>>, 1), Rows(Names2, <<>>, 1)}

MCDocs == OneColumn \cup Headers \cup Lengths \cup Empty \cup Objects \cup Twice \cup NoKeys \cup Dates \cup DateLists
          \cup Mixed \cup Worked \cup Ragged

NoDates == {Day(1900, 2, 29), Day(2023, 4, 31), Day(2023, 13, 1), Moment(1970, 1, 1, 24, 0, 0, 0), Word("x")[1]}
Moments == {Moment(1969, 12, 31, 23, 59, 59, 9), Moment(1970, 1, 1, 0, 0, 0, 9), Moment(1972, 2, 29, 0, 0, 0, 0)}
Recent == {Day(1970, 1, 1), Day(1969, 12, 31), Day(1972, 2, 29)}
Remote == {Day(1900, 2, 28), Day(0, 1, 1), Day(9999, 12, 31), Day(2100, 3, 1), Day(2000, 2, 29)}

MCLiterals == [type \in {"date", "timestamp"} |->
                 NoDates \cup Moments \cup Recent \cup (IF type = "date" THEN Remote ELSE {})]
=============================================================================
