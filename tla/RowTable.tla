------------------------------ MODULE RowTable ------------------------------
(***************************************************************************)
(* A table as its user sees it: names, types, and rows of values, some of  *)
(* them NULL.  It is made from a document, its rows are picked, and it is  *)
(* written as CSV and read again.  Days are counted by the calendar.       *)
(*                                                                         *)
(* What is written does not tell NULL from the empty text, nor a row of    *)
(* one NULL from a blank line, and a type is found from the text alone.    *)
(***************************************************************************)
EXTENDS Documents

CONSTANTS
  Micros      \* microseconds in a second

VARIABLES
  doc,        \* the document
  table,      \* the table, or its absence
  imported,   \* what the document gave
  did         \* what was done last

vars == <<doc, table, imported, did>>

Absent == [status |-> "absent", names |-> <<>>, types |-> <<>>, rows |-> <<>>]
Refused == [Absent EXCEPT !.status = "refused"]
Present(names, types, rows) == [status |-> "present", names |-> names, types |-> types, rows |-> rows]

-----------------------------------------------------------------------------
\* The calendar.

LeapYears(first, last) == Cardinality({y \in first..last : y % 4 = 0 /\ (y % 100 = 0 => y % 400 = 0)})

MonthLength(y, m) ==
  CASE m = 2 -> 28 + LeapYears(y, y) [] m \in {4, 6, 9, 11} -> 30 [] OTHER -> 31

\* From the first of January 1970 to that of y.
YearStart(y) ==
  IF y >= 1970 THEN 365 * (y - 1970) + LeapYears(1970, y - 1)
  ELSE 365 * (y - 1970) - LeapYears(y, 1969)

MonthStart(y, m) == YearStart(y) + FoldLeft(+, 0, [k \in 1..(m - 1) |-> MonthLength(y, k)])

DayOf(date) == MonthStart(date[1], date[2]) + date[3] - 1

DateOf(day) ==
  LET about == 1970 + day \div 365
      y == CHOOSE y \in (about - 30)..(about + 30) : YearStart(y) <= day /\ day < YearStart(y + 1)
      m == CHOOSE m \in 1..12 : MonthStart(y, m) <= day /\ day < MonthStart(y, m) + MonthLength(y, m)
  IN  <<y, m, day - MonthStart(y, m) + 1>>

PerDay == 86400 * Micros

\* The instant that a date, or a date and a time, denotes as a type's value.
Denotes(type, c) ==
  LET n == c.n
      valid == n[1] \in 0..9999 /\ n[2] \in 1..12 /\ n[3] \in 1..MonthLength(n[1], n[2])
  IN  CASE type = "date" /\ c.c = "date" /\ valid -> Some(DayOf(n))
        [] type = "timestamp" /\ c.c = "date" /\ valid -> Some(DayOf(n) * PerDay)
        [] type = "timestamp" /\ c.c = "timestamp" /\ valid /\ n[4] < 24 /\ n[5] < 60 /\ n[6] < 60 ->
             Some(DayOf(n) * PerDay + (3600 * n[4] + 60 * n[5] + n[6]) * Micros + n[7])
        [] OTHER -> None

-----------------------------------------------------------------------------
\* Reading.

Column(rows, c) == [r \in DOMAIN rows |-> rows[r][c]]
InColumn(column) == {column[r][1] : r \in {r \in DOMAIN column : column[r] # None}}

\* Blanks around a number or a truth value do not matter.
Reads(type, text) == ParseAs(type, IF type = "str" THEN text ELSE Trim(text))

\* The first type all of whose texts are values of it; a column of NULLs is of texts.
Narrowest(texts) ==
  LET fits == SelectSeq(<<"i64", "f64", "bool", "str">>,
                        LAMBDA type : \A text \in texts : Reads(type, text) # None)
  IN  IF texts = {} THEN "str" ELSE fits[1]

\* A table of named columns of optional texts.
OfTexts(names, rows) ==
  LET types == [c \in DOMAIN names |-> Narrowest(InColumn(Column(rows, c)))]
  IN  Present(names, types,
        [r \in DOMAIN rows |-> [c \in DOMAIN names |->
           IF rows[r][c] = None THEN Null ELSE Reads(types[c], rows[r][c][1])[1]]])

\* Of rows of optional texts, the header first.  A row of no field, or of
\* an empty one, is a blank line.
OfLines(all) ==
  LET lines == SelectSeq(all, LAMBDA line : line \notin {<<None>>, <<>>})
      names == [c \in DOMAIN lines[1] |-> IF lines[1][c] = None THEN <<>> ELSE lines[1][c][1]]
  IN  IF \/ lines = <<>>
         \/ \E c \in DOMAIN names : names[c] = <<>>
         \/ \E r \in DOMAIN lines : Len(lines[r]) # Len(lines[1])
      THEN Refused ELSE OfTexts(names, Tail(lines))

OfCsv(d) ==
  IF d.last = "open" THEN Refused
  ELSE OfLines([r \in DOMAIN d.rows |-> [c \in DOMAIN d.rows[r] |-> CellOf(d.rows[r][c])]])

\* Of JSON records: the first value of a key counts.
OfJson(d) ==
  LET keys == FlattenSeq([r \in DOMAIN d.records |-> [k \in DOMAIN d.records[r] |-> d.records[r][k].key]])
      once == FoldLeft(LAMBDA seen, key : IF key \in ToSet(seen) THEN seen ELSE Append(seen, key), <<>>, keys)
      First(r, key) == SelectSeq(d.records[r], LAMBDA entry : entry.key = key)
      Json(r, key) == IF First(r, key) = <<>> THEN [k |-> "null", text |-> <<>>] ELSE First(r, key)[1].value
      kinds == [c \in DOMAIN once |-> {Json(r, once[c]).k : r \in DOMAIN d.records} \ {"null"}]
      texts == [c \in DOMAIN once |->
                  {Json(r, once[c]).text : r \in {r \in DOMAIN d.records : Json(r, once[c]).k # "null"}}]
      types == [c \in DOMAIN once |->
                  CASE kinds[c] = {"bool"}   -> "bool"
                    [] kinds[c] = {"number"} -> Narrowest(texts[c])
                    [] OTHER                 -> "str"]
  IN  IF once = <<>> /\ d.records # <<>> THEN Present(<<>>, <<>>, <<>>)
      ELSE IF d.records = <<>> \/ \E c \in DOMAIN once : "nested" \in kinds[c] THEN Refused
      ELSE Present(once, types, [r \in DOMAIN d.records |-> [c \in DOMAIN once |->
             IF Json(r, once[c]).k = "null" THEN Null ELSE Reads(types[c], Json(r, once[c]).text)[1]]])

\* Of rows of values: a column has values, and of one type.
OfRows(d) ==
  LET types == [c \in DOMAIN d.names |-> {d.rows[r][c].t : r \in DOMAIN d.rows} \ {"null"}]
  IN  IF \/ \E r \in DOMAIN d.rows : Len(d.rows[r]) # Len(d.names)
      THEN Refused
      ELSE IF \E c \in DOMAIN d.names : Cardinality(types[c]) # 1 THEN Refused
      ELSE Present(d.names, [c \in DOMAIN d.names |-> CHOOSE t \in types[c] : TRUE], d.rows)

OfDocument(d) ==
  CASE d.kind = "csv" -> OfCsv(d) [] d.kind = "json" -> OfJson(d) [] d.kind = "rows" -> OfRows(d)

-----------------------------------------------------------------------------
\* What is written.

Shown(v) ==
  LET n == v.n[1]
      clock == (n % PerDay) \div Micros
  IN  CASE v.t = "null" -> <<>>
        [] v.t = "str"  -> v.s
        [] v.t = "i64"  -> <<Char("int", v.n)>>
        [] v.t = "f64"  -> IF n % 10 = 0 /\ n \notin (1 - Big)..(Big - 1)
                           THEN <<Char("int", <<n \div 10>>)>> ELSE <<Char("decimal", v.n)>>
        [] v.t = "bool" -> <<Sym(IF n = 1 THEN "true" ELSE "false")>>
        [] v.t = "date" -> <<Char("date", DateOf(n))>>
        [] v.t = "timestamp" ->
             <<Char("timestamp", DateOf(n \div PerDay)
                                 \o <<clock \div 3600, (clock % 3600) \div 60, clock % 60, n % Micros>>)>>

Field(text) == IF text = <<>> THEN None ELSE Some(text)

Reread(t) ==
  OfLines(<<[c \in DOMAIN t.names |-> Field(t.names[c])]>> \o
          [r \in DOMAIN t.rows |-> [c \in DOMAIN t.names |-> Field(Shown(t.rows[r][c]))]])

-----------------------------------------------------------------------------
\* What is done with a table.

Nulls(t) == [c \in DOMAIN t.names |-> Null]

Outcome(t, step) ==
  CASE t.names = <<>> /\ step.op # "export" -> t
    [] step.op \in {"filter", "sort", "join"} ->
         [t EXCEPT !.rows = [k \in DOMAIN step.pos |-> IF step.pos[k] = 0 THEN Nulls(t) ELSE t.rows[step.pos[k]]]]
    [] step.op = "compare" ->
         LET instant == Denotes(t.types[step.column], step.literal)
         IN  IF instant = None THEN Refused
             ELSE [t EXCEPT !.rows = SelectSeq(t.rows, LAMBDA row : row[step.column].n = instant)]
    [] step.op = "concat" ->
         IF t.names = imported.names /\ t.types = imported.types
         THEN [t EXCEPT !.rows = t.rows \o imported.rows] ELSE Refused
    [] step.op = "export" -> Reread(t)

Init == table = Absent /\ imported = Absent

Import ==
  /\ table = Absent
  /\ table' = OfDocument(doc)
  /\ imported' = IF table'.status = "present" THEN table' ELSE imported
  /\ UNCHANGED <<doc, did>>

Step ==
  /\ table.status = "present" /\ vars' # vars
  /\ table' = Outcome(table, did')
  /\ UNCHANGED <<doc, imported>>

Next == Import \/ Step

Spec == Init /\ [][Next]_vars
=============================================================================
