------------------------------- MODULE Tables -------------------------------
(***************************************************************************)
(* The life of a table in tpt-strata: it is made from a CSV text, from     *)
(* JSON records or from rows (csv.rs, json.rs, format.rs), operators pick  *)
(* its rows column by column (array.rs, engine.rs), and it is written as   *)
(* CSV and read again.                                                     *)
(*                                                                         *)
(* Which rows an operator picks is a choice here; that they are the right  *)
(* ones is the subject of modules Stream, Join and Conditions.             *)
(***************************************************************************)
EXTENDS Arrays, Temporal

CONSTANTS
  Docs,       \* the documents
  Literals,   \* what a column is compared with, by its type
  MaxRows,    \* bound: rows of a table two are put together to
  JoinRows    \* bound: rows of a join's output

ASSUME TablesAssumption ==
  /\ MaxRows \in Nat /\ JoinRows \in Nat
  /\ \A d \in Docs : IsDocument(d)

VARIABLES
  doc,        \* a member of Docs
  stage,      \* "reading" a text, "build" a table, "ready" or "error"
  text,       \* the text that is read
  reader,     \* parse_records' variables, and the place it has reached
  table,      \* the table: its fields and its batches
  imported,   \* the first table
  did,        \* the last step
  left        \* steps that are still taken

vars == <<doc, stage, text, reader, table, imported, did, left>>

Fresh == [at |-> 1, field |-> <<>>, quoted |-> FALSE, in_quotes |-> FALSE, record |-> <<>>, records |-> <<>>]

NoTable == [fields |-> <<>>, batches |-> <<>>]
Table(fields, arrays) == [fields |-> fields, batches |-> <<arrays>>]
Field(name, type, nullable) == [name |-> name, type |-> type, nullable |-> nullable]
StepOf(op, pos, column, literal) == [op |-> op, pos |-> pos, column |-> column, literal |-> literal]
NoStep == StepOf("none", <<>>, 0, Blank)

Init ==
  /\ doc \in Docs
  /\ stage = IF doc.kind = "csv" THEN "reading" ELSE "build"
  /\ text = IF doc.kind = "csv" THEN CsvText(doc) ELSE <<>>
  /\ reader = Fresh
  /\ table = NoTable /\ imported = NoTable
  /\ did = NoStep /\ left = doc.steps

-----------------------------------------------------------------------------
\* `parse_records`, a character at a time.

Finished(r) ==
  LET cell == IF r.field = <<>> /\ ~r.quoted THEN None ELSE Some(r.field)
  IN  [r EXCEPT !.record = Append(r.record, cell), !.field = <<>>, !.quoted = FALSE]

Ended(r) == [Finished(r) EXCEPT !.records = Append(r.records, Finished(r).record), !.record = <<>>]

Pushed(r, c) == [r EXCEPT !.field = Append(r.field, c)]

Read(r) ==
  /\ stage = "reading"
  /\ reader' = r
  /\ UNCHANGED <<doc, stage, text, table, imported, did, left>>

Past(n) == [reader EXCEPT !.at = reader.at + n]
Here == text[reader.at]
InText == stage = "reading" /\ reader.at <= Len(text)
DoubledAhead == reader.at < Len(text) /\ text[reader.at + 1] = Quote
\* Mutant: a line of one quoted empty field is taken for a blank one.
InRecordByText == reader.record # <<>> \/ reader.field # <<>>
InRecord == reader.record # <<>> \/ reader.field # <<>> \/ reader.quoted

PushQuote == InText /\ reader.in_quotes /\ Here = Quote /\ DoubledAhead /\ Read(Pushed(Past(2), Quote))

CloseQuote ==
  /\ InText /\ reader.in_quotes /\ Here = Quote /\ ~DoubledAhead
  /\ Read([Past(1) EXCEPT !.in_quotes = FALSE])

PushQuoted == InText /\ reader.in_quotes /\ Here # Quote /\ Read(Pushed(Past(1), Here))

OpensQuote == Here = Quote /\ reader.field = <<>> /\ ~reader.quoted

OpenQuote ==
  /\ InText /\ ~reader.in_quotes /\ OpensQuote
  /\ Read([Past(1) EXCEPT !.in_quotes = TRUE, !.quoted = TRUE])

EndField == InText /\ ~reader.in_quotes /\ Here = Comma /\ Read(Finished(Past(1)))

DropReturn == InText /\ ~reader.in_quotes /\ Here = CR /\ Read(Past(1))

EndLine == InText /\ ~reader.in_quotes /\ Here = NL /\ Read(IF InRecord THEN Ended(Past(1)) ELSE Past(1))

PushOther ==
  /\ InText /\ ~reader.in_quotes /\ Here \notin {Comma, CR, NL} /\ ~OpensQuote
  /\ Read(Pushed(Past(1), Here))

EndText ==
  /\ stage = "reading" /\ reader.at > Len(text)
  /\ stage' = IF reader.in_quotes THEN "error" ELSE "build"
  /\ reader' = IF ~reader.in_quotes /\ InRecord THEN Ended(reader) ELSE reader
  /\ UNCHANGED <<doc, text, table, imported, did, left>>

-----------------------------------------------------------------------------
\* Tables from what was read.

Cells(rows, c) == [r \in DOMAIN rows |-> rows[r][c]]
Texts(cells) == {cells[i][1] : i \in {i \in DOMAIN cells : cells[i] # None}}
Parses(type, trimmed) == ParseAs(type, trimmed) # None

InferType(cells) ==
  LET all == {Trim(s) : s \in Texts(cells)}
      Fits(type) == all # {} /\ \A s \in all : Parses(type, s)
  IN  CASE Fits("i64") -> "i64"
        [] ~Fits("i64") /\ Fits("f64") -> "f64"
        [] Fits("bool") -> "bool"
        [] OTHER -> "str"

ColumnArray(type, cells) ==
  FromNulls(type, [i \in DOMAIN cells |->
    IF cells[i] = None THEN None
    ELSE ParseAs(type, IF type = "str" THEN cells[i][1] ELSE Trim(cells[i][1]))])

Nullable(cells) == \E i \in DOMAIN cells : cells[i] = None

\* `parse_csv` after `parse_records`
CsvRefused(records) ==
  \/ records = <<>>
  \/ \E c \in DOMAIN records[1] : records[1][c] \in {None, Some(<<>>)}
  \/ \E r \in DOMAIN records : Len(records[r]) # Len(records[1])

CsvTable(records) ==
  LET cells == [c \in DOMAIN records[1] |-> Cells(Tail(records), c)]
      types == [c \in DOMAIN cells |-> InferType(cells[c])]
  IN  Table([c \in DOMAIN cells |-> Field(records[1][c][1], types[c], Nullable(cells[c]))],
            [c \in DOMAIN cells |-> ColumnArray(types[c], cells[c])])

\* `parse_json` after `document`
JsonNames(records) ==
  LET entries == FlattenSeq(records)
      names[k \in 0..Len(entries)] ==
        IF k = 0 THEN <<>>
        ELSE LET before == names[k - 1]
             IN  IF entries[k].key \in ToSet(before) THEN before ELSE Append(before, entries[k].key)
  IN  names[Len(entries)]

JsonFound(record, name) ==
  LET i == SelectInSeq(record, LAMBDA entry : entry.key = name)
  IN  IF i = 0 THEN None ELSE Some(record[i].value)

JsonRefused(records) ==
  \/ records = <<>>
  \/ \E r \in DOMAIN records : \E c \in DOMAIN JsonNames(records) :
       LET found == JsonFound(records[r], JsonNames(records)[c])
       IN  found # None /\ found[1].k = "nested"

JsonCells(records, name) ==
  [r \in DOMAIN records |-> LET found == JsonFound(records[r], name)
                            IN  IF found = None \/ found[1].k = "null" THEN None ELSE found]

JsonType(cells) ==
  LET present == Texts(cells)
      Are(kind) == present # {} /\ \A v \in present : v.k = kind
      Fit(type) == Are("number") /\ \A v \in present : Parses(type, v.text)
  IN  CASE Are("bool") -> "bool"
        [] Fit("i64") -> "i64"
        [] ~Fit("i64") /\ Fit("f64") -> "f64"
        [] OTHER -> "str"

\* `array_for`; `scalar_text` of any value is its text.
ArrayFor(type, cells) ==
  LET kind == CASE type = "bool" -> {"bool"} [] type \in {"i64", "f64"} -> {"number"}
                [] OTHER -> {"bool", "number", "str"}
  IN  FromNulls(type, [i \in DOMAIN cells |->
        IF cells[i] # None /\ cells[i][1].k \in kind THEN ParseAs(type, cells[i][1].text) ELSE None])

JsonTable(records) ==
  LET names == JsonNames(records)
      cells == [c \in DOMAIN names |-> JsonCells(records, names[c])]
      types == [c \in DOMAIN names |-> JsonType(cells[c])]
  IN  Table([c \in DOMAIN names |-> Field(names[c], types[c], Nullable(cells[c]))],
            [c \in DOMAIN names |-> ArrayFor(types[c], cells[c])])

\* `Table::from_rows`, `try_new`
RowsType(values) ==
  LET i == SelectInSeq(values, LAMBDA v : v # Null) IN IF i = 0 THEN "null" ELSE values[i].t

RowsRefused(names, rows) ==
  \/ \E r \in DOMAIN rows : Len(rows[r]) # Len(names)
  \/ \E c \in DOMAIN names : LET type == RowsType(Cells(rows, c))
                             IN  type = "null" \/ \E r \in DOMAIN rows : rows[r][c].t \notin {"null", type}

RowsTable(names, rows) ==
  LET values == [c \in DOMAIN names |-> Cells(rows, c)]
      types == [c \in DOMAIN names |-> RowsType(values[c])]
      Options(c) == [r \in DOMAIN rows |-> IF values[c][r].t = types[c] THEN Some(values[c][r]) ELSE None]
  IN  Table([c \in DOMAIN names |-> Field(names[c], types[c], Null \in ToSet(values[c]))],
            [c \in DOMAIN names |-> FromNulls(types[c], Options(c))])

\* The table is made, from the document or from what was written.
Made(refused, made) ==
  /\ stage = "build"
  /\ stage' = IF refused THEN "error" ELSE "ready"
  /\ table' = IF refused THEN table ELSE made
  /\ imported' = IF refused \/ imported # NoTable THEN imported ELSE made
  /\ did' = IF imported = NoTable THEN did ELSE StepOf("export", <<>>, 0, Blank)
  /\ reader' = Fresh /\ text' = <<>>
  /\ UNCHANGED <<doc, left>>

ReadsCsv == doc.kind = "csv" \/ imported # NoTable

BuildCsv == ReadsCsv /\ Made(CsvRefused(reader.records), CsvTable(reader.records))

BuildJson == ~ReadsCsv /\ doc.kind = "json" /\ Made(JsonRefused(doc.records), JsonTable(doc.records))

BuildRows == ~ReadsCsv /\ doc.kind = "rows" /\ Made(RowsRefused(doc.names, doc.rows), RowsTable(doc.names, doc.rows))

-----------------------------------------------------------------------------
\* Operators on the table's rows.  A position is a batch and a row.

RowCount(arrays) == IF arrays = <<>> THEN 0 ELSE Len(arrays[1].values)

Positions(t) == FlattenSeq([b \in DOMAIN t.batches |-> [r \in 1..RowCount(t.batches[b]) |-> <<b, r>>]])

Parts(t, c) == [b \in DOMAIN t.batches |-> t.batches[b][c]]

\* FilterExec: the rows of each batch that pass.
Filtered(t, passing) ==
  [t EXCEPT !.batches = [b \in DOMAIN t.batches |->
     LET n == RowCount(t.batches[b])
         rows == Ascending({r \in 1..n : <<b, r>> \in passing}, n)
     IN  [c \in DOMAIN t.batches[b] |-> Take(t.batches[b][c], rows)]]]

\* SortExec, in the order that was found.
Sorted(t, order) ==
  Table(t.fields, [c \in DOMAIN t.fields |-> Gather(t.fields[c].type, Parts(t, c), order)])

\* One side of JoinExec's output; an outer join pads it.
Joined(t, words, outer) ==
  Table([c \in DOMAIN t.fields |-> [t.fields[c] EXCEPT !.nullable = @ \/ outer]],
        [c \in DOMAIN t.fields |-> GatherPositions(t.fields[c].type, Parts(t, c), words)])

\* `coerce_literal` of a quoted date or time.
Coerced(type, literal) ==
  LET n == literal.n
      date == literal.c \in {"date", "timestamp"} /\ IsDate(n[1], n[2], n[3])
      days == DaysFromCivil(n[1], n[2], n[3])
  IN  CASE type = "date" /\ literal.c = "date" /\ date -> Some(days)
        [] type = "timestamp" /\ literal.c = "date" /\ date -> Some(days * PerDay)
        [] type = "timestamp" /\ literal.c = "timestamp" /\ date /\ IsTime(n[4], n[5], n[6]) ->
             Some(days * PerDay + MicrosOfDay(n[4], n[5], n[6], n[7]))
        [] OTHER -> None

SameShape(t, other) ==
  /\ Len(t.fields) = Len(other.fields)
  /\ \A c \in DOMAIN t.fields : t.fields[c].name = other.fields[c].name /\ t.fields[c].type = other.fields[c].type

\* Mutant: the columns stay as nullable as the first table's.
ConcatFirst(t, other) == [t EXCEPT !.batches = t.batches \o other.batches]

\* `Table::concat`
Concat(t, other) ==
  [fields |-> [c \in DOMAIN t.fields |->
                 [t.fields[c] EXCEPT !.nullable = t.fields[c].nullable \/ other.fields[c].nullable]],
   batches |-> t.batches \o other.batches]

-----------------------------------------------------------------------------
\* Writing.

\* `format_date`, `format_timestamp`, and `Display` of a scalar.
Display(v) ==
  LET n == v.n[1]
      whole == n % 10 = 0
  IN  CASE v.t = "str"  -> v.s
        [] v.t = "i64"  -> <<Char("int", v.n)>>
        [] v.t = "f64" /\ (~whole \/ (n < Big /\ -n < Big)) -> <<Char("decimal", v.n)>>
        [] v.t = "f64" /\ whole /\ (n >= Big \/ -n >= Big) -> <<Char("int", <<n \div 10>>)>>
        [] v.t = "bool" -> <<Sym(IF n = 1 THEN "true" ELSE "false")>>
        [] v.t = "date" -> <<Char("date", CivilFromDays(n))>>
        [] v.t = "timestamp" -> <<Char("timestamp", DateOfMicros(n) \o TimeOfMicros(n))>>

QuotedText(s) == IF ToSet(s) \cap {Comma, Quote, NL, CR} # {} THEN <<Quote>> \o Doubled(s) \o <<Quote>> ELSE s

Joining(fields) == FlattenSeq([c \in DOMAIN fields |-> (IF c = 1 THEN <<>> ELSE <<Comma>>) \o fields[c]])

ToCsv(t) ==
  LET Shown(option) == IF option = None THEN <<>> ELSE QuotedText(Display(option[1]))
      header == Joining([c \in DOMAIN t.fields |-> QuotedText(t.fields[c].name)]) \o <<NL>>
      positions == Positions(t)
  IN  header \o FlattenSeq([k \in DOMAIN positions |->
        LET arrays == t.batches[positions[k][1]]
        IN  Joining([c \in DOMAIN arrays |-> Shown(At(arrays[c], positions[k][2]))]) \o <<NL>>])

-----------------------------------------------------------------------------
\* The steps.

Does(step, made) ==
  /\ stage = "ready" /\ left > 0
  /\ left' = left - 1 /\ did' = step /\ table' = made
  /\ UNCHANGED <<doc, stage, text, reader, imported>>

RowNumbers == DOMAIN Positions(table)

Filter ==
  \E kept \in SUBSET RowNumbers :
    LET pos == SelectSeq([i \in RowNumbers |-> i], LAMBDA i : i \in kept)
    IN  Does(StepOf("filter", pos, 0, Blank), Filtered(table, {Positions(table)[i] : i \in kept}))

Sort ==
  \E pos \in {f \in [RowNumbers -> RowNumbers] : IsInjective(f)} :
    Does(StepOf("sort", pos, 0, Blank), Sorted(table, [k \in DOMAIN pos |-> Positions(table)[pos[k]]]))

\* Row 0 is no row.
Join ==
  \E n \in 0..JoinRows, outer \in BOOLEAN : \E pos \in [1..n -> RowNumbers \cup (IF outer THEN {0} ELSE {})] :
    LET Word(i) == IF i = 0 THEN NoRow ELSE Pack(Positions(table)[i][1] - 1, Positions(table)[i][2] - 1)
    IN  Does(StepOf("join", pos, 0, Blank), Joined(table, [k \in DOMAIN pos |-> Word(pos[k])], outer))

Compare ==
  \E c \in {c \in DOMAIN table.fields : table.fields[c].type \in DOMAIN Literals} :
  \E literal \in Literals[table.fields[c].type] :
    LET wanted == Coerced(table.fields[c].type, literal)
        Passes(p) == LET v == At(table.batches[p[1]][c], p[2]) IN v # None /\ v[1].n = wanted
    IN  /\ stage = "ready" /\ left > 0
        /\ did' = StepOf("compare", <<>>, c, literal)
        /\ left' = left - 1
        /\ stage' = IF wanted = None THEN "error" ELSE "ready"
        /\ table' = IF wanted = None THEN table
                    ELSE Filtered(table, {p \in ToSet(Positions(table)) : Passes(p)})
        /\ UNCHANGED <<doc, text, reader, imported>>

ConcatImported ==
  /\ stage = "ready" /\ left > 0 /\ Len(Positions(table)) + Len(Positions(imported)) <= MaxRows
  /\ did' = StepOf("concat", <<>>, 0, Blank)
  /\ left' = left - 1
  /\ stage' = IF SameShape(table, imported) THEN "ready" ELSE "error"
  /\ table' = IF SameShape(table, imported) THEN Concat(table, imported) ELSE table
  /\ UNCHANGED <<doc, text, reader, imported>>

\* `to_csv`, of which a CSV is read again.
Export ==
  /\ stage = "ready" /\ left > 0
  /\ text' = ToCsv(table)
  /\ stage' = "reading"
  /\ left' = left - 1
  /\ UNCHANGED <<doc, reader, table, imported, did>>

Done == (stage = "error" \/ (stage = "ready" /\ left = 0)) /\ UNCHANGED vars

Next ==
  \/ PushQuote \/ CloseQuote \/ PushQuoted \/ OpenQuote \/ EndField \/ DropReturn \/ EndLine
  \/ PushOther \/ EndText
  \/ BuildCsv \/ BuildJson \/ BuildRows
  \/ Filter \/ Sort \/ Join \/ Compare \/ ConcatImported \/ Export \/ Done

Spec == Init /\ [][Next]_vars

-----------------------------------------------------------------------------
RowsOf(t) ==
  [k \in DOMAIN Positions(t) |-> [c \in DOMAIN t.fields |->
     LET v == At(t.batches[Positions(t)[k][1]][c], Positions(t)[k][2])
     IN  IF v = None THEN Null ELSE v[1]]]

\* The columns of a batch are of one length and of the types of the schema, and the validity
\* of a column, where it has one, tells of every row.
TypeOK ==
  /\ stage \in {"reading", "build", "ready", "error"}
  /\ \A b \in DOMAIN table.batches : \A c \in DOMAIN table.fields :
       LET a == table.batches[b][c]
       IN  /\ Len(a.values) = RowCount(table.batches[b])
           /\ a.type = table.fields[c].type
           /\ a.valid # None => Len(a.valid[1]) = Len(a.values)
           /\ \A i \in DOMAIN a.values : a.values[i].t = a.type

\* Readers of a column that is not nullable need not look for NULLs: whatever was padded,
\* filtered or put together, a column with a NULL is a nullable one.
NullableCoversNulls ==
  \A c \in DOMAIN table.fields :
    (\E k \in DOMAIN RowsOf(table) : RowsOf(table)[k][c] = Null) => table.fields[c].nullable

\* `parse_records` undoes the writing of a document or of a table (`to_csv`): every field comes back as it was,
\* whatever it holds, but an empty one without quotes, and a row of one such field is lost.
FieldsReadBack ==
  LET Fields(t) == <<[c \in DOMAIN t.fields |-> t.fields[c].name]>> \o
                   [k \in DOMAIN RowsOf(t) |-> [c \in DOMAIN t.fields |->
                      IF RowsOf(t)[k][c] = Null THEN <<>> ELSE Display(RowsOf(t)[k][c])]]
      written == IF imported = NoTable
                 THEN [r \in DOMAIN doc.rows |-> [c \in DOMAIN doc.rows[r] |-> CellOf(doc.rows[r][c])]]
                 ELSE [r \in DOMAIN Fields(table) |-> [c \in DOMAIN table.fields |->
                        CellOf(Cell(Fields(table)[r][c], FALSE))]]
  IN  stage = "build" /\ ReadsCsv =>
        reader.records = SelectSeq(written, LAMBDA row : row \notin {<<None>>, <<>>})

\* Whichever reader made it, whichever operators picked its rows and whichever way they copied
\* them, the table has the rows it should, of the types and under the names it should; and its dates are
\* those of the calendar.
Abstract(t) ==
  IF t = NoTable THEN [status |-> "absent", names |-> <<>>, types |-> <<>>, rows |-> <<>>]
  ELSE [status |-> "present", names |-> [c \in DOMAIN t.fields |-> t.fields[c].name],
        types |-> [c \in DOMAIN t.fields |-> t.fields[c].type], rows |-> RowsOf(t)]

User == INSTANCE RowTable WITH
  table <- IF stage = "error" THEN [status |-> "refused", names |-> <<>>, types |-> <<>>, rows |-> <<>>]
           ELSE Abstract(table),
  imported <- Abstract(imported)

ImplementsRowTable == User!Spec
=============================================================================
