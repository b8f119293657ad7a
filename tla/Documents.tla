----------------------------- MODULE Documents ------------------------------
(***************************************************************************)
(* Strings, values, and what a table can be made from: a CSV text, JSON    *)
(* records, or rows of values.                                             *)
(*                                                                         *)
(* A text is a sequence of characters.  A number, a date or a time in it   *)
(* is one character that carries its value: <<n>> of an integer, the       *)
(* tenths of a decimal number, year, month, day and so on.                 *)
(***************************************************************************)
EXTENDS Integers, Sequences, SequencesExt, FiniteSets

CONSTANTS
  Largest,    \* the largest i64
  Big         \* 10^16, in tenths

ASSUME DocumentsAssumption == Largest \in Nat /\ Big \in Nat

None == <<>>
Some(x) == <<x>>

Char(c, n) == [c |-> c, n |-> n]
Sym(c) == Char(c, <<>>)
Quote == Sym("quote")
Comma == Sym("comma")
CR == Sym("cr")
NL == Sym("nl")
Blank == Sym("blank")

Value(t, n, s) == [t |-> t, n |-> n, s |-> s]
Null == Value("null", <<>>, <<>>)
Str(s) == Value("str", <<>>, s)

-----------------------------------------------------------------------------
\* `str::trim` and `str::parse` of Rust: the value of a text as a type's, or None.

Trim(text) ==
  LET solid == {i \in DOMAIN text : text[i] \notin {Blank, CR, NL}}
  IN  IF solid = {} THEN <<>>
      ELSE SubSeq(text, CHOOSE i \in solid : \A j \in solid : i <= j,
                        CHOOSE i \in solid : \A j \in solid : i >= j)

ParseAs(type, text) ==
  LET c == IF Len(text) = 1 THEN text[1] ELSE Blank
  IN  CASE type = "str" -> Some(Str(text))
        [] type = "i64" /\ c.c = "int" /\ c.n[1] \in (-Largest - 1)..Largest -> Some(Value("i64", c.n, <<>>))
        [] type = "f64" /\ c.c = "int" -> Some(Value("f64", <<10 * c.n[1]>>, <<>>))
        [] type = "f64" /\ c.c = "decimal" -> Some(Value("f64", c.n, <<>>))
        [] type = "bool" /\ c.c \in {"true", "TRUE"} -> Some(Value("bool", <<1>>, <<>>))
        [] type = "bool" /\ c.c = "false" -> Some(Value("bool", <<0>>, <<>>))
        [] OTHER -> None

-----------------------------------------------------------------------------
\* Documents.

Cell(text, quoted) == [text |-> text, quoted |-> quoted]

\* What JSON records and rows are made of.
Strings == Seq([c : STRING, n : Seq(Int)])
Types == {"i64", "f64", "bool", "str", "date", "timestamp"}
Values == {Null} \cup [t : Types, n : Seq(Int), s : Strings]
JsonElements == {v \in [k : {"null", "bool", "number", "str", "nested"}, text : Strings] :
                 v.k = "bool" => v.text \in {<<Sym("true")>>, <<Sym("false")>>}}

IsDocument(d) ==
  /\ d.kind \in {"csv", "json", "rows"} /\ d.steps \in Nat
  /\ d.kind = "json" => d.records \in Seq(Seq([key : Strings, value : JsonElements]))
  /\ d.kind = "rows" => d.names \in Seq(Strings) /\ d.rows \in Seq(Seq(Values))

\* An empty field without quotes is NULL.
CellOf(cell) == IF cell.text = <<>> /\ ~cell.quoted THEN None ELSE Some(cell.text)

\* The text of a CSV document: rows of cells; lines that end in NL, or CR and
\* NL; perhaps blank lines between them.  The last line may lack its end, or
\* even the quote that closes it.
Doubled(text) == FlattenSeq([i \in DOMAIN text |-> IF text[i] = Quote THEN <<Quote, Quote>> ELSE <<text[i]>>])

Written(cell) == IF cell.quoted THEN <<Quote>> \o Doubled(cell.text) \o <<Quote>> ELSE cell.text

Line(cells) == FlattenSeq([i \in DOMAIN cells |-> (IF i = 1 THEN <<>> ELSE <<Comma>>) \o Written(cells[i])])

CsvText(d) ==
  LET ending == IF d.crlf THEN <<CR, NL>> ELSE <<NL>>
      lines == FlattenSeq([i \in DOMAIN d.rows |->
                 Line(d.rows[i]) \o ending \o (IF d.blanks THEN ending ELSE <<>>)])
      bare == FlattenSeq([i \in DOMAIN d.rows |->
                 (IF i = 1 THEN <<>> ELSE ending) \o Line(d.rows[i])])
  IN  CASE d.last = "ended" -> lines
        [] d.last = "bare"  -> bare
        [] d.last = "open"  -> lines \o <<Quote, Sym("x")>>
=============================================================================
