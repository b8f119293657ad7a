------------------------------- MODULE Arrays -------------------------------
(***************************************************************************)
(* Columns of tpt-strata/src/array.rs: values, and which of them are       *)
(* valid.  A column without NULLs stores no validity; a NULL keeps a       *)
(* placeholder among the values.  Rows are numbered from 1.                *)
(***************************************************************************)
EXTENDS Documents, Places

CONSTANTS
  RowBits     \* positions packed in a word: the rows of a batch are below RowBits (2^32)

ASSUME ArraysAssumption == RowBits \in Nat \ {0}

NewArray(type, values) == [type |-> type, values |-> values, valid |-> None]

Placeholder(type) == IF type = "str" THEN Str(<<>>) ELSE Value(type, <<0>>, <<>>)

\* `value_ref`: the value at i, or None.
At(a, i) ==
  IF i \in DOMAIN a.values /\ (a.valid = None \/ (i \in DOMAIN a.valid[1] /\ a.valid[1][i]))
  THEN Some(a.values[i]) ELSE None

AllValid(n) == [i \in 1..n |-> TRUE]

PushValue(a, v) ==
  [a EXCEPT !.values = Append(a.values, v),
            !.valid = IF a.valid = None THEN None ELSE Some(Append(a.valid[1], TRUE))]

PushNull(a) ==
  [a EXCEPT !.values = Append(a.values, Placeholder(a.type)),
            !.valid = Some(Append(IF a.valid = None THEN AllValid(Len(a.values)) ELSE a.valid[1], FALSE))]

Push(a, option) == IF option = None THEN PushNull(a) ELSE PushValue(a, option[1])

\* One option after the other.
PushAll(out, options) ==
  LET pushed[k \in 0..Len(options)] == IF k = 0 THEN out ELSE Push(pushed[k - 1], options[k])
  IN  pushed[Len(options)]

FromNulls(type, options) == PushAll(NewArray(type, <<>>), options)

\* The rows at `indices`: of a column without NULLs, or of any.
Take(a, indices) ==
  LET values == [k \in DOMAIN indices |->
                   IF At(a, indices[k]) = None THEN Placeholder(a.type) ELSE At(a, indices[k])[1]]
      valid == [k \in DOMAIN indices |-> At(a, indices[k]) # None]
  IN  IF FALSE \in ToSet(valid) THEN [NewArray(a.type, values) EXCEPT !.valid = Some(valid)]
      ELSE NewArray(a.type, values)

\* Mutant: a run copied as a slice adds nothing to the validity.
AppendSlice(a, start, len, out) ==
  IF a.valid = None /\ start + len - 1 <= Len(a.values)
  THEN [out EXCEPT !.values = out.values \o SubSeq(a.values, start, start + len - 1)]
  ELSE PushAll(out, [k \in 1..len |-> At(a, start + k - 1)])

\* Append `len` rows of `a` from `start` on.
AppendRange(a, start, len, out) ==
  IF a.valid = None /\ start + len - 1 <= Len(a.values)
  THEN [out EXCEPT !.values = out.values \o SubSeq(a.values, start, start + len - 1),
                   !.valid = IF out.valid = None THEN None ELSE Some(out.valid[1] \o AllValid(len))]
  ELSE PushAll(out, [k \in 1..len |-> At(a, start + k - 1)])

\* `pack`, of a batch and a row counted from 0, and NO_ROW, the largest word.
Pack(batch, row) == batch * RowBits + row
NoRow == RowBits * RowBits - 1

\* How many words from k on follow one another.
RunFrom(words, k) ==
  CHOOSE len \in 1..(Len(words) - k + 1) :
    /\ \A j \in 1..(len - 1) : words[k + j] = words[k] + j
    /\ k + len \in DOMAIN words => words[k + len] # words[k] + len

\* The values at packed positions, from the column's part in each batch: a turn of the
\* loop appends a NULL or a run.
GatherPositions(type, parts, words) ==
  LET Turn(s) ==
        IF s.next > Len(words) THEN s
        ELSE IF words[s.next] = NoRow THEN [next |-> s.next + 1, out |-> PushNull(s.out)]
        ELSE LET len == RunFrom(words, s.next)
             IN  [next |-> s.next + len,
                  out |-> AppendRange(parts[words[s.next] \div RowBits + 1],
                                      (words[s.next] % RowBits) + 1, len, s.out)]
      turns[k \in 0..Len(words)] ==
        IF k = 0 THEN [next |-> 1, out |-> NewArray(type, <<>>)] ELSE Turn(turns[k - 1])
  IN  turns[Len(words)].out

\* `gather_opt`: the values at positions, pairs of a batch and a row.
Gather(type, parts, positions) ==
  FromNulls(type, [k \in DOMAIN positions |-> At(parts[positions[k][1]], positions[k][2])])
=============================================================================
