# A verification project for tpt-strata

tpt-strata is an in-memory columnar query engine in Rust: tables are batches of
typed columns, a SQL front end or a query builder turns a query into a tree of
operators, and the operators produce batches. This directory holds TLA+ models
of the parts where a result can depend on scheduling, on the number of threads,
on how the input happens to be cut into batches, or on which of several
algorithms is chosen; configurations that check them with TLC; and machine-checked
proofs about them.

The question behind almost every module is the same: *the engine has several
ways to compute an answer, and there must be only one answer.* So each component
has an abstract module that defines the answer on the whole input at once, and
a detailed one, translated from the source, that is shown to implement it.

## 1. Inventory

Paths are relative to `src/crates/tpt-strata/src/`.

| Part | State | Operations | Talks to | What is hard |
| --- | --- | --- | --- | --- |
| Thread pool, `pool.rs` | one jobs channel, a mutex at either end, one report channel per call | `run`, the workers' loop | called by aggregation and filter | interleaving of callers and workers, panics, late reports of abandoned calls |
| Aggregation, `aggregate.rs` | group tables, accumulators, per job and merged | `execute`, over three paths | its input operator; the pool | order of groups must not depend on threads; the retreat from an overflow; tables indexed by key offset |
| Hash join, `engine.rs` 904-1340 | index of the right rows, output positions, match flags per worker | `execute` | two input operators; scoped threads of its own | wrap-around of key offsets; flags of several workers; order |
| Streaming operators, `engine.rs` 30-46, 701-902, 1342-1543 | cursors in chains of iterators | `open`, `execute`, pulls | one another; the pool (filter) | stopping early, errors past the stopping point, top-k against a stable sort |
| Conditions, `engine.rs` 280-700, 1545-1663, and their way through `sql.rs` | none | `parse_cond`, `bind_cond`, `matches`, `RowTest::test`, `like_match` | filter, HAVING | NOT under NULL; several typed fast paths for one meaning; backtracking over bytes |
| SQL front end, `sql.rs` | the catalog of tables | `run`, `explain`, lexer, parser, binder, planner | builds the operators | name resolution; columns that are left out and renumbered; join pushdown |
| Query builder, `query.rs` | the plan so far | builder methods, `collect` | builds the operators | the same columns by another way; literal coercion |
| Columns, batches, tables, `array.rs`, `batch.rs`, `schema.rs`, `format.rs` | immutable buffers and validity | `value`, `take`, `append_range`, `gather`, `concat` | everything | alignment of values and validity; columns said to hold no NULL |
| Keys, scalars, `key.rs`, `types.rs` | none | hashing, equality, order | aggregation, join, sort | integers against floats; what is comparable at all |
| CSV, JSON, temporal text, `csv.rs`, `json.rs`, `temporal.rs` | the reader's state | parse, print | import and export | type inference, quoting, line ends, calendar boundaries |
| Rendering, errors, `format.rs`, `error.rs` | none | format | everything | nothing stateful |
| Parquet, serde, CLI, WebAssembly, Python (other crates) | loaded tables | conversions, wrappers | `SqlContext::run` | foreign libraries and I/O |

How a query runs: `SqlContext::run` parses and plans the text and calls
`execute` on the root operator. The default `execute` opens the operator and
pulls until the end; the default `open` executes the operator and yields what
it returned. Filter, projection and limit define `open` (they stream), sort,
join and aggregation define `execute` (they read all their input first). With
the `parallel` feature, which the models assume, aggregation and filter send
jobs to the pool and the join starts scoped threads.

What makes each part correct:

- **Pool**: a call returns the results of its own jobs in job order, or raises
  the panic of one of them; every call ends; a panic harms no other call.
- **Aggregation**: groups in the order in which one pass would first see them,
  with the values it would compute, an overflow error exactly when a SUM that
  is read lies outside `i64`, and no index out of bounds on the way.
- **Join**: matched pairs in left-row order, then unmatched right rows, each once.
- **Streaming**: the rows of the definition in its order, and no batch read
  beyond need.
- **Join pushdown**: the answer of the ordinary plan, in its order.
- **Conditions**: the rows for which the condition is true in SQL's three-valued logic, in
  their order, whichever evaluator ran; a LIKE that means what its pattern says and never
  leaves the text or splits a character.
- **Planner and query builder**: every operator of a plan reads the column its query
  names, whatever was left out or renumbered, and names that are several columns' are refused.
- **Tables**: rows keep their values and NULLs under whatever is done with them, and what is
  written is read back.

The hazards behind these properties are listed with their source lines in
`PROJECT.json`, together with those no property covers yet.

## 2. The modules

### Thread pool

`ParallelMap` says what `run` promises: a call takes some jobs, each is executed
at most once with a value or a panic, and the call ends with all values in job
order or with a panic of one of its own jobs.

`ThreadPool` is `pool.rs`. A caller's program counter `cpc` follows `run`
(`Begin`, `LockJobs`, `SendJob`, `UnlockJobs`, then `ReceiveValue` until `Return`,
or `ReceivePanic`); a worker's `wpc` follows the loop (`LockReceiver`, `TakeJob`,
`Execute`, `Report`). The two mutexes are `jobsLock` and `rxLock`, the jobs
channel is `queue`, the report channel of a caller's latest call is `done[c]`. A
job carries the call it was sent by, so that the report of a job whose call has
raised finds its channel closed (`Open`), as the dropped receiver does in the
code. What a job computes is represented by the job itself; whether it panics is
a free choice. `ran` is a history variable, which only properties and the
mapping to `ParallelMap` read.

The error exits of the workers' loop (a poisoned mutex, a closed channel) and
the two `expect`s in `run` are not actions. `EveryJobReportsOnce` and
`ChannelStaysOpen` say that the latter cannot fail; the former cannot be reached
since a worker holds the mutex only in `recv`, and the sender is in a static.

### How rows are shared out

`Segments` is `segments` and the chunking of `run_partials` / `dense_workers` /
`probe_all`: a batch is cut every `SEGMENT_ROWS` rows, and consecutive segments
go to jobs by `div_ceil`. Aggregation and join extend it, each with its number of rows to a segment
(`SegmentRows`). `Places` holds what lists places in order
(the starts of segments, the rows of a set, the elements at them), in a form that can be proved about,
and `div_ceil`, which the filter uses too.

### Aggregation

`GroupBy` defines the answer from the whole input. `Aggregate` is
`AggregateExec::execute`: planning picks the global, the dense or the general
path (`PlanGlobal`, `PlanDense`, `PlanGeneral`), jobs read their rows one at a time
in any order (`ReadRow`), their partials are collected (`Collect`) and merged group
by group (`MergeGroup`, `NextPartial`), the dense path ends (`Merged`) or gives up
and the general one starts over (`DenseGivesUp`), and `Output` applies HAVING and
builds the columns. `i64` is a small range here and `i128` is exact. A group table
is a record with a slot per key offset, as in the code, so that an offset outside
the table is an error that TLC reports and `KeysHaveSlots` predicts. MIN and MAX
keep rows rather than values, so a wrong choice among equal values shows.

`pool::run` appears as what `ParallelMap` says of it: jobs advance in any order
and their results are had together, in job order. That is the composition: the
pool is proved to implement `ParallelMap`, and the users of the pool rely on
nothing else.

### Hash join

`EquiJoin` defines the answer. `Join` is `JoinExec::execute`: the right rows are
indexed (`IndexRow`) in slots or in a hash map, workers probe their left rows
(`Probe`), the probes are merged in order (`JoinWorker`), and `Output` adds the
right rows without a partner. `wrapping_sub` is subtraction modulo the width of
the small integer type.

### Streaming operators

`RowQuery` defines the answer of a query without grouping, and how many batches
it needs. `Stream` is a source, a filter, an optional sort and a limit: `SortReads`
and `OpenSort` are the sort's `execute`, `LimitPulls` and `LimitTakesSorted` one turn
of the limit's loop, `Collect` the end of the pulling. A batch may be an error. The
unstable selection and the sort are nondeterministic choices over all the orders
their comparison allows, so the code's claim that the comparison is total is
checked and not assumed. A query without LIMIT has no limit operator in the code
and a limit of the largest `usize` here, which lets everything through.

### Join pushdown

`pushdown_join` in `sql.rs` rewrites a grouped inner join: it aggregates the left side by
its join key, joins the partial results with the right side, and aggregates again. `GroupedJoin`
is the ordinary plan: the answer of `EquiJoin`, grouped as `GroupBy` says. `Pushdown` is the
rewritten one, an operator at a time (`AggregateLeft`, `JoinPartials`, `AggregateJoined`), with
`Final` for `final_aggregates`. An aggregate has one value column in `GroupBy`, so the final one is
five of them, one per column of the partial result (`OfSum`, `OfCount`, ...), which have the same groups. The operators are again `GroupBy` and `EquiJoin`,
which `Aggregate` and `Join` are shown to implement, so the chain reaches down to threads and
tables. A rewritten query may fail because of the SUM of a join key; `GroupedJoin` permits
that in an action of its own (`ExecuteByKey`) and nothing else.

### LIKE

`Like` is `like_match` (one action, `Match`, with a disjunct per branch of the loop) and
`like_kind` / `like_matches`, the shortcuts for patterns with `%` at their ends only. A text is
a sequence of bytes; a byte is a character of its own, the lead of a character of two,
or its continuation. `Matches` is the meaning: the places of the text that each part of the pattern
can reach, a character at a time. It is a recursive function, so that the module can be proved about.

### Conditions

`Where` says what a filter promises, in the logic of `SqlLogic` (truth is true, false or
unknown) over an expression as a user writes it, and `Scalars` is which values are comparable
and how (`compare_scalars`, `coerce_literal`, the key variants of `key.rs`).
`Conditions` follows a clause: `Parse` is the recursive descent with NOT pushed down, IN and BETWEEN
spelled out and chains of AND and OR joined; `BindCond` converts the literals and refuses what is not
comparable; then `FilterFused` (with the plans of `RowTest`, in jobs over parts of the batch),
`FilterTree` or `FilterGroups` (the narrowing of HAVING) decides each row. A comparison can also
be given to the fused filter directly, as a user of the library may. The parser works on tokens.

### Planner and query builder

`Queries` is what a user writes: names in parts, items, joins, conditions, groupings, orders.
`NamedQuery` is what that asks for, with columns that are names and have no numbers.
`Planner` is `build_plan` in its steps: `LookUp` finds the tables, resolves what each needs and
leaves the other columns out; `PushdownJoin` tries the rewriting with its preconditions; `JoinNext`
joins a table, keys found by `join_keys`; `ApplyFilter` is WHERE, which may leave out what only it
read; `PlanPlain` and `PlanGrouped` are the rest of the clauses. `BuildQuery` is the builder's
`collect`. `Execute` runs the plan: `Read` computes, operator by operator, the columns each index
stands for in the schema below it. An index used with another schema than its own therefore
reads another column, and `ImplementsNamedQuery` fails.

### Tables

`RowTable` is a table as its user sees it: rows of values, some NULL, made from a document, worked
on, written and read again. `Tables` is the code: the CSV reader a character at a time, with an
action for each branch of its loop (`PushQuote` to `EndText`), `BuildCsv`, `BuildJson` and
`BuildRows` for the builders with type inference, and `Filter`, `Sort`, `Join`, `Compare`,
`ConcatImported` and `Export` for what is done with a table. Columns are those of `Arrays`:
`Take`, `AppendRange` (a run at once where nothing is NULL, else value by value), `Gather`, `FromNulls`, a
validity that is absent when nothing is NULL and a placeholder under every NULL. `Temporal` is the
calendar of `temporal.rs`; `RowTable` does not use it and counts years, leap years and months instead.
`Documents` holds the texts. Which rows a filter or a join picks is free here; that they are the right ones is the
subject of `Conditions`, `Stream` and `Join`.

## 3. The runs

| Run | Checks | Bounds, and why they are enough |
| --- | --- | --- |
| `pool` | `TypeOK`, `EveryJobReportsOnce`, `ChannelStaysOpen`, `ImplementsParallelMap`, `CallsEnd`, `AbandonedJobsRun` | Two workers, two callers, calls of 0 to 2 jobs; the first caller makes two calls, so abandoned jobs meet a later call of the same caller and one of another. The safety properties are also proved for every bound. |
| `pool_panic` | `PanicAfterOthersFinish` (violated, see below) | the same |
| `aggregate` | `TypeOK`, `KeysHaveSlots`, `PartialsAreOnePass`, `ImplementsGroupBy` | All inputs of up to three rows in all cuts into batches; keys adjacent, apart and NULL; an `i64` from -2 to 1. Three rows are what it takes for one worker to overflow and another to bring the sum back, and for two jobs of unequal length. |
| `join` | `TypeOK`, `LookupIsExact`, `FlagsAreExact`, `ImplementsEquiJoin` | Up to three left and two right rows, all four kinds, all keys of an `i64` from -2 to 1 and NULL, so every difference of keys, wrapped or not, occurs. |
| `stream` | `TypeOK`, `ReadsNoMore`, `ImplementsRowQuery` | Up to three batches with three rows together, any of them failing; limits up to the largest `usize` (4), so that offset + limit saturates; tied and NULL sort keys. |
| `pushdown` | `TypeOK`, `ImplementsGroupedJoin` | Up to three left and two right rows over two keys, two labels (one of them NULL) and three values, inner and full joins, HAVING on a SUM, on a COUNT or none. A key with two left rows, a left row with two partners and a group of two keys all occur. |
| `pushdown_overflow` | `SameAsJoiningFirst` (violated, see below) | the same, inner joins |
| `like` | `TypeOK`, `OnCharacters`, `LastRunSuffices`, `AnswersAgree`, `Ends` | All valid texts and patterns of up to five bytes, over a letter, `%`, `_` and two characters of two bytes that share a lead byte. Two `%` with something between and after them, a failed attempt within a character, and every kind of shortcut occur. The safety properties are also proved for every length. |
| `conditions` | `TypeOK`, `BindingKeepsTruth`, `TestIsMatches`, `ImplementsWhere` | Four columns (integer, float, text, date) in twenty-one rows, so that each integer meets each float, with NULL among all; every comparison with every literal, of fitting type or not; conditions of up to three parts under NOT, AND and OR, in WHERE and HAVING. |
| `row_test` | `TestIsMatches` (violated, see below) | the same, comparisons given to the filter directly |
| `planner` | `TypeOK`, `NamesApart`, `ImplementsNamedQuery` | Three tables; two share two column names, one has a column with a dot in its name that ends in the name of another. Queries over one, two and three tables with all clauses in combination, those the rewriting accepts and near misses for each of its preconditions, and calls of the builder. |
| `tables` | `TypeOK`, `NullableCoversNulls`, `FieldsReadBack`, `ImplementsRowTable` | Documents of up to three lines and two columns, in which every cell text meets every other, with either line end, blank lines, and an end with or without a newline or inside quotes; JSON records with missing, repeated and nested entries; rows of each type. Up to three operations, up to four rows (`MaxRows`), joins of up to two picked rows (`JoinRows`). An `i64` is from -2 to 1, a float of 3.0 (`Big`) stands for 1e16, from which floats are written without a point, and a second has ten microseconds (`Micros`), because TLC's integers have 32 bits. Batches have fewer than `RowBits` = 8 rows, for the packed pairs of batch and row. |

Every property of a passing run has a mutant in `PROJECT.json`: a changed copy of
one definition, the way a plausible bug would change the code, under which TLC
finds the property violated. The mutated definitions stand beside the originals,
marked `Mutant`.

Deadlock is checked in every run: a finished execution steps to itself (`Done`,
`Idle`) and nothing else may stop.

### Three disagreements between comments and code, with a run each

The comment on `run` (`pool.rs` 50-51) says that a panic is re-raised "after the
others finish". The code re-raises it as soon as the message of that job is
received (line 73), and other jobs of the call may then be queued or running. The
run `pool_panic` shows it. It does no harm to the promise in `ParallelMap`: a job
owns its input, and its late report is dropped; but a caller cannot assume that
its jobs have ended when `run` unwinds.

The comment on `pushdown_join` (`sql.rs` 2037-2041) says that the result of the rewritten query
"is the same as joining first". It is, in rows, values and order (`pushdown`), but a SUM over the
left rows of one join key that lies outside `i64` fails the rewritten query where the ordinary one
answers: the key may have no partner, another key of the group may bring the total back,
or HAVING may drop the group. The run `pushdown_overflow` shows the first case.

The comment on `RowTest` (`engine.rs` 544) says that it "gives the same answer as
`Predicate::matches`". It takes two values of one key variant to be of one type, and a date
shares its variant with a 32-bit integer: a `FilterExec` given a date column and an integer literal
compares the days with the integer, where `matches` finds the two incomparable and passes
no row. The run `row_test` shows it. Queries do not meet it: the binder converts the literal or
refuses it, and `TestIsMatches` holds in the run `conditions`.

### What the documents say otherwise

Some lines of the documents are older than the code, and a passing run speaks against them. The runs pass since the model follows the
code; they do not confirm these lines.

- **Order of groups.** `docs/faq.md` 106 says: "Grouped results come out sorted by group key unless you ask for
  another order." They do not: `aggregate.rs` 1497-1513 (dense path) and the merge in row order (general path) give them in
  first-seen order, `tests/dense_group.rs` 43 expects the groups 3, 1, NULL, 2, and `CHANGELOG.md` 101-102 calls this a change of
  behaviour from the order by key. `GroupBy` says first-seen order, and `ImplementsGroupBy`, `ImplementsGroupedJoin` and their
  theorems are about that order. The smallest disagreement is among the behaviours of `aggregate`: two rows with the
  keys 1 and 0, one to a batch or both in one, are answered with the group of 1 first. DISTINCT is a grouping, so the same holds of it. A caller who wants the order of the keys has to ask for it
  by ORDER BY, which the same paragraph recommends.
- **Streaming.** `docs/faq.md` 28 ("every operator materializes its output") and `ARCHITECTURE.md` 69-70: source, filter, projection and limit
  hand on a batch at a time (`open` in `engine.rs`), which is what `ReadsNoMore` is about. A sort, a join and an aggregation
  do take all their input.
- **One thread.** `ARCHITECTURE.md` 86 and `docs/integration-recipe.md` 133: with the feature `parallel` the filter, the aggregation and
  the join share their rows out (`Threads`).
- **No optimizer.** `crates/tpt-strata/README.md` 287 ("Plans run as written"): columns are pruned and dropped, and grouped
  joins rewritten, which `Planner` and `Pushdown` model.
- **The SQL subset.** `ARCHITECTURE.md` 98-105 (aliases are discarded; OR, IN, BETWEEN, LIKE, DISTINCT, HAVING and outer or several joins are
  refused) and `docs/cookbook.md` 74-75 (no left or several joins): all of these are accepted, as the table in `docs/scope.md` 75-92 says, and are in
  `Conditions`, `Join` and `Planner`.

### Fairness

The runs `pool` and `like` have liveness properties. That a LIKE ends needs weak fairness of the
loop's turns, which one thread takes without waiting for anything. In `ThreadPool`, `Fairness` is weak fairness of each
caller's steps inside `run` and of each worker's steps: the operating system runs
every thread that can run, jobs end (they are loops over finite input), and a
caller does not stop in the middle of `run`. `Begin` is not fair: nothing forces
anyone to call. Weak fairness is enough although mutexes are contended: the number
of calls and jobs is finite, and a worker that takes the receiver's mutex while
another waits for it takes one job out of a finite queue or blocks in `recv`, where
it serves the next job itself.

## 4. The proofs

`ThreadPoolProofs` proves, for all finite sets of workers and callers and all bounds
(the assumption is `PoolAssumption`; it also keeps `None` apart from callers,
workers and jobs):

- `PoolTypeOK`: `Spec => []TypeOK`;
- `JobsReportOnce`: `Spec => []EveryJobReportsOnce`;
- `ChannelNeverCloses`: `Spec => []ChannelStaysOpen`;
- `PoolImplementsMap`: `Spec => ImplementsParallelMap`.

The argument is one inductive invariant, `IInv`: **while `run` is in a call, each job of
that call is in exactly one place** - not yet sent, in the queue, in a worker's hand, in the
report channel, or in its slot. "At most one" needs that no two entries of the
queue are equal, that two workers do not hold the same job, that a job in hand is
not in the queue, and that a job whose message is in the channel or whose slot is
filled is in neither; "at least one" is what `ChannelStaysOpen` asks. Counting is
what makes it non-trivial: `run` waits for as many messages as it has jobs, not for
a message of each job, so that all slots are filled when the loop ends follows
from the filled slots being as many as the messages received, by the cardinality
theorems on finite sets. Jobs of earlier calls need only be known to be of
earlier calls: `Open` then keeps their reports out of the current channel.

The refinement follows step by step from the same invariant: `Begin`, `Execute`,
`Return` and `ReceivePanic` map to the steps of `ParallelMap`, and the others leave
the mapped variables alone. An `Execute` of a job of an abandoned call is a job run
of a call that has raised, or, once its caller has made another call, a stutter.

`LikeProofs` proves of `Like`, for all texts and patterns that are valid UTF-8 over
characters of one and two bytes (`LikeAssumption`):

- `LikeInBounds`: `Spec => []TypeOK`, so no index is out of bounds however often the loop backtracks;
- `LikeOnCharacters`: `Spec => []OnCharacters`;
- `LikeLastRunSuffices`: `Spec => []LastRunSuffices`, that forgetting all `%` but the last loses no match;
- `LikeAnswersAgree`: `Spec => []AnswersAgree`, that the loop, and the shortcut for the kind of the pattern,
  answer what `Matches` defines.

The inductive invariant of the first two adds to `TypeOK` that text and pattern are both at the start of a
character, or both behind the same lead byte (`Aligned`), and that the place a `%` is tried again
from is the start of one too (`StarOnCharacter`). `OnCharacters` alone is not inductive: it says nothing
of the positions in the middle of a character, from which the loop goes on comparing bytes. For the others
`Matches` is first taken apart: `Path` says that one pair of positions leads to another, a character or a `%` at
a time, and `Rest` what is left to match. `Traced` says where the loop's state comes from, and `Sound` that
the whole matches only if what is left from the state, or from the last `%`, does. That an earlier `%` need not be tried again
follows since what it could skip to, the last one can skip to as well. `KindAnswers` is the shortcuts: equality, prefix,
suffix and containment in bytes agree with the definition in characters.

`Induction` proves `JobsCover` of `Segments`, for any number of rows, batches, threads and rows to a segment: every row is in exactly
one job, and the jobs are in the order of the rows. It rests on what `Ascending` lists and on the arithmetic of `div_ceil`: the last job begins before the segments end.

`JoinProofs` proves of `Join`, for any keys, any width of the integers and any limits on the slots
(`JoinAssumption`: the table of slots is smaller than the range of the integers), any inputs, batches and numbers of
threads:

- `LookupsAreExact`: `Spec => []LookupIsExact`;
- `JoinTypeOK`: `Spec => []TypeOK`;
- `JoinFlagsAreExact`: `Spec => []FlagsAreExact`, that the merged flags are those of the partners there are;
- `JoinImplementsEquiJoin`: `Spec => ImplementsEquiJoin`.

The invariant of the index (`IInv`) says that every slot holds, in order, the rows indexed so far with the key the
slot stands for, and that the table reaches from the smallest to the largest key. `OffsetIsExact`
is the arithmetic: the wrapped difference of a key below the smallest one would be a slot only if
that key plus the modulus were at most the largest key, and no two `i64` are so far apart. The invariant of the join (`JInv`)
says that each worker's probe is that of the left rows it has read (`IsProbeOf`: their pairs, in order, and the right rows they
match), that the jobs cover the left rows, and that the merged probe is that of the rows of the probes merged. Two
probes of neighbouring runs of rows join to that of both (`JoinProbesIs`), so the merge in job order
ends with the probe of all rows, from which `Output` makes the answer of `EquiJoin`.

`AggregateProofs` proves of `Aggregate`, for any keys, values, widths, limits, inputs, cuts into batches and segments,
and numbers of threads (`AggregateAssumption`):

- `AggregateTypeOK`: `Spec => []TypeOK`;
- `AggregateKeysHaveSlots`: `Spec => []KeysHaveSlots`, that no slot is looked up outside its table;
- `AggregatePartialsAreOnePass`: `Spec => []PartialsAreOnePass`;
- `AggregateImplementsGroupBy`: `Spec => ImplementsGroupBy`.

All four rest on `AggregateInvariant`. Its core is `IsTable(t, R)`: the table t has the groups of the rows R, in the order
in which their keys are first seen, finds each by its key, and has R folded into them, sums apart. `Exact(t, R)` says
that the sums are right. A table without groups is that of no rows (`GeneralFresh`, `DenseFresh`, which also
give every row a slot); a row read extends R by that row (`ReadIs`), and a group merged
by the rows of the group (`MergeIs`), given that the table's rows all come before the partial's, which the order of the jobs gives.
A table of R with the right sums is what `GroupBy` defines for R (`TableIsOnePass`). On the dense path a sum may stay wrong, but
then the flag is raised, in the table or in the partial being merged (`MergedIs`), and
the path gives up before the result is used; the retreat starts again from empty tables. `AnswerIs` is the output: both ways of
restoring the first-seen order change nothing (`OrderKept`), and deciding a HAVING on a SUM early gives the same
answer because the dense sums are in `i64` (`InWidth`). MIN, MAX and counts of two disjoint sets of rows are put
together from those of each (`BestOfBoth`, `CombineIs`); that sums are (`SumsAdd`) is by induction over the rows.

`PushdownProofs` proves of `Pushdown`, for any tables, keys, values, labels and widths of the integers (`PushdownAssumption`: NULL is not
an integer, and a key may be NULL, as may a value or a label):

- `PushdownTypeOK`: `Spec => []TypeOK`;
- `PushdownImplementsGroupedJoin`: `Spec => ImplementsGroupedJoin`.

The joined rows of the ordinary plan fall into parts, one for each row of the join of the partials: the part of a group and a
right row are the pairs of the group's rows with that right row (`JoinedDivided`). `Parts` and `Divided` say what is needed of such a
division: every row is in one part and stands for a left row of it, and **the first rows of the parts are in the order of the parts** (`JoinHasParts`). The last is what
keeps the groups of the answer in order, and holds since the partial groups are in the order in which their keys are first seen and
a join goes through its left rows first and its right rows second. The rows of a part have one
label, so the groups are first seen in the same order and a final group is a set of parts (`SameOrder`), and its aggregates come from theirs: a sum over its
rows is that of the sums of its parts (`PartSum`, `SumOfParts`, by induction over the rows), and it is NULL just when those of all its parts are (`SumsCombine`);
a COUNT is the sum of the parts' COUNTs, which is what `final_aggregates` is for (`CountsCombine`); a MIN or MAX is that of the parts' (`ExtremesCombine`), and
which of several equal values is meant need not agree, since values are shown and not rows. The five columns
have the same groups (`ColumnsGrouped`), the final groups show what the ordinary ones show (`GroupsAgree`), and then HAVING and the overflow of a final sum
agree too (`AnswersAgree`). A partial sum outside `i64` has ended the query before
(`Fits`), and that end is a step `ExecuteByKey` of `GroupedJoin`. The invariant is `PInv`: the tables are as given
and, by phase, the partials are the groups of the left table and fit, the pairs are their join with the right one, and the outcome is pending. `TypeOK` alone is not
inductive: it does not say that the partials have keys of their own, nor that no part is missing.

`StreamProofs` proves of `Stream`, for any batches and rows, keys, offsets, limits, numbers of threads and sizes
from which a filter is shared out (`StreamAssumption`: the input has no more rows than a `usize` counts, which holds of
rows in memory, and the threads and the size are not zero):

- `StreamTypeOK`: `Spec => []TypeOK`;
- `StreamReadsNoMore`: `Spec => []ReadsNoMore`;
- `StreamImplementsRowQuery`: `Spec => ImplementsRowQuery`.

Each operator has its lemma. The filter's jobs find the passing rows of the batch (`FilterIs`): chunk by chunk, what has been
found is what passes of the rows up to there. The limit has yielded what the query shows of the rows it has seen
(`Passed`), and a batch more keeps this, whether it is skipped, cut at its beginning, cut at its end or passed on whole
(`PassOnWindow`). What the sort keeps is the head of the rows in order (`SortingIs`), which is where the
comparison must be total: a row has as many rows before it in the sort's result as in the definition, and
no two rows have equally many (`RanksDiffer`, `OrderRanks`), so the selection and the
unstable sort have nothing to choose. A saturated `offset + limit` keeps all rows, since there are no more of them than a `usize` counts
(`KeepIs`). The invariant `SInv` puts these together, phase by phase, with two facts about the batches pulled: none of
them failed, and each was needed (`Needs`), since while the limit may keep a row more, the rows so far do not suffice (`NeedsNext`).

`TablesProofs` proves of `Temporal`, the calendar of the tables, for all integers and any number of microseconds in a second:

- `DatesReadBack`: `CivilFromDays(DaysFromCivil(y, m, d)) = <<y, m, d>>` for every date;
- `DaysAreDates`: every day number is that of a date, the one it is shown as;
- `TimestampsReadBack`: a timestamp gives back its day and its time of day.

A year is split into its era, century, four years and place in these. The formula
for the year of a day (`YearOfEra`) is then a division whose remainder is shown to be less than a
year: the last day of four years and the last one of an era are corrected by its other terms.
Hypotheses with arithmetic in them have names (`AtPlace`, `InEra`, ...), by which the
lemmas are matched with their uses.

It proves of `Arrays`, for columns, options and picks of any length, the row a copy has at each place:

- `TakeKeepsRows`: row k of `Take(a, indices)` is row `indices[k]` of `a`;
- `FromNullsKeepsOptions`: row k of `FromNulls(type, options)` is the k-th option;
- `GatherKeepsRows`: row k of `GatherPositions(type, parts, words)` is the row that word k names, or NULL.

A column is without a validity until the first NULL, and from then on has one that tells of every row; `IsColumn` says so,
and that pushing an option, appending a range, by slice or value by value, and a run of words keep it are the
cases of the three. In `GatherKeepsRows` a run is the longest one of words that follow one another. It must not
run on from the last row of one batch into the next, which it would if a batch had `RowBits` rows, nor into the word of no row (`RunStays`, by induction along the run).
This is why its parts are fewer than `RowBits`, and shorter (`AreParts`).

On these rest, for any documents that are what the readers are given (`TablesAssumption`: `IsDocument` says what JSON records and
rows of values are made of, and nothing of a CSV text), any limits and any widths:

- `TablesTypeOK`: `Spec /\ []Packable => []TypeOK`;
- `NullsAreNullable`: `Spec /\ []Packable => []NullableCoversNulls`.

`Packable` is that the table has fewer batches, and a batch fewer rows, than a word of `pack` can hold, which are 2^32 in the code: with
more the code's words would collide, and nothing in it checks for that. Every state of the run `tables` is such a one.
The invariant is `TablesInv`. `IsTable(t, V)` says of each batch that its columns are columns of the fields' types, of one length, and have a NULL
only where the field allows it. It is needed of every batch, and of the imported table beside the first one, since a concatenation
keeps the batches and takes the fields of one of the two, nullable where either is (`ConcatIs`). `TypeOK` and
`NullableCoversNulls` are not inductive apart: rows of a table exist only if its columns are of one length. Each way to a table has its
lemma: the readers infer a type to which every value fits and make a field nullable if one is missing (`CsvIs`, `JsonIs`,
`RowsAre`), filters, sorts and joins pick rows (`FilteredIs`, `SortedIs`, `JoinedIs`), and an outer join
makes the fields it pads nullable. V are the values that occur; a reader only adds to them.

Induction over data is had in one form, `IntervalInduction` in `Induction`: a set of numbers that has the first and, with
each, the next, has them all. It takes a set, not an operator, so the provers can use it; what is
recursive in the modules above is therefore a function on numbers (`Matches`, `Total`) or a fold
that flattens a sequence (`Ascending`), of which `FlattenLast` in `Induction` gives one step. What `Ascending` lists is there too,
for all who use `Places`.

The inputs of `GroupBy` and `EquiJoin` in `Pushdown` are themselves computed. `PushdownProofs` first says of each instance what it is
with its input as an argument (`GroupsIn`, `JoinIn`), and reasons about that.

Only model-checked: liveness (outside the prover's reach, as is everything about ENABLED); the conditions and the planner, where
what is computed is recursive over a tree that a query is; and of the tables `FieldsReadBack`, which needs of every text what
the reader's state says of the characters read so far, and the refinement of `RowTable`, which needs that and the types inferred again from
what was written.

## 5. What is not modelled, and why

- Float sums and AVG: floating-point addition is not associative, and the parallel
  result may differ in the last bits from that of one pass; sums are exact
  integers in the model.
- Group keys of several columns, and the string-address cache of
  `run_segments` (the batches are held for the whole pass, so an address keeps its meaning); the global aggregate
  over a filter's selected rows, but for the columns it reads (`Planner`). HAVING in `Aggregate` is a
  SUM or a COUNT against a literal; other conditions are in `Conditions`.
- The pulling of the projection and of the condition-tree filter, which is that of `FilterExec` in
  `Stream`; what they do to a batch is in `Planner` and `Conditions`.
- The lexer, and the grammar outside conditions: a query is a record of its clauses. The texts of
  EXPLAIN and of errors; an error is one outcome, whatever its words.
- NaN, except that a comparison with it is unknown (`docs/faq.md` 72-73); characters of three and
  four bytes in LIKE, whose continuation bytes do what the second byte of two does; in `Conditions`,
  the names in HAVING, which are column numbers there and names in `Planner`.
- In `Planner`: table names with dots, and column names with dots that begin with the name
  of a table. A column whose own name has a dot and ends in a reference is seen as a rival of
  the column that is meant only if something else in the query needs it, since the others are left out
  before names are resolved; `NamedQuery` permits both (`lenient`). DISTINCT beside GROUP BY or aggregates
  does nothing (`docs/scope.md` 80), and a star in a grouped query is its keys and then its aggregates;
  both are so in `NamedQuery` too. `output_names` sets apart the first of two outputs that
  collide, and `NamesApart` claims no more.
- LIMIT in `Planner` (it is `Stream`'s) and types of comparisons there (`Conditions`').
- In `Tables`: parsing JSON texts, where a value is already a value; the digits of a number, a date
  or a time, which are one character that carries its value; CSV texts that break the quoting rules,
  other than by an open quote at the end. `extend_from` is called only by `ArrayRef::concat`,
  and nothing calls that.
- Hashing: equal keys are one key wherever a table of them is kept.
- A job that called `run` itself would wait for ever on a full pool. No caller nests calls, so
  no behaviour of the program has it.
- Rendering of tables, Parquet, serde, the command line, WebAssembly and Python bindings: formatting,
  foreign libraries and I/O.
- Builds without the `parallel` feature run the same code on one thread; they are
  the case `Threads = 1`.

## 6. What could follow

1. Aggregation with keys of several columns, and AVG as a pair of an exact sum and a count.
2. The lexer and the grammar outside conditions, against a printer of queries.
3. The conversions of `tpt-strata-serde`: column types found from records as in `Documents`, and errors
   in the middle of a batch.
4. Proofs: for `Tables`, that what an operator answers is what `RowTable` does to rows, for which the columns' theorems are the
   larger part; for `Planner`, that outputs get names apart.
