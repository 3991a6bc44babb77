# Verification of sqlx-odbc

TLA+ models of `sqlx-odbc`, the ODBC driver for SQLx, with the TLC runs that
check them and the TLAPS proofs about them. Paths are relative to the
repository; line numbers without a file name are of `src/src/connection.rs`.

## 1. Inventory

| Part | State | Operations | What makes it hard |
| --- | --- | --- | --- |
| Connection (`connection.rs` 24–109) | shared driver connection behind a mutex, statement cache, buffer settings, `transaction_depth` | connect, ping, dbms_name, close | worker threads hold clones of the driver connection |
| Transactions (111–202, `transaction.rs`) | `transaction_depth`; in the driver: autocommit mode and open work | begin, commit, rollback, start_rollback (called when a `Transaction` is dropped) | ending a transaction is two driver calls, either of which may fail; statements of detached workers run beside them |
| Prepare (205–260, 577–666) | statement cache, prepared statement | prepare_blocking, metadata calls | drivers that describe columns only after execution; waiting for a statement's lock on the caller's thread |
| Execution (262–330, 464–560, 668–803, 978–1010) | a worker thread, a channel of 64 items, a lock or a statement of its own | execute_receiver, execute_sql_to_channel, stream_result_sets | back pressure, receivers dropped at any time, failures and panics at any driver call, several result sets, batches |
| Client side (388–444, 457–462) | a receiver | fetch_many, fetch_optional, prepare_with | the end of a channel does not say why it ended |
| Row buffers and value fetching (705–976, 1012–1124) | none | descriptor per column type, conversion per value | widths, truncation, NULL |
| Arguments (`arguments.rs`), types (`types/*.rs`, `type_info.rs`), values (`value.rs`) | none (pure) | Encode, Decode, Type::compatible, parameters | integer widths, date ranges, two crates that read each other's dates, offsets, precision, `compatible` against `decode` |
| Any driver (`any.rs`) | none | mapping of arguments, types, rows, streams | types without an Any counterpart: an error in the middle of a stream that goes on |
| Options (`options.rs`) | connection string, buffer settings, cache capacity | parsing, setters | ambiguous strings |
| Rows, columns, statements, query results, errors | immutable data | lookup by index or name | case-insensitive names |

How they interact: the client borrows an `OdbcConnection` mutably for the
duration of a call or of a stream. `fetch_many` and `fetch_optional` call
`execute_receiver`, which may prepare on the caller's thread and then detaches
a thread. From then on the only link is the channel: the thread sends rows and
results and notices a dropped receiver when a send fails. Nothing joins the
thread. It shares with the connection the driver connection (a mutex, taken to
allocate a statement, not to execute an allocated one) and, for cached
statements, the mutex of the statement, which a panic poisons. Transaction operations take the
connection mutex for their two driver calls and know nothing of threads.

Properties that make each part correct:

* transactions: the depth tells the driver's mode whatever fails; acknowledged
  work is durable after commit and gone after rollback; a transaction's
  acknowledged work shares one fate;
* stream: items in order and once, no silent truncation, release before the
  end is visible, a worker that ends, a client that reaches the end;
* cache: one entry per text within capacity, no two users of one statement, no
  failed statement in it, no use of a statement after a panic, no lock that is
  waited for in vain;
* prepare metadata: all columns or none, deferral only when validated;
* values: a number is the same number after encode, store, fetch (in either
  mode) and decode as any type, or an error; two reads of a cell agree; a date,
  a time, an instant, a number or a content is the same whichever type of
  whichever crate reads it, up to exceptions that are spelled out.

## 2. Modules

| Module | Models | Depends on |
| --- | --- | --- |
| `TransactionPromise` | abstract: what a connection promises about units of work | – |
| `OdbcTransaction` | transaction operations, driver modes, detached statements | refines `TransactionPromise` |
| `OdbcTransactionProofs` | its theorems | extends `OdbcTransaction` |
| `RowStream` | abstract: what a query's stream promises its client | – |
| `ExecuteStream` | one query: worker, channel, client | refines `RowStream` |
| `ExecuteStreamProofs` | its theorems | extends `ExecuteStream`, `ExecutionSteps` |
| `StatementUse` | abstract: what a connection promises about its prepared statements | – |
| `OdbcConnection` | statement cache, statement locks and their poison, several workers, one client | refines `StatementUse` |
| `OdbcConnectionProofs` | its theorems | extends `OdbcConnection`, `ExecutionSteps` |
| `ExecutionSteps` | what an execution is to both `ExecuteStream` and `OdbcConnection` | – |
| `PrepareMetadata` | the metadata calls of prepare | – |
| `PrepareMetadataProofs` | its theorems | extends `PrepareMetadata` |
| `IntegerTrip` | one integer or boolean from Encode to Decode, in both fetch modes | – |
| `IntegerTripProofs` | its theorems | extends `IntegerTrip` |
| `TemporalValues` | the date and time types of chrono, time and odbc_api: encode, compatible, decode | – |
| `ContentValues` | f32, f64, decimals, text, bytes, UUID, JSON and Any values: the same | extends `TemporalValues` |
| `ValueTrip` | one value of these types from Encode to Decode | extends `ContentValues` |
| `ValueTripProofs` | its theorems about types, dates, times and instants | extends `ValueTrip` |
| `ValueReadingProofs` | its theorems about contents, numbers and what readers agree on | extends `ValueTripProofs` |
| `MC*` | finite instances and symmetry sets for TLC | the module named |

### OdbcTransaction

`depth` is `transaction_depth`; `autocommit`, `open`, `durable` are the driver
and the database, in units of one statement's work. `Commit` and `Rollback` are
the first driver call of `commit_blocking`, `rollback_blocking` and
`start_rollback`; `RestoreAutocommit` is the second. They are two actions
because a worker that already has its statement needs no connection mutex and
may execute in between; `Allocate` does need the mutex and is blocked there.
Every driver call may fail. A failed `set_autocommit(true)` leaves depth 1, so
the next end call runs both driver calls again; that loop is in the model.

External assumptions: a failed driver call changes nothing, and
`set_autocommit(true)` in manual-commit mode commits the open work (the ODBC
rule for SQL_ATTR_AUTOCOMMIT). The variables from `txn` on are history that
only properties read.

`MayAbandon` says whether the client may drop the future or stream of a
running statement. The code allows it; with it the connection still keeps what
it acknowledged (the five invariants), and does not keep what the dropped
transaction test says (run `transaction_dropped`). Without it the protocol
refines `TransactionPromise`. That a worker may execute between the rollback and
the restored autocommit mode is therefore seen by `DroppedTransactionRollsBack`
alone: the five invariants speak of acknowledged statements, and without
abandonment no worker is left to run there.

### ExecuteStream

A query is a script of driver answers (`row`, `end`, `nocols`, `count`), how it
is executed (prepared or not), how rows are fetched (batches or single), how
it is read (stream or fetch_optional) and whether its rows reach the client
through `AnyConnection` with a column that has no Any type (`unmapped`); all
are chosen in `Init`. `pc` walks the
worker through `execute_sql_to_channel`, `stream_result_sets` and
`stream_rows_buffered`/`_unbuffered`. `CallFails` may strike at every place with
a `?`. `SendDone` ignores a dropped receiver, `SendRow` does not, as in the
code. `pos` counts items sent or dropped on a closed channel; `batch` the
converted rows of the current batch. Row contents are abstracted to their
position in the script.

A first result without a cursor ends the execution (493–502): whatever the
driver has behind it is never asked for. Scripts may therefore go on behind
`count`, and `Answered` is the part of a script that the code looks at; the
properties promise that part. `Delivered` is what the client sees of an item:
`AnyRow::map_from` turns a row it cannot map into an error (`any.rs` 95–121),
after which the stream goes on, unlike after an error of the worker, which is
always the last item. `AnyConnection`'s `fetch_optional` returns that error.

### OdbcConnection

The cache is a sequence of entries, least recently used first (the
`StatementCache` of sqlx-core, external). A worker is `alloc` or `lock` until
it has a statement, then `running` with a number of items left, then `done`.
Calls on the client's thread that can block (waiting for a statement lock in
prepare) are a state of `client`. What a worker sends is only counted. A running worker
may panic (in the driver bindings): unwinding ends its stream and poisons the
lock it holds; `Refuse` is the error of the next worker that takes the lock,
and `prepare` on such a statement is an error too (`PrepareReturns`). The cache
keeps handing the statement out until it is evicted or cleared. A panicking
worker ends its stream without an error item; `ExecuteStream`, whose
NoSilentTruncation would not hold then, is about executions without panics. A
panic on the client's own thread, and the poisoning of the connection mutex it
may cause (88–97), are not modelled. The
history variable `recent` is the list of the texts used last, kept apart from
the cache, so that CacheSound can say that eviction takes the least recently
used text although a hit, a miss, a failed prepare and `clear` all move it.

`StatementUse` knows nothing of caches, locks and clients: a statement is
prepared once, is then rejected or ready, is used by one worker after another,
and is never used again once a worker broke it; a worker uses at most one
statement, once. `ImplementsStatementUse` maps a statement's state from
`prepared`, `rejected` and `poisoned`, and its user from the running workers,
not from `holder`: that the locks keep users apart is what the refinement says.

`ExecutionSteps` is the common view of one execution that ties this module to
`ExecuteStream`: its stage (`none`, `waiting`, `using`, `left`, `closed`),
whether the client holds its stream, and the number of items in its channel.
Both modules are proved to take only its steps. What `OdbcConnection` leaves
out is what the view leaves out: which items they are, and in which control
state of the worker they arise.

### PrepareMetadata

One call after another, each able to fail, in the order of
`prepare_blocking` → `num_params` → `collect_columns` →
`validate_parameter_metadata`.

### IntegerTrip

A value is `Add`ed by a client (`Encode`, then `value_to_parameter`), `Store`d
by the driver in a column, or was `Existing` there; it is fetched unbuffered
(`fetch_value`), buffered (`map_buffer_desc` and the buffer conversions) or cut
by a text buffer of `max_column_size`; then `TryGet` reads it as any of the
eight integer types or bool (`compatible`, `decode`). The same cell may be
fetched and read again in another mode and as another type. Values are numbers;
a text is what it says (a number, a number with a fraction, a boolean word,
anything else), because that is all the decoders tell apart.

External: what a driver does. It stores a parameter only in a column that can
hold it, reports an error when a number does not fit the C type it is asked
for, and cuts only the fraction of a DECIMAL while it may cut any text. The
floating-point Rust types are in `ValueTrip`; REAL and DOUBLE columns are here
because bool accepts them. "Decimal", "Double" and "Varchar" stand for the groups of
column types that the code treats alike.

A consequence worth knowing, which is not an error of the code: the number of
an unsigned column above the signed range of its width is an error when
fetched unbuffered, where the C type has the column's own signed width, and can
be read when fetched buffered, where every integer column is bound as i64.

### TemporalValues, ContentValues and ValueTrip

`TemporalValues` and `ContentValues` are pure: what each Rust type is encoded
as, which kinds of fetched value `compatible` lets it read, and what its
decoder makes of each, in the order in which the decoder tries texts, numbers
and structures. `ValueTrip` takes one value from `Add` through the driver
(`Store`, `Refuse`) or a row of another program (`Existing`) to `Fetch`; reading
changes nothing, so it is an operator (`TryGet`), evaluated for all types in
every fetched state.

What the values are abstracted to:

* a day is its number, counted from year 0 and with years of `Days` days
  without leap days; a moment is a second, an offset and a fraction of the
  second that is or is not finer than a microsecond;
* a text is what it says and how its hour is padded: the time crate writes
  hours below ten with one digit, which its own decoder does not read;
* a number is a whole part and the precision its fraction takes: none, that of
  f32, f64, `Decimal`, or of `BigDecimal` alone; rounding leaves the precision
  there is room for. Whole parts have at most eight digits, which is exact
  everywhere and too short for the 32 digits of an unhyphenated UUID;
* other contents are told apart only as far as the decoders do: a UUID, a JSON
  document, a word, other bytes. The values of `Json` and of the Any driver are
  contents;
* the length of a content is not part of it. Whether the text or bytes that are
  fetched are 16 bytes long (`row.sixteen`), which decides what the decoder of
  `Uuid` does, is chosen in `Fetch`, for every content but the two forms that are
  always longer.

Left out: NULL (in `IntegerTrip`), cut texts (there too), daylight saving (one
`LocalOffset`), and an `OffsetDateTime` whose UTC moment is outside the range
of the time crate, which panics when encoded. External: the driver stores a
parameter only in a column that can hold it; a timestamp parameter is declared
with microseconds, so a driver may keep or drop what is finer, in a timestamp
column and in a character column; a text with an offset in a timestamp column may
be stored as local time or converted.

What the code does that a user might not expect, and that the properties
therefore except by name: years beyond i16 wrap in structures; the fraction of
a time of day survives only as a text; `DateTime<Local>` is written as local
time and read as UTC; an offset with seconds is rounded to whole minutes by RFC
3339, which moves the instant by the rest; `PrimitiveDateTime` ignores an offset in the text; a
number outside YYYYMMDD of the years 1900 to 3000 is a different date to
different types; every text or binary value of 16 bytes is a UUID, whatever it
says. The ISO 8601 decoders of the time crate refuse a four-digit year with a sign,
which its other formats read.

## 3. Runs

| Run | Bounds | Shows |
| --- | --- | --- |
| `transaction_detached` | 3 statements, 2 transactions, abandonment allowed | TypeOK, ManualModeIsRemembered, AckedAutocommitIsDurable, AckedCommitIsDurable, NoCommitNoTrace, AllOrNothing |
| `transaction_awaited` | 2 statements, 2 transactions, no abandonment | ImplementsPromise |
| `transaction_dropped` | 1 statement, 1 transaction | counterexample to DroppedTransactionRollsBack |
| `stream_safety` | 7 scripts, channel of 2, batches of 2 | ten properties: TypeOK, InOrder, NoSilentTruncation, EndMeansReleased, NoneMeansNoRow, AbandonedRowsNotRead, ImplementsRowStream; WorkerFinishesUnlessHeld, DropReleases, PollingEnds |
| `connection_safety` | 3 texts, cache of 2, channel of 1, 2 items, 3 workers, 4 statements | TypeOK, CacheSound, OneUserPerStatement, FailedPrepareIsForgotten, PoisonIsContained |
| `connection_live` | 2 texts, cache of 1, 3 workers, 2 statements | ImplementsStatementUse, PrepareNeverHangs, CloseDisconnects, PolledStreamEnds |
| `metadata_prepare` | 4 columns, 4 parameters | AllColumnsOrNone, DeferralIsValidated |
| `metadata_zero_columns` | 1 column, 1 parameter | counterexample to ErrorIsNotZeroColumns |
| `integer_trip` | widths of 2, 3, 4 and 5 bits, 2 reads of a cell | TypeOK, WrittenIsRead, ReadsAgree, OwnColumnReadable |
| `integer_bit` | the same | counterexample to BitReadsAsBool |
| `integer_cut` | the same | counterexample to OnlyTextIsCut |
| `value_trip` | years of 2 days of 3 seconds, minutes of 2; i16 years −4 to 3, chrono's to ±5, four-digit years to ±2; offsets −2 to 2 | TypeOK, DateIsRead, TimeIsRead, InstantIsRead, OwnValueIsReadable, CratesAgree, NumberIsRead, ContentIsRead |

Why the bounds are enough to be interesting. Three statements allow one before
a first attempt to end a transaction, one between the attempts and one outside,
in two transactions of which the first may end badly. The scripts hold results
longer than the channel and than a batch, empty results, results without
columns, rows behind a first result without a cursor and several result sets;
the channel of 64 is 2 or 1 here so that it is
full often. Three texts over a cache of two force eviction, and three workers
allow two to wait for the statement of a third, with one abandoned or
panicking. The widths
of `IntegerTrip` are small so that every value of every type is tried; each is
more than twice the next narrower one, as in the code, so that every relation
between signed, unsigned, narrower and wider occurs. Two reads are what
ReadsAgree compares. The calendar of `ValueTrip` keeps the order of the real
one (four-digit years within i16 within chrono's), so that every value below,
at and above each limit, on both sides of year 0 and of a day's end, is tried
with every pair of types. Its run has no longer behaviours than a trip of three
steps: the work is in the pairs of values and readers.

`CHECK_DEADLOCK FALSE` is used only for `OdbcTransaction`, whose client may
simply have no operation left within the bounds, and for `IntegerTrip` and
`ValueTrip`, where a trip ends with its last read or fetch; the other modules have an explicit final stutter,
so a deadlock there would be reported.

### Fairness

`LiveSpec` of `ExecuteStream` asks weak fairness of the worker as a whole: it
is an operating-system thread and every driver call is assumed to return.
Nothing is asked of the client, so the properties hold for clients that never
poll or drop. Only `PollingEnds` and `PolledStreamEnds` need a client that keeps
polling, which is what `StreamExt` combinators and `fetch_all` do, and say so as
a premise of their own. `LiveSpec` of `OdbcConnection` asks weak fairness of
each worker thread (not of its panics) and of the client thread inside a blocking prepare: a mutex
that becomes free is eventually taken by its waiter. In the modelled runs at
most one further worker competes for it, and each holds it once, so weak
fairness suffices. The client never has to start anything.

## 4. Proofs

`OdbcTransactionProofs` proves, for any set of statements and any number of
transactions, TypeOK and each of the five invariants of `transaction_detached`,
and, under `MayAbandon = FALSE`, that `Spec` implies `Promise!Spec`. The
inductive invariant adds to TypeOK what the code never writes down: depth 1 is
manual mode; between the two driver calls the depth is still 1 and the end has been
asked for; every acknowledged statement has been executed and is durable, open,
or lost to a requested rollback of its own transaction; statements issued before
the first end request move together between open and durable. The weaker
properties are not inductive alone: "acknowledged and committed implies
durable" does not say where the work was before the commit.

`ExecuteStreamProofs` proves for any scripts, capacity and batch size: TypeOK,
InOrder, NoSilentTruncation, EndMeansReleased, NoneMeansNoRow, that `Spec`
implies `Stream!Spec`, and the action property AbandonedRowsNotRead. The inductive invariant says that what was received,
followed by what is in the channel, is the items up to `pos` (plus the error),
while the receiver is open; that batches stay within a result set; and that `owns` is
false from the moment the worker leaves `execute_sql_to_channel`. Which control
states belong to a result with a cursor is part of it: only there is all of the
script answered.

Three more theorems are about the worker's progress, which TLC checks as
liveness for a few scripts. `WorkIsFinite`: a bound on the steps left (16 for
each entry of the script and the distance of the control state from the exit)
decreases with every step of the worker, failing, refused or not, and is left
alone by the client. `FetchIsNeverStuck`: for every legal script some outcome of
`Fetch` other than a failure is possible, so that neither the measure nor the
liveness properties hold only because calls may fail; it needs the smallest
natural number of a set, which the library's WFMin gives, and that a cursor
meets nothing but rows and ends of results. `QueryIsExecution`: every step is one
of `ExecutionSteps`. What is missing from them to liveness is the fairness
argument alone.

`OdbcConnectionProofs` proves for any set of texts, any cache size (0, which
disables it, included), any channel and any number of statements and workers:
TypeOK, CacheSound, OneUserPerStatement, FailedPrepareIsForgotten and
PoisonIsContained. CacheSound needs that `recent` lists exactly the texts of the
cache in the cache's order, and a few lemmas about moving an element of a
sequence to its end; OneUserPerStatement needs that a running worker with a
statement is the holder of its lock; FailedPrepareIsForgotten that every
statement known to the cache or a worker was prepared and not rejected, so that
the statement prepared next is known to nobody; PoisonIsContained is preserved
because a worker runs on a lock that it holds and that only itself can poison.

The refinement of `StatementUse` needs the converse as well (`UseInv`,
`LocksAreHeldInUse`): a lock is held only by a worker that runs on its statement,
so that releasing it is one step of one statement's life and no path leaks a
lock; poisoned statements were prepared and not rejected; and workers are issued
in order. From the same invariant follow the safety halves of the liveness
properties: `WaitsEnd` (the lock a prepare waits for is held by a running
execution whose stream the client has left, and no worker waits for itself or
for a worker that waits) and `ExecutionsAreFinite` (each execution has a number
of steps left that its own steps decrease and nothing increases).
`WorkersAreExecutions` says that each worker takes only steps of
`ExecutionSteps`.

`PrepareMetadataProofs` proves AllColumnsOrNone and DeferralIsValidated for any
number of columns and parameters. The invariant adds what each call finds: the
columns described so far are the first ones, and a column error has emptied them
before the parameters are looked at.

`IntegerTripProofs` proves for all widths, any number of reads and any order of
fetching and reading: TypeOK, WrittenIsRead, ReadsAgree and OwnColumnReadable.
The last one needs, besides, the kinds in which a column of a type is fetched
(`OwnKinds`). The other two properties
are about what was seen, which says nothing of the next read; the inductive
invariant says that the argument holds what the client wrote, that the cell
holds the argument, that a row which is not cut holds the cell, and that every
sound read says what the cell says. The assumption is that the signed
range of each width holds twice the next narrower one.

`ValueTripProofs` proves DateIsRead, TimeIsRead and InstantIsRead for any length
of a day, any ranges of years and any offsets. The inductive invariant says only
that the argument is what the written value encodes to, that the cell holds one
of the things a driver makes of it, and that the row is the cell as its column
is fetched; everything else is about functions. For each family one lemma says
what all its types encode to, one which columns take that and what it becomes
there, and one what the decoders make of it; `FormOfColumn` and `FormIsKept`
keep the three apart. In InstantIsRead the hypothesis that the year did not
wrap is what makes the written second the local one; of the rounding of offsets
only `MinuteOffsets` is used, that it yields a whole number and keeps 0. TypeOK rests on what
narrowing a year to 16 bits does (`NarrowedDay`, `NarrowedSecond`): the result is
always in range, whole turns of the range away, at the same time of day.

`ValueReadingProofs` proves the rest of the run `value_trip` from the same
invariant. ContentIsRead and NumberIsRead follow what is written through the
column to the reader. That of ContentIsRead splits on the reader: for `Uuid`, what
is not 16 bytes long is an identifier or an error; for the others, no column that
takes the content changes it. That of NumberIsRead is that rounding twice is rounding to
the smaller precision. CratesAgree is not about what was written: `RowFacts` says
what any column can hold, also by the hand of another program, and then, for
each form a row can have, what day, time of day or instant every type that
accepts it must see. OwnValueIsReadable is the direction the others leave open,
that a reader does not simply refuse: for every type, what its own encoder
produces is among what its own decoder takes.

Assumptions of the proofs are the named ASSUMEs of the modules (capacity and
batch size positive, which `OdbcConnectOptions` asserts for the batch size and
`flume::bounded(64)` fixes for the channel; well-formed scripts). TLC evaluates
them in every run.

Only model-checked: liveness (WorkerFinishesUnlessHeld, DropReleases,
PollingEnds, PrepareNeverHangs, CloseDisconnects, PolledStreamEnds), because the
prover has no rule for ENABLED and fairness; what those properties rest on is
proved as said above. Every safety property of every passing run, invariant,
action property or refinement, is a theorem.

## 5. Disagreements found

* `DroppedTransactionRollsBack`: the test
  `dropped_transaction_rolls_back_when_configured` (`src/tests/odbc.rs:596`)
  awaits its insert. If the insert's future is dropped too, its worker may
  execute after the rollback and the restored autocommit mode commits it.
* `ErrorIsNotZeroColumns`: `src/tests/odbc.rs:748` says prepare must not turn
  a metadata error into zero columns; with parameters that can be described it
  does (619–626), by design for drivers that defer column metadata.
* `BitReadsAsBool`: BIT is the type of bool (`bool::type_info`) and a BIT value
  decodes as a boolean in the test at `src/src/value.rs:460`, but
  `bool::compatible` (`src/src/arguments.rs:312`) takes numeric and character
  types only, and BIT is not one; `try_get::<bool>` on a BIT column fails.
* `OnlyTextIsCut`: the options (`src/src/options.rs:10`) say that
  `max_column_size` bounds text and binary columns; `map_buffer_desc` (843)
  binds DECIMAL and NUMERIC as text of that size too, so that a number with a
  fraction can be fetched without it and read as an integer.

## 6. Not modelled, and the plan

Not modelled: connect, ping and dbms_name (driver calls without state of ours),
the setters and the parsing of `options.rs` (their results are constants here),
lookup of columns by index or name, formatting of errors (`error.rs`), logging,
the SQLx trait glue, in `any.rs` the calls that are passed on unchanged and the
mapping of statements. Panics are modelled only in workers and only for what
they do to a statement's lock.

What would come next, most important first:

1. transactions and the statement locks composed in one module: a worker that
   is refused by a poisoned lock inside a transaction;
2. the connection mutex and its poisoning by panics on the client's thread.
