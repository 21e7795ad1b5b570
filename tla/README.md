# A verification development of lorm

lorm is an ORM for Go over `database/sql`: a fluent SQL builder (`src/builder`),
typed statements that build and run SQL (`src/select.go`, `insert.go`,
`update.go`, `delete.go`), an `Engine` with transactions carried by contexts
(`src/lorm.go`, `src/session.go`), scanners that read result sets into models
(`src/scanner.go`) and a generator of the model code (`src/cmd/lormgen`).

This directory holds TLA+ models of it, the TLC configurations that check them
on small instances, and theorems checked by TLAPS. `PROJECT.json` lists the
components, runs, mutants, findings, hazards, theorems, and for each definition
the lines it models.

To check: `tlc -config TxShared.cfg MCTxSession`, and so on for each run below;
to prove: `tlapm TxSessionProof.tla`, and so on for each module `*Proof`.

## 1. Inventory

| Component | Source | State | Operations | Hard behaviours | What makes it correct |
|---|---|---|---|---|---|
| Transactions | `lorm.go`, `session.go` | per call of `TX`: the `*sql.Tx`, `isClosed`; the context that carries the session; the pool | `TX`, `beginTxSession`, `commit`, `close`, `proxy`, `Exec`/`Query`/`Exist` through a context, `Engine.Close` | nested calls, contexts shared by goroutines and leaked, a context done while the callback runs, BEGIN and COMMIT that fail, panics, a full pool | all or nothing; the answer of `TX` is true; connections come back; nothing happens after `TX` returned |
| Statement execution, scanners | `session.go`, `scanner.go`, Get/Find/Exist of `select.go` | prepared statement, rows, connection, models read so far | `Exec`, `Query`, `Exist`, four `Scan` methods | errors at every stage, result sets cut short, a done context, waiting for connections | an answer is the whole result set or an error; everything opened is closed |
| SQL builder | `builder/{select,insert,update,delete,expr,case,part,where,statement}.go` | the builder's fields | one method per clause; `ToSql` | arguments collected apart from the text, nesting, empty parts, precedence of AND and OR, errors deep inside | each argument at its own placeholder; the condition written means what was asked; an error is never lost |
| Placeholders | `builder/placeholder.go`, `builder/expr.go`, `session.go` | text read, text written, the counter | `Expr.ToSql`, `ReplacePlaceholders` | escapes, nested texts, none and surplus arguments | numbers 1, 2, ... in order; the driver reads what the author meant |
| Query statements, paging | `select.go`, `ToCountBuilder` | the builder inside the statement, kept between calls | forwarding methods, `Get`, `Find`, `Exist`, `Page` | two statements without a transaction, other clients in between, uint64 arithmetic, reuse | a page is the window asked for; the total is the length of what is paged |
| Model writes | `insert.go`, `update.go`, `delete.go`, `model.go` | the caller's models (ids, times), the statement with pointers into them | `Insert`, `InsertAll`, `SetModel`, `UpdateStmt.Exec`, `DeleteStmt.Exec` | the row is durable and a later step fails, repeated calls, other clients in between, narrow key types, databases that generate keys differently | model and row keep together: one row for a model, its id, its created time; an update hits its own row |
| Repository | `repository.go` | none | reads, `Lock`, `UpdateMap`, `Delete` | read, compute, write back while others write | a locked row stands |
| Descriptor | `descriptor.go` | immutable | `FlagFields` and other lookups | which fields are keys, generated, times | as the model writes |
| Names | `names/` | none | quoting, case conversion | none | - |
| Engine set-up | `config.go`, `logger.go`, `lorm.go` | the `*sql.DB` | `NewEngine`, options, driver tables | none | - |
| Debugging | `builder/sqlizer.go` | none | `DebugSqlizer` | a second loop over question marks, beside the one that numbers them | it shows what is sent |
| Package `try` | `builder/try` | none | predicates out of values that may be missing | one bound or none, nesting in AND and OR | the condition means what was asked |
| lormgen | `cmd/lormgen` | the file system | load, extract, write, format | errors and crashes between files and inside one, a second run over what the first left, sources edited meanwhile | success means every file was done; leftovers are harmless; a generated file describes its source |

How they interact: a statement of `select.go`, `insert.go`, ... owns a builder,
calls its `ToSql`, and hands text and arguments to `Engine.Exec/Query/Exist`.
The engine looks for a session in the context: one put there by `TX` runs the
statement in its transaction, otherwise the pool does. The session numbers the
placeholders when there are arguments, prepares, runs, and gives the rows to the
scanner the statement chose. There are no goroutines of lorm's own; concurrency
comes from callers that share engines, contexts and the pool, from
`database/sql`, which rolls a transaction back and closes rows when their context
is done, and from other clients of the database.

The hazards list of `PROJECT.json` gives, line by line, what can go wrong here
that a test would hardly reach.

## 2. Plan

Done, in this order: `AtomicTx` and `TxSession` with their proofs; `Statement`
with its proof; `SqlText`, `SqlMeaning`, `SqlBuilder`; `Paging`; `Placeholders`
with its proof; `SqlTry` and the forwarding statements in `SqlBuilder`;
`ModelWrite` with the Repository on top, and its proofs; `LormGen` with its proof;
`DebugSqlizer` in `Placeholders`; `Find` after `Page` in `Paging`; the proofs of
`Paging`, of what model writes do to rows and times (`ModelWriteProof`), of the
generated files' contents (`LormGenProof`), of what `Placeholders` sends and shows, of
what `ToSql` returns for Sqlizers of any depth (`SqlTextProof`), and of the builders
(`SqlBuilderProof`).

What is left:

1. A proof of `ConditionsHold`: that a database which reads the text of a clause by its
   parentheses, ANDs and ORs gets the predicates back. `Evaluate` and `Means` of
   `SqlMeaning` would have to be functions by depth, as `ToSqlAt` is, and the
   lemmas be about where a text may be cut.
2. `UpdateOwnRowOnly` and `CreatedStands` are about a single generated key; with a
   composite one they would be stated of both columns.

A model of slices that share arrays (the builder and the one `ToCountBuilder`
makes of it) was considered and dropped: package lorm never appends to a count
builder, so only a caller of package builder that appends to both would see it.

Composition: `TxSession` implements `AtomicTx` (`ImplementsAtomicTx`).
`Statement` takes from `TxSession` only whether a statement runs in a transaction
(`inTx`). `SqlMeaning` extends `SqlBuilder`, which extends `SqlTry`, which
extends `SqlText`. `Paging` uses a query's meaning where `SqlBuilder` checks its
text; `ModelWrite` uses the meaning of the statements that write models, and the
transactions whose atomicity is `TxSession`'s.

## 3. Modules and the code

### AtomicTx, TxSession

`AtomicTx` is what `TX` promises: a call's writes are pending until it is applied
or discarded as a whole, and its answer tells which.

In `TxSession` an element of `Sessions` is one call of `TX`. `call[s]` is the
goroutine in it, `phase[s]` where the call is (beginning, running the callback,
committing, closing, returned), `tx[s]` and `pend[s]` the `sql.Tx` and its writes,
`env[s]` the context it was called with, `ret[s]` its result, `isClosed[s]` the
session's flag. Statements pick their transaction by
`Proxy`, which follows the context's derivation to the innermost session of
the engine, as `ctx.Value(engine)` does. `Env`, `Anc` and `CtxKind` model
contexts; goroutines use any context ever made, so leaked ones are covered. The
external part is `database/sql`: `Cancel`, `AwaitDone`, `RollbackEnds` and the
pool `inUse`. The value stored is a `*session` while `TX` looks for a `session`:
`Joins` is false for contexts made by `TX` and true only for one a caller made
(`Planted`).

### Statement

One goroutine runs one operation at a time. `pc` follows `session.Query`:
prepare, run, columns, next, row, closeRows, closeStmt, return. The deferred
`Close` calls are the actions `CloseRows` and `CloseStmt`, on every path after
what they close was opened. A result set is a number of rows (`total`, `left`) and
whether its end is an error (`broken`); `ContextDone` is `database/sql` closing
the rows under the reader. `EndError` is the part the four scanners differ in.

### SqlText, SqlTry, SqlMeaning, SqlBuilder

A Sqlizer is a record, `ToSql` a function from it to tokens and arguments. What a
Sqlizer writes depends on what its parts write, so the function is given by levels:
`ToSqlAt[n]` is defined for the Sqlizers whose parts are nested n deep (`Sqlizers(n)`)
by what `ToSqlAt[n - 1]` says of the parts, and `ToSql` is that of level `Nesting`,
which no Sqlizer a caller makes exceeds. What `ToSql` comes to when it returns an
error, or panics because it is asked of a nil Sqlizer, is `Failure`: nothing is sent.
Where a nil stands decides: a part of a clause that is nil writes nothing
(`Part`, as `newPart` and `part.ToSql` do), a nil inside And, Or or an Alias panics, one
inside ConcatExpr is an error, and one among the arguments of an Expr is a plain value. `Written` has one case for each kind,
with an operator that puts the results of the parts together as its `ToSql` method
does (`SelectSql`, `ExprSql`, `ConjSql`, ...). `Wrong` says what a kind cannot write
itself, `PartsOf` what it has to write with it, and `Refused`, by levels too, that one or
the other is the case somewhere in it. A placeholder token carries the argument its
author meant, which the code does not know (`MeantFor`): `ArgsInOrder` compares the two. Entries of a map come sorted by key
(`getSortedKeys`; the Like family uses any order, the same for text and
arguments). `SqlTry` has the functions of package `try`: from a call (`TryCalls`) to the
predicate it returns, nil among them. `SqlMeaning` evaluates the WHERE and HAVING
clause as a database does (OR weakest, then AND, then parentheses; three values)
and, apart from that, what a predicate, or a call of `try`, stands for.

`SqlBuilder` is a state machine: one action per method, any order; every state is
one in which `ToSql` may be called. `through` is who owns the builder: the caller
itself, or a `QueryModelStmt`, `QueryColStmt`, `UpdateStmt` or `DeleteStmt` of package
lorm. For each of the four a table of the methods it has and the builder's method
each calls is written from `select.go`, `update.go` and `delete.go`; an action happens
only if its owner has the method, and does what the table says is called. What
was asked for (`asked`) is recorded by the name the caller used.

### Paging

`Page` sets LIMIT and OFFSET and makes the count's query, `Count` and `PageFind`
are two statements with other clients' `InsertRow` and `DeleteRow` between
them. A query is its shape (plain, DISTINCT, one grouping column, with HAVING,
two columns, or HAVING without GROUP BY, which is also what `OrderByClause` of a query
statement makes, see finding 3). `ToCountBuilder` counts all rows for the last and for
DISTINCT, and leaves NULL out of a single grouping column: `Totals` says by how much the
total differs then. The database returns what a query selects in the order of ids
(`Ordered`): the `Rank` of a row is its place. `W` stands for 2^64. The statement is kept and used again, by
`Page`, `Find`, `RemoveLimit` and `RemoveOffset`. Two histories: `walk` records a
caller that asks for page 1, 2, ... in turn, `removed` what was taken off the
statement since its last `Page`.

### Placeholders

Texts character by character, since what is modelled is the search for
question marks: the loop of `Expr.ToSql`, what the session does without
arguments, and the loop of `replacePositionalPlaceholders`, each turn an action.
`Reading` (characters and marks), `Marks` (how many) and `Filled` (with something
in the place of each) are the reference: `Meanings` is what each argument given
stands for, `Meaning` what the author of the Expr meant. `DebugSqlizer` is the third
loop over question marks, an operator on the text and arguments the second is
given; it keeps the rest of the text and `i`, as the code does. All of these are
recursive functions, not recursive operators, so that they can be proved about.

### ModelWrite

One table, several clients, their models. `model[m]` is what the caller's variable
holds (id, a column v, a time), `rows` the table as committed, `tx[c]` a client's
transaction with what it locked, what `Lock` answered in it and what it wrote; a
client sees its own writes (`View`) and nobody else's, and a write waits for, and
locks, the rows it touches. A row is known by its birth, its rank among all rows
ever stored, which the code cannot see; `stands[m]` is the row a model was read
from or inserted as, `sure[b]` the models whose insertion as row b was reported
without an error.

`Insert` takes four steps, as in `insert.go`: the times are filled and the statement
built (`StartInsert`), it is executed (`ExecInsert`, whose answer may be lost, or
`ExecInsertFails`), `RowsAffected`, `fillModelID` (`FillModelID`); between them other
clients act. The models are pointers, so `Change` between `SetModel` and `Exec`
changes what is written. `SetModel` may be called again on the same statement,
which then has two conditions. `kind` is the descriptor (generated key, chosen
key, composite key, none), `database` what an inserted 0 and `LastInsertId` mean:
MySQL generates a key for 0 and reports the first of a statement; SQLite and
PostgreSQL store the 0 they are given; the PostgreSQL driver has no `LastInsertId`
and refuses a column that is set twice; SQLite has no FOR UPDATE. These are the
database's doing, not lorm's, and are marked external.

`IdRange` stands for 2^w of the Go type of the key.

### LormGen

A run from its arguments to its answer: load (which reads all sources at once),
then for each file extract, write, format. `src` and `gen` are the source and the
generated files on disk, with the form a generated file is in (absent, cut short,
raw, done) and the run that wrote it; `parsed` is what was loaded. `Edit` changes a
source at any time. Errors end the run at any step (`LoadFails`, `ExtractFails`,
`WriteFileFails`, `FormatFails`; both writing and goimports, which writes the file
itself, may leave it cut short), so does a `Crash`. The files given are checked
together and without the others of their directory, as `packages.Load` does with
the files it is given. So a source is whether it imports lorm, whether it compiles
beside the other sources of its directory, which of these it uses (`needs`), and its
fields:
`ParseField` and `ExtractDecl` give each field's column and flags, for declarations
of several names and for embedded structs: those of the same file are opened,
pointers give nothing, and for those of another file of the package `extractFile`
reads a nil `ident.Obj` and panics (if that file is given; without it the source is
refused). `SourcesAssumption`: in a source that compiles the fields of a struct have
different names, which is what loading checks, and a source with an embedded struct
of another file uses that one.

## 4. Runs

| Run | Bounds | What it shows |
|---|---|---|
| `tx_shared` | 2 goroutines, a call of TX on each of 2 engines (nested or not), 1 row, 2 connections, cancel and close | `Atomicity`, `VerdictHolds`, `Released`, `NoLateEffect` under any sharing of contexts; the session found is that of the engine; `TxSession` implements `AtomicTx` |
| `tx_live` | 2 goroutines, 2 calls on one engine, 1 connection, no nesting | `TXReturns`, `ConnectionsReturn` |
| `tx_nested` (violation) | 1 goroutine, 2 nested calls on one engine | `OpenTransactionJoined` is false: finding 1 |
| `stmt_pool` | 2 goroutines, 1 connection, 1 row, all operations but the column statements | `CompleteOrError`, `NothingLeftOpen`, `OperationsReturn` |
| `stmt_cols` (violation) | 2 rows, with FindCol | finding 2 |
| `sql_calls` | every sequence of 3 calls after the constructor, 4 builders, each by itself and through the statements that own it, 31 shapes of predicate, six of which are refused, four of these for what is inside them, rows over 2 columns with 0, 1, NULL | `TypeOK`, `ArgsInOrder`, `ConditionsHold`, `FailsWhenRefused` |
| `sql_order` (violation) | 2 calls through the query statements | finding 3 |
| `pages` | 5 ids in 2 groups and NULL, 3 calls, 2 changes, 6 shapes of query, pages 0 to 4, sizes 0 to 3, W = 8 | `WalkMeetsAll`, `TotalIsLength`, `PageIsWindow`, `FindIsLastPage` |
| `placeholders` | every text of up to 6 characters, up to 2 arguments, 7 kinds | `NumbersInOrder`, `DriverSeesMeaning`, `DebugShowsWhatIsSent` |
| `model_write` | 2 clients, 3 models, 4 calls, 3 rows, 4 descriptors, 3 databases, keys of 3 values, a clock of 2, a table that is empty or has a row | `OneRowPerModel`, `ModelNamesItsRow`, `LockedRowStands`, `UpdateOwnRowOnly`, `CreatedStands` |
| `lormgen` | 3 files in 2 directories, 2 runs, 2 edits, errors and crashes anywhere, one file with a bad name or none, sources that use one another or not | `SuccessIsComplete`, `DescribesSource`, `OneUnfinished`, `LeftoversDoNotMatter`, `OnlyOwnFiles` |
| `lormgen_dirs` (violation) | the same | finding 4 |

Why the bounds are enough. Two calls of TX give every relation two transactions
can have (nested, concurrent on shared contexts, sequential through a leaked
context), and on two engines a lookup has a session to skip. Nested calls on the
same engine are `tx_nested`'s; with goroutines and everything else together they
are covered by the proofs, which are for any engines. Two goroutines
on one connection is the smallest case in which one waits while the other holds;
of result sets longer than a row the proof speaks (section 5). Three calls on a
builder put any two clauses on either side of a third, and predicates nest two
deep, which is where parentheses, empty parts and arguments can go wrong; the shapes
left out repeat a case of the others (IS NULL alone, another word of comparison, an Or
of nothing, a range below its end, a refused value outside And) and are left to the
proofs, and `Nesting` is what the deepest argument needs. Five
rows make two full pages of two and a short one. Six characters hold a mark and
an escape in every order and three of either. Four calls let two clients lock,
write, and write again, and one insert the same model twice, or insert, reload
and update; three rows are the one the table began with, one that an error left
behind and its repetition; a key of three values is narrower than the rows that
can be stored. Instances of `ModelWrite` with one client, two models, six calls and
more rows or a wider key pass as well. Two runs are one that fails and one over its
leftovers; three files are one before, the one that fails and one after. All bounds are constants, named in
the modules; `Strict` and `Faults` choose how a callback uses its context and
what the environment does. `W = 8` makes the product of pages and sizes wrap.

`CHECK_DEADLOCK FALSE` stands where the bound on calls ends a behaviour (the
builders, paging, model writes, lormgen's runs) and in `tx_live`, where two
calls of TX are all there are. `TXReturns` and `OperationsReturn` say that what
waits does not wait for ever.

Each property has a mutant in `PROJECT.json`: a plausible bug in a mapped
definition (written beside it, as "Variant") that makes it false.

### Fairness

Only `tx_live` and `stmt_pool` assume any. `TxSession`: strong or weak fairness of
what a goroutine in TX, COMMIT, ROLLBACK and `database/sql` do; none for callers
starting TX, for contexts being done, or for the engine being closed. The strong
part is about getting a connection: `database/sql` serves those who wait in
their order, so one that becomes free again and again is got. `Statement`: strong
fairness of a goroutine's own steps, for the same reason, and none of errors: no
wait is assumed to end because a context has a deadline. Without nesting is part
of the claim: with it `TXReturns` is false, see finding 1.

### Findings

1. `TX` looks for a `session` where it stored a `*session` (`lorm.go:77`), so a
   nested call does not join: it begins an independent transaction, on another
   connection, and waits for ever if its caller holds the last one.
2. `ColsScanner.Scan` does not ask `rows.Err` (`scanner.go:78`): `FindCol` returns
   a part of the result as if it were all.
3. `OrderByClause` of the query statements calls the builder's `Having`
   (`select.go:251`).
4. lormgen loads all files it is given as one package (`cmd/lormgen/gen.go:116`), so
   `lormgen ./...`, as in the repository's `README.md:57`, is refused over sources of more
   than one directory.

Met while reading, without a run of their own:

- `inserts` sends the key column whatever it holds (`insert.go:54`): where 0 does not
  mean "generate", as on SQLite and PostgreSQL (`README.md:12` names both), the first
  `Insert` leaves row and model with id 0 and the next is a duplicate;
- an `Eq` with a slice for its value is an error (`builder/expr.go:185`), where the
  comment on `Where` (`builder/select.go:278`) promises IN;
- `Like`, `Likes` and `MultiLike` of package `try` pass the value as the pattern
  (`builder/try/try.go:66`), where their comments promise `%value%`: rows that contain
  the value are not found;
- a nil that a function of package `try` returned panics inside `And` and `Or`
  (`builder/expr.go:443`), while a `Where` of a select ignores it.

Also, `Where` of update and delete, and
`Having`, keep nil and "", which the comment at `builder/select.go:269` says are
ignored, and leave `WHERE` with nothing behind it, as do empty maps of the Like and
Lt families (the database refuses the statement). `Query`, `UpdateMap` and
`Delete` write the table's name unquoted where `Insert` and `SetModel` quote it. A
text with `??` reaches the database with both question marks when the statement
has no arguments, or the driver's placeholders are question marks.

### Preconditions

Properties are stated under these, each false without it:

- predicates given as strings carry their own parentheses around OR (`where.go`
  adds none), maps of the Like and Lt families are not empty, and nil and "" are
  given to `Where` of a select only; statements that finding 3 is about (`Misfiled`)
  are left out of `ConditionsHold`;
- `LeftoversDoNotMatter` is about runs over files of one directory (finding 4 is about
  others);
- `ConditionsHold` takes LIKE as the comparison the code writes, with the value for a
  pattern (more is promised, see above), and says nothing of statements that
  are refused, which `FailsWhenRefused` is about;
- `TotalIsLength` is exact except for DISTINCT and for HAVING without GROUP BY, where
  the count may be larger and is never smaller, and for one grouping column, where the
  group of NULL is not counted;
- `PageIsWindow` is about offsets that fit a uint64; the proof of
  `WalkMeetsAll` supposes the same of every page a walk can get to (`NoWrap`), which
  tables of at most 2^63 rows satisfy (`WalksOfTables`): with 7 rows, pages of 3 and
  `W = 8` the walk would start again from the first rows;
- `DriverSeesMeaning` and `DebugShowsWhatIsSent` are about statements with
  arguments, since without any the text is sent with its escapes doubled, and
  about drivers whose placeholders are numbered;
- in `ModelWrite`, properties about ids hold for ids the key's Go type can hold
  (`AllFit`, `rows[b].id < IdRange`), since `fillModelID` narrows others to the id of
  another row; `UpdateOwnRowOnly` and `CreatedStands` for a single key that is
  generated (`SingleGenerated`, `Generates`): with a chosen key the caller decides
  which row an update hits, without one it hits all; models are loaded with all
  their columns, into a model the client gives up together with a statement that
  holds it (a client that keeps its statement loads in the place of another model); `OneRowPerModel` is about models that were inserted one by one.

## 5. Proofs

| Module | Theorems | For every |
|---|---|---|
| `TxSessionProof` | `TypeCorrectness`, `Invariance`, `TransactionsAreAtomic`, `VerdictsHold`, `ConnectionsReleased`, `NoEffectAfterReturn`, `Refinement` | set of goroutines, calls, engines and keys, pool size, nesting |
| `StatementProof` | `StatementInvariance`, `StatementTypes`, `StatementsLeaveNothingOpen`, `AnswersComplete` | finite set of goroutines, pool size, result set |
| `SqlTextProof` | `ToSqlMatches`, `ToSqlFails` | Sqlizer of any nesting: texts, arguments, maps, lists and parts of any length |
| `SqlBuilderProof` | `TypesStay`, `ArgumentsStayInOrder`, `RefusalsFail` | builder, owner, shape of predicate, number and order of calls |
| `ModelWriteProof` | `ModelWriteTypes`, `LockedRowsStand`, `ModelsNameTheirRows`, `ModelsHaveOneRow`, `UpdatesOwnRowsOnly`, `CreatedTimesStand` | number of clients, models, values, rows and calls, width of the key, ownership |
| `PagingProof` | `TotalsAreLengths`, `PagesAreWindows`, `FindsAreLastPages`, `WalksMeetAll` | ids, groups, queries, pages and sizes, width of the offset, number of calls and changes |
| `LormGenProof` | `LormGenTypes`, `FilesDescribeSources`, `SuccessComplete`, `NoMoreThanOneUnfinished`, `LeftoversHarmless`, `OwnFilesOnly` | finite set of files, sources with any declarations, directories, runs and edits |
| `PlaceholdersProof` | `PlaceholdersInvariance`, `PlaceholdersNumbered`, `DriverGetsMeaning`, `DebugAgreesWithSent` | alphabet, text, nested Sqlizers, argument list |

They rest on the constants' assumptions named in the modules (`...Assumption`);
`AnswersComplete` also on `"FindCol" \notin Ops`, which finding 2 shows to be needed,
and `WalksMeetAll` on `NoWrap` (section 4, Preconditions).

`TxSession`: `Atomicity` is not inductive, because what COMMIT does depends on
which session a statement found when it ran. `IInv` adds `ContextInv` (contexts
derive from each other in an order, so that a lookup ends and finds the
innermost), `CancelInv` (a done context's descendants are done), `PhaseInv`
(where a call is agrees with its transaction's state), `WriteInv` (a transaction
holds exactly its callback's writes) and `PoolInv`. Each action is shown to keep
the parts it can disturb; `Refinement` maps a call's phase and transaction to the
verdict of `AtomicTx` and shows that each step is one of its steps or a stutter.

`Statement`: `CompleteOrError` speaks of a goroutine at rest, so its invariant must
follow the reading: `got + left` (and the row in hand) is `total` until the set
breaks (`ReadingInv`), what was read when the reading ended without failure is all
of it (`ReadInv`), and the answer keeps that (`AnswerInv`); `OpenInv` ties what is
open to the program counter. All parts but the pool's are about one goroutine, so
each action is proved once for the goroutine that takes it and the others are
untouched.

`Placeholders`: `NumbersInOrder` is inductive with the types. The lemmas are that
`strings.Index` finds a mark where there is one (a well-founded minimum), that
copied characters keep a numbering and that the next number extends it.

`DriverSeesMeaning` speaks of the end; the invariant follows the text through both
loops. While `Expr.ToSql` reads (`Sound`), what is written with the arguments taken so
far, followed by what is not read yet with the arguments left, means what the Expr
does; there are as many arguments on either side as marks; and what is written does
not end in a mark that would make an escape with what follows (`Clear`). Without
`Clear` it is not inductive: a written text that ends in `?` and a rest that begins
with one would be an escape nobody wrote. `Clear` holds because what follows a mark
that was taken does not begin with a question mark (it would have been an escape), and
an escape that was copied is whole. While marks are numbered (`Agrees`), what the
database makes of what is written, followed by what the unread text means with the
arguments from `i` on, is what the text means. `DebugAgrees` says the same of what
`DebugSqlizer` shows, with an error in the place of both once more numbers are written
than there are arguments.

The functions the properties are stated with are recursive. `Recursion` shows that a
definition whose steps look at smaller arguments only has a solution, so that the
CHOOSE a recursive function stands for is one; it is used for `Reading`, `Marks`,
`Filled` and the function in `DebugSqlizer`. The induction under it, and every other,
is over a set of numbers given as a constant (`SetInduction`), never over an operator.
The lemmas about texts (`ReadTogether`, `FilledTogether`, `EscapeStands`, `MarkStands`)
say how a text is read when it is cut at its first mark, and when another follows it.

`ModelWrite`: for `LockedRowStands` the strengthening is `LockInv`: what a
transaction was answered by `Lock` and what it wrote is in its locks, and no two
transactions hold the same row; so a write, at once or by COMMIT, of one client
finds none of the rows another was answered (`WriteKeeps`). `IdInv` bounds the ids,
which the types need because `StoredId` counts on from `nextId`.

`ModelNamesItsRow` needs to know that nobody changes the id of a row: `PendInv` says
so of the versions transactions have written and not yet committed, and of the row
an Insert has stored whose id it has not yet told its model; `BirthInv` that rows
are born in order, so that a new row is nobody's; `NameInv` is the property for the
pending versions too. An update through a model sets the id column as well, to
the id its own condition asked for: that is why a key has to be in `Keys`.

The proof goes on from there. That a model has one row, and an update through
models hits only its own, both come down to: two versions of rows that are live
have the same id only if they are versions of one row. `UniqueInv` says so of the
table and of the versions pending in every transaction; the unique index keeps it.
`OneInv` states the rest with a history that no variable holds: there are `Ids`, the id
each row was stored with, which no live version of it changes (`StoredInv`) and which
a model reported as inserted has, if it fits the key's type (`SureInv`); and, for
generated keys that fit, `Times`, the created time of each id, which every version,
every model and every insert not yet told its id agrees on (`TimeInv`). They are
existential since a row may be gone from the table and be met again in a model that
was loaded before; each step extends them by the rows it stores. Between `ExecInsert`
and `FillModelID` other clients may insert, so the invariant also says which ids the
statement's models are about to get. Ids only grow, so that if all fit after a step
all did before it.

`Paging`: a page is asked for in three steps with other clients in between, and by a
statement that keeps its LIMIT and OFFSET. `RequestInv` says what the statement holds:
the page asked for last, less what was removed since; with `offset < count` where
`Page` goes on to its second statement, `PageInv` is inductive and the windows follow
from what `Ordered` returns: ranks in a finite set of numbers are 1 to its size, in
order (`RankType`, `RankOrder`), so a window of ranks is a window of the list. For
the walk, `SeenInv` says that of the rows it began with those of rank up to the last
window's end were met, and that no row met has a larger rank: rows that are added come
last (`LastInv`) and rows that are deleted only lower the ranks of others. A deletion
ends the claim that every row is met, not the claim that none is met twice.

`LormGen`: what holds when a run ends follows from `Progress`, which follows the
run: files are taken in order, each left behind is done, and of those to come only
the current one can have been touched by this run. That there is a current one is
a well-founded minimum (`CurrentIsFirst`). `DescribesSource` compares a generated file
with the source as it was loaded; `GInv` adds that what a run generated was extracted
from what it loaded and that what it loaded compiled, and the lemmas say of `Extract` what it gives for declarations of several names and for embedded structs:
the fields of the source, each once, in a list put together by `FlattenSeq`.

`SqlText`: a result is `Good` if it is an error or a text whose placeholders are meant
for its arguments. Every operator that puts results together makes a `Good` one of
`Good` ones; the lemmas under these are that `MeantFor` of texts put one after the other
is what each is meant for, in order (`MeantFlatten`), whatever is written between them
without a placeholder (`MeantJoin`), and that a nested Sqlizer takes the place of the
placeholder that is counted for it (`NthMark`, `GoodExpr`). Then `Written` of parts whose
results are `Good` is (`WrittenGood`), so a level is if the one below it is
(`FaithfulAbove`), and so are all. `ToSqlFails` goes the same way: each operator fails
exactly if something is missing or one of its parts failed. As in `Placeholders`, the
levels have to be shown to exist before anything is said of them (`ToSqlUpToExist`), and
the induction is over a set of numbers.

`SqlBuilder`: `TypeOK` says that what the builder is made of is nested less deep than
`Nesting`, which is why its assumption asks for 5: an added column may be an Alias of a
Concat of an Expr of a SELECT of a text. It is inductive; `ArgsInOrder` follows from it and
`ToSqlMatches`, since every state's builder is then a Sqlizer. `FailsWhenRefused` compares
`ToSql` with what the caller asked for and needs `FineInv`: a part is `Fine` if it is not
refused; of the builder everything but WHERE and HAVING (`Bare`) is made of such parts;
and one of the predicates it keeps is refused exactly if one that was given to it is. So
what `Where` does not keep, and what package `try` makes of a call, must never be a
predicate that would have been refused (`NothingDenied`, `GivenDenied`); and a term that
finding 3 puts into HAVING must be one that can be written.

Only model-checked: liveness (`TXReturns`, `ConnectionsReturn`, `OperationsReturn`),
which is out of the provers' reach, and `ConditionsHold`: `SqlMeaning` reads a clause and
a predicate with recursive operators, which TLAPS does not take. The meaning of a
written condition is an induction over its text.

## 6. Not modelled

Names and the engine's set-up keep no state that changes; what a name is quoted
or converted to is a matter of single texts. Logging, `JSONFieldWrapper` (which
encodes one value), the descriptor's `RawVarPrefix` and `JsonMarshal`, and of
lormgen the words of a tag, the templates' text, type names and the options
other than their defaults are left out for the same reason. Of `database/sql`, the
drivers and the database only what lorm can see is modelled: the pool as a number
of connections, transactions as sets of writes, result sets as numbers of rows, in
`ModelWrite` one table with row locks and read-committed reads. Other levels of
isolation, what SQL dialects differ in besides placeholders and generated keys, and
the texts of errors are left out.
