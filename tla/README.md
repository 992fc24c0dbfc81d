# A TLA+ model of SQUNC

SQUNC is an in-memory relational engine in TypeScript: SQL-like statement objects
are bound against immutable relational snapshots, run inside transactions of an
`Engine`, and used by a mapping pipeline that discovers files, infers a schema,
imports the data and validates it.  Paths below are relative to `src/src/`.

The program is single-threaded.  What makes it hard is not parallelism but
*chains of snapshots*: a statement compiles to several actions, a row mutation to
a queue of referential work, an import to a list of instructions, and at every
link something may throw, read a snapshot that is already old, or leave behind a
transaction, a database selection or half a statement that the next caller finds.

## Inventory

| Component | State it keeps | Operations | Properties that make it correct |
|---|---|---|---|
| Row mutation and referential actions (`relational/Database.ts`, `ForeignKey.ts`) | the snapshot, and inside one call a work queue and lists of resolved child mutations | `addRows`, `removeRows`, `updateRows`, `createForeignKey`, `applyReferentialWork` | the caller sees only consistent snapshots; a delete takes exactly its cascade closure; references follow the key they referenced; the queue runs out |
| Tables, columns, indexes (`relational/Table.ts`, `Column.ts`, `Index.ts`) | column data by row number, `rowAlive`, indexes, default and auto-increment of each column | row writes, index builds, datum and CHECK assertions | row numbers are never reused; indexes agree with the live rows; generated values are new |
| Schema changes (`Table.ts`, `semantic/alterTable.ts`, `createTable.ts`, `actions/Drop*`) | columns, indexes, uniques, primary key, foreign keys by id, with references between them | ALTER TABLE in its variants, CREATE/DROP INDEX, CREATE TABLE | every id a constraint holds resolves; the index of a foreign key's parent outlives the key |
| Engine and transactions (`engine/Engine.ts`, `Transaction.ts`) | committed `Databases`, current database, open transaction, history | begin, commit, rollback, use, auto-commit, `execute`, `ensureDatabase`, `install` | auto-commit is all or nothing; commits lose nothing; history explains what is committed |
| Policy and rule resolution (`engine/RuleResolver.ts`, ...) | dialect rules, policy, cache | `updatePolicy`, `resolve` | a policy overrides its dialect at once |
| Input batches (`input/*`) | queued statements, inner batches | builders, `asStatement`, `execute` | a statement runs once; a ruleset takes its own statements only |
| Import (`mapping/import`) | an import in progress, its report | `import` | all or nothing; the report says what happened |
| Validation (`validation`) | a validation in progress | `validate`, `evaluateRule` | leaves no trace; rules do not see each other |
| Pipeline (`mapping/pipeline`, `mapping/discovery/DiscoveryDatabaseBuilder.ts`) | the engine of the business database, a cached staging-database name | `discover`, `install`, `import`, `validate` | staging is whole or absent; later phases find what earlier ones made |
| Schema inference (`mapping/schema`) | inferred tables and columns | `SchemaBuilder`, `DatabaseBuilder` | distinct paths stay distinct; every row finds its parent row |
| Discovery (`mapping/discovery`) | nodes, results with ids, issues | depth-first traversal, navigators, decoders | ids are unique, parents precede children |
| Binding of queries and expressions (`semantic`) | none | name and type resolution | types reconcile consistently |
| Query evaluation (`evaluation`) | iterator state over immutable snapshots | plan nodes, predicates, expressions | plans return what SQL defines |
| Types (`types`) | id allocators | assignability, common type, date-times | assignability is a partial order |
| Stores (`infrastructure`) | persistent maps, a name index | `add`, `update`, `remove` | name index and id index agree |
| Statement builders, AST, dialects, registries, legacy import code | none worth modelling | constructors and constants | - |

How they interact: a user (or the import and validation engines, or the pipeline)
queues statements in an input batch; `Engine.execute` takes the whole queue and
runs the statements one by one; each is bound by the semantic analyzer into
actions, and `Transaction.addActions` applies them one after the other to the
transaction's `Databases`; a row action calls `Database`, which calls `Table` and
then works its referential queue.  Errors are exceptions all the way up.

## Modules

| Module | Content |
|---|---|
| `RelationalModel` | rows, keys, snapshots, schemas, and when a snapshot satisfies its indexes, CHECKs and foreign keys (operators only) |
| `RelationalStore` | the abstract specification: every row statement is one legal step |
| `ReferentialActions` | the detailed specification: one action per operation and per loop iteration of `applyReferentialWork` |
| `ReferentialActionsProofs` | the theorems that hold for every schema |
| `PropagationProofs` | the theorems about what a propagation does to the rows, for schemas whose foreign keys do not get in each other's way |
| `MeaningProofs` | the theorems about what becomes of references, for schemas in which no reference is itself referenced |
| `MCReferentialActions` | nine schemas for TLC |
| `EngineModel` | an engine's state and what its methods do to it, throws included (operators only) |
| `EngineClients` | one engine under its callers: user batch, import, validation, `ensureDatabase` |
| `MCEngineClients` | instances for TLC |
| `EngineProofs` | what an engine keeps true of itself, operator by operator of `EngineModel` |
| `EngineClientsProofs` | the theorems about `EngineClients` |
| `SchemaChanges` | CREATE TABLE and ALTER TABLE as lists of actions on tables whose constraints hold ids of columns and indexes |
| `SchemaChangesProofs` | the theorems about it |
| `MCSchemaChanges` | a parent and a child table, and three sets of statements |
| `SchemaInference` | what a business database is inferred from and filled with: documents to tables, columns, types and rows (operators only) |
| `Orchestrator` | the orchestrator over `EngineClients`: discovery, staging, business databases and imports, between calls of a user who shares the input batch; what a business database is built from is a parameter |
| `OrchestratorProofs` | the theorems about it |
| `MappingPipeline` | the orchestrator with the databases that `SchemaInference` makes, and what they hold |
| `MCMappingPipeline` | engine names, statements and 241 discoveries |
| `StatementQueue` | the abstract specification: an input batch is a queue |
| `StatementBuilders` | which calls a builder offers, what it becomes and when its statement can be created (operators only) |
| `InputBatch` | the fluent methods, the pending builder, nested queries and `execute` |
| `InputBatchProofs` | the theorems about it |
| `SqlTypes` | types, assignability, common types, casts (operators only) |
| `Queries` | a query from its names to its rows (operators only) |
| `QueryInput` | an `InputBatch` whose queries are answered |
| `MCQueryInput` | two tables, and 191 queries over every reference their sources resolve |

### ReferentialActions and the code

`db` is the `Database` the caller holds, `work` the local variable of
`applyReferentialWork`, `queue` its list of `ReferentialWork`, `deletes` and
`updates` the two maps `childDeletesByTable` and `childUpdatesByTable` that one
item fills.  `stmt` records what the caller asked for; only properties read it.
`AddRows`, `CreateForeignKey` are whole calls.  `BeginDelete` and `BeginUpdate`
are `removeRows` and `updateRows` up to the referential loop; `ResolveItem` is the
part of an iteration that reads one snapshot; `ApplyResolvedDeletes(t)` and
`ApplyResolvedUpdates(t)` are iterations of its two inner loops, in insertion
order of the tables; `Finish` is the final validation and return.  Every `throw`
is an action of its own (`Reject...`), which discards `work`.  The index look-up
is modelled with the code's equality, in which NULL equals NULL; rows that died
keep their slots and data, and a resolved update writes a row whether it is alive
or not.  Which rows a statement selects, and the values it writes, are chosen
freely among the values that pass the column and CHECK assertions (`allowed`);
an UPDATE or INSERT whose own values fail them throws before any state changes and
is the same as no step.  `schema.initial` are the foreign keys of empty tables,
the others are created over whatever rows there are.

### EngineModel, EngineClients and the code

`engine` is an `Engine`.  A `Databases` snapshot is reduced to its database names
and to the *effects* it has seen: effect `<<n, s, k>>` is the k-th action of
statement `s` on database `n`.  What an action does is left out; it applies or
throws one of two kinds of error (`ConstraintViolationError`, which validation
catches, and any other).  The operators of `EngineModel` return the *set* of ways
a call can end, each with the engine it leaves.  In `EngineClients` a step is one
statement of the call in progress (`running`): that is where a throw can separate
what was done from what was not.  `pending` is the engine's input batch, `report`
the last `ImportReport`, `policy` the two transaction rules.  `BeginImport`
selects the database, then asks for the transaction, as the code does, so a
refused import leaves its database selected; `BeginRule` likewise.  Statements are
numbered in the order they are built; a ruleset is built before its first statement
runs, so `Groups` numbers its statements by their positions in it.

### SchemaChanges and the code

`db` is the committed `Database`, `work` the one of the open transaction (or of the
statement in progress), `todo` the actions of the statement that `addActions` has
still to apply.  `Issue` is the binder (`bindCreateTable`, `bindAlterTable`): it reads
`work` and yields the list, with the ids it resolved at that moment.  Then each
action is a step, named as in `actions/`; `Throw` is the exception of the next one,
because its assertions fail (`Accepted`) or because the rows of a populated table may
refuse it (`RowsMayRefuse`).  Rows are reduced to `populated`.  A table name stands for
the table's id, because no statement drops or renames a table; uniques, foreign
keys and checks are identified by their names, which their ids follow one to one.
The database checks that no action calls (`Database.removeColumn`, `removeIndex`) are
not in the model, as they are not in the program's statements.

### SchemaInference, Orchestrator, MappingPipeline and the code

`SchemaInference` has `SchemaBuilder` (one pass over the documents that joins what it
sees of each table and column) and `DatabaseBuilder` (a second pass that makes rows),
with every throw as `thrown`.  A document is a nested record of objects (sequences
of key and value), arrays and scalars; a scalar is its SQL type and a literal.  A key
is a sequence, so that `b__c` can be told from `c` below `b` while both name the same
column.

`Orchestrator` extends `EngineClients`, and `MappingPipeline` joins it with
`SchemaInference`: the constant operator `Build` is what a business database is built
with, to which the configuration gives the value `BuildDatabase`.  `results` and
`cached` are the orchestrator's fields, `draft` is the statement the user's builder holds, `running`
the call in progress: a call is taken apart where a throw separates two effects.
`StartStaging` is `DiscoveryDatabaseBuilder.build` up to BEGIN, `StageBegin` the
queue that BEGIN drags along and that no `try` covers, `StageStatement` one
statement inside the `try`, with the ROLLBACK of the `catch`.  `PrepareImport` is
`import()` from `ensureDatabase` to `beginTx`; then the import steps of
`EngineClients` take over.  `origin` and `business` are history, for the properties.

### StatementBuilders, InputBatch and the code

A builder is its class (`kind`) and the set of calls it has received, which decide
what `getNextCalls` offers and whether `createStatement` returns; `nested` holds the
numbers of the queries a statement has taken over.  `InputBatch` has the user's
batch (`main`) and one batch for a nested query (`inner`), which the code makes when
SELECT is called while a builder is pending; it is followed while it holds a
statement.  The public methods of a dialect are the constant `Methods`; the runs
have those of PostgreSQL, of which the others are subsets.  The order of checks is kept: `CallWithQuery` finishes and
pops the query before the main builder may throw, so the query is lost then.  A
call that throws before it changes anything is no step.

`StatementQueue` is what this promises.  Under the mapping of `Queue` a batch is the
numbers of its queued statements and, last, that of its builder: starting is
writing, every method call on a builder is a stutter, taking a query or
`asStatement` takes the newest, `execute` flushes.

### SqlTypes, Queries, QueryInput and the code

`Queries` has `bindTabularExpression`, `RelationScope`, `bindSelect`,
`reconcileQueryColumns`, the typing of expressions and their evaluation as operators
from a query and `Database` to `[ok, columns, rows]`; a throw is `Refused`.  A
reference is resolved and then looked up again as a position, as in the code; with
the argument TRUE the second look-up is replaced by what the reference means, which
is what the results are compared with.  Numbers are halves, strings are tokens
without order, JSON paths have one property.  `QueryInput` composes it with
`InputBatch`: the statement executed is any query of the pool written with the same
calls, and `answer` is its result.

## Runs

| Run | Shows |
|---|---|
| `referential_actions` | over six foreign-key graphs (chain, self-reference, cycle, diamond, composite nullable key, RESTRICT/NO ACTION/SET NULL into NOT NULL): consistency, exact closure of deletes, meaning of references, no dangling row, termination, and that the queue implements `RelationalStore` |
| `shared_parent` | a violation of `NothingDanglesUnasked` (finding 1) |
| `nullable_key` | a violation of `ChangesFollowReferences` (finding 2) |
| `mutual_keys` | a violation of `ReferentialWorkTerminates` (finding 3) |
| `engine_clients` | batches, imports and validations interleaved with sessions on one engine |
| `import_rollback` | a violation of `ImportIsAllOrNothing` (finding 4) |
| `schema_changes` | CREATE, ALTER and row statements on two tables, inside and outside transactions, failing between any two actions: ids resolve within and across tables, names and unique indexes are unambiguous, cached positions are current |
| `dropped_unique` | a violation of `ForeignKeysResolve` (finding 5) |
| `dropped_foreign_key` | a violation of `BoundIdsResolve` (finding 6) |
| `mapping_pipeline` | discovery, staging, business databases and imports among the user's statements, transactions and unfinished statements: staging is whole or absent and touches nothing of the user's, imports read the latest discovery and keep their target, what is inferred and stored is what the documents say |
| `query_input` | every sequence of up to eight calls on a batch: it is a queue, runs only finished statements, is never stuck, gives a query away once; and the answers of the pool have the types and NULLs their columns promise and come from the columns their references name |
| `unqualified_join` | a violation of `NamesBindToTheirColumn` (finding 7) |

Bounds.  Four tables, two columns, two values and NULL, two or three row slots per
table (`maxRows`), INSERTs of up to two rows (`MaxBatch`).  Two rows per table are
enough for one row to keep a key another row loses and for a batch to swap two
keys; two values are enough for a key to change and to be taken by another row;
four tables are enough for two paths to meet again; the self-reference has a third
row so that chains of two references and cycles of three exist.  The engine run
has four statements of up to two actions in groups of up to two, one database:
enough to fail at a first, middle or last action, in a first or last statement of
a first or last instruction, before, inside and after a caller's transaction.
The schema runs have two tables of two or three columns and issue statements while
every id is at most `MaxIds` = 3; the last one may go beyond.  That is enough for a
third index or column behind two others, an index shared by two constraints, one
re-created under an old name with a new id, and an index left by a failed
statement.  The child is not populated in `schema_changes`; what its rows could
add is a refusal of a key, which a difference of types brings about as well.
The pipeline run has five calls of the user beside those that execute a queue
(`MaxCalls`), two staging names, one business database, one action for each statement:
enough to discover, stage, discover again and import, or to have a transaction open
or a statement half-written around each call.  The constraint `ShortUnlessUsual`
follows more than one call for one discovery of two node types only; the other 240
discoveries (up to two of fifteen documents: nested objects, colliding keys, arrays of
scalars, objects and both, arrays in arrays, structural names, missing values, types
that differ) are built from at once, because what is found decides what is built and
never which calls are possible.
The query run has eight calls: a statement of each kind with all its parts, one
queued behind it, a nested query with its own parts, and their execution.  One inner
batch is followed at a time, and none within it, which is where the code's own
recursion starts over.  Two tables share a column name and column ids; the pool has
every reference of every source (a table, an alias, derived tables, joins, self
joins, a join of a join, an aliased join), one of each expression and predicate, and
unions of columns of different types.
`CHECK_DEADLOCK FALSE`: once the row slots or the statements of a bound are used
up the caller may have nothing left to do; the program, too, may simply stop.

Fairness.  `ReferentialActions` assumes weak fairness of `RunReferentialWork`
because the loop runs synchronously to its end inside one call; nothing is
assumed of the caller.  The other modules state safety only and need none: nothing
in the code waits, and a call ends or throws.

## Findings

1. `shared_parent`: two references of one child row resolved by one work item are
   two updates of the whole row computed from the old row; the last one written
   restores the other column, and a legal DELETE or UPDATE is refused.
2. `nullable_key`: a parent row whose key holds NULL propagates to the child rows
   whose key is NULL, which reference nothing.
3. `mutual_keys`: under two ON UPDATE CASCADE keys that reference each other, an
   UPDATE that swaps two keys never returns.
4. `import_rollback`: a ROLLBACK inside an import instruction is accepted and ends
   the import's own transaction; what follows is auto-committed.
5. `dropped_unique`: DROP CONSTRAINT of a UNIQUE drops the index it owns although a
   foreign key of another table looks its parents up in it; from then on every row
   statement of the database throws.
6. `dropped_foreign_key`: DROP CONSTRAINT of a foreign key is bound to two actions
   that both remove the reverse index, so it always throws; in an explicit
   transaction the key is gone all the same.

7. `unqualified_join`: a column named without its relation and found in the second
   table of a join is read from the first table's column with the same column id.

The first three restrict the schemas of `referential_actions`: `SoundSchemas` has no
two keys of a row to one parent row resolved by an update, no nullable parent key
that a child row could match, and no mutual UPDATE cascade over the same columns.
`schema_changes` has the statements of neither finding 5 nor finding 6: its foreign key
references the primary key, whose index stays, and is not dropped.  The same model
runs in all three; only the set of statements differs.
`query_input` says of unqualified references only what finding 7 leaves:
`QualifiedNamesBindAsMeant` is about queries whose relations have names that every
reference uses.  Its `RowsMatchTheirColumns` leaves no query out, but admits two kinds
of value that the columns do not describe: arithmetic on NULL yields false
(`BinaryExpression.ts:18`) where a number or NULL is described, and a CASE over several
types does not convert its branch.  Both are at odds with "Query-plan metadata
describes query output" (`docs/architecture.md:196`); a test of one expression shows
them, so they have no run.  The property says that no other value comes of them: in the
results of such queries a value is of its column's type, a boolean, or of the type of a
branch, in those of all others of its column's type, and NULLs are described everywhere.
`import_rollback` differs from `engine_clients` only in the statements of an
instruction.

## Proofs

`ReferentialActionsProofs` proves, for every set of tables, columns and values, every
set of schemas that satisfies `SchemasAssumption` (every foreign key has a unique
parent index, as `createForeignKey` demands) and every `MaxBatch`:

- `TypeCorrect`, `CommittedSnapshotsAreConsistent`, `WorkingSnapshotsAreConsistent`.
  None of the invariants is inductive alone.  `IInv` adds that the lists in the queue
  are finite (so a last entry per row exists and `OverwriteRows` is well defined)
  and keeps the table part of consistency for `work` and the full one for `db`:
  every step that writes rows preserves table consistency because it rebuilds the
  indexes (`AcceptedWriteKeepsTablesConsistent`, `RemovalKeepsTablesConsistent`),
  and only `Finish` moves `work` into `db`, after the foreign keys were validated.
- `StatementsAreAtomic`: `Spec => ImplementsStore`.  The refinement needs
  `StatementInv`: while a statement runs, row numbers stay, nothing dead becomes
  alive, a DELETE has killed its rows from its first step on and an UPDATE kills
  none.  Every internal step is a stutter of the store and `Finish` is a step of it.

These proofs cover *all* schemas, those of the findings included: the findings break
what a statement should do, never the consistency of what it returns.

`PropagationProofs` is about what a statement should do, so its theorems assume
something of the schemas.  The assumptions are operators of `ReferentialActions`, and
`MCReferentialActions` has TLC evaluate on every run that the schemas of
`referential_actions` meet them (`SoundCascades`).

- `DeletesTakeTheClosure`: a DELETE takes exactly its cascade closure.  The closure
  speaks of the snapshot before the statement, the queue reads later ones, so the
  theorem is about what must not change in between: `ClosureInv` says that every
  queued, pending or stored row has the keys by which it is found unchanged
  (`KeysStay`, `QueueIsResolved`, `PendingIsResolved`), that what died is in every
  closed set (`NoneTooMany`), and that a child of a dead row is dead, about to die, or
  its parent still waits in the queue (`NoneForgotten`).  It assumes
  `CascadesAreIndependent`, three conditions none of which can be left out:
  `ParentKeysAreComplete`, without which a NULL key finds children that reference
  nothing (finding 2); `CascadesKeepTheirColumns`, without which SET NULL through one
  key hides a row from the cascade through another that shares a column; and
  `LateUpdatesAreHarmless`.  The last was found by the proof.  One item may both
  null and delete rows, and the update it queues is worked off when its row is dead
  already: with D -> C `ON DELETE CASCADE ON UPDATE SET NULL`, C -> A `ON DELETE SET
  NULL`, C -> B and B -> A `ON DELETE CASCADE` (the last two keys of C on its own key
  column), a DELETE of the A row leaves the row of D alive with NULL although its C
  row was deleted.

`MeaningProofs` assumes more, `ReferencesAreIndependent`: the foreign keys of a table go
to different parents, each in columns of its own, and no column of one belongs to a key
by which the table is referenced, so that an UPDATE reaches one level of children.
`SoundReferences` has TLC evaluate that five of the six schemas of `referential_actions`
meet it; the sixth, `Chain`, in which an UPDATE cascades twice, is model-checked only.

- `ReferencesMeanWhatTheyMeant`, `OnlyReferencesSpreadChange` and
  `PropagationRepairsReferences` state `ReferencesKeepTheirMeaning`,
  `ChangesFollowReferences` and `NothingDanglesUnasked`.  All rest on `MeaningInv`, checked
  by TLC on the five schemas before it was proved.  `RowsKeepMeaning` bounds what has
  happened: a row not asked for differs from what it was only in references, each of
  which holds its old key or what its own parent's change made of it (`Follows`).
  `UpdatesKeepMeaning` says the same of a pending update, that it was computed from the
  row as it still is, and that no other pending update of the row disagrees: the code
  writes whole rows and the last one wins, so two that differ would lose a column
  (finding 1 is this).  `NoReferenceForgotten` bounds what is missing: the reference of a
  moved key has been followed, or is pending, or its parent waits in the queue, or its
  row is dead or dying, or the action is NO ACTION; with an empty queue nothing is
  missing.  `UpdateReachesOneLevel` says that after the first item of an UPDATE the queue
  leads nowhere (`IsInert`): the parent keys the item read are those still there.
- The parent of a reference is unique because unique indexes hold in the committed
  snapshot (`OneRowPerKey`), which is where these proofs need `IInv`; and in a DELETE the
  keys by which rows are found stay (`ClosureInv`), so a key moves only when its row dies.
- `OnlyReferencesSpreadChange` takes the deleted rows from `DeletesTakeTheClosure`: if a
  row that died referenced none that did, the others would be a smaller closed set.

`EngineProofs` and `EngineClientsProofs` prove, for any databases, statements, rulesets
and rules and any number of them (`ShapesAssumption`: rules hold constraint statements,
instructions none that `ImportEngine.import` refuses):

- `CallersKeepOrder`, the inductive invariant.  What the properties say of statements
  holds because a statement runs once, and that is not a fact about the engine: the
  engine would run one twice if its callers asked.  So `IInv` joins two parts.
  `EngineInv` is what an engine keeps true of itself: a snapshot contains what is
  committed, the history explains both, transactions have increasing numbers, no
  statement is in two of them.  `Order` is what the callers keep true of the queue and the
  call in progress: each statement built waits in at most one place, and the engine
  has seen none that waits (`Used`).  `ExecuteKeeps` is the first half: a statement the
  engine has not seen leaves it in order, whichever way it ends.  `AfterRunning` is the
  second: a call that moves behind the statement it has run leaves it nowhere.  There
  is one lemma for each action of `Next`.
- On it `TypeIsCorrect`, `EachStatementRunsOnce`, `HistoryIsComplete`,
  `EachRuleSeesTheCommitted` and `ReportsAreTrue`.  A report speaks of statements that
  will never run, so `IInv` says of them that they are `Retired`: built, unseen and
  waiting nowhere, which every later step keeps.
- The action properties `CommittedActionsStay`, `AutoCommitIsAllOrNothing`,
  `ValidationIsInvisible`, and `ImportsAreAtomic`.  The last assumes that no instruction
  holds ROLLBACK (finding 4) and needs `ImportHasDone`: an import stays in its transaction,
  and every statement it has run is there with all of its actions.

`OrchestratorProofs` proves, for any databases, discoveries, rulesets and statements of
the user, any number of calls, and whatever `Build` makes of the documents
(`PipelineAssumption`: databases have names, a discovery has finitely many documents,
a ruleset instructions of at least one statement; a database may be staged under a name
that a business database could have, and the user may write statements, begin, commit
and roll back, into any of them):

- `OrchestratorStaysInOrder`, the inductive invariant `OrchestratorInv`, which TLC
  checked on the instance of `mapping_pipeline` before it was proved.  The properties
  speak of what is staged *now*, but the user's transaction may hold another snapshot,
  and COMMIT or ROLLBACK decides later which of the two is seen.  So the invariant is
  about every snapshot the engine holds (`Snapshots`): in each, `IsStaged` says, the
  staged database has the results, each of their statements and none of another
  discovery's.  It stays so because only a staging's statements have an origin
  (`UserSids` are the others: those of the queue, of the pending builder, of an import),
  a name is staged once, while it is no database, and what is built later is numbered
  higher than every effect that exists (`EngineOK`).  `CallOK` has what each call in
  progress relies on: an import that every snapshot has its target and that no
  statement of its selects another (`TargetOK`, `RulesetOK`); a staging before BEGIN
  that it has left no effect, and inside the `try` that the transaction has run the
  statements up to the next one, no others, and with all their actions (`StagedUpTo`).
- What a statement does is one lemma, `ExecuteGrows`: each snapshot it leaves is one
  from before with effects of that statement on the database it is aimed at.  Every action
  that executes one, of whatever call, goes through it (`UserStatementRuns`,
  `StagedOneMore`, `ImportStatementRuns`); there is one lemma for each action of
  `PipelineNext`.
- On it `PipelineTypeIsCorrect`, `ImportsReadTheLatestDiscovery`,
  `ImportsKeepTheirTarget`, and the action properties `StagingPublishesAllOrNothing`,
  `StagingLeavesTheUserAlone`, `CommittedDatabasesStay`.  That an import finds as many
  staged writes as its discovery has node types needs their cardinality: `StagedAll`
  has the bijection with the positions of the body.

`InputBatchProofs` proves, for every set of public methods and any number of calls:

- `BatchTypeCorrect`, and on it `BatchesAreQueues`: `BatchSpec => ImplementsQueue`.
  The argument is one lemma, `FinalizedIsWaiting`: what `finalizeStatement` leaves in
  a queue has the numbers of the abstract queue, and every action that ends a
  statement goes through it; the others keep the builder's number (`CalledType`,
  which needs that a pending join belongs to a select of the same number).
- `QueriesAreUsedOnce`: a nested query is given to one statement.  `HeldOnce` says where
  the numbers are: no two statements of a queue, nor a statement and the pending
  builder, nor the two batches or what is executed and what is queued, hold the same
  one, and all are at most `written`, so that what is begun next is new.
- `OnlyFinishedStatementsRun` and `BatchIsNeverStuck`, from `BatchInvariant`.  Neither is
  inductive: whether an ALTER TABLE is complete depends on the order of the calls it
  has received, which `AlterShape` recovers from their set.  `BatchIsNeverStuck` is about
  every set of public methods that satisfies `SuppliesEveryPart`: one call for each part
  a statement may lack, and for each public call that leaves a part open (ADD
  CONSTRAINT, FOREIGN KEY, JOIN) one that closes it.  A dialect without FOREIGN KEY owes
  no REFERENCES, which is why the invariant also says that a pending ALTER TABLE or
  join came about by public calls (`Shaped`).  TLC evaluates on the query runs that the
  public methods of all three dialects satisfy it (`DialectsSupplyEveryPart`).

`SchemaChangesProofs` proves, for any names, types and statements
(`StatementsAssumption`), any number of them and a throw before any action:

- `TypesAreCorrect`, `TablesResolve`, `ConstraintNamesDoNotCollide`,
  `UniqueIndexesDoNotCollide`, `PositionsFollowColumns`.  They need each other, as the
  code does: an index dropped by name is the right one because names differ, the index
  of a new key is found by its columns because no two unique ones share them.  `IInv`
  says that every table of both snapshots is good (`GoodTable`), of both because a
  throw goes back to the committed one; a good table has besides the five properties
  column names and index names that differ and reverse indexes named after their keys
  (`ReverseIndexesAreNamed`), without which dropping a constraint could take another's
  index away.  There is one lemma for what each kind of change does to a good table
  (`...MayCome`, `...MayGo`) and one for each action.  The columns of a unique index
  differ by their positions, which `DROP COLUMN` moves (`PositionsCloseUp`).
- `OnlyDropIndexStrandsForeignKeys`: `ForeignKeysResolve` in every behaviour without a
  `DropsReferencedIndex` step (`Spec /\ [][~DropsReferencedIndex]_vars`).  This is
  finding 5 turned around: the action it names is the only one that can strand a
  foreign key of another table, whatever else is dropped or fails half-way.  The
  statements of `schema_changes` never take that step, those of `dropped_unique` do.

Only model-checked, and why:

- The four properties of a propagation for schemas outside the assumptions of their
  theorems.  They are false for some (findings 1 and 2); for others, such as `Chain`, TLC
  finds them true.
- `ReferentialWorkTerminates`: liveness under fairness is beyond the prover.
- `BusinessDatabaseIsFaithful`, `InferredColumnsAreExact` and
  `OnlyUnmappableDocumentsAreRefused` of `MappingPipeline`, `RowsMatchTheirColumns` and
  `QualifiedNamesBindAsMeant` of `QueryInput`.  They say what the recursive operators of
  `SchemaInference` and `Queries` compute for documents and expressions of any depth,
  which would take induction over data; TLC compares it with the documents and with the
  meaning of names on the given inputs.
- The properties of violation runs, which are false.

The library's induction theorems take an operator as a parameter, which no backend
instantiates; where a proof needs induction over a number it uses a set instead
(`NaturalsByInduction` in `SchemaChangesProofs`).

## Plan

Done: the core (`ReferentialActions`, its refinement and proofs), the engine and its
callers with their proofs, schema changes with theirs, the mapping pipeline with schema
inference and its orchestrator's proofs, the input batch with its refinement and proofs, and queries.  What could
follow, in order of importance; each item names what to prove.

1. The theorems of `MeaningProofs` for schemas in which references are referenced: the
   invariant would follow a key through the updates of several levels, and one column
   that belongs to two foreign keys.
2. An abstract store of committed databases that `EngineClients` implements: the
   effects of whole statements and whole imports, and nothing else.
3. For `SchemaChanges`: the actions a foreign key was declared with, the types on its
   two sides with the values, CREATE TABLE AS SELECT.
4. Column defaults and generated values under explicit values, several columns and
   failed statements.

## Not modelled

The rows of a schema change, CREATE TABLE AS SELECT, and inline column constraints
(which compile to the list the model has).  Predicates and expressions of row
statements (the choice of rows and values stands for them); in queries SQL and date
functions, JSON_QUERY, division and the order of strings.  Defaults and generated
column values.  The precedence of dialect, policy and default rules and its cache.
SQL text, keywords and formatting; the discovery traversal, decoding of files and JSON
(what is found is a constant); date-time parsing; the syntax-tree constructors; the
registries, examples and superseded import code.  A ruleset without instructions or
rules, which begins and commits nothing.  The orchestrator with a second
engine.  Immutability of the relational objects is assumed: a snapshot is a value;
the name index of a store, rebuilt by every change, is not a second state.
