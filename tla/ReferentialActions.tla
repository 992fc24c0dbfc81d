------------------------- MODULE ReferentialActions -------------------------
(***************************************************************************)
(* Row mutation and referential actions of one relational Database:        *)
(* Database.addRows, removeRows, updateRows and createForeignKey, with the *)
(* work queue of Database.applyReferentialWork run one loop iteration per  *)
(* step.                                                                   *)
(*                                                                         *)
(* The program is single-threaded and every relational object is immutable *)
(* so a statement works on its own chain of snapshots (`work') and the     *)
(* caller keeps the old one (`db') until the operation returns; a throw    *)
(* anywhere discards `work'.  The intermediate snapshots matter because    *)
(* each work item reads the snapshot the previous items left behind.       *)
(***************************************************************************)
EXTENDS RelationalModel

CONSTANT MaxBatch   \* bound: rows in one INSERT

VARIABLES
    schema,   \* the schema of this behaviour, never changed
    active,   \* positions in schema.fks of the foreign keys created so far
    db,       \* the Database the caller holds
    work,     \* the local `db' of applyReferentialWork
    queue,    \* pending ReferentialWork
    deletes,  \* childDeletesByTable of the work item being processed
    updates,  \* childUpdatesByTable of the work item being processed
    stmt      \* the row statement in progress, or NoStatement

vars == <<schema, active, db, work, queue, deletes, updates, stmt>>

-----------------------------------------------------------------------------
(* Resolved mutations and referential work *)

\* One resolved mutation of a row.  `pos' is its place in the list it belongs
\* to; a delete has no new row and repeats the old one.
Entry == [pos : Nat, row : Nat, old : Row, new : Row]

WorkItem == [kind : {"delete", "update"}, table : Tables, rows : SUBSET Entry]

Pending == [Tables -> SUBSET Entry]

NothingPending == [t \in Tables |-> {}]

NoStatement == [kind |-> "none"]

Statement ==
    {NoStatement}
        \cup [kind : {"delete", "update"}, table : Tables, rows : SUBSET Nat]

\* Table.removeRows: the slots stay, only their rowAlive flags change.
RemoveRows(d, t, rows) ==
    [d EXCEPT ![t] =
        [r \in DOMAIN d[t] |->
            IF r \in rows THEN [d[t][r] EXCEPT !.alive = FALSE] ELSE d[t][r]]]

IsLastFor(e, entries, r) ==
    /\ e.row = r
    /\ \A f \in entries : f.row = r => f.pos <= e.pos

\* The column writes of Table.applyResolvedUpdates: whole rows, in list order,
\* live or not, so the last entry for a row wins.
OverwriteRows(d, t, entries) ==
    [d EXCEPT ![t] =
        [r \in DOMAIN d[t] |->
            IF \E e \in entries : IsLastFor(e, entries, r)
            THEN [d[t][r] EXCEPT !.vals =
                     (CHOOSE e \in entries : IsLastFor(e, entries, r)).new]
            ELSE d[t][r]]]

\* Mutant: the indexes are not rebuilt after the write.
UpdateAcceptedUnindexed(d, t, entries) == \A e \in entries : e.new \in schema.allowed[t]

\* assertDatum and assertRowAgainstChecks pass for every written row and the
\* indexes of the resulting table build.
UpdateAccepted(d, t, entries) ==
    /\ \A e \in entries : e.new \in schema.allowed[t]
    /\ IndexesBuild(schema, OverwriteRows(d, t, entries), t)

-----------------------------------------------------------------------------
(* Which child rows a mutated parent row impacts *)

\* Mutant: the lookup uses the first column of the reverse index only.
IsImpactedByPrefix(item, e, fk, r) ==
    LET key    == Project(e.old, fk.parentColumns)
        parent == work[item.table][e.row]
    IN  /\ fk.parent = item.table
        /\ r \in Alive(work, fk.child)
        /\ Project(work[fk.child][r].vals, fk.columns)[1] = key[1]
        /\ ~ (parent.alive /\ Project(parent.vals, fk.parentColumns) = key)

\* Mutant: the reverse index still lists dead rows.
IsImpactedThoughDead(item, e, fk, r) ==
    LET key    == Project(e.old, fk.parentColumns)
        parent == work[item.table][e.row]
    IN  /\ fk.parent = item.table
        /\ r \in DOMAIN work[fk.child]
        /\ Project(work[fk.child][r].vals, fk.columns) = key
        /\ ~ (parent.alive /\ Project(parent.vals, fk.parentColumns) = key)

\* findImpactedChildRowReferences for one parent row e.old of the item: the
\* reverse index of fk is looked up in the current snapshot with the parent key
\* as it was, NULLs included, unless the parent row is live and still has it.
IsImpacted(item, e, fk, r) ==
    LET key    == Project(e.old, fk.parentColumns)
        parent == work[item.table][e.row]
    IN  /\ fk.parent = item.table
        /\ r \in Alive(work, fk.child)
        /\ Project(work[fk.child][r].vals, fk.columns) = key
        /\ ~ (parent.alive /\ Project(parent.vals, fk.parentColumns) = key)

\* The references of one work item, as <<parent entry, fk position, child row>>.
Impacted(item) ==
    {ref \in item.rows \X active \X
             UNION {DOMAIN work[t] : t \in Tables} :
        IsImpacted(item, ref[1], schema.fks[ref[2]], ref[3])}

\* The loops visit parent rows in list order, then foreign keys, then row numbers.
Before(a, b) ==
    \/ a[1].pos < b[1].pos
    \/ a[1].pos = b[1].pos /\ a[2] < b[2]
    \/ a[1].pos = b[1].pos /\ a[2] = b[2] /\ a[3] < b[3]

ReferentialAction(item, fk) ==
    IF item.kind = "delete" THEN fk.onDelete ELSE fk.onUpdate

\* Mutant: the new row holds the columns of the key only.
WithNullKeyOnly(row, fk) ==
    [c \in {fk.columns[i] : i \in DOMAIN fk.columns} |-> Null]

\* CompiledForeignKey.applyReferentialActionToRow
WithNullKey(row, fk) ==
    [c \in Columns |->
        IF \E i \in DOMAIN fk.columns : fk.columns[i] = c THEN Null ELSE row[c]]

\* Mutant: columns are paired by name instead of by position.
WithParentColumns(row, fk, parentRow) ==
    [c \in Columns |->
        IF \E i \in DOMAIN fk.columns : fk.columns[i] = c THEN parentRow[c] ELSE row[c]]

WithParentKey(row, fk, parentRow) ==
    [c \in Columns |->
        IF \E i \in DOMAIN fk.columns : fk.columns[i] = c
        THEN parentRow[fk.parentColumns[
                 CHOOSE i \in DOMAIN fk.columns : fk.columns[i] = c]]
        ELSE row[c]]

\* The mutation one reference resolves to, given that it resolves to one.
ChildEntry(item, ref) ==
    LET fk  == schema.fks[ref[2]]
        row == work[fk.child][ref[3]].vals
    IN  [pos |-> Cardinality({other \in Impacted(item) : Before(other, ref)}),
         row |-> ref[3],
         old |-> row,
         new |-> IF ReferentialAction(item, fk) = "setNull" THEN WithNullKey(row, fk)
                 ELSE IF item.kind = "update" THEN WithParentKey(row, fk, ref[1].new)
                 ELSE row]

\* resolveReferentialDeleteAction under CASCADE: the child row is deleted.
ChildDeletes(item, t) ==
    {ChildEntry(item, ref) : ref \in
        {x \in Impacted(item) :
            /\ schema.fks[x[2]].child = t
            /\ item.kind = "delete"
            /\ schema.fks[x[2]].onDelete = "cascade"}}

\* SET NULL, or CASCADE of an update; a row left as it was yields no mutation.
ChildUpdates(item, t) ==
    {e \in {ChildEntry(item, ref) : ref \in
               {x \in Impacted(item) :
                   LET action == ReferentialAction(item, schema.fks[x[2]])
                   IN  /\ schema.fks[x[2]].child = t
                       /\ \/ action = "setNull"
                          \/ action = "cascade" /\ item.kind = "update"}} :
        e.new # e.old}

Restricted(item) ==
    \E ref \in Impacted(item) :
        ReferentialAction(item, schema.fks[ref[2]]) = "restrict"

\* The child table whose list was started first.
IsFirstPending(pending, t) ==
    \E e \in pending[t] :
        \A s \in Tables : \A d \in pending[s] : e.pos <= d.pos

-----------------------------------------------------------------------------
(* Statements *)

Init ==
    /\ schema \in Schemas
    /\ active = schema.initial
    /\ db = [t \in Tables |-> <<>>]
    /\ work = db
    /\ queue = <<>>
    /\ deletes = NothingPending
    /\ updates = NothingPending
    /\ stmt = NoStatement

Idle == stmt = NoStatement

\* Database.createForeignKey: the existing child rows must satisfy the new key.
CreateForeignKey(f) ==
    /\ Idle
    /\ f \notin active
    /\ ExistingRowsSatisfy(db, schema.fks[f])
    /\ active' = active \cup {f}
    /\ UNCHANGED <<schema, db, work, queue, deletes, updates, stmt>>

\* Database.addRows: the batch goes in as a whole, and one refused row refuses it.
AddRows(t, batch) ==
    LET after == [db EXCEPT ![t] =
                     @ \o [i \in DOMAIN batch |-> [vals |-> batch[i], alive |-> TRUE]]]
    IN  /\ Idle
        /\ Len(after[t]) <= schema.maxRows
        /\ \A i \in DOMAIN batch : batch[i] \in schema.allowed[t]
        /\ IndexesBuild(schema, after, t)
        /\ AllForeignKeysValid(schema, active, after)
        /\ db' = after
        /\ work' = after
        /\ UNCHANGED <<schema, active, queue, deletes, updates, stmt>>

\* Database.removeRows up to the referential work: DeleteRowsAction passes the
\* live rows its predicate selects, in scan order.
BeginDelete(t, rows) ==
    /\ Idle
    /\ rows # {}
    /\ work' = RemoveRows(db, t, rows)
    /\ queue' = <<[kind |-> "delete", table |-> t,
                   rows |-> {[pos |-> r, row |-> r,
                              old |-> db[t][r].vals, new |-> db[t][r].vals] : r \in rows}]>>
    /\ stmt' = [kind |-> "delete", table |-> t, rows |-> rows]
    /\ UNCHANGED <<schema, active, db, deletes, updates>>

\* Database.updateRows up to the referential work.  `new' gives the resulting row
\* of each selected live row; Table.updateRows has already checked them.
BeginUpdate(t, new) ==
    LET entries == {[pos |-> r, row |-> r,
                     old |-> db[t][r].vals, new |-> new[r]] : r \in DOMAIN new}
    IN  /\ Idle
        /\ DOMAIN new # {}
        /\ UpdateAccepted(db, t, entries)
        /\ work' = OverwriteRows(db, t, entries)
        /\ queue' = <<[kind |-> "update", table |-> t, rows |-> entries]>>
        /\ stmt' = [kind |-> "update", table |-> t, rows |-> DOMAIN new]
        /\ UNCHANGED <<schema, active, db, deletes, updates>>

-----------------------------------------------------------------------------
(* applyReferentialWork *)

NoPending == deletes = NothingPending /\ updates = NothingPending

\* Mutant: a throw leaves the caller with the snapshot reached so far.
AbandonHalfway ==
    /\ db' = work
    /\ work' = work
    /\ queue' = <<>>
    /\ deletes' = NothingPending
    /\ updates' = NothingPending
    /\ stmt' = NoStatement
    /\ UNCHANGED <<schema, active>>

\* A throw: the snapshots of this statement are garbage, the caller keeps db.
Abandon ==
    /\ work' = db
    /\ queue' = <<>>
    /\ deletes' = NothingPending
    /\ updates' = NothingPending
    /\ stmt' = NoStatement
    /\ UNCHANGED <<schema, active, db>>

\* The loop over the item's rows and their references, all read from one snapshot.
ResolveItem ==
    /\ NoPending
    /\ queue # <<>>
    /\ ~ Restricted(Head(queue))
    /\ deletes' = [t \in Tables |-> ChildDeletes(Head(queue), t)]
    /\ updates' = [t \in Tables |-> ChildUpdates(Head(queue), t)]
    /\ queue' = Tail(queue)
    /\ UNCHANGED <<schema, active, db, work, stmt>>

\* A RESTRICT reference throws.
RejectRestricted ==
    /\ NoPending
    /\ queue # <<>>
    /\ Restricted(Head(queue))
    /\ Abandon

\* Mutant: the deleted child rows are not queued as parents in their turn.
ApplyResolvedDeletesOnce(t) ==
    /\ IsFirstPending(deletes, t)
    /\ work' = RemoveRows(work, t, {e.row : e \in deletes[t]})
    /\ deletes' = [deletes EXCEPT ![t] = {}]
    /\ UNCHANGED <<schema, active, db, queue, updates, stmt>>

\* One iteration of the loop over childDeletesByTable.
ApplyResolvedDeletes(t) ==
    /\ IsFirstPending(deletes, t)
    /\ work' = RemoveRows(work, t, {e.row : e \in deletes[t]})
    /\ queue' = Append(queue, [kind |-> "delete", table |-> t, rows |-> deletes[t]])
    /\ deletes' = [deletes EXCEPT ![t] = {}]
    /\ UNCHANGED <<schema, active, db, updates, stmt>>

\* Mutant: the updated child rows are not queued as parents in their turn.
ApplyResolvedUpdatesOnce(t) ==
    /\ deletes = NothingPending
    /\ IsFirstPending(updates, t)
    /\ UpdateAccepted(work, t, updates[t])
    /\ work' = OverwriteRows(work, t, updates[t])
    /\ updates' = [updates EXCEPT ![t] = {}]
    /\ UNCHANGED <<schema, active, db, queue, deletes, stmt>>

\* One iteration of the loop over childUpdatesByTable, after all the deletes.
ApplyResolvedUpdates(t) ==
    /\ deletes = NothingPending
    /\ IsFirstPending(updates, t)
    /\ UpdateAccepted(work, t, updates[t])
    /\ work' = OverwriteRows(work, t, updates[t])
    /\ queue' = Append(queue, [kind |-> "update", table |-> t, rows |-> updates[t]])
    /\ updates' = [updates EXCEPT ![t] = {}]
    /\ UNCHANGED <<schema, active, db, deletes, stmt>>

\* NOT NULL, a CHECK, or a unique index of the child refuses the propagated row.
RejectResolvedUpdates(t) ==
    /\ deletes = NothingPending
    /\ IsFirstPending(updates, t)
    /\ ~ UpdateAccepted(work, t, updates[t])
    /\ Abandon

Drained == ~ Idle /\ queue = <<>> /\ NoPending

\* Mutant: the final snapshot is returned unvalidated.
FinishUnvalidated ==
    /\ Drained
    /\ db' = work
    /\ stmt' = NoStatement
    /\ UNCHANGED <<schema, active, work, queue, deletes, updates>>

\* assertAllForeignKeysValid on the final snapshot, which is then returned.
Finish ==
    /\ Drained
    /\ AllForeignKeysValid(schema, active, work)
    /\ db' = work
    /\ stmt' = NoStatement
    /\ UNCHANGED <<schema, active, work, queue, deletes, updates>>

RejectDangling ==
    /\ Drained
    /\ ~ AllForeignKeysValid(schema, active, work)
    /\ Abandon

RunReferentialWork ==
    \/ ResolveItem
    \/ RejectRestricted
    \/ \E t \in Tables :
          ApplyResolvedDeletes(t) \/ ApplyResolvedUpdates(t) \/ RejectResolvedUpdates(t)
    \/ Finish
    \/ RejectDangling

Batches(t) == UNION {[1..n -> schema.allowed[t]] : n \in 1..MaxBatch}

NewRows(t) == UNION {[rows -> schema.allowed[t]] : rows \in SUBSET Alive(db, t)}

Next ==
    \/ \E f \in DOMAIN schema.fks : CreateForeignKey(f)
    \/ \E t \in Tables : \E batch \in Batches(t) : AddRows(t, batch)
    \/ \E t \in Tables : \E rows \in SUBSET Alive(db, t) : BeginDelete(t, rows)
    \/ \E t \in Tables : \E new \in NewRows(t) : BeginUpdate(t, new)
    \/ RunReferentialWork

\* The loop runs to completion inside one synchronous call.
Spec == Init /\ [][Next]_vars /\ WF_vars(RunReferentialWork)

-----------------------------------------------------------------------------
(* Properties *)

TypeOK ==
    /\ schema \in Schemas
    /\ active \subseteq DOMAIN schema.fks
    /\ db \in Database
    /\ work \in Database
    /\ queue \in Seq(WorkItem)
    /\ deletes \in Pending
    /\ updates \in Pending
    /\ stmt \in Statement

\* Every snapshot the caller can hold satisfies all its structural constraints:
\* the checks of Table and Index cover each table a propagation step rewrites, and
\* the final validation covers the references between them.
CommittedConstraintsHold == ConstraintsHold(schema, active, db)

\* The working snapshots never break a CHECK, NOT NULL or unique index either, so
\* every lookup a later work item makes in a parent index has at most one answer.
WorkingTablesConsistent == TablesConsistent(schema, work)

\* Child row r referenced parent row p through fk in the snapshot before the
\* statement.  A key with a NULL references nothing (assertExistingRowsSatisfyForeignKey).
Referenced(fk, r, p) ==
    LET key == Project(db[fk.child][r].vals, fk.columns)
    IN  /\ r \in Alive(db, fk.child)
        /\ p \in Alive(db, fk.parent)
        /\ ~ HasNull(key)
        /\ Project(db[fk.parent][p].vals, fk.parentColumns) = key

Requested(t, r) == t = stmt.table /\ r \in stmt.rows

\* The rows of a snapshot, each with its table.
Rows(d) == UNION {{t} \X Alive(d, t) : t \in Tables}

\* With a row, `rows' holds every row that references it through ON DELETE CASCADE.
IsClosed(rows) ==
    \A f \in active :
        LET fk == schema.fks[f] IN
        fk.onDelete = "cascade" =>
            \A r \in Alive(db, fk.child) : \A p \in Alive(db, fk.parent) :
                Referenced(fk, r, p) /\ <<fk.parent, p>> \in rows => <<fk.child, r>> \in rows

\* The rows a DELETE must take along: those in every closed set that holds the
\* requested rows.
CascadeClosure ==
    LET closed == {rows \in SUBSET Rows(db) : {stmt.table} \X stmt.rows \subseteq rows /\ IsClosed(rows)}
    IN  {row \in Rows(db) : \A rows \in closed : row \in rows}

\* When the queue of a DELETE drains, the rows that died are exactly the closure:
\* none forgotten, none deleted that only a stale or NULL key connected.
DeleteTakesExactlyTheClosure ==
    Drained /\ stmt.kind = "delete" => Rows(db) \ Rows(work) = CascadeClosure

\* A statement changes a row only if the row was asked for or it referenced, by a
\* complete key, a row that changed.
ChangesFollowReferences ==
    Drained =>
        \A t \in Tables : \A r \in DOMAIN db[t] :
            work[t][r] # db[t][r] =>
                \/ Requested(t, r)
                \/ \E f \in active :
                      /\ schema.fks[f].child = t
                      /\ \E p \in Alive(db, schema.fks[f].parent) :
                            /\ Referenced(schema.fks[f], r, p)
                            /\ work[schema.fks[f].parent][p] # db[schema.fks[f].parent][p]

\* What became of the reference of r to p: if the key of p is gone, r follows p to its
\* new key, is set to NULL, or keeps its key, as the action of fk says.
KeepsItsMeaning(fk, r, p) ==
    LET was    == Project(db[fk.child][r].vals, fk.columns)
        is     == Project(work[fk.child][r].vals, fk.columns)
        parent == Project(work[fk.parent][p].vals, fk.parentColumns)
        action == IF p \notin Alive(work, fk.parent) THEN fk.onDelete
                  ELSE IF parent # was THEN fk.onUpdate
                  ELSE "noAction"
    IN  CASE action = "noAction" -> is = was
          [] action = "setNull"  -> \A i \in DOMAIN is : is[i] = Null
          [] action = "cascade"  -> p \in Alive(work, fk.parent) /\ is = parent
          [] OTHER -> FALSE

\* When the queue has drained, however many steps later, every reference of a row nobody
\* asked to change has become what its foreign key says.
ReferencesKeepTheirMeaning ==
    Drained =>
        \A f \in active :
            LET fk == schema.fks[f] IN
            \A r \in Alive(work, fk.child) : \A p \in Alive(db, fk.parent) :
                Referenced(fk, r, p) /\ ~ Requested(fk.child, r) => KeepsItsMeaning(fk, r, p)

\* Propagation alone restores referential integrity: after the last work item the
\* only rows left without a parent are rows the UPDATE itself gave a bad key or
\* rows under NO ACTION.  Otherwise a legal statement would be refused by the final
\* validation.
NothingDanglesUnasked ==
    Drained =>
        \A f \in active :
            LET fk == schema.fks[f] IN
            "noAction" \notin {fk.onDelete, fk.onUpdate} =>
                \A r \in Alive(work, fk.child) :
                    LET key == Project(work[fk.child][r].vals, fk.columns)
                    IN  \/ HasNull(key)
                        \/ HasParent(work, fk, key)
                        \/ stmt.kind = "update" /\ Requested(fk.child, r)

\* Every row statement returns or throws: the referential work runs out.
ReferentialWorkTerminates == ~ Idle ~> Idle

-----------------------------------------------------------------------------
(* Schemas whose foreign keys do not get in each other's way.  The last four *)
(* properties do not hold of every schema.                                   *)

KeyColumns(columns) == {columns[i] : i \in DOMAIN columns}

\* No parent key can hold NULL, as a PRIMARY KEY cannot.
ParentKeysAreComplete(s) ==
    \A f \in DOMAIN s.fks : \A row \in s.allowed[s.fks[f].parent] :
        ~ HasNull(Project(row, s.fks[f].parentColumns))

\* When a DELETE sets a row to NULL and kills it later, the update is worked off while
\* the row is dead already: then ON UPDATE must not clear what ON DELETE would not.
LateUpdatesAreHarmless(s) ==
    \A f, g \in DOMAIN s.fks :
        /\ s.fks[f].parent = s.fks[g].child
        /\ s.fks[g].onDelete = "setNull"
        /\ s.fks[f].onUpdate = "setNull"
        => s.fks[f].onDelete = "setNull"

\* SET NULL clears no column of a key that a DELETE cascades along.
CascadesKeepTheirColumns(s) ==
    \A f, g \in DOMAIN s.fks :
        /\ s.fks[f].child = s.fks[g].child
        /\ s.fks[f].onDelete = "cascade"
        /\ s.fks[g].onDelete = "setNull"
        => KeyColumns(s.fks[f].columns) \cap KeyColumns(s.fks[g].columns) = {}

\* A row has at most one foreign key to a table, and none shares a column.
ReferencesAreSeparate(s) ==
    \A f, g \in DOMAIN s.fks :
        s.fks[f].child = s.fks[g].child /\ f # g =>
            /\ s.fks[f].parent # s.fks[g].parent
            /\ KeyColumns(s.fks[f].columns) \cap KeyColumns(s.fks[g].columns) = {}

\* What references a row is not itself referenced: an UPDATE reaches one level.
ReferencesAreNotKeys(s) ==
    \A f, g \in DOMAIN s.fks :
        s.fks[f].child = s.fks[g].parent =>
            KeyColumns(s.fks[f].columns) \cap KeyColumns(s.fks[g].parentColumns) = {}

\* A key has columns, and each once.
KeyColumnsAreDistinct(s) ==
    \A f \in DOMAIN s.fks :
        /\ s.fks[f].columns # <<>>
        /\ \A i, j \in DOMAIN s.fks[f].columns :
               s.fks[f].columns[i] = s.fks[f].columns[j] => i = j

\* Enough for a DELETE to take its closure.
CascadesAreIndependent(s) ==
    ParentKeysAreComplete(s) /\ LateUpdatesAreHarmless(s) /\ CascadesKeepTheirColumns(s)

\* Enough for references to keep their meaning.
ReferencesAreIndependent(s) ==
    /\ ParentKeysAreComplete(s) /\ LateUpdatesAreHarmless(s)
    /\ ReferencesAreSeparate(s) /\ ReferencesAreNotKeys(s) /\ KeyColumnsAreDistinct(s)

-----------------------------------------------------------------------------
Store == INSTANCE RelationalStore WITH schema <- schema, active <- active, db <- db

\* Statements are atomic: seen from the caller, the queue, the intermediate
\* snapshots and the throws in the middle of a propagation do not exist.
ImplementsStore == Store!StoreSpec
=============================================================================
