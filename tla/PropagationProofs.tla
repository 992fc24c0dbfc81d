-------------------------- MODULE PropagationProofs --------------------------
(***************************************************************************)
(* What a propagation does to the rows: proofs about ReferentialActions    *)
(* for the schemas whose foreign keys do not get in each other's way.      *)
(***************************************************************************)
EXTENDS ReferentialActionsProofs

-----------------------------------------------------------------------------
(* Keys of rows *)

LEMMA ProjectionsAgree ==
    ASSUME NEW columns, NEW u, NEW v
    PROVE  Project(u, columns) = Project(v, columns) <=>
               \A i \in DOMAIN columns : u[columns[i]] = v[columns[i]]
<1> DEFINE p(w) == [i \in DOMAIN columns |-> w[columns[i]]]
<1>1. \A w : DOMAIN p(w) = DOMAIN columns /\ \A i \in DOMAIN columns : p(w)[i] = w[columns[i]]
    OBVIOUS
<1>2. Project(u, columns) = p(u) /\ Project(v, columns) = p(v)
    BY DEF Project
<1>3. p(u) = p(v) => \A i \in DOMAIN columns : u[columns[i]] = v[columns[i]]
    <2> HIDE DEF p
    <2> QED BY <1>1
<1>4. (\A i \in DOMAIN columns : u[columns[i]] = v[columns[i]]) => p(u) = p(v)
    OBVIOUS
<1> QED BY <1>2, <1>3, <1>4

\* The columns of a foreign key are columns of its tables.
LEMMA KeyColumnsType ==
    ASSUME TypeOK, NEW f \in active
    PROVE  /\ schema.fks[f].child \in Tables /\ schema.fks[f].parent \in Tables
           /\ DOMAIN schema.fks[f].columns = DOMAIN schema.fks[f].parentColumns
           /\ \A i \in DOMAIN schema.fks[f].columns :
                  schema.fks[f].columns[i] \in Columns /\ schema.fks[f].parentColumns[i] \in Columns
<1>1. /\ schema.fks[f] \in ForeignKey
      /\ DOMAIN schema.fks[f].columns = DOMAIN schema.fks[f].parentColumns
    BY ForeignKeyType
<1>2. /\ schema.fks[f].columns \in Seq(Columns)
      /\ schema.fks[f].parentColumns \in Seq(Columns)
    BY <1>1 DEF ForeignKey, ColumnList
<1>3. /\ \A i \in DOMAIN schema.fks[f].columns : schema.fks[f].columns[i] \in Columns
      /\ \A i \in DOMAIN schema.fks[f].parentColumns : schema.fks[f].parentColumns[i] \in Columns
    BY <1>2, LenProperties, ElementOfSeq
<1> QED BY <1>1, <1>3 DEF ForeignKey

\* A row that a foreign key can reference has no NULL in its key.
LEMMA ParentKeysHaveNoNull ==
    ASSUME TypeOK, ParentKeysAreComplete(schema), NEW f \in active,
           NEW row \in schema.allowed[schema.fks[f].parent]
    PROVE  /\ ~ HasNull(Project(row, schema.fks[f].parentColumns))
           /\ \A i \in DOMAIN schema.fks[f].parentColumns :
                  row[schema.fks[f].parentColumns[i]] # Null
<1>1. ~ HasNull(Project(row, schema.fks[f].parentColumns))
    BY DEF TypeOK, ParentKeysAreComplete
<1> QED BY <1>1 DEF HasNull, Project

\* A row that is given the key it already has stays as it is, so a propagated update of
\* other columns ends with it.
LEMMA SameParentKeySameRow ==
    ASSUME TypeOK, NEW f \in active, NEW row \in Row, NEW parentRow,
           Project(row, schema.fks[f].columns) = Project(parentRow, schema.fks[f].parentColumns)
    PROVE  WithParentKey(row, schema.fks[f], parentRow) = row
<1> DEFINE columns == schema.fks[f].columns
           parentColumns == schema.fks[f].parentColumns
           position(c) == CHOOSE i \in DOMAIN columns : columns[i] = c
<1>1. DOMAIN columns = DOMAIN parentColumns
    BY KeyColumnsType
<1>2. \A i \in DOMAIN columns : row[columns[i]] = parentRow[parentColumns[i]]
    <2>1. \A i \in DOMAIN columns : Project(row, columns)[i] = row[columns[i]]
        BY DEF Project
    <2>2. \A i \in DOMAIN columns : Project(parentRow, parentColumns)[i] = parentRow[parentColumns[i]]
        BY <1>1 DEF Project
    <2>3. Project(row, columns) = Project(parentRow, parentColumns)
        OBVIOUS
    <2> HIDE DEF columns, parentColumns
    <2> QED BY <2>1, <2>2, <2>3
<1>3. \A c \in Columns : (\E i \in DOMAIN columns : columns[i] = c) =>
          position(c) \in DOMAIN columns /\ columns[position(c)] = c
    OBVIOUS
<1>4. WithParentKey(row, schema.fks[f], parentRow) =
          [c \in Columns |-> IF \E i \in DOMAIN columns : columns[i] = c
                             THEN parentRow[parentColumns[position(c)]] ELSE row[c]]
    BY DEF WithParentKey
<1> HIDE DEF columns, parentColumns, position
<1>5. \A c \in Columns : (IF \E i \in DOMAIN columns : columns[i] = c
                          THEN parentRow[parentColumns[position(c)]] ELSE row[c]) = row[c]
    BY <1>2, <1>3
<1>6. row = [c \in Columns |-> row[c]]
    BY DEF Row
<1> QED BY <1>4, <1>5, <1>6

\* SET NULL touches the columns of its key only.
LEMMA NulledColumns ==
    ASSUME NEW row, NEW fk, NEW c \in Columns
    PROVE  /\ c \notin KeyColumns(fk.columns) => WithNullKey(row, fk)[c] = row[c]
           /\ c \in KeyColumns(fk.columns) => WithNullKey(row, fk)[c] = Null
BY DEF WithNullKey, KeyColumns

-----------------------------------------------------------------------------
(* What a DELETE takes along.  The closure speaks of the snapshot before the *)
(* statement; the queue reads later ones.  They agree because no step of a   *)
(* DELETE changes a key by which rows are found (KeysStay): parent keys      *)
(* accept no NULL, and SET NULL spares the keys along which rows are         *)
(* deleted.                                                                  *)

\* Rows u and v of t agree on every key by which t is referenced,
SameKeys(t, u, v) ==
    \A f \in active : schema.fks[f].parent = t =>
        Project(u, schema.fks[f].parentColumns) = Project(v, schema.fks[f].parentColumns)

\* and on every key along which the rows of t are deleted.
SameCascades(t, u, v) ==
    /\ SameKeys(t, u, v)
    /\ \A f \in active : schema.fks[f].child = t /\ schema.fks[f].onDelete = "cascade" =>
           Project(u, schema.fks[f].columns) = Project(v, schema.fks[f].columns)

\* A DELETE may set rows of t to NULL.
SetNullable(t) == \E g \in active : schema.fks[g].child = t /\ schema.fks[g].onDelete = "setNull"

RowsIn(entries) == {e.row : e \in entries}

\* The children of this row are still to be looked up.
DeleteQueued(t, r) ==
    \E i \in DOMAIN queue :
        queue[i].kind = "delete" /\ queue[i].table = t /\ r \in RowsIn(queue[i].rows)

KeysStay ==
    \A t \in Tables : \A r \in DOMAIN db[t] : SameCascades(t, work[t][r].vals, db[t][r].vals)

\* The mutation was resolved from a row with the keys it had before the statement.
Resolved(t, e) == e.row \in Alive(db, t) /\ SameCascades(t, e.old, db[t][e.row].vals)

ItemIsResolved(item) ==
    LET t == item.table IN
    \A e \in item.rows :
        /\ Resolved(t, e)
        /\ item.kind = "delete" => e.row \notin Alive(work, t)
        /\ item.kind = "update" => SetNullable(t) /\ SameCascades(t, e.new, db[t][e.row].vals)

QueueIsResolved == \A i \in DOMAIN queue : ItemIsResolved(queue[i])

PendingIsResolved ==
    \A t \in Tables :
        /\ \A e \in deletes[t] : Resolved(t, e)
        /\ \A e \in updates[t] :
               /\ Resolved(t, e)
               /\ SetNullable(t)
               /\ e.new \in schema.allowed[t] => SameCascades(t, e.new, db[t][e.row].vals)

IsTaken(t, r) == r \in Alive(db, t) /\ (r \notin Alive(work, t) \/ r \in RowsIn(deletes[t]))

NoneTooMany ==
    \A rows \in SUBSET Rows(db) :
        {stmt.table} \X stmt.rows \subseteq rows /\ IsClosed(rows) =>
            \A t \in Tables : \A r : IsTaken(t, r) => <<t, r>> \in rows

NoneForgotten ==
    \A f \in active :
        LET fk == schema.fks[f] IN
        fk.onDelete = "cascade" =>
            \A r \in Alive(db, fk.child) : \A p \in Alive(db, fk.parent) :
                Referenced(fk, r, p) /\ p \notin Alive(work, fk.parent) =>
                    IsTaken(fk.child, r) \/ DeleteQueued(fk.parent, p)

ClosureInv ==
    stmt.kind = "delete" =>
        KeysStay /\ QueueIsResolved /\ PendingIsResolved /\ NoneTooMany /\ NoneForgotten

LEMMA SameCascadesIsEquality ==
    /\ \A t, u : SameCascades(t, u, u)
    /\ \A t, u, v, w : SameCascades(t, u, v) /\ SameCascades(t, v, w) => SameCascades(t, u, w)
BY DEF SameCascades, SameKeys

LEMMA SameCascadesPrimed ==
    ASSUME UNCHANGED <<schema, active>>, NEW t, NEW u, NEW v
    PROVE  SameCascades(t, u, v)' <=> SameCascades(t', u', v')
BY DEF SameCascades, SameKeys

\* A row that SET NULL may write has the keys it had.
LEMMA NullingKeepsKeys ==
    ASSUME TypeOK, CascadesAreIndependent(schema), NEW g \in active,
           schema.fks[g].onDelete = "setNull", NEW row,
           WithNullKey(row, schema.fks[g]) \in schema.allowed[schema.fks[g].child]
    PROVE  SameCascades(schema.fks[g].child, WithNullKey(row, schema.fks[g]), row)
<1> DEFINE t   == schema.fks[g].child
           new == WithNullKey(row, schema.fks[g])
<1>1. active \subseteq DOMAIN schema.fks
    BY DEF TypeOK
<1>2. ASSUME NEW f \in active, schema.fks[f].parent = t
      PROVE  Project(new, schema.fks[f].parentColumns) = Project(row, schema.fks[f].parentColumns)
    <2> DEFINE columns == schema.fks[f].parentColumns
    <2>1. \A i \in DOMAIN columns : new[columns[i]] # Null /\ columns[i] \in Columns
        BY <1>2, ParentKeysHaveNoNull, KeyColumnsType DEF CascadesAreIndependent
    <2>2. \A i \in DOMAIN columns : new[columns[i]] = row[columns[i]]
        BY <2>1, NulledColumns
    <2> QED BY <2>2, ProjectionsAgree
<1>3. ASSUME NEW f \in active, schema.fks[f].child = t, schema.fks[f].onDelete = "cascade"
      PROVE  Project(new, schema.fks[f].columns) = Project(row, schema.fks[f].columns)
    <2> DEFINE columns == schema.fks[f].columns
    <2>1. KeyColumns(columns) \cap KeyColumns(schema.fks[g].columns) = {}
        BY <1>1, <1>3 DEF CascadesAreIndependent, CascadesKeepTheirColumns
    <2>2. \A i \in DOMAIN columns : columns[i] \in Columns /\ columns[i] \in KeyColumns(columns)
        BY KeyColumnsType DEF KeyColumns
    <2>3. \A i \in DOMAIN columns : new[columns[i]] = row[columns[i]]
        BY <2>1, <2>2, NulledColumns
    <2> QED BY <2>3, ProjectionsAgree
<1> QED BY <1>2, <1>3 DEF SameCascades, SameKeys

\* A reference that an item follows in a DELETE: a live row and a row it had the key of.
LEMMA ImpactedRow ==
    ASSUME IInv, StatementInv, NEW item \in WorkItem, NEW ref \in Impacted(item)
    PROVE  LET fk == schema.fks[ref[2]] IN
           /\ ref[1] \in item.rows /\ ref[1] \in Entry /\ ref[2] \in active
           /\ ref[2] \in DOMAIN schema.fks
           /\ fk.parent = item.table /\ fk.child \in Tables
           /\ ref[3] \in Alive(work, fk.child) /\ ref[3] \in Alive(db, fk.child)
           /\ ref[3] \in DOMAIN db[fk.child] /\ work[fk.child][ref[3]].vals \in Row
           /\ Project(work[fk.child][ref[3]].vals, fk.columns) = Project(ref[1].old, fk.parentColumns)
           /\ ChildEntry(item, ref).row = ref[3]
           /\ ChildEntry(item, ref).old = work[fk.child][ref[3]].vals
           /\ ReferentialAction(item, fk) = "setNull" =>
                  ChildEntry(item, ref).new = WithNullKey(work[fk.child][ref[3]].vals, fk)
           /\ ReferentialAction(item, fk) # "setNull" /\ item.kind = "update" =>
                  ChildEntry(item, ref).new =
                      WithParentKey(work[fk.child][ref[3]].vals, fk, ref[1].new)
<1> DEFINE fk == schema.fks[ref[2]]
<1>1. /\ ref[1] \in item.rows /\ ref[2] \in active
      /\ IsImpacted(item, ref[1], fk, ref[3])
    BY DEF Impacted
<1>2. /\ fk.parent = item.table
      /\ ref[3] \in Alive(work, fk.child)
      /\ Project(work[fk.child][ref[3]].vals, fk.columns) = Project(ref[1].old, fk.parentColumns)
    BY <1>1 DEF IsImpacted
<1>3. fk.child \in Tables
    BY <1>1, KeyColumnsType DEF IInv
<1>4. ref[2] \in DOMAIN schema.fks /\ ref[1] \in Entry
    BY <1>1 DEF IInv, TypeOK, WorkItem
<1>5. work \in Database
    BY DEF IInv, TypeOK
<1>6. ref[3] \in DOMAIN work[fk.child] /\ work[fk.child][ref[3]].vals \in Row
    BY <1>2, <1>3, <1>5, SlotType
<1>7. ref[3] \in Alive(db, fk.child) /\ ref[3] \in DOMAIN db[fk.child]
    BY <1>2, <1>3, <1>6 DEF StatementInv
<1>8. /\ ChildEntry(item, ref).row = ref[3]
      /\ ChildEntry(item, ref).old = work[fk.child][ref[3]].vals
      /\ ReferentialAction(item, fk) = "setNull" =>
             ChildEntry(item, ref).new = WithNullKey(work[fk.child][ref[3]].vals, fk)
      /\ ReferentialAction(item, fk) # "setNull" /\ item.kind = "update" =>
             ChildEntry(item, ref).new =
                 WithParentKey(work[fk.child][ref[3]].vals, fk, ref[1].new)
    BY DEF ChildEntry
<1> HIDE DEF fk
<1> QED BY <1>1, <1>2, <1>3, <1>4, <1>6, <1>7, <1>8 DEF fk

\* The row a queued or pending mutation is about has slots in both snapshots.
LEMMA ResolvedRow ==
    ASSUME IInv, StatementInv, NEW t \in Tables, NEW r \in Alive(db, t)
    PROVE  /\ r \in DOMAIN db[t] /\ r \in DOMAIN work[t]
           /\ db[t][r].vals \in schema.allowed[t] /\ work[t][r].vals \in schema.allowed[t]
           /\ r \notin Alive(work, t) => ~ work[t][r].alive
<1>1. r \in DOMAIN db[t] /\ r \in DOMAIN work[t]
    BY DEF Alive, StatementInv
<1>2. TablesConsistent(schema, db) /\ TablesConsistent(schema, work)
    BY DEF IInv, CommittedConstraintsHold, ConstraintsHold, WorkingTablesConsistent
<1>3. db[t][r].vals \in schema.allowed[t] /\ work[t][r].vals \in schema.allowed[t]
    BY <1>1, <1>2 DEF TablesConsistent
<1>4. r \notin Alive(work, t) => ~ work[t][r].alive
    BY <1>1 DEF Alive
<1> QED BY <1>1, <1>3, <1>4

\* In a DELETE the row an item leads to referenced the item's row before the statement,
\* if rows are deleted along the key at all.
LEMMA ImpactIsReference ==
    ASSUME IInv, StatementInv, KeysStay, CascadesAreIndependent(schema),
           NEW item \in WorkItem, ItemIsResolved(item), NEW ref \in Impacted(item),
           schema.fks[ref[2]].onDelete = "cascade"
    PROVE  Referenced(schema.fks[ref[2]], ref[3], ref[1].row)
<1> DEFINE f == ref[2]
           fk == schema.fks[f]
           r  == ref[3]
           e  == ref[1]
<1>1. /\ e \in item.rows /\ f \in active /\ fk.parent = item.table /\ fk.child \in Tables
      /\ r \in Alive(db, fk.child) /\ r \in DOMAIN db[fk.child]
      /\ Project(work[fk.child][r].vals, fk.columns) = Project(e.old, fk.parentColumns)
    BY ImpactedRow
<1>2. e.row \in Alive(db, fk.parent) /\ SameCascades(fk.parent, e.old, db[fk.parent][e.row].vals)
    BY <1>1 DEF ItemIsResolved, Resolved
<1>3. Project(e.old, fk.parentColumns) = Project(db[fk.parent][e.row].vals, fk.parentColumns)
    BY <1>1, <1>2 DEF SameCascades, SameKeys
<1>4. Project(work[fk.child][r].vals, fk.columns) = Project(db[fk.child][r].vals, fk.columns)
    BY <1>1 DEF KeysStay, SameCascades
<1>5. fk.parent \in Tables
    BY <1>1, KeyColumnsType DEF IInv
<1>6. db[fk.parent][e.row].vals \in schema.allowed[fk.parent]
    BY <1>2, <1>5, ResolvedRow
<1>7. ~ HasNull(Project(db[fk.parent][e.row].vals, fk.parentColumns))
    BY <1>1, <1>6, ParentKeysHaveNoNull DEF IInv, CascadesAreIndependent
<1>8. Project(db[fk.child][r].vals, fk.columns) = Project(db[fk.parent][e.row].vals, fk.parentColumns)
    BY <1>1, <1>3, <1>4
<1> HIDE DEF fk, r, e
<1>9. Referenced(fk, r, e.row)
    BY <1>1, <1>2, <1>7, <1>8 DEF Referenced
<1> QED BY <1>9 DEF fk, r, e, f

\* What a work item resolves to keeps the keys.
LEMMA ResolvingKeepsKeys ==
    ASSUME IInv, StatementInv, KeysStay, CascadesAreIndependent(schema),
           NEW item \in WorkItem, ItemIsResolved(item), NEW t \in Tables
    PROVE  /\ \A e \in ChildDeletes(item, t) : Resolved(t, e)
           /\ \A e \in ChildUpdates(item, t) :
                  /\ Resolved(t, e)
                  /\ SetNullable(t)
                  /\ e.new \in schema.allowed[t] => SameCascades(t, e.new, db[t][e.row].vals)
<1>1. ASSUME NEW ref \in Impacted(item), schema.fks[ref[2]].child = t
      PROVE  Resolved(t, ChildEntry(item, ref))
    <2>1. /\ ChildEntry(item, ref).row = ref[3]
          /\ ChildEntry(item, ref).old = work[t][ref[3]].vals
          /\ ref[3] \in Alive(db, t) /\ ref[3] \in DOMAIN db[t]
        BY <1>1, ImpactedRow
    <2> QED BY <2>1 DEF Resolved, KeysStay
<1>2. ASSUME NEW e \in ChildDeletes(item, t) PROVE Resolved(t, e)
    BY <1>1, <1>2 DEF ChildDeletes
<1>3. ASSUME NEW e \in ChildUpdates(item, t)
      PROVE  /\ Resolved(t, e)
             /\ SetNullable(t)
             /\ e.new \in schema.allowed[t] => SameCascades(t, e.new, db[t][e.row].vals)
    <2>1. PICK ref \in Impacted(item) :
              /\ schema.fks[ref[2]].child = t
              /\ \/ ReferentialAction(item, schema.fks[ref[2]]) = "setNull"
                 \/ /\ ReferentialAction(item, schema.fks[ref[2]]) = "cascade"
                    /\ item.kind = "update"
              /\ e = ChildEntry(item, ref)
              /\ e.new # e.old
        BY <1>3 DEF ChildUpdates
    <2> DEFINE f   == ref[2]
               fk  == schema.fks[f]
               row == work[t][ref[3]].vals
    <2>2. /\ f \in active /\ f \in DOMAIN schema.fks /\ ref[1] \in item.rows
          /\ fk.parent = item.table /\ item.table \in Tables /\ row \in Row
          /\ Project(row, fk.columns) = Project(ref[1].old, fk.parentColumns)
          /\ e.row = ref[3] /\ e.old = row
          /\ ReferentialAction(item, fk) = "setNull" => e.new = WithNullKey(row, fk)
          /\ ReferentialAction(item, fk) # "setNull" /\ item.kind = "update" =>
                 e.new = WithParentKey(row, fk, ref[1].new)
        BY <2>1, ImpactedRow DEF WorkItem
    <2>3. Resolved(t, e)
        BY <1>1, <2>1
    <2>4. ReferentialAction(item, fk) = "setNull"
        <3> SUFFICES ASSUME ReferentialAction(item, fk) = "cascade", item.kind = "update"
                     PROVE  FALSE
            BY <2>1
        <3>1. e.new = WithParentKey(row, fk, ref[1].new)
            BY <2>2
        <3>2. /\ SameCascades(item.table, ref[1].old, db[item.table][ref[1].row].vals)
              /\ SameCascades(item.table, ref[1].new, db[item.table][ref[1].row].vals)
            BY <2>2 DEF ItemIsResolved, Resolved
        <3>3. Project(ref[1].new, fk.parentColumns) = Project(ref[1].old, fk.parentColumns)
            BY <2>2, <3>2 DEF SameCascades, SameKeys
        <3>4. WithParentKey(row, fk, ref[1].new) = row
            BY <2>2, <3>3, SameParentKeySameRow DEF IInv
        <3> QED BY <2>1, <2>2, <3>1, <3>4
    <2>5. fk.onDelete = "setNull"
        <3>1. CASE item.kind = "delete"
            BY <2>4, <3>1 DEF ReferentialAction
        <3>2. CASE item.kind # "delete"
            <4>1. fk.onUpdate = "setNull" /\ item.kind = "update"
                BY <2>4, <3>2 DEF ReferentialAction, WorkItem
            <4>2. PICK g \in active : /\ schema.fks[g].child = item.table
                                      /\ schema.fks[g].onDelete = "setNull"
                BY <2>2, <4>1 DEF ItemIsResolved, SetNullable
            <4>3. g \in DOMAIN schema.fks
                BY DEF IInv, TypeOK
            <4> QED BY <2>2, <4>1, <4>2, <4>3 DEF CascadesAreIndependent, LateUpdatesAreHarmless
        <3> QED BY <3>1, <3>2
    <2>6. SetNullable(t)
        BY <2>1, <2>2, <2>5 DEF SetNullable
    <2>7. ASSUME e.new \in schema.allowed[t] PROVE SameCascades(t, e.new, db[t][e.row].vals)
        <3>1. SameCascades(t, e.new, e.old)
            BY <2>1, <2>2, <2>4, <2>5, <2>7, NullingKeepsKeys DEF IInv
        <3> QED BY <2>3, <3>1, SameCascadesIsEquality DEF Resolved
    <2> QED BY <2>3, <2>6, <2>7
<1> QED BY <1>2, <1>3

\* The queue of a propagation step, item by item.
LEMMA ResolvedQueue ==
    ASSUME IInv, ResolveItem
    PROVE  /\ Head(queue) \in WorkItem /\ IsFiniteSet(Head(queue).rows)
           /\ 1 \in DOMAIN queue /\ Head(queue) = queue[1]
           /\ queue' \in Seq(WorkItem)
           /\ \A i \in DOMAIN queue' : i + 1 \in DOMAIN queue /\ queue'[i] = queue[i + 1]
           /\ \A i \in DOMAIN queue : i # 1 => i - 1 \in DOMAIN queue' /\ queue'[i - 1] = queue[i]
<1>1. queue # <<>> /\ queue' = Tail(queue)
    BY DEF ResolveItem
<1>2. queue \in Seq(WorkItem) /\ Len(queue) \in Nat /\ DOMAIN queue = 1 .. Len(queue) /\ Len(queue) > 0
    BY <1>1, EmptySeq, LenProperties DEF IInv, TypeOK
<1>3. Head(queue) \in WorkItem /\ Head(queue) = queue[1] /\ 1 \in DOMAIN queue
    BY <1>1, <1>2
<1>4. IsFiniteSet(Head(queue).rows)
    BY <1>3 DEF IInv, FiniteWork
<1>5. /\ queue' \in Seq(WorkItem) /\ Len(queue') = Len(queue) - 1
      /\ \A i \in 1 .. Len(queue') : queue'[i] = queue[i + 1]
    BY <1>1, <1>2, HeadTailProperties
<1>6. DOMAIN queue' = 1 .. Len(queue')
    BY <1>5, LenProperties
<1>7. \A i \in 1 .. Len(queue') : i + 1 \in DOMAIN queue
    BY <1>2, <1>5
<1>8. \A i \in DOMAIN queue : i # 1 => i - 1 \in 1 .. Len(queue') /\ (i - 1) + 1 = i
    BY <1>2, <1>5
<1>9. \A i \in DOMAIN queue : i # 1 => i - 1 \in DOMAIN queue' /\ queue'[i - 1] = queue[i]
    BY <1>5, <1>6, <1>8
<1> QED BY <1>3, <1>4, <1>5, <1>6, <1>7, <1>9

LEMMA QueuedTables ==
    TypeOK => \A i \in DOMAIN queue : queue[i] \in WorkItem /\ queue[i].table \in Tables
<1> SUFFICES ASSUME TypeOK, NEW i \in DOMAIN queue
             PROVE  queue[i] \in WorkItem /\ queue[i].table \in Tables
    OBVIOUS
<1>1. queue \in Seq(WorkItem)
    BY DEF TypeOK
<1>2. queue[i] \in WorkItem
    BY <1>1, LenProperties, ElementOfSeq
<1> QED BY <1>2 DEF WorkItem

LEMMA AppendedQueue ==
    ASSUME IInv, NEW item \in WorkItem, queue' = Append(queue, item)
    PROVE  /\ \A i \in DOMAIN queue' : queue'[i] = item \/ \E j \in DOMAIN queue : queue'[i] = queue[j]
           /\ \A i \in DOMAIN queue : i \in DOMAIN queue' /\ queue'[i] = queue[i]
           /\ \E i \in DOMAIN queue' : queue'[i] = item
<1>1. queue \in Seq(WorkItem) /\ Len(queue) \in Nat /\ DOMAIN queue = 1 .. Len(queue)
    BY LenProperties DEF IInv, TypeOK
<1>2. DOMAIN queue' = 1 .. Len(queue) + 1
    BY <1>1, LenProperties
<1>3. \A i \in 1 .. Len(queue) + 1 : queue'[i] = IF i <= Len(queue) THEN queue[i] ELSE item
    BY <1>1
<1>4. Len(queue) + 1 \in DOMAIN queue' /\ queue'[Len(queue) + 1] = item
    BY <1>1, <1>2, <1>3
<1> QED BY <1>1, <1>2, <1>3, <1>4

LEMMA RemoveRowsElsewhere ==
    ASSUME NEW d \in Database, NEW t \in Tables, NEW rows, NEW u \in Tables, u # t
    PROVE  RemoveRows(d, t, rows)[u] = d[u]
BY DEF RemoveRows, Database

\* The first step of a DELETE.
LEMMA BeginDeleteKeepsClosure ==
    ASSUME IInv, StatementInv, NEW t \in Tables, NEW rows \in SUBSET Alive(db, t),
           BeginDelete(t, rows)
    PROVE  ClosureInv'
<1> DEFINE entry(r) == [pos |-> r, row |-> r, old |-> db[t][r].vals, new |-> db[t][r].vals]
           entries == {entry(r) : r \in rows}
           item    == [kind |-> "delete", table |-> t, rows |-> entries]
<1>1. /\ Idle
      /\ work' = RemoveRows(db, t, rows)
      /\ queue' = <<item>>
      /\ stmt' = [kind |-> "delete", table |-> t, rows |-> rows]
      /\ UNCHANGED <<schema, active, db, deletes, updates>>
    BY DEF BeginDelete
<1>2. db \in Database
    BY DEF IInv, TypeOK
<1>3. /\ \A u \in Tables : /\ DOMAIN work'[u] = DOMAIN db[u]
                           /\ \A r \in DOMAIN db[u] : work'[u][r].vals = db[u][r].vals
      /\ Alive(work', t) = Alive(db, t) \ rows
      /\ \A u \in Tables : u # t => work'[u] = db[u]
    BY <1>1, <1>2, RemoveRowsEffect, RemoveRowsElsewhere
<1>4. \A u \in Tables : u # t => Alive(work', u) = Alive(db, u)
    BY <1>3 DEF Alive
<1>5. \A u \in Tables : deletes'[u] = {} /\ updates'[u] = {}
    BY <1>1 DEF StatementInv, NoPending, NothingPending
<1>6. \A u, v : SameCascades(u, v, v)'
    BY DEF SameCascades, SameKeys
<1>7. KeysStay'
    BY <1>1, <1>3, <1>6 DEF KeysStay
<1>8. \A e \in entries : e.row \in rows /\ e.old = db[t][e.row].vals
    OBVIOUS
<1>9. \A r \in rows : entry(r) \in entries /\ entry(r).row = r
    OBVIOUS
<1>0. item.kind = "delete" /\ item.table = t /\ item.rows = entries
    OBVIOUS
<1> HIDE DEF entries, item, entry
<1>10. PICK x : x = item /\ x.kind = "delete" /\ x.table = t /\ x.rows = entries
    BY <1>0
<1>11. DOMAIN queue' = {1} /\ queue'[1] = x
    BY <1>1, <1>10
<1>12. ItemIsResolved(x)'
    <2> SUFFICES ASSUME NEW e \in x.rows
                 PROVE  Resolved(t, e)' /\ e.row \notin Alive(work', t)
        BY <1>10 DEF ItemIsResolved
    <2>1. e.row \in rows /\ e.old = db[t][e.row].vals
        BY <1>8, <1>10
    <2> QED BY <1>1, <1>3, <1>6, <2>1 DEF Resolved
<1>13. QueueIsResolved'
    BY <1>11, <1>12 DEF QueueIsResolved
<1>14. PendingIsResolved'
    BY <1>5 DEF PendingIsResolved
<1>15. \A u \in Tables : \A r : IsTaken(u, r)' => u = t /\ r \in rows
    BY <1>1, <1>3, <1>4, <1>5 DEF IsTaken, RowsIn
<1>16. NoneTooMany'
    BY <1>1, <1>15 DEF NoneTooMany
<1>17. \A r \in rows : DeleteQueued(t, r)'
    BY <1>9, <1>10, <1>11 DEF DeleteQueued, RowsIn
<1>18. \A f \in active : schema.fks[f].parent \in Tables
    BY KeyColumnsType DEF IInv
<1>19. \A u \in Tables : \A p : p \in Alive(db, u) /\ p \notin Alive(work', u) => DeleteQueued(u, p)'
    BY <1>3, <1>4, <1>17
<1>20. NoneForgotten'
    BY <1>1, <1>18, <1>19 DEF NoneForgotten
<1> QED BY <1>7, <1>13, <1>14, <1>16, <1>20 DEF ClosureInv

\* The rows deleted along a cascade are the children of the rows of the item.
LEMMA ResolveItemKeepsClosure ==
    ASSUME IInv, StatementInv, CascadesAreIndependent(schema), stmt.kind = "delete",
           KeysStay, QueueIsResolved, PendingIsResolved, NoneTooMany, NoneForgotten, ResolveItem
    PROVE  ClosureInv'
<1> DEFINE item == Head(queue)
<1>1. /\ NoPending
      /\ deletes' = [t \in Tables |-> ChildDeletes(item, t)]
      /\ updates' = [t \in Tables |-> ChildUpdates(item, t)]
      /\ UNCHANGED <<schema, active, db, work, stmt>>
    BY DEF ResolveItem
<1>2. /\ item \in WorkItem /\ 1 \in DOMAIN queue /\ item = queue[1]
      /\ \A i \in DOMAIN queue' : i + 1 \in DOMAIN queue /\ queue'[i] = queue[i + 1]
      /\ \A i \in DOMAIN queue : i # 1 => i - 1 \in DOMAIN queue' /\ queue'[i - 1] = queue[i]
    BY ResolvedQueue
<1> HIDE DEF item
<1>3. ItemIsResolved(item)
    BY <1>2 DEF QueueIsResolved
<1>4. \A t \in Tables : deletes[t] = {} /\ updates[t] = {}
    BY <1>1 DEF NoPending, NothingPending
<1>5. KeysStay'
    BY <1>1 DEF KeysStay, SameCascades, SameKeys
<1>6. \A x : ItemIsResolved(x) => ItemIsResolved(x)'
    BY <1>1 DEF ItemIsResolved, Resolved, SetNullable, SameCascades, SameKeys
<1>7. QueueIsResolved'
    BY <1>2, <1>6 DEF QueueIsResolved
<1>8. \A t, e : /\ Resolved(t, e)' <=> Resolved(t, e)
                /\ SetNullable(t)' <=> SetNullable(t)
    BY <1>1 DEF Resolved, SetNullable, SameCascades, SameKeys
<1>9. \A t, u, e : SameCascades(t, u, db[t][e.row].vals)' <=> SameCascades(t, u, db[t][e.row].vals)
    BY <1>1 DEF SameCascades, SameKeys
<1>10. PendingIsResolved'
    BY <1>1, <1>3, <1>2, <1>8, <1>9, ResolvingKeepsKeys DEF PendingIsResolved
<1>11. ASSUME NEW t \in Tables, NEW r \in RowsIn(deletes'[t])
       PROVE  \E f \in active : \E p \in Alive(db, schema.fks[f].parent) :
                  /\ schema.fks[f].child = t /\ schema.fks[f].onDelete = "cascade"
                  /\ schema.fks[f].parent \in Tables
                  /\ r \in Alive(db, t)
                  /\ p \notin Alive(work, schema.fks[f].parent)
                  /\ Referenced(schema.fks[f], r, p)
    <2>1. PICK e \in ChildDeletes(item, t) : e.row = r
        BY <1>1, <1>11 DEF RowsIn
    <2>2. PICK ref \in Impacted(item) : /\ schema.fks[ref[2]].child = t
                                        /\ item.kind = "delete"
                                        /\ schema.fks[ref[2]].onDelete = "cascade"
                                        /\ e = ChildEntry(item, ref)
        BY <2>1 DEF ChildDeletes
    <2>3. /\ ref[2] \in active /\ ref[1] \in item.rows /\ schema.fks[ref[2]].parent = item.table
          /\ ref[3] \in Alive(db, t) /\ ref[3] = r
        BY <1>2, <2>1, <2>2, ImpactedRow
    <2>4. Referenced(schema.fks[ref[2]], r, ref[1].row)
        BY <1>2, <1>3, <2>2, <2>3, ImpactIsReference
    <2>5. ref[1].row \in Alive(db, item.table) /\ ref[1].row \notin Alive(work, item.table)
        BY <1>3, <2>2, <2>3 DEF ItemIsResolved, Resolved
    <2>6. item.table \in Tables
        BY <1>2 DEF WorkItem
    <2> QED BY <2>2, <2>3, <2>4, <2>5, <2>6
<1>12. \A fk, r, p : Referenced(fk, r, p)' <=> Referenced(fk, r, p)
    BY <1>1 DEF Referenced, Alive
<1>13. \A u : Alive(db, u)' = Alive(db, u) /\ Alive(work, u)' = Alive(work, u)
    BY <1>1 DEF Alive
<1>14. \A rows : IsClosed(rows)' <=> IsClosed(rows)
    BY <1>1, <1>12, <1>13 DEF IsClosed
<1>15. NoneTooMany'
    <2> SUFFICES ASSUME NEW rows \in SUBSET Rows(db),
                        {stmt.table} \X stmt.rows \subseteq rows, IsClosed(rows),
                        NEW t \in Tables, NEW r, IsTaken(t, r)'
                 PROVE  <<t, r>> \in rows
        BY <1>1, <1>13, <1>14 DEF NoneTooMany, Rows
    <2>1. \A u \in Tables : \A q : q \in Alive(db, u) /\ q \notin Alive(work, u) => <<u, q>> \in rows
        BY DEF NoneTooMany, IsTaken
    <2>2. CASE r \in RowsIn(deletes'[t])
        <3>1. PICK f \in active : \E p \in Alive(db, schema.fks[f].parent) :
                  /\ schema.fks[f].child = t /\ schema.fks[f].onDelete = "cascade"
                  /\ schema.fks[f].parent \in Tables
                  /\ r \in Alive(db, t)
                  /\ p \notin Alive(work, schema.fks[f].parent)
                  /\ Referenced(schema.fks[f], r, p)
            BY <1>11, <2>2
        <3>2. PICK p \in Alive(db, schema.fks[f].parent) :
                  /\ schema.fks[f].child = t /\ schema.fks[f].onDelete = "cascade"
                  /\ schema.fks[f].parent \in Tables
                  /\ r \in Alive(db, t)
                  /\ p \notin Alive(work, schema.fks[f].parent)
                  /\ Referenced(schema.fks[f], r, p)
            BY <3>1
        <3>3. <<schema.fks[f].parent, p>> \in rows
            BY <2>1, <3>2
        <3> QED BY <3>2, <3>3 DEF IsClosed
    <2>3. CASE r \notin RowsIn(deletes'[t])
        BY <1>1, <2>1, <2>3 DEF IsTaken, Alive
    <2> QED BY <2>2, <2>3
<1>16. ASSUME NEW f \in active, schema.fks[f].onDelete = "cascade",
              NEW r \in Alive(db, schema.fks[f].child), NEW p \in Alive(db, schema.fks[f].parent),
              Referenced(schema.fks[f], r, p), p \notin Alive(work, schema.fks[f].parent)
       PROVE  IsTaken(schema.fks[f].child, r)' \/ DeleteQueued(schema.fks[f].parent, p)'
    <2> DEFINE fk == schema.fks[f]
    <2>1. fk.child \in Tables /\ fk.parent \in Tables
        BY KeyColumnsType DEF IInv
    <2>2. CASE r \notin Alive(work, fk.child)
        BY <1>1, <2>2 DEF IsTaken, Alive
    <2>3. CASE r \in Alive(work, fk.child)
        <3>1. DeleteQueued(fk.parent, p)
            BY <1>4, <1>16, <2>1, <2>3 DEF NoneForgotten, IsTaken, RowsIn
        <3>2. PICK i \in DOMAIN queue :
                  queue[i].kind = "delete" /\ queue[i].table = fk.parent /\ p \in RowsIn(queue[i].rows)
            BY <3>1 DEF DeleteQueued
        <3>3. CASE i # 1
            <4>1. i - 1 \in DOMAIN queue' /\ queue'[i - 1] = queue[i]
                BY <1>2, <3>3
            <4>2. DeleteQueued(fk.parent, p)'
                BY <1>1, <3>2, <4>1 DEF DeleteQueued
            <4> QED BY <4>2
        <3>4. CASE i = 1
            <4>1. item.kind = "delete" /\ item.table = fk.parent
                BY <1>2, <3>2, <3>4
            <4>2. PICK e \in item.rows : e.row = p
                BY <1>2, <3>2, <3>4 DEF RowsIn
            <4>3. r \in DOMAIN db[fk.child] /\ r \in DOMAIN work[fk.child]
                BY <2>1, ResolvedRow
            <4>4. Project(work[fk.child][r].vals, fk.columns) = Project(e.old, fk.parentColumns)
                <5>1. Project(work[fk.child][r].vals, fk.columns) = Project(db[fk.child][r].vals, fk.columns)
                    BY <1>16, <2>1, <4>3 DEF KeysStay, SameCascades
                <5>2. Project(e.old, fk.parentColumns) = Project(db[fk.parent][p].vals, fk.parentColumns)
                    BY <1>3, <4>1, <4>2 DEF ItemIsResolved, Resolved, SameCascades, SameKeys
                <5>3. Project(db[fk.parent][p].vals, fk.parentColumns)
                          = Project(db[fk.child][r].vals, fk.columns)
                    BY <1>16 DEF Referenced
                <5> QED BY <5>1, <5>2, <5>3
            <4>5. ~ work[fk.parent][p].alive
                BY <1>16, <2>1, ResolvedRow
            <4>6. IsImpacted(item, e, fk, r)
                BY <2>3, <4>1, <4>2, <4>4, <4>5 DEF IsImpacted
            <4>7. r \in UNION {DOMAIN work[t] : t \in Tables}
                BY <2>1, <4>3
            <4> DEFINE ref == <<e, f, r>>
            <4>8. ref \in Impacted(item)
                BY <4>6, <4>7 DEF Impacted
            <4>9. ref[2] = f /\ ref[3] = r
                OBVIOUS
            <4> HIDE DEF ref
            <4>10. ChildEntry(item, ref).row = r
                BY <1>2, <4>8, <4>9, ImpactedRow
            <4>11. ChildEntry(item, ref) \in ChildDeletes(item, fk.child)
                BY <1>16, <4>1, <4>8, <4>9 DEF ChildDeletes
            <4>12. r \in RowsIn(deletes'[fk.child])
                BY <1>1, <2>1, <4>10, <4>11 DEF RowsIn
            <4> QED BY <1>1, <4>12 DEF IsTaken, Alive
        <3> QED BY <3>3, <3>4
    <2> QED BY <2>2, <2>3
<1>17. NoneForgotten'
    BY <1>1, <1>16, <1>12, <1>13 DEF NoneForgotten
<1> QED BY <1>5, <1>7, <1>10, <1>15, <1>17 DEF ClosureInv

\* The resolved deletes of one table take their rows away and queue them as parents.
LEMMA ApplyResolvedDeletesKeepsClosure ==
    ASSUME IInv, StatementInv, stmt.kind = "delete", NEW t \in Tables, ApplyResolvedDeletes(t),
           KeysStay, QueueIsResolved, PendingIsResolved, NoneTooMany, NoneForgotten
    PROVE  ClosureInv'
<1> DEFINE item == [kind |-> "delete", table |-> t, rows |-> deletes[t]]
           gone == RowsIn(deletes[t])
<1>1. /\ work' = RemoveRows(work, t, gone)
      /\ queue' = Append(queue, item)
      /\ deletes' = [deletes EXCEPT ![t] = {}]
      /\ UNCHANGED <<schema, active, db, updates, stmt>>
    BY DEF ApplyResolvedDeletes, RowsIn
<1>2. item \in WorkItem /\ work \in Database
    BY DEF WorkItem, IInv, TypeOK, Pending
<1>0. item.kind = "delete" /\ item.table = t /\ item.rows = deletes[t]
    OBVIOUS
<1> HIDE DEF item
<1>3. PICK x : x = item /\ x.kind = "delete" /\ x.table = t /\ x.rows = deletes[t]
    BY <1>0
<1>4. /\ \A i \in DOMAIN queue' : queue'[i] = x \/ \E j \in DOMAIN queue : queue'[i] = queue[j]
      /\ \A i \in DOMAIN queue : i \in DOMAIN queue' /\ queue'[i] = queue[i]
      /\ \E i \in DOMAIN queue' : queue'[i] = x
    BY <1>1, <1>2, <1>3, AppendedQueue
<1>5. /\ \A u \in Tables : /\ DOMAIN work'[u] = DOMAIN work[u]
                           /\ \A r \in DOMAIN work[u] : work'[u][r].vals = work[u][r].vals
                           /\ Alive(work', u) \subseteq Alive(work, u)
      /\ Alive(work', t) = Alive(work, t) \ gone
      /\ \A u \in Tables : u # t => work'[u] = work[u]
    BY <1>1, <1>2, RemoveRowsEffect, RemoveRowsElsewhere
<1>6. \A u \in Tables : u # t => Alive(work', u) = Alive(work, u)
    BY <1>5 DEF Alive
<1>7. /\ deletes'[t] = {}
      /\ \A u \in Tables : u # t => deletes'[u] = deletes[u]
    BY <1>1 DEF IInv, TypeOK, Pending
<1>8. \A u, v, w : SameCascades(u, v, w)' <=> SameCascades(u, v, w)
    BY <1>1 DEF SameCascades, SameKeys
<1>9. \A u, e : Resolved(u, e)' <=> Resolved(u, e)
    BY <1>1 DEF Resolved, SameCascades, SameKeys
<1>10. \A u : SetNullable(u)' <=> SetNullable(u)
    BY <1>1 DEF SetNullable
<1>11. \A u, v, e : SameCascades(u, v, db[u][e.row].vals)' <=> SameCascades(u, v, db[u][e.row].vals)
    BY <1>1 DEF SameCascades, SameKeys
<1>12. KeysStay'
    <2> SUFFICES ASSUME NEW u \in Tables, NEW r \in DOMAIN db[u]
                 PROVE  SameCascades(u, work[u][r].vals, db[u][r].vals)'
        BY <1>1 DEF KeysStay
    <2>1. r \in DOMAIN work[u] /\ work'[u][r].vals = work[u][r].vals
        BY <1>5 DEF StatementInv
    <2>2. SameCascades(u, work[u][r].vals, db[u][r].vals)
        BY DEF KeysStay
    <2> QED BY <1>1, <2>1, <2>2 DEF SameCascades, SameKeys
<1>14. ASSUME NEW y, ItemIsResolved(y), y.table \in Tables PROVE ItemIsResolved(y)'
    BY <1>5, <1>9, <1>10, <1>11, <1>14 DEF ItemIsResolved
<1>15. ItemIsResolved(x)'
    <2> SUFFICES ASSUME NEW e \in x.rows
                 PROVE  Resolved(t, e)' /\ e.row \notin Alive(work', t)
        BY <1>3 DEF ItemIsResolved
    <2>1. Resolved(t, e) /\ e.row \in gone
        BY <1>3 DEF PendingIsResolved, RowsIn
    <2> QED BY <1>5, <1>9, <2>1
<1>16. \A i \in DOMAIN queue : queue[i].table \in Tables
    BY QueuedTables DEF IInv
<1>17. QueueIsResolved'
    BY <1>4, <1>14, <1>15, <1>16 DEF QueueIsResolved
<1>18. PendingIsResolved'
    BY <1>1, <1>7, <1>9, <1>10, <1>11 DEF PendingIsResolved
<1>19. \A u \in Tables : \A r : IsTaken(u, r)' <=> IsTaken(u, r)
    BY <1>1, <1>5, <1>6, <1>7 DEF IsTaken, RowsIn, Alive
<1>20. \A u : Alive(db, u)' = Alive(db, u)
    BY <1>1 DEF Alive
<1>21. \A fk, r, p : Referenced(fk, r, p)' <=> Referenced(fk, r, p)
    BY <1>1 DEF Referenced, Alive
<1>22. \A rows : IsClosed(rows)' <=> IsClosed(rows)
    BY <1>1, <1>20, <1>21 DEF IsClosed
<1>23. NoneTooMany'
    BY <1>1, <1>19, <1>20, <1>22 DEF NoneTooMany, Rows
<1>24. \A u, r : DeleteQueued(u, r) => DeleteQueued(u, r)'
    BY <1>4 DEF DeleteQueued
<1>25. \A r \in gone : DeleteQueued(t, r)'
    BY <1>3, <1>4 DEF DeleteQueued
<1>26. \A f \in active : schema.fks[f].child \in Tables /\ schema.fks[f].parent \in Tables
    BY KeyColumnsType DEF IInv
<1>27. \A u \in Tables : \A p : p \notin Alive(work', u) =>
           p \notin Alive(work, u) \/ DeleteQueued(u, p)'
    BY <1>5, <1>6, <1>25
<1>28. NoneForgotten'
    BY <1>1, <1>19, <1>20, <1>21, <1>24, <1>26, <1>27 DEF NoneForgotten
<1> QED BY <1>12, <1>17, <1>18, <1>23, <1>28 DEF ClosureInv

\* The resolved updates of one table leave every key as it was.
LEMMA ApplyResolvedUpdatesKeepsClosure ==
    ASSUME IInv, StatementInv, stmt.kind = "delete", NEW t \in Tables, ApplyResolvedUpdates(t),
           KeysStay, QueueIsResolved, PendingIsResolved, NoneTooMany, NoneForgotten
    PROVE  ClosureInv'
<1> DEFINE item == [kind |-> "update", table |-> t, rows |-> updates[t]]
<1>1. /\ UpdateAccepted(work, t, updates[t])
      /\ work' = OverwriteRows(work, t, updates[t])
      /\ queue' = Append(queue, item)
      /\ updates' = [updates EXCEPT ![t] = {}]
      /\ UNCHANGED <<schema, active, db, deletes, stmt>>
    BY DEF ApplyResolvedUpdates
<1>2. item \in WorkItem /\ work \in Database /\ updates[t] \in SUBSET Entry
    BY DEF WorkItem, IInv, TypeOK, Pending
<1>0. item.kind = "update" /\ item.table = t /\ item.rows = updates[t]
    OBVIOUS
<1> HIDE DEF item
<1>3. PICK x : x = item /\ x.kind = "update" /\ x.table = t /\ x.rows = updates[t]
    BY <1>0
<1>4. /\ \A i \in DOMAIN queue' : queue'[i] = x \/ \E j \in DOMAIN queue : queue'[i] = queue[j]
      /\ \A i \in DOMAIN queue : i \in DOMAIN queue' /\ queue'[i] = queue[i]
    BY <1>1, <1>2, <1>3, AppendedQueue
<1>5. /\ \A u \in Tables : /\ DOMAIN work'[u] = DOMAIN work[u]
                           /\ Alive(work', u) = Alive(work, u)
                           /\ u # t => work'[u] = work[u]
      /\ \A r \in DOMAIN work[t] :
             \/ work'[t][r].vals = work[t][r].vals
             \/ \E e \in updates[t] : e.row = r /\ work'[t][r].vals = e.new
    BY <1>1, <1>2, OverwriteRowsEffect
<1>6. \A e \in updates[t] : e.new \in schema.allowed[t]
    BY <1>1 DEF UpdateAccepted
<1>7. /\ updates'[t] = {}
      /\ \A u \in Tables : u # t => updates'[u] = updates[u]
    BY <1>1 DEF IInv, TypeOK, Pending
<1>8. \A e \in updates[t] : SameCascades(t, e.new, db[t][e.row].vals)
    BY <1>6 DEF PendingIsResolved
<1>9. \A u, e : Resolved(u, e)' <=> Resolved(u, e)
    BY <1>1 DEF Resolved, SameCascades, SameKeys
<1>10. \A u : SetNullable(u)' <=> SetNullable(u)
    BY <1>1 DEF SetNullable
<1>11. \A u, v, e : SameCascades(u, v, db[u][e.row].vals)' <=> SameCascades(u, v, db[u][e.row].vals)
    BY <1>1 DEF SameCascades, SameKeys
<1>12. KeysStay'
    <2> SUFFICES ASSUME NEW u \in Tables, NEW r \in DOMAIN db[u]
                 PROVE  SameCascades(u, work[u][r].vals, db[u][r].vals)'
        BY <1>1 DEF KeysStay
    <2>1. r \in DOMAIN work[u]
        BY DEF StatementInv
    <2>2. SameCascades(u, work'[u][r].vals, db[u][r].vals)
        BY <1>5, <1>8, <2>1 DEF KeysStay
    <2> QED BY <1>1, <2>2 DEF SameCascades, SameKeys
<1>13. ASSUME NEW y, ItemIsResolved(y), y.table \in Tables PROVE ItemIsResolved(y)'
    BY <1>5, <1>9, <1>10, <1>11, <1>13 DEF ItemIsResolved
<1>14. ItemIsResolved(x)'
    <2> SUFFICES ASSUME NEW e \in x.rows
                 PROVE  /\ Resolved(t, e)' /\ SetNullable(t)'
                        /\ SameCascades(t, e.new, db[t][e.row].vals)'
        BY <1>3 DEF ItemIsResolved
    <2>1. Resolved(t, e) /\ SetNullable(t) /\ SameCascades(t, e.new, db[t][e.row].vals)
        BY <1>3, <1>8 DEF PendingIsResolved
    <2> QED BY <1>9, <1>10, <1>11, <2>1
<1>15. \A i \in DOMAIN queue : queue[i].table \in Tables
    BY QueuedTables DEF IInv
<1>16. QueueIsResolved'
    BY <1>4, <1>13, <1>14, <1>15 DEF QueueIsResolved
<1>17. PendingIsResolved'
    BY <1>1, <1>7, <1>9, <1>10, <1>11 DEF PendingIsResolved
<1>18. \A u \in Tables : \A r : IsTaken(u, r)' <=> IsTaken(u, r)
    BY <1>1, <1>5 DEF IsTaken, RowsIn, Alive
<1>19. \A u : Alive(db, u)' = Alive(db, u)
    BY <1>1 DEF Alive
<1>20. \A fk, r, p : Referenced(fk, r, p)' <=> Referenced(fk, r, p)
    BY <1>1 DEF Referenced, Alive
<1>21. \A rows : IsClosed(rows)' <=> IsClosed(rows)
    BY <1>1, <1>19, <1>20 DEF IsClosed
<1>22. NoneTooMany'
    BY <1>1, <1>18, <1>19, <1>21 DEF NoneTooMany, Rows
<1>23. \A u, r : DeleteQueued(u, r) => DeleteQueued(u, r)'
    BY <1>4 DEF DeleteQueued
<1>24. \A f \in active : schema.fks[f].child \in Tables /\ schema.fks[f].parent \in Tables
    BY KeyColumnsType DEF IInv
<1>25. NoneForgotten'
    BY <1>1, <1>5, <1>18, <1>19, <1>20, <1>23, <1>24 DEF NoneForgotten
<1> QED BY <1>12, <1>16, <1>17, <1>22, <1>25 DEF ClosureInv

LEMMA StepKeepsClosure ==
    IInv /\ StatementInv /\ CascadesAreIndependent(schema) /\ ClosureInv /\ [Next]_vars => ClosureInv'
<1> SUFFICES ASSUME IInv, StatementInv, CascadesAreIndependent(schema), ClosureInv, [Next]_vars
             PROVE  ClosureInv'
    OBVIOUS
<1>1. ASSUME stmt'.kind # "delete" PROVE ClosureInv'
    BY <1>1 DEF ClosureInv
<1>2. NoStatement.kind = "none"
    BY DEF NoStatement
<1>3. ASSUME \/ \E f \in DOMAIN schema.fks : CreateForeignKey(f)
             \/ \E t \in Tables : \E batch \in Batches(t) : AddRows(t, batch)
             \/ Abandon \/ Finish
      PROVE  ClosureInv'
    BY <1>1, <1>2, <1>3 DEF CreateForeignKey, AddRows, Abandon, Finish, Idle
<1>4. ASSUME NEW t \in Tables, NEW rows \in SUBSET Alive(db, t), BeginDelete(t, rows)
      PROVE  ClosureInv'
    BY <1>4, BeginDeleteKeepsClosure
<1>5. ASSUME NEW t \in Tables, NEW new \in NewRows(t), BeginUpdate(t, new) PROVE ClosureInv'
    <2>1. stmt' = [kind |-> "update", table |-> t, rows |-> DOMAIN new]
        BY <1>5 DEF BeginUpdate
    <2>2. stmt'.kind = "update"
        BY <2>1
    <2> QED BY <1>1, <2>2
<1>6. ASSUME ResolveItem PROVE ClosureInv'
    <2>1. stmt' = stmt
        BY <1>6 DEF ResolveItem
    <2> QED BY <1>1, <1>6, <2>1, ResolveItemKeepsClosure DEF ClosureInv
<1>7. ASSUME NEW t \in Tables, ApplyResolvedDeletes(t) PROVE ClosureInv'
    <2>1. stmt' = stmt
        BY <1>7 DEF ApplyResolvedDeletes
    <2> QED BY <1>1, <1>7, <2>1, ApplyResolvedDeletesKeepsClosure DEF ClosureInv
<1>8. ASSUME NEW t \in Tables, ApplyResolvedUpdates(t) PROVE ClosureInv'
    <2>1. stmt' = stmt
        BY <1>8 DEF ApplyResolvedUpdates
    <2> QED BY <1>1, <1>8, <2>1, ApplyResolvedUpdatesKeepsClosure DEF ClosureInv
<1>9. ASSUME UNCHANGED vars PROVE ClosureInv'
    <2>1. UNCHANGED <<schema, active, db, work, queue, deletes, updates, stmt>>
        BY <1>9 DEF vars
    <2>2. \A u, v, w : SameCascades(u, v, w)' <=> SameCascades(u, v, w)
        BY <2>1 DEF SameCascades, SameKeys
    <2>3. \A u, e : Resolved(u, e)' <=> Resolved(u, e)
        BY <2>1 DEF Resolved, SameCascades, SameKeys
    <2>4. \A u, v, e : SameCascades(u, v, db[u][e.row].vals)' <=> SameCascades(u, v, db[u][e.row].vals)
        BY <2>1 DEF SameCascades, SameKeys
    <2>5. \A u : SetNullable(u)' <=> SetNullable(u)
        BY <2>1 DEF SetNullable
    <2>6. \A u : Alive(db, u)' = Alive(db, u) /\ Alive(work, u)' = Alive(work, u)
        BY <2>1 DEF Alive
    <2>7. \A u, r : IsTaken(u, r)' <=> IsTaken(u, r)
        BY <2>1 DEF IsTaken, Alive, RowsIn
    <2>8. \A u, r : DeleteQueued(u, r)' <=> DeleteQueued(u, r)
        BY <2>1 DEF DeleteQueued, RowsIn
    <2>9. \A fk, r, p : Referenced(fk, r, p)' <=> Referenced(fk, r, p)
        BY <2>1 DEF Referenced, Alive
    <2>10. \A rows : IsClosed(rows)' <=> IsClosed(rows)
        BY <2>1, <2>6, <2>9 DEF IsClosed
    <2>11. KeysStay => KeysStay'
        BY <2>1 DEF KeysStay, SameCascades, SameKeys
    <2>12. \A y : ItemIsResolved(y) => ItemIsResolved(y)'
        BY <2>1, <2>3, <2>4, <2>5, <2>6 DEF ItemIsResolved
    <2>13. QueueIsResolved => QueueIsResolved'
        BY <2>1, <2>12 DEF QueueIsResolved
    <2>14. PendingIsResolved => PendingIsResolved'
        BY <2>1, <2>3, <2>4, <2>5 DEF PendingIsResolved
    <2>15. NoneTooMany => NoneTooMany'
        BY <2>1, <2>6, <2>7, <2>10 DEF NoneTooMany, Rows
    <2>16. NoneForgotten => NoneForgotten'
        BY <2>1, <2>6, <2>7, <2>8, <2>9 DEF NoneForgotten
    <2> QED BY <2>1, <2>11, <2>13, <2>14, <2>15, <2>16 DEF ClosureInv
<1> QED BY <1>3, <1>4, <1>5, <1>6, <1>7, <1>8, <1>9
        DEF Next, RunReferentialWork, RejectRestricted, RejectResolvedUpdates, RejectDangling

LEMMA InitClosureInv == Init => ClosureInv
BY DEF Init, ClosureInv, NoStatement

\* At the end nothing is queued or pending, so the rows that died are a closed set with
\* the requested rows in it, and they are in every other such set.
LEMMA DrainedClosure ==
    IInv /\ StatementInv /\ ClosureInv => DeleteTakesExactlyTheClosure
<1> SUFFICES ASSUME IInv, StatementInv, ClosureInv, Drained, stmt.kind = "delete"
             PROVE  Rows(db) \ Rows(work) = CascadeClosure
    BY DEF DeleteTakesExactlyTheClosure
<1> DEFINE dead      == Rows(db) \ Rows(work)
           asked     == {stmt.table} \X stmt.rows
           closed(x) == x \in SUBSET Rows(db) /\ asked \subseteq x /\ IsClosed(x)
<1>1. queue = <<>> /\ \A t \in Tables : deletes[t] = {}
    BY DEF Drained, NoPending, NothingPending
<1>2. /\ NoneTooMany /\ NoneForgotten
      /\ stmt.table \in Tables
      /\ stmt.rows \subseteq Alive(db, stmt.table)
      /\ stmt.rows \cap Alive(work, stmt.table) = {}
    BY DEF ClosureInv, StatementInv, IInv, TypeOK, Statement, NoStatement
<1>3. \A row : row \in CascadeClosure <=>
          row \in Rows(db) /\ \A x : closed(x) => row \in x
    BY DEF CascadeClosure
<1>4. \A t, r : <<t, r>> \in dead <=> t \in Tables /\ r \in Alive(db, t) /\ r \notin Alive(work, t)
    BY DEF Rows
<1>5. \A row \in dead : \E t \in Tables : \E r \in Alive(db, t) : row = <<t, r>>
    BY DEF Rows
<1>6. \A t \in Tables : \A r : IsTaken(t, r) <=> <<t, r>> \in dead
    BY <1>1, <1>4 DEF IsTaken, RowsIn
<1>7. dead \subseteq CascadeClosure
    <2> SUFFICES ASSUME NEW row \in dead, NEW x, closed(x) PROVE row \in x
        BY <1>3
    <2>1. PICK t \in Tables : \E r \in Alive(db, t) : row = <<t, r>>
        BY <1>5
    <2>2. PICK r \in Alive(db, t) : row = <<t, r>>
        BY <2>1
    <2> QED BY <1>2, <1>6, <2>2 DEF NoneTooMany
<1>8. closed(dead)
    <2>1. dead \in SUBSET Rows(db)
        OBVIOUS
    <2>2. asked \subseteq dead
        BY <1>2, <1>4
    <2>3. IsClosed(dead)
        <3> SUFFICES ASSUME NEW f \in active, schema.fks[f].onDelete = "cascade",
                            NEW r \in Alive(db, schema.fks[f].child),
                            NEW p \in Alive(db, schema.fks[f].parent),
                            Referenced(schema.fks[f], r, p), <<schema.fks[f].parent, p>> \in dead
                     PROVE  <<schema.fks[f].child, r>> \in dead
            BY DEF IsClosed
        <3>1. schema.fks[f].child \in Tables
            BY KeyColumnsType DEF IInv
        <3>2. p \notin Alive(work, schema.fks[f].parent)
            BY <1>4
        <3>3. ~ DeleteQueued(schema.fks[f].parent, p)
            BY <1>1 DEF DeleteQueued
        <3>4. IsTaken(schema.fks[f].child, r)
            BY <1>2, <3>2, <3>3 DEF NoneForgotten
        <3> QED BY <1>6, <3>1, <3>4
    <2> QED BY <2>1, <2>2, <2>3
<1>9. CascadeClosure \subseteq dead
    BY <1>3, <1>8
<1> QED BY <1>7, <1>9

\* A DELETE takes exactly the rows its cascades reach, for every schema whose parent keys
\* hold no NULL and whose SET NULLs stay off the keys that a DELETE cascades along.
THEOREM DeletesTakeTheClosure ==
    ASSUME \A s \in Schemas : CascadesAreIndependent(s)
    PROVE  Spec => []DeleteTakesExactlyTheClosure
<1>1. IInv => CascadesAreIndependent(schema)
    BY DEF IInv, TypeOK
<1>2. IInv /\ StatementInv /\ ClosureInv /\ [Next]_vars => ClosureInv'
    BY <1>1, StepKeepsClosure
<1>3. Spec => []StatementInv
    BY InitStatementInv, SpecKeepsIInv, NextKeepsStatementInv, PTL DEF Spec
<1> QED BY InitClosureInv, SpecKeepsIInv, DrainedClosure, <1>2, <1>3, PTL DEF Spec

=============================================================================
