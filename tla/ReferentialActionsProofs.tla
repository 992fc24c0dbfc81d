---------------------- MODULE ReferentialActionsProofs ----------------------
(***************************************************************************)
(* Proofs about ReferentialActions, for every set of tables, columns,      *)
(* values and schemas.                                                     *)
(***************************************************************************)
EXTENDS ReferentialActions, TLAPS, SequenceTheorems, FiniteSetTheorems

-----------------------------------------------------------------------------
(* Writing rows *)

\* A function from 1..n into S is a sequence over S.
LEMMA FunctionIsSeq ==
    ASSUME NEW S, NEW n \in Nat, NEW f \in [1..n -> S]
    PROVE  f \in Seq(S)
BY SeqDef

\* Table.removeRows keeps the row numbers and the column data, and leaves alive
\* exactly the rows that were alive and are not removed.
LEMMA RemoveRowsEffect ==
    ASSUME NEW d \in Database, NEW t \in Tables, NEW rows
    PROVE  LET after == RemoveRows(d, t, rows)
           IN  /\ after \in Database
               /\ \A u \in Tables :
                      /\ DOMAIN after[u] = DOMAIN d[u]
                      /\ \A r \in DOMAIN d[u] : after[u][r].vals = d[u][r].vals
                      /\ Alive(after, u) \subseteq Alive(d, u)
               /\ Alive(after, t) = Alive(d, t) \ rows
<1> DEFINE slots == [r \in DOMAIN d[t] |->
                        IF r \in rows THEN [d[t][r] EXCEPT !.alive = FALSE] ELSE d[t][r]]
           after == RemoveRows(d, t, rows)
<1>1. d[t] \in Seq(Slot)
    BY DEF Database
<1>2. /\ Len(d[t]) \in Nat
      /\ DOMAIN d[t] = 1 .. Len(d[t])
      /\ \A r \in DOMAIN d[t] : d[t][r] \in Slot
    BY <1>1, LenProperties, ElementOfSeq
<1>3. \A r \in DOMAIN d[t] : slots[r] \in Slot
    BY <1>2 DEF Slot
<1>4. slots \in Seq(Slot)
    <2>1. slots \in [1 .. Len(d[t]) -> Slot]
        BY <1>2, <1>3
    <2> QED BY <1>2, <2>1, FunctionIsSeq
<1>5. after = [d EXCEPT ![t] = slots]
    BY DEF RemoveRows
<1>6. /\ after \in Database
      /\ after[t] = slots
      /\ \A u \in Tables : u # t => after[u] = d[u]
    BY <1>4, <1>5 DEF Database
<1>7. \A r \in DOMAIN d[t] :
          /\ slots[r].vals = d[t][r].vals
          /\ slots[r].alive <=> d[t][r].alive /\ r \notin rows
    BY <1>2 DEF Slot
<1>8. Alive(after, t) = Alive(d, t) \ rows
    BY <1>6, <1>7 DEF Alive
<1>9. \A u \in Tables : /\ DOMAIN after[u] = DOMAIN d[u]
                        /\ \A r \in DOMAIN d[u] : after[u][r].vals = d[u][r].vals
                        /\ Alive(after, u) \subseteq Alive(d, u)
    BY <1>6, <1>7 DEF Alive
<1> QED BY <1>6, <1>8, <1>9

\* The column writes of Table.applyResolvedUpdates keep the row numbers and the
\* rowAlive flags, and a row holds afterwards what it held or what was written.
LEMMA OverwriteRowsEffect ==
    ASSUME NEW d \in Database, NEW t \in Tables, NEW entries \in SUBSET Entry
    PROVE  LET after == OverwriteRows(d, t, entries)
           IN  /\ after \in Database
               /\ \A u \in Tables :
                      /\ DOMAIN after[u] = DOMAIN d[u]
                      /\ Alive(after, u) = Alive(d, u)
                      /\ u # t => after[u] = d[u]
               /\ \A r \in DOMAIN d[t] :
                      \/ after[t][r].vals = d[t][r].vals
                      \/ \E e \in entries : e.row = r /\ after[t][r].vals = e.new
<1> DEFINE last(r) == CHOOSE e \in entries : IsLastFor(e, entries, r)
           slots == [r \in DOMAIN d[t] |->
                        IF \E e \in entries : IsLastFor(e, entries, r)
                        THEN [d[t][r] EXCEPT !.vals = last(r).new]
                        ELSE d[t][r]]
           after == OverwriteRows(d, t, entries)
<1>1. d[t] \in Seq(Slot)
    BY DEF Database
<1>2. /\ Len(d[t]) \in Nat
      /\ DOMAIN d[t] = 1 .. Len(d[t])
      /\ \A r \in DOMAIN d[t] : d[t][r] \in Slot
    BY <1>1, LenProperties, ElementOfSeq
<1>3. \A r : (\E e \in entries : IsLastFor(e, entries, r)) =>
          last(r) \in entries /\ last(r).row = r
    BY DEF IsLastFor
<1>4. \A e \in entries : e.new \in Row
    BY DEF Entry
<1>5. \A r \in DOMAIN d[t] :
          /\ slots[r] \in Slot
          /\ slots[r].alive = d[t][r].alive
          /\ \/ slots[r].vals = d[t][r].vals
             \/ \E e \in entries : e.row = r /\ slots[r].vals = e.new
    <2> SUFFICES ASSUME NEW r \in DOMAIN d[t]
                 PROVE  /\ slots[r] \in Slot
                        /\ slots[r].alive = d[t][r].alive
                        /\ \/ slots[r].vals = d[t][r].vals
                           \/ \E e \in entries : e.row = r /\ slots[r].vals = e.new
        OBVIOUS
    <2>1. CASE \E e \in entries : IsLastFor(e, entries, r)
        <3>1. last(r) \in entries /\ last(r).row = r /\ last(r).new \in Row
            BY <2>1, <1>3, <1>4
        <3>2. slots[r] = [d[t][r] EXCEPT !.vals = last(r).new]
            BY <2>1
        <3> HIDE DEF last, slots
        <3> QED BY <1>2, <3>1, <3>2 DEF Slot
    <2>2. CASE ~ \E e \in entries : IsLastFor(e, entries, r)
        BY <1>2, <2>2
    <2> QED BY <2>1, <2>2
<1>6. slots \in Seq(Slot)
    <2>1. slots \in [1 .. Len(d[t]) -> Slot]
        BY <1>2, <1>5
    <2> QED BY <1>2, <2>1, FunctionIsSeq
<1>7. after = [d EXCEPT ![t] = slots]
    BY DEF OverwriteRows
<1> HIDE DEF slots, last
<1>8. /\ after \in Database
      /\ after[t] = slots
      /\ \A u \in Tables : u # t => after[u] = d[u]
    BY <1>6, <1>7 DEF Database
<1>9. DOMAIN slots = DOMAIN d[t]
    BY DEF slots
<1>10. \A u \in Tables : /\ DOMAIN after[u] = DOMAIN d[u]
                         /\ Alive(after, u) = Alive(d, u)
    BY <1>5, <1>8, <1>9 DEF Alive
<1> QED BY <1>5, <1>8, <1>10

-----------------------------------------------------------------------------
(* Resolving one work item *)

\* The foreign keys of a schema are well typed and pair their columns.
LEMMA ForeignKeyType ==
    ASSUME TypeOK, NEW f \in active
    PROVE  /\ schema.fks[f] \in ForeignKey
           /\ DOMAIN schema.fks[f].columns = DOMAIN schema.fks[f].parentColumns
<1>1. schema \in Schema /\ f \in DOMAIN schema.fks
    BY SchemasAssumption DEF TypeOK
<1>2. schema.fks \in Seq(ForeignKey)
    BY <1>1 DEF Schema
<1>3. schema.fks[f] \in ForeignKey
    BY <1>1, <1>2, LenProperties, ElementOfSeq
<1>4. /\ schema.fks[f].columns \in Seq(Columns)
      /\ schema.fks[f].parentColumns \in Seq(Columns)
    BY <1>3 DEF ForeignKey, ColumnList
<1>5. Len(schema.fks[f].columns) = Len(schema.fks[f].parentColumns)
    BY <1>1, SchemasAssumption DEF TypeOK
<1> QED BY <1>3, <1>4, <1>5, LenProperties

\* The row numbers of a snapshot are numbers, and its slots are slots.
LEMMA SlotType ==
    ASSUME NEW d \in Database, NEW t \in Tables
    PROVE  /\ DOMAIN d[t] = 1 .. Len(d[t])
           /\ Len(d[t]) \in Nat
           /\ DOMAIN d[t] \subseteq Nat
           /\ Alive(d, t) \subseteq DOMAIN d[t]
           /\ \A r \in DOMAIN d[t] : d[t][r] \in Slot /\ d[t][r].vals \in Row
<1>1. d[t] \in Seq(Slot)
    BY DEF Database
<1>2. DOMAIN d[t] = 1 .. Len(d[t]) /\ Len(d[t]) \in Nat
    BY <1>1, LenProperties
<1>3. \A r \in DOMAIN d[t] : d[t][r] \in Slot
    BY <1>1, <1>2, ElementOfSeq
<1>4. \A r \in DOMAIN d[t] : d[t][r].vals \in Row
    BY <1>3 DEF Slot
<1>5. DOMAIN d[t] \subseteq Nat
    BY <1>2
<1>6. Alive(d, t) \subseteq DOMAIN d[t]
    BY DEF Alive
<1> QED BY <1>2, <1>3, <1>4, <1>5, <1>6

\* CompiledForeignKey.applyReferentialActionToRow yields rows.
LEMMA AppliedRowType ==
    ASSUME TypeOK, NEW f \in active, NEW row \in Row, NEW parentRow \in Row
    PROVE  /\ WithNullKey(row, schema.fks[f]) \in Row
           /\ WithParentKey(row, schema.fks[f], parentRow) \in Row
<1> DEFINE fk == schema.fks[f]
           position(c) == CHOOSE i \in DOMAIN fk.columns : fk.columns[i] = c
<1>1. fk \in ForeignKey /\ DOMAIN fk.columns = DOMAIN fk.parentColumns
    BY ForeignKeyType
<1>2. fk.parentColumns \in Seq(Columns)
    BY <1>1 DEF ForeignKey, ColumnList
<1>3. \A i \in DOMAIN fk.parentColumns : fk.parentColumns[i] \in Columns
    BY <1>2, LenProperties, ElementOfSeq
<1>4. WithNullKey(row, fk) \in Row
    BY DEF WithNullKey, Row
<1>5. \A c \in Columns : (\E i \in DOMAIN fk.columns : fk.columns[i] = c)
                           => position(c) \in DOMAIN fk.parentColumns
    BY <1>1
<1> HIDE DEF fk
<1>6. WithParentKey(row, fk, parentRow) \in Row
    <2> SUFFICES \A c \in Columns :
                    (IF \E i \in DOMAIN fk.columns : fk.columns[i] = c
                     THEN parentRow[fk.parentColumns[position(c)]] ELSE row[c])
                    \in Values \cup {Null}
        BY DEF WithParentKey, Row
    <2> HIDE DEF position
    <2> QED BY <1>3, <1>5 DEF Row
<1> QED BY <1>4, <1>6 DEF fk

\* A work item has finitely many references to follow.
LEMMA ImpactedFinite ==
    ASSUME TypeOK, NEW item \in WorkItem, IsFiniteSet(item.rows)
    PROVE  IsFiniteSet(Impacted(item))
<1> DEFINE domains == {DOMAIN work[t] : t \in Tables}
           dom     == [t \in Tables |-> DOMAIN work[t]]
<1>1. dom \in Surjection(Tables, domains)
    BY DEF Surjection
<1>2. IsFiniteSet(domains)
    BY <1>1, FS_Surjection, TablesAssumption
<1>3. \A D \in domains : IsFiniteSet(D)
    <2> SUFFICES ASSUME NEW t \in Tables PROVE IsFiniteSet(DOMAIN work[t])
        OBVIOUS
    <2>1. DOMAIN work[t] = 1 .. Len(work[t]) /\ Len(work[t]) \in Nat
        BY SlotType DEF TypeOK
    <2> QED BY <2>1, FS_Interval
<1>4. IsFiniteSet(UNION domains)
    BY <1>2, <1>3, FS_UNION
<1>5. IsFiniteSet(active)
    <2>1. schema.fks \in Seq(ForeignKey)
        BY SchemasAssumption DEF TypeOK, Schema
    <2>2. DOMAIN schema.fks = 1 .. Len(schema.fks) /\ Len(schema.fks) \in Nat
        BY <2>1, LenProperties
    <2>3. IsFiniteSet(DOMAIN schema.fks)
        BY <2>2, FS_Interval
    <2> QED BY <2>3, FS_Subset DEF TypeOK
<1>6. IsFiniteSet(item.rows \X active)
    BY <1>5, FS_Product
<1>7. IsFiniteSet((item.rows \X active) \X UNION domains)
    BY <1>4, <1>6, FS_Product
<1> DEFINE triples == item.rows \X active \X UNION domains
           flat    == [p \in (item.rows \X active) \X UNION domains |->
                          <<p[1][1], p[1][2], p[2]>>]
<1>8. flat \in Surjection((item.rows \X active) \X UNION domains, triples)
    <2> HIDE DEF domains
    <2>1. \A x \in triples : \E p \in (item.rows \X active) \X UNION domains : flat[p] = x
        <3> SUFFICES ASSUME NEW x \in triples
                     PROVE  \E p \in (item.rows \X active) \X UNION domains : flat[p] = x
            OBVIOUS
        <3>1. /\ x = <<x[1], x[2], x[3]>>
              /\ x[1] \in item.rows /\ x[2] \in active /\ x[3] \in UNION domains
            OBVIOUS
        <3> WITNESS <<<<x[1], x[2]>>, x[3]>> \in (item.rows \X active) \X UNION domains
        <3> QED BY <3>1
    <2>2. flat \in [(item.rows \X active) \X UNION domains -> triples]
        OBVIOUS
    <2> HIDE DEF flat, triples
    <2> QED BY <2>1, <2>2 DEF Surjection
<1>9. IsFiniteSet(triples)
    BY <1>7, <1>8, FS_Surjection
<1>10. Impacted(item) \in SUBSET triples
    BY DEF Impacted
<1> QED BY <1>9, <1>10, FS_Subset

\* A reference resolves to a well-typed mutation of a live row of the child table.
LEMMA ChildEntryType ==
    ASSUME TypeOK, NEW item \in WorkItem, IsFiniteSet(item.rows),
           NEW ref \in Impacted(item)
    PROVE  /\ ref[2] \in active
           /\ ChildEntry(item, ref) \in Entry
<1> DEFINE fk  == schema.fks[ref[2]]
           row == work[fk.child][ref[3]].vals
<1>1. /\ ref[1] \in item.rows /\ ref[2] \in active
      /\ IsImpacted(item, ref[1], fk, ref[3])
    BY DEF Impacted
<1>2. ref[1] \in Entry /\ ref[1].new \in Row
    BY <1>1 DEF WorkItem, Entry
<1>3. fk \in ForeignKey /\ fk.child \in Tables
    BY <1>1, ForeignKeyType DEF ForeignKey
<1>4. ref[3] \in Nat /\ row \in Row
    <2>1. ref[3] \in Alive(work, fk.child)
        BY <1>1 DEF IsImpacted
    <2> HIDE DEF fk
    <2> QED BY <1>3, <2>1, SlotType DEF TypeOK
<1>5. WithNullKey(row, fk) \in Row /\ WithParentKey(row, fk, ref[1].new) \in Row
    BY <1>1, <1>2, <1>4, AppliedRowType
<1>6. Cardinality({other \in Impacted(item) : Before(other, ref)}) \in Nat
    <2>1. IsFiniteSet(Impacted(item))
        BY ImpactedFinite
    <2>2. {other \in Impacted(item) : Before(other, ref)} \in SUBSET Impacted(item)
        OBVIOUS
    <2>3. IsFiniteSet({other \in Impacted(item) : Before(other, ref)})
        BY <2>1, <2>2, FS_Subset
    <2> QED BY <2>3, FS_CardinalityType
<1> DEFINE new == IF ReferentialAction(item, fk) = "setNull" THEN WithNullKey(row, fk)
                  ELSE IF item.kind = "update" THEN WithParentKey(row, fk, ref[1].new)
                  ELSE row
<1>7. new \in Row
    BY <1>4, <1>5
<1>8. ChildEntry(item, ref) =
          [pos |-> Cardinality({other \in Impacted(item) : Before(other, ref)}),
           row |-> ref[3], old |-> row, new |-> new]
    BY DEF ChildEntry
<1> HIDE DEF new, fk, row
<1>9. ChildEntry(item, ref) \in Entry
    BY <1>4, <1>6, <1>7, <1>8 DEF Entry
<1> QED BY <1>1, <1>9

\* The mutations of a finite set of references are finitely many entries.
LEMMA EntriesOfReferences ==
    ASSUME TypeOK, NEW item \in WorkItem, IsFiniteSet(item.rows),
           NEW refs \in SUBSET Impacted(item)
    PROVE  LET entries == {ChildEntry(item, ref) : ref \in refs}
           IN  entries \in SUBSET Entry /\ IsFiniteSet(entries)
<1> DEFINE entries == {ChildEntry(item, ref) : ref \in refs}
           entry   == [ref \in refs |-> ChildEntry(item, ref)]
<1>1. entries \in SUBSET Entry
    BY ChildEntryType
<1>2. IsFiniteSet(refs)
    BY ImpactedFinite, FS_Subset
<1>3. entry \in Surjection(refs, entries)
    BY DEF Surjection
<1>4. IsFiniteSet(entries)
    <2> HIDE DEF entries, entry
    <2> QED BY <1>2, <1>3, FS_Surjection
<1> QED BY <1>1, <1>4

\* What one work item leaves pending is finite and well typed, and only the
\* deletion of a parent row deletes child rows.
LEMMA ChildMutationsType ==
    ASSUME TypeOK, NEW item \in WorkItem, IsFiniteSet(item.rows), NEW t \in Tables
    PROVE  /\ ChildDeletes(item, t) \in SUBSET Entry /\ IsFiniteSet(ChildDeletes(item, t))
           /\ ChildUpdates(item, t) \in SUBSET Entry /\ IsFiniteSet(ChildUpdates(item, t))
           /\ item.kind = "update" => ChildDeletes(item, t) = {}
<1>1. ChildDeletes(item, t) \in SUBSET Entry /\ IsFiniteSet(ChildDeletes(item, t))
    BY EntriesOfReferences DEF ChildDeletes
<1>2. ChildUpdates(item, t) \in SUBSET Entry /\ IsFiniteSet(ChildUpdates(item, t))
    <2> DEFINE refs == {x \in Impacted(item) :
                           LET action == ReferentialAction(item, schema.fks[x[2]])
                           IN  /\ schema.fks[x[2]].child = t
                               /\ \/ action = "setNull"
                                  \/ action = "cascade" /\ item.kind = "update"}
               all == {ChildEntry(item, ref) : ref \in refs}
    <2>1. refs \in SUBSET Impacted(item)
        OBVIOUS
    <2> HIDE DEF refs
    <2>2. all \in SUBSET Entry /\ IsFiniteSet(all)
        BY <2>1, EntriesOfReferences
    <2>3. ChildUpdates(item, t) = {e \in all : e.new # e.old}
        BY DEF ChildUpdates, refs
    <2> HIDE DEF all
    <2>4. ChildUpdates(item, t) \in SUBSET all
        BY <2>3
    <2> QED BY <2>2, <2>4, FS_Subset
<1>3. item.kind = "update" => ChildDeletes(item, t) = {}
    BY DEF ChildDeletes
<1> QED BY <1>1, <1>2, <1>3

-----------------------------------------------------------------------------
(* Constraints of a snapshot *)

\* Removing rows breaks no CHECK and no unique index.
LEMMA RemovalKeepsTablesConsistent ==
    ASSUME NEW s, NEW d \in Database, NEW t \in Tables, NEW rows, TablesConsistent(s, d)
    PROVE  TablesConsistent(s, RemoveRows(d, t, rows))
<1> DEFINE after == RemoveRows(d, t, rows)
<1>1. \A u \in Tables : /\ DOMAIN after[u] = DOMAIN d[u]
                        /\ \A r \in DOMAIN d[u] : after[u][r].vals = d[u][r].vals
                        /\ Alive(after, u) \subseteq Alive(d, u)
                        /\ Alive(d, u) \subseteq DOMAIN d[u]
    BY RemoveRowsEffect, SlotType
<1> HIDE DEF after
<1>2. ASSUME NEW u \in Tables, NEW x, UniqueIndexBuilds(d, u, x)
      PROVE  UniqueIndexBuilds(after, u, x)
    BY <1>1, <1>2 DEF UniqueIndexBuilds
<1>3. \A u \in Tables : IndexesBuild(s, after, u)
    BY <1>2 DEF IndexesBuild, TablesConsistent
<1>4. \A u \in Tables : \A r \in DOMAIN after[u] : after[u][r].vals \in s.allowed[u]
    BY <1>1 DEF TablesConsistent
<1> QED BY <1>3, <1>4 DEF TablesConsistent, after

\* Whether an index of a table builds depends on that table alone.
LEMMA IndexesBuildLocally ==
    ASSUME NEW s, NEW d, NEW e, NEW u \in Tables, d[u] = e[u], IndexesBuild(s, d, u)
    PROVE  IndexesBuild(s, e, u)
BY DEF IndexesBuild, UniqueIndexBuilds, Alive

\* An accepted write breaks no CHECK and no unique index.
LEMMA AcceptedWriteKeepsTablesConsistent ==
    ASSUME NEW d \in Database, NEW t \in Tables, NEW entries \in SUBSET Entry,
           TablesConsistent(schema, d), UpdateAccepted(d, t, entries)
    PROVE  TablesConsistent(schema, OverwriteRows(d, t, entries))
<1> DEFINE after == OverwriteRows(d, t, entries)
<1>1. /\ \A u \in Tables : DOMAIN after[u] = DOMAIN d[u] /\ (u # t => after[u] = d[u])
      /\ \A r \in DOMAIN d[t] : \/ after[t][r].vals = d[t][r].vals
                               \/ \E e \in entries : after[t][r].vals = e.new
    BY OverwriteRowsEffect
<1>2. /\ \A e \in entries : e.new \in schema.allowed[t]
      /\ IndexesBuild(schema, after, t)
    BY DEF UpdateAccepted
<1> HIDE DEF after
<1>3. \A u \in Tables : \A r \in DOMAIN after[u] : after[u][r].vals \in schema.allowed[u]
    BY <1>1, <1>2 DEF TablesConsistent
<1>4. \A u \in Tables : IndexesBuild(schema, after, u)
    BY <1>1, <1>2, IndexesBuildLocally DEF TablesConsistent
<1> QED BY <1>3, <1>4 DEF TablesConsistent, after

-----------------------------------------------------------------------------
(* The inductive invariant *)

\* A work list is finite, so the positions ChildEntry counts are numbers.
FiniteWork ==
    /\ \A i \in DOMAIN queue : IsFiniteSet(queue[i].rows)
    /\ \A t \in Tables : IsFiniteSet(deletes[t]) /\ IsFiniteSet(updates[t])

\* The caller's snapshot is what an abandoned statement falls back to, and the
\* working snapshot is what a finished one publishes: each needs the other.
IInv ==
    /\ TypeOK
    /\ FiniteWork
    /\ CommittedConstraintsHold
    /\ WorkingTablesConsistent

LEMMA NothingPendingType ==
    NothingPending \in Pending /\ \A t \in Tables : IsFiniteSet(NothingPending[t])
BY FS_EmptySet DEF NothingPending, Pending

\* The empty database violates nothing.
LEMMA InitIInv == Init => IInv
<1> SUFFICES ASSUME Init PROVE IInv
    OBVIOUS
<1>1. /\ schema \in Schemas /\ schema \in Schema /\ active \subseteq DOMAIN schema.fks
      /\ active = schema.initial
    BY SchemasAssumption DEF Init
<1>2. db = [t \in Tables |-> <<>>] /\ work = db /\ queue = <<>>
    BY DEF Init
<1>3. db \in Database
    BY <1>2, EmptySeq DEF Database
<1>4. queue \in Seq(WorkItem) /\ DOMAIN queue = {}
    BY <1>2, EmptySeq
<1>5. \A t \in Tables : DOMAIN db[t] = {} /\ Alive(db, t) = {}
    BY <1>2 DEF Alive
<1>6. TypeOK
    BY <1>1, <1>2, <1>3, <1>4, NothingPendingType DEF Init, TypeOK, Statement
<1>7. FiniteWork
    BY <1>4, NothingPendingType DEF Init, FiniteWork
<1>8. TablesConsistent(schema, db)
    BY <1>5 DEF TablesConsistent, IndexesBuild, UniqueIndexBuilds
<1>9. AllForeignKeysValid(schema, active, db)
    <2> SUFFICES ASSUME NEW f \in active PROVE ExistingRowsSatisfy(db, schema.fks[f])
        BY DEF AllForeignKeysValid
    <2>1. schema.fks[f].child \in Tables
        BY <1>6, ForeignKeyType DEF ForeignKey
    <2> QED BY <1>5, <2>1 DEF ExistingRowsSatisfy
<1> QED BY <1>2, <1>6, <1>7, <1>8, <1>9
        DEF IInv, CommittedConstraintsHold, ConstraintsHold, WorkingTablesConsistent

\* A statement that inserts.
LEMMA AddRowsKeepsIInv ==
    ASSUME IInv, NEW t \in Tables, NEW batch \in Batches(t), AddRows(t, batch)
    PROVE  IInv'
<1> DEFINE added == [i \in DOMAIN batch |-> [vals |-> batch[i], alive |-> TRUE]]
           after == [db EXCEPT ![t] = @ \o added]
<1>1. PICK n \in 1 .. MaxBatch : batch \in [1 .. n -> schema.allowed[t]]
    BY DEF Batches
<1>2. n \in Nat
    OBVIOUS
<1>3. schema.allowed[t] \subseteq Row
    BY SchemasAssumption DEF IInv, TypeOK, Schema
<1>4. added \in Seq(Slot)
    <2>1. added \in [1 .. n -> Slot]
        BY <1>1, <1>3 DEF Slot
    <2> QED BY <1>2, <2>1, FunctionIsSeq
<1>5. Len(added) = n /\ \A i \in 1 .. n : added[i].vals \in schema.allowed[t]
    BY <1>1, <1>2, <1>4, LenProperties
<1>6. db[t] \in Seq(Slot) /\ db \in Database
    BY DEF IInv, TypeOK, Database
<1> HIDE DEF added
<1>7. /\ after \in Database
      /\ after[t] = db[t] \o added
      /\ \A u \in Tables : u # t => after[u] = db[u]
    BY <1>4, <1>6, ConcatProperties DEF Database
<1>8. \A u \in Tables : \A r \in DOMAIN after[u] : after[u][r].vals \in schema.allowed[u]
    <2>1. \A r \in DOMAIN after[t] : after[t][r].vals \in schema.allowed[t]
        <3>1. DOMAIN after[t] = 1 .. Len(db[t]) + n /\ Len(db[t]) \in Nat
            BY <1>2, <1>4, <1>5, <1>6, <1>7, ConcatProperties, LenProperties
        <3>2. \A r \in 1 .. Len(db[t]) + n :
                  after[t][r] = IF r <= Len(db[t]) THEN db[t][r] ELSE added[r - Len(db[t])]
            BY <1>4, <1>5, <1>6, <1>7, ConcatProperties
        <3>3. \A r \in 1 .. Len(db[t]) : db[t][r].vals \in schema.allowed[t]
            BY <1>6, LenProperties
               DEF IInv, CommittedConstraintsHold, ConstraintsHold, TablesConsistent
        <3>4. \A r \in 1 .. Len(db[t]) + n : r > Len(db[t]) => r - Len(db[t]) \in 1 .. n
            BY <1>2, <3>1
        <3> HIDE DEF after
        <3> QED BY <1>5, <3>1, <3>2, <3>3, <3>4
    <2> QED BY <1>7, <2>1
            DEF IInv, CommittedConstraintsHold, ConstraintsHold, TablesConsistent
<1>9. /\ IndexesBuild(schema, after, t)
      /\ AllForeignKeysValid(schema, active, after)
      /\ db' = after /\ work' = after
      /\ UNCHANGED <<schema, active, queue, deletes, updates, stmt>>
    BY DEF AddRows, added
<1>10. \A u \in Tables : IndexesBuild(schema, after, u)
    BY <1>7, <1>9, IndexesBuildLocally
       DEF IInv, CommittedConstraintsHold, ConstraintsHold, TablesConsistent
<1> HIDE DEF after
<1>11. TablesConsistent(schema, after)
    BY <1>8, <1>10 DEF TablesConsistent
<1>12. TypeOK'
    BY <1>7, <1>9 DEF IInv, TypeOK
<1>13. FiniteWork'
    BY <1>9 DEF IInv, FiniteWork
<1>14. CommittedConstraintsHold' /\ WorkingTablesConsistent'
    BY <1>9, <1>11 DEF CommittedConstraintsHold, ConstraintsHold, WorkingTablesConsistent
<1> QED BY <1>12, <1>13, <1>14 DEF IInv

\* A statement that starts to delete.
LEMMA BeginDeleteKeepsIInv ==
    ASSUME IInv, NEW t \in Tables, NEW rows \in SUBSET Alive(db, t), BeginDelete(t, rows)
    PROVE  IInv'
<1> DEFINE entries == {[pos |-> r, row |-> r,
                        old |-> db[t][r].vals, new |-> db[t][r].vals] : r \in rows}
           item    == [kind |-> "delete", table |-> t, rows |-> entries]
<1>1. db \in Database /\ TablesConsistent(schema, db)
    BY DEF IInv, TypeOK, CommittedConstraintsHold, ConstraintsHold
<1>2. \A r \in rows : r \in Nat /\ db[t][r].vals \in Row
    BY <1>1, SlotType
<1>3. entries \in SUBSET Entry /\ IsFiniteSet(entries)
    <2>1. entries \in SUBSET Entry
        BY <1>2 DEF Entry
    <2>2. IsFiniteSet(rows)
        <3>1. rows \in SUBSET (1 .. Len(db[t])) /\ Len(db[t]) \in Nat
            BY <1>1, SlotType
        <3>2. IsFiniteSet(1 .. Len(db[t]))
            BY <3>1, FS_Interval
        <3> QED BY <3>1, <3>2, FS_Subset
    <2> DEFINE f == [r \in rows |-> [pos |-> r, row |-> r,
                                    old |-> db[t][r].vals, new |-> db[t][r].vals]]
    <2>3. f \in Surjection(rows, entries)
        BY DEF Surjection
    <2>4. IsFiniteSet(entries)
        <3> HIDE DEF entries, f
        <3> QED BY <2>2, <2>3, FS_Surjection
    <2> QED BY <2>1, <2>4
<1>4. /\ work' = RemoveRows(db, t, rows)
      /\ queue' = <<item>>
      /\ stmt' = [kind |-> "delete", table |-> t, rows |-> rows]
      /\ UNCHANGED <<schema, active, db, deletes, updates>>
    BY DEF BeginDelete
<1> HIDE DEF entries
<1>5. item \in WorkItem
    BY <1>3 DEF WorkItem
<1>6. stmt' \in Statement
    <2>1. rows \in SUBSET Nat
        BY <1>2
    <2> QED BY <1>4, <2>1 DEF Statement
<1>7. queue' \in Seq(WorkItem) /\ \A i \in DOMAIN queue' : queue'[i] = item
    BY <1>4, <1>5
<1>8. work' \in Database /\ TablesConsistent(schema, work')
    BY <1>1, <1>4, RemoveRowsEffect, RemovalKeepsTablesConsistent
<1>9. TypeOK'
    BY <1>4, <1>6, <1>7, <1>8 DEF IInv, TypeOK
<1>10. FiniteWork'
    BY <1>3, <1>4, <1>7 DEF IInv, FiniteWork
<1>11. CommittedConstraintsHold' /\ WorkingTablesConsistent'
    BY <1>4, <1>8 DEF IInv, CommittedConstraintsHold, ConstraintsHold, WorkingTablesConsistent
<1> QED BY <1>9, <1>10, <1>11 DEF IInv

\* A statement that starts to update.
LEMMA BeginUpdateKeepsIInv ==
    ASSUME IInv, NEW t \in Tables, NEW new \in NewRows(t), BeginUpdate(t, new)
    PROVE  IInv'
<1> DEFINE entries == {[pos |-> r, row |-> r,
                        old |-> db[t][r].vals, new |-> new[r]] : r \in DOMAIN new}
           item    == [kind |-> "update", table |-> t, rows |-> entries]
<1>1. db \in Database /\ TablesConsistent(schema, db)
    BY DEF IInv, TypeOK, CommittedConstraintsHold, ConstraintsHold
<1>2. PICK rows \in SUBSET Alive(db, t) : new \in [rows -> schema.allowed[t]]
    BY DEF NewRows
<1>3. \A r \in rows : r \in Nat /\ db[t][r].vals \in Row /\ new[r] \in Row
    BY <1>1, <1>2, SlotType, SchemasAssumption DEF IInv, TypeOK, Schema
<1>4. entries \in SUBSET Entry /\ IsFiniteSet(entries)
    <2>1. entries \in SUBSET Entry
        BY <1>2, <1>3 DEF Entry
    <2>2. IsFiniteSet(rows)
        <3>1. rows \in SUBSET (1 .. Len(db[t])) /\ Len(db[t]) \in Nat
            BY <1>1, <1>2, SlotType
        <3>2. IsFiniteSet(1 .. Len(db[t]))
            BY <3>1, FS_Interval
        <3> QED BY <3>1, <3>2, FS_Subset
    <2> DEFINE f == [r \in rows |-> [pos |-> r, row |-> r,
                                    old |-> db[t][r].vals, new |-> new[r]]]
    <2>3. f \in Surjection(rows, entries)
        BY <1>2 DEF Surjection
    <2>4. IsFiniteSet(entries)
        <3> HIDE DEF entries, f
        <3> QED BY <2>2, <2>3, FS_Surjection
    <2> QED BY <2>1, <2>4
<1>5. /\ UpdateAccepted(db, t, entries)
      /\ work' = OverwriteRows(db, t, entries)
      /\ queue' = <<item>>
      /\ stmt' = [kind |-> "update", table |-> t, rows |-> DOMAIN new]
      /\ UNCHANGED <<schema, active, db, deletes, updates>>
    BY DEF BeginUpdate
<1> HIDE DEF entries
<1>6. item \in WorkItem
    BY <1>4 DEF WorkItem
<1>7. stmt' \in Statement
    <2>1. DOMAIN new \in SUBSET Nat
        BY <1>2, <1>3
    <2> QED BY <1>5, <2>1 DEF Statement
<1>8. queue' \in Seq(WorkItem) /\ \A i \in DOMAIN queue' : queue'[i] = item
    BY <1>5, <1>6
<1>9. work' \in Database /\ TablesConsistent(schema, work')
    BY <1>1, <1>4, <1>5, OverwriteRowsEffect, AcceptedWriteKeepsTablesConsistent
<1>10. TypeOK'
    BY <1>5, <1>7, <1>8, <1>9 DEF IInv, TypeOK
<1>11. FiniteWork'
    BY <1>4, <1>5, <1>8 DEF IInv, FiniteWork
<1>12. CommittedConstraintsHold' /\ WorkingTablesConsistent'
    BY <1>5, <1>9 DEF IInv, CommittedConstraintsHold, ConstraintsHold, WorkingTablesConsistent
<1> QED BY <1>10, <1>11, <1>12 DEF IInv

\* Appending a finite item to the queue.
LEMMA AppendKeepsQueue ==
    ASSUME TypeOK, FiniteWork, NEW item \in WorkItem, IsFiniteSet(item.rows)
    PROVE  /\ Append(queue, item) \in Seq(WorkItem)
           /\ \A i \in DOMAIN Append(queue, item) : IsFiniteSet(Append(queue, item)[i].rows)
           /\ \A i \in DOMAIN Append(queue, item) :
                  Append(queue, item)[i] = item \/ \E j \in DOMAIN queue : Append(queue, item)[i] = queue[j]
<1>1. queue \in Seq(WorkItem)
    BY DEF TypeOK
<1>2. Append(queue, item) \in Seq(WorkItem)
    BY <1>1
<1>3. /\ DOMAIN Append(queue, item) = 1 .. Len(queue) + 1
      /\ Len(queue) \in Nat /\ DOMAIN queue = 1 .. Len(queue)
    BY <1>1, LenProperties
<1>4. \A i \in 1 .. Len(queue) + 1 :
          Append(queue, item)[i] = IF i <= Len(queue) THEN queue[i] ELSE item
    BY <1>1
<1>5. \A i \in DOMAIN Append(queue, item) :
          Append(queue, item)[i] = item \/ \E j \in DOMAIN queue : Append(queue, item)[i] = queue[j]
    BY <1>3, <1>4
<1> QED BY <1>2, <1>5 DEF FiniteWork

\* A throw.
LEMMA AbandonKeepsIInv == ASSUME IInv, Abandon PROVE IInv'
<1>1. /\ work' = db /\ queue' = <<>> /\ stmt' = NoStatement
      /\ deletes' = NothingPending /\ updates' = NothingPending
      /\ UNCHANGED <<schema, active, db>>
    BY DEF Abandon
<1>2. queue' \in Seq(WorkItem) /\ DOMAIN queue' = {}
    BY <1>1, EmptySeq
<1>3. TypeOK'
    BY <1>1, <1>2, NothingPendingType DEF IInv, TypeOK, Statement
<1>4. FiniteWork'
    BY <1>1, <1>2, NothingPendingType DEF FiniteWork
<1>5. CommittedConstraintsHold' /\ WorkingTablesConsistent'
    BY <1>1 DEF IInv, CommittedConstraintsHold, ConstraintsHold, WorkingTablesConsistent
<1> QED BY <1>3, <1>4, <1>5 DEF IInv

\* One iteration of the loop of applyReferentialWork, or its end.
LEMMA ReferentialWorkKeepsIInv == ASSUME IInv, RunReferentialWork PROVE IInv'
<1>0. work \in Database /\ TablesConsistent(schema, work)
    BY DEF IInv, TypeOK, WorkingTablesConsistent
<1>1. ASSUME ResolveItem PROVE IInv'
    <2> DEFINE item == Head(queue)
    <2>1. /\ queue # <<>>
          /\ deletes' = [t \in Tables |-> ChildDeletes(item, t)]
          /\ updates' = [t \in Tables |-> ChildUpdates(item, t)]
          /\ queue' = Tail(queue)
          /\ UNCHANGED <<schema, active, db, work, stmt>>
        BY <1>1 DEF ResolveItem
    <2>2. /\ queue \in Seq(WorkItem) /\ Len(queue) \in Nat /\ DOMAIN queue = 1 .. Len(queue)
          /\ Len(queue) > 0
        BY <2>1, EmptySeq, LenProperties DEF IInv, TypeOK
    <2>3. item \in WorkItem /\ item = queue[1]
        BY <2>1, <2>2
    <2>4. IsFiniteSet(item.rows)
        BY <2>2, <2>3 DEF IInv, FiniteWork
    <2>5. /\ queue' \in Seq(WorkItem)
          /\ \A i \in DOMAIN queue' : \E j \in DOMAIN queue : queue'[i] = queue[j]
        <3>1. /\ queue' \in Seq(WorkItem) /\ Len(queue') = Len(queue) - 1
              /\ \A i \in 1 .. Len(queue') : queue'[i] = queue[i + 1]
            BY <2>1, <2>2, HeadTailProperties
        <3>2. DOMAIN queue' = 1 .. Len(queue')
            BY <3>1, LenProperties
        <3>3. \A i \in 1 .. Len(queue') : i + 1 \in DOMAIN queue
            BY <2>2, <3>1
        <3> QED BY <3>1, <3>2, <3>3
    <2> HIDE DEF item
    <2>6. \A t \in Tables : /\ ChildDeletes(item, t) \in SUBSET Entry
                            /\ ChildUpdates(item, t) \in SUBSET Entry
                            /\ IsFiniteSet(ChildDeletes(item, t))
                            /\ IsFiniteSet(ChildUpdates(item, t))
        BY <2>3, <2>4, ChildMutationsType DEF IInv
    <2>7. TypeOK'
        BY <2>1, <2>5, <2>6 DEF IInv, TypeOK, Pending
    <2>8. FiniteWork'
        BY <2>1, <2>5, <2>6 DEF IInv, FiniteWork
    <2> QED BY <2>1, <2>7, <2>8
            DEF IInv, CommittedConstraintsHold, WorkingTablesConsistent
<1>2. ASSUME RejectRestricted PROVE IInv'
    BY <1>2, AbandonKeepsIInv DEF RejectRestricted
<1>3. ASSUME NEW t \in Tables, ApplyResolvedDeletes(t) PROVE IInv'
    <2> DEFINE item == [kind |-> "delete", table |-> t, rows |-> deletes[t]]
    <2>1. /\ work' = RemoveRows(work, t, {e.row : e \in deletes[t]})
          /\ queue' = Append(queue, item)
          /\ deletes' = [deletes EXCEPT ![t] = {}]
          /\ UNCHANGED <<schema, active, db, updates, stmt>>
        BY <1>3 DEF ApplyResolvedDeletes
    <2>2. item \in WorkItem /\ IsFiniteSet(item.rows)
        BY DEF WorkItem, IInv, TypeOK, Pending, FiniteWork
    <2> HIDE DEF item
    <2>3. /\ queue' \in Seq(WorkItem)
          /\ \A i \in DOMAIN queue' : IsFiniteSet(queue'[i].rows)
        BY <2>1, <2>2, AppendKeepsQueue DEF IInv
    <2>4. work' \in Database /\ TablesConsistent(schema, work')
        BY <1>0, <2>1, RemoveRowsEffect, RemovalKeepsTablesConsistent
    <2>5. deletes' \in Pending /\ \A u \in Tables : IsFiniteSet(deletes'[u])
        BY <2>1, FS_EmptySet DEF IInv, TypeOK, Pending, FiniteWork
    <2>6. TypeOK'
        BY <2>1, <2>3, <2>4, <2>5 DEF IInv, TypeOK
    <2>7. FiniteWork'
        BY <2>1, <2>3, <2>5 DEF IInv, FiniteWork
    <2> QED BY <2>1, <2>4, <2>6, <2>7
            DEF IInv, CommittedConstraintsHold, WorkingTablesConsistent
<1>4. ASSUME NEW t \in Tables, ApplyResolvedUpdates(t) PROVE IInv'
    <2> DEFINE item == [kind |-> "update", table |-> t, rows |-> updates[t]]
    <2>1. /\ UpdateAccepted(work, t, updates[t])
          /\ work' = OverwriteRows(work, t, updates[t])
          /\ queue' = Append(queue, item)
          /\ updates' = [updates EXCEPT ![t] = {}]
          /\ UNCHANGED <<schema, active, db, deletes, stmt>>
        BY <1>4 DEF ApplyResolvedUpdates
    <2>2. item \in WorkItem /\ IsFiniteSet(item.rows) /\ updates[t] \in SUBSET Entry
        BY DEF WorkItem, IInv, TypeOK, Pending, FiniteWork
    <2> HIDE DEF item
    <2>3. /\ queue' \in Seq(WorkItem)
          /\ \A i \in DOMAIN queue' : IsFiniteSet(queue'[i].rows)
        BY <2>1, <2>2, AppendKeepsQueue DEF IInv
    <2>4. work' \in Database /\ TablesConsistent(schema, work')
        BY <1>0, <2>1, <2>2, OverwriteRowsEffect, AcceptedWriteKeepsTablesConsistent
    <2>5. updates' \in Pending /\ \A u \in Tables : IsFiniteSet(updates'[u])
        BY <2>1, FS_EmptySet DEF IInv, TypeOK, Pending, FiniteWork
    <2>6. TypeOK'
        BY <2>1, <2>3, <2>4, <2>5 DEF IInv, TypeOK
    <2>7. FiniteWork'
        BY <2>1, <2>3, <2>5 DEF IInv, FiniteWork
    <2> QED BY <2>1, <2>4, <2>6, <2>7
            DEF IInv, CommittedConstraintsHold, WorkingTablesConsistent
<1>5. ASSUME NEW t \in Tables, RejectResolvedUpdates(t) PROVE IInv'
    BY <1>5, AbandonKeepsIInv DEF RejectResolvedUpdates
<1>6. ASSUME Finish PROVE IInv'
    <2>1. /\ AllForeignKeysValid(schema, active, work)
          /\ db' = work /\ stmt' = NoStatement
          /\ UNCHANGED <<schema, active, work, queue, deletes, updates>>
        BY <1>6 DEF Finish
    <2>2. TypeOK' /\ FiniteWork'
        BY <2>1 DEF IInv, TypeOK, FiniteWork, Statement
    <2>3. CommittedConstraintsHold' /\ WorkingTablesConsistent'
        BY <1>0, <2>1 DEF CommittedConstraintsHold, ConstraintsHold, WorkingTablesConsistent
    <2> QED BY <2>2, <2>3 DEF IInv
<1>7. ASSUME RejectDangling PROVE IInv'
    BY <1>7, AbandonKeepsIInv DEF RejectDangling
<1> QED BY <1>1, <1>2, <1>3, <1>4, <1>5, <1>6, <1>7 DEF RunReferentialWork

\* A foreign key is created over rows that satisfy it.
LEMMA CreateForeignKeyKeepsIInv ==
    ASSUME IInv, NEW f \in DOMAIN schema.fks, CreateForeignKey(f)
    PROVE  IInv'
<1>1. /\ ExistingRowsSatisfy(db, schema.fks[f])
      /\ active' = active \cup {f}
      /\ UNCHANGED <<schema, db, work, queue, deletes, updates, stmt>>
    BY DEF CreateForeignKey
<1>2. TypeOK' /\ FiniteWork'
    BY <1>1 DEF IInv, TypeOK, FiniteWork
<1>3. AllForeignKeysValid(schema, active', db)
    BY <1>1 DEF IInv, CommittedConstraintsHold, ConstraintsHold, AllForeignKeysValid
<1> QED BY <1>1, <1>2, <1>3
        DEF IInv, CommittedConstraintsHold, ConstraintsHold, WorkingTablesConsistent

LEMMA NextKeepsIInv == IInv /\ [Next]_vars => IInv'
<1> SUFFICES ASSUME IInv, [Next]_vars PROVE IInv'
    OBVIOUS
<1>1. ASSUME NEW f \in DOMAIN schema.fks, CreateForeignKey(f) PROVE IInv'
    BY <1>1, CreateForeignKeyKeepsIInv
<1>2. ASSUME NEW t \in Tables, NEW batch \in Batches(t), AddRows(t, batch) PROVE IInv'
    BY <1>2, AddRowsKeepsIInv
<1>3. ASSUME NEW t \in Tables, NEW rows \in SUBSET Alive(db, t), BeginDelete(t, rows)
      PROVE  IInv'
    BY <1>3, BeginDeleteKeepsIInv
<1>4. ASSUME NEW t \in Tables, NEW new \in NewRows(t), BeginUpdate(t, new) PROVE IInv'
    BY <1>4, BeginUpdateKeepsIInv
<1>5. ASSUME RunReferentialWork PROVE IInv'
    BY <1>5, ReferentialWorkKeepsIInv
<1>6. ASSUME UNCHANGED vars PROVE IInv'
    BY <1>6 DEF vars, IInv, TypeOK, FiniteWork, CommittedConstraintsHold, ConstraintsHold,
                WorkingTablesConsistent
<1> QED BY <1>1, <1>2, <1>3, <1>4, <1>5, <1>6 DEF Next

LEMMA SpecKeepsIInv == Spec => []IInv
BY InitIInv, NextKeepsIInv, PTL DEF Spec

\* The snapshots, the queue and the pending mutations keep their shape.
THEOREM TypeCorrect == Spec => []TypeOK
<1>1. IInv => TypeOK
    BY DEF IInv
<1> QED BY <1>1, SpecKeepsIInv, PTL

\* A caller of Database never holds a snapshot that breaks a foreign key, a CHECK,
\* NOT NULL or a unique index, whatever the schema and however a propagation ends.
THEOREM CommittedSnapshotsAreConsistent == Spec => []CommittedConstraintsHold
<1>1. IInv => CommittedConstraintsHold
    BY DEF IInv
<1> QED BY <1>1, SpecKeepsIInv, PTL

\* Each table of a working snapshot is consistent by itself at every step of a
\* propagation; only references between tables may dangle.
THEOREM WorkingSnapshotsAreConsistent == Spec => []WorkingTablesConsistent
<1>1. IInv => WorkingTablesConsistent
    BY DEF IInv
<1> QED BY <1>1, SpecKeepsIInv, PTL

-----------------------------------------------------------------------------
(* Refinement of RelationalStore *)

\* How far a statement may have moved from the caller's snapshot: row numbers
\* stay, a DELETE has killed what it was asked to, an UPDATE kills nothing.
StatementInv ==
    /\ \A t \in Tables : DOMAIN work[t] = DOMAIN db[t] /\ Alive(work, t) \subseteq Alive(db, t)
    /\ Idle => queue = <<>> /\ NoPending
    /\ stmt.kind = "delete" =>
           /\ stmt.rows # {} /\ stmt.rows \subseteq Alive(db, stmt.table)
           /\ stmt.rows \cap Alive(work, stmt.table) = {}
    /\ stmt.kind = "update" =>
           /\ \A t \in Tables : Alive(work, t) = Alive(db, t)
           /\ deletes = NothingPending
           /\ \A i \in DOMAIN queue : queue[i].kind = "update"

\* Nothing is pending between statements and on the snapshots of a throw.
LEMMA RestingKeepsStatementInv ==
    ASSUME stmt' = NoStatement, queue' = <<>>,
           deletes' = NothingPending, updates' = NothingPending, \A t \in Tables : work'[t] = db'[t]
    PROVE  StatementInv'
<1>1. stmt'.kind = "none"
    BY DEF NoStatement
<1>2. \A t \in Tables : Alive(work, t)' = Alive(db, t)'
    BY DEF Alive
<1> QED BY <1>1, <1>2 DEF StatementInv, Idle, NoPending

LEMMA AbandonKeepsStatementInv == ASSUME Abandon PROVE StatementInv'
BY RestingKeepsStatementInv DEF Abandon

LEMMA InitStatementInv == Init => StatementInv
<1> SUFFICES ASSUME Init PROVE StatementInv
    OBVIOUS
<1>1. stmt.kind = "none"
    BY DEF Init, NoStatement
<1> QED BY <1>1 DEF Init, StatementInv, Idle, NoPending, Alive

LEMMA NextKeepsStatementInv == IInv /\ StatementInv /\ [Next]_vars => StatementInv'
<1> SUFFICES ASSUME IInv, StatementInv, [Next]_vars PROVE StatementInv'
    OBVIOUS
<1>0. db \in Database /\ work \in Database
    BY DEF IInv, TypeOK
<1>1. ASSUME NEW f \in DOMAIN schema.fks, CreateForeignKey(f) PROVE StatementInv'
    BY <1>1 DEF CreateForeignKey, StatementInv, Idle, NoPending, Alive
<1>2. ASSUME NEW t \in Tables, NEW batch \in Batches(t), AddRows(t, batch)
      PROVE  StatementInv'
    <2>1. /\ Idle /\ work' = db'
          /\ UNCHANGED <<queue, deletes, updates, stmt>>
        BY <1>2 DEF AddRows
    <2>2. /\ stmt' = NoStatement /\ queue' = <<>>
          /\ deletes' = NothingPending /\ updates' = NothingPending
        BY <2>1 DEF StatementInv, Idle, NoPending
    <2> QED BY <2>1, <2>2, RestingKeepsStatementInv
<1>3. ASSUME NEW t \in Tables, NEW rows \in SUBSET Alive(db, t), BeginDelete(t, rows)
      PROVE  StatementInv'
    <2>1. /\ rows # {} /\ db' = db
          /\ work' = RemoveRows(db, t, rows)
          /\ stmt' = [kind |-> "delete", table |-> t, rows |-> rows]
        BY <1>3 DEF BeginDelete
    <2>2. /\ \A u \in Tables : /\ DOMAIN work'[u] = DOMAIN db[u]
                              /\ Alive(work', u) \subseteq Alive(db, u)
          /\ Alive(work', t) = Alive(db, t) \ rows
        BY <1>0, <2>1, RemoveRowsEffect
    <2> QED BY <2>1, <2>2 DEF StatementInv, Idle, NoStatement, Alive
<1>4. ASSUME NEW t \in Tables, NEW new \in NewRows(t), BeginUpdate(t, new)
      PROVE  StatementInv'
    <2> DEFINE entries == {[pos |-> r, row |-> r,
                            old |-> db[t][r].vals, new |-> new[r]] : r \in DOMAIN new}
               item    == [kind |-> "update", table |-> t, rows |-> entries]
    <2>1. /\ Idle /\ db' = db /\ deletes' = deletes
          /\ work' = OverwriteRows(db, t, entries)
          /\ queue' = <<item>>
          /\ stmt' = [kind |-> "update", table |-> t, rows |-> DOMAIN new]
        BY <1>4 DEF BeginUpdate
    <2>2. PICK rows \in SUBSET Alive(db, t) : new \in [rows -> schema.allowed[t]]
        BY <1>4 DEF NewRows
    <2>3. \A r \in rows : r \in Nat /\ db[t][r].vals \in Row /\ new[r] \in Row
        BY <1>0, <2>2, SlotType, SchemasAssumption DEF IInv, TypeOK, Schema
    <2>4. entries \in SUBSET Entry
        BY <2>2, <2>3 DEF Entry
    <2>5. item.kind = "update"
        OBVIOUS
    <2> HIDE DEF entries, item
    <2>6. \A u \in Tables : /\ DOMAIN work'[u] = DOMAIN db[u]
                            /\ Alive(work', u) = Alive(db, u)
        BY <1>0, <2>1, <2>4, OverwriteRowsEffect
    <2>7. deletes' = NothingPending
        BY <2>1 DEF StatementInv, NoPending
    <2>8. \A i \in DOMAIN queue' : queue'[i].kind = "update"
        BY <2>1, <2>5
    <2> QED BY <2>1, <2>6, <2>7, <2>8 DEF StatementInv, Idle, NoStatement, Alive
<1>5. ASSUME ResolveItem PROVE StatementInv'
    <2> DEFINE item == Head(queue)
    <2>1. /\ queue # <<>>
          /\ deletes' = [t \in Tables |-> ChildDeletes(item, t)]
          /\ queue' = Tail(queue)
          /\ UNCHANGED <<schema, active, db, work, stmt>>
        BY <1>5 DEF ResolveItem
    <2>2. ~ Idle
        BY <2>1 DEF StatementInv
    <2>3. /\ queue \in Seq(WorkItem) /\ Len(queue) \in Nat /\ DOMAIN queue = 1 .. Len(queue)
          /\ Len(queue) > 0
        BY <2>1, EmptySeq, LenProperties DEF IInv, TypeOK
    <2>4. item \in WorkItem /\ item = queue[1] /\ 1 \in DOMAIN queue
        BY <2>1, <2>3
    <2>5. IsFiniteSet(item.rows)
        BY <2>4 DEF IInv, FiniteWork
    <2>6. \A i \in DOMAIN queue' : \E j \in DOMAIN queue : queue'[i] = queue[j]
        <3>1. /\ queue' \in Seq(WorkItem) /\ Len(queue') = Len(queue) - 1
              /\ \A i \in 1 .. Len(queue') : queue'[i] = queue[i + 1]
            BY <2>1, <2>3, HeadTailProperties
        <3>2. DOMAIN queue' = 1 .. Len(queue')
            BY <3>1, LenProperties
        <3>3. \A i \in 1 .. Len(queue') : i + 1 \in DOMAIN queue
            BY <2>3, <3>1
        <3> QED BY <3>1, <3>2, <3>3
    <2> HIDE DEF item
    <2>7. stmt.kind = "update" => deletes' = NothingPending
        <3> SUFFICES ASSUME stmt.kind = "update" PROVE deletes' = NothingPending
            OBVIOUS
        <3>1. item.kind = "update"
            BY <2>4 DEF StatementInv
        <3>2. \A t \in Tables : ChildDeletes(item, t) = {}
            BY <2>4, <2>5, <3>1, ChildMutationsType DEF IInv
        <3> QED BY <2>1, <3>2 DEF NothingPending
    <2> QED BY <2>1, <2>2, <2>6, <2>7 DEF StatementInv, Idle, Alive
<1>6. ASSUME NEW t \in Tables, ApplyResolvedDeletes(t) PROVE StatementInv'
    <2> DEFINE item == [kind |-> "delete", table |-> t, rows |-> deletes[t]]
               gone == {e.row : e \in deletes[t]}
    <2>1. /\ IsFirstPending(deletes, t)
          /\ work' = RemoveRows(work, t, gone)
          /\ UNCHANGED <<schema, active, db, updates, stmt>>
        BY <1>6 DEF ApplyResolvedDeletes
    <2>2. deletes # NothingPending
        BY <2>1 DEF IsFirstPending, NothingPending
    <2>3. ~ Idle /\ stmt.kind # "update"
        BY <2>2 DEF StatementInv, NoPending
    <2>4. \A u \in Tables : /\ DOMAIN work'[u] = DOMAIN work[u]
                            /\ Alive(work', u) \subseteq Alive(work, u)
        BY <1>0, <2>1, RemoveRowsEffect
    <2>5. stmt.kind = "delete" => stmt.table \in Tables
        BY DEF IInv, TypeOK, Statement, NoStatement
    <2> QED BY <2>1, <2>3, <2>4, <2>5 DEF StatementInv, Idle, Alive
<1>7. ASSUME NEW t \in Tables, ApplyResolvedUpdates(t) PROVE StatementInv'
    <2> DEFINE item == [kind |-> "update", table |-> t, rows |-> updates[t]]
    <2>1. /\ IsFirstPending(updates, t)
          /\ work' = OverwriteRows(work, t, updates[t])
          /\ queue' = Append(queue, item)
          /\ deletes = NothingPending
          /\ UNCHANGED <<schema, active, db, deletes, stmt>>
        BY <1>7 DEF ApplyResolvedUpdates
    <2>2. updates[t] \in SUBSET Entry /\ item \in WorkItem /\ IsFiniteSet(item.rows)
        BY DEF IInv, TypeOK, Pending, WorkItem, FiniteWork
    <2>3. item.kind = "update"
        OBVIOUS
    <2> HIDE DEF item
    <2>4. \A u \in Tables : /\ DOMAIN work'[u] = DOMAIN work[u]
                            /\ Alive(work', u) = Alive(work, u)
        BY <1>0, <2>1, <2>2, OverwriteRowsEffect
    <2>5. (\A i \in DOMAIN queue : queue[i].kind = "update")
              => \A i \in DOMAIN queue' : queue'[i].kind = "update"
        BY <2>1, <2>2, <2>3, AppendKeepsQueue DEF IInv
    <2>6. stmt.kind = "delete" => stmt.table \in Tables
        BY DEF IInv, TypeOK, Statement, NoStatement
    <2>7. updates # NothingPending
        BY <2>1 DEF IsFirstPending, NothingPending
    <2>8. ~ Idle
        BY <2>7 DEF StatementInv, NoPending
    <2> QED BY <2>1, <2>4, <2>5, <2>6, <2>8 DEF StatementInv, Idle, Alive
<1>8. ASSUME Finish PROVE StatementInv'
    BY <1>8, RestingKeepsStatementInv DEF Finish, Drained, NoPending
<1>9. ASSUME UNCHANGED vars PROVE StatementInv'
    BY <1>9 DEF vars, StatementInv, Idle, NoPending, Alive
<1>10. ASSUME Abandon PROVE StatementInv'
    BY <1>10, AbandonKeepsStatementInv
<1> QED BY <1>1, <1>2, <1>3, <1>4, <1>5, <1>6, <1>7, <1>8, <1>9, <1>10
        DEF Next, RunReferentialWork, RejectRestricted, RejectResolvedUpdates, RejectDangling

\* The two modules read the constraints of a snapshot alike.
LEMMA SameConstraints ==
    ASSUME NEW s, NEW fs, NEW d
    PROVE  /\ Store!ConstraintsHold(s, fs, d) <=> ConstraintsHold(s, fs, d)
           /\ \A t : Store!Alive(d, t) = Alive(d, t)
<1>1. \A e, t : Store!Alive(e, t) = Alive(e, t)
    BY DEF Store!Alive, Alive
<1>2. \A row, columns : Store!Project(row, columns) = Project(row, columns)
    BY DEF Store!Project, Project
<1>3. \A key : Store!HasNull(key) <=> HasNull(key)
    BY DEF Store!HasNull, HasNull
<1>4. \A e, t, u : Store!UniqueIndexBuilds(e, t, u) <=> UniqueIndexBuilds(e, t, u)
    BY <1>1, <1>2, <1>3 DEF Store!UniqueIndexBuilds, UniqueIndexBuilds
<1>5. Store!TablesConsistent(s, d) <=> TablesConsistent(s, d)
    BY <1>4 DEF Store!TablesConsistent, TablesConsistent, Store!IndexesBuild, IndexesBuild
<1>6. \A e, fk, key : Store!HasParent(e, fk, key) <=> HasParent(e, fk, key)
    BY <1>1, <1>2 DEF Store!HasParent, HasParent
<1>7. \A e, fk : Store!ExistingRowsSatisfy(e, fk) <=> ExistingRowsSatisfy(e, fk)
    BY <1>1, <1>2, <1>3, <1>6 DEF Store!ExistingRowsSatisfy, ExistingRowsSatisfy
<1>8. Store!AllForeignKeysValid(s, fs, d) <=> AllForeignKeysValid(s, fs, d)
    BY <1>7 DEF Store!AllForeignKeysValid, AllForeignKeysValid
<1> QED BY <1>1, <1>5, <1>8 DEF Store!ConstraintsHold, ConstraintsHold

LEMMA InitRefines == Init => Store!StoreInit
BY DEF Init, Store!StoreInit

\* A batch of rows goes in as one step of the store.
LEMMA AddRowsRefines ==
    ASSUME IInv, IInv', NEW t \in Tables, NEW batch \in Batches(t), AddRows(t, batch)
    PROVE  Store!Insert(t)
<1> DEFINE added == [i \in DOMAIN batch |-> [vals |-> batch[i], alive |-> TRUE]]
<1>1. PICK n \in 1 .. MaxBatch : batch \in [1 .. n -> schema.allowed[t]]
    BY DEF Batches
<1>2. n \in Nat /\ n > 0
    OBVIOUS
<1>3. schema.allowed[t] \subseteq Row
    BY SchemasAssumption DEF IInv, TypeOK, Schema
<1>4. added \in Seq(Slot)
    <2>1. added \in [1 .. n -> Slot]
        BY <1>1, <1>3 DEF Slot
    <2> QED BY <1>2, <2>1, FunctionIsSeq
<1>5. Len(added) = n /\ \A i \in 1 .. n : added[i].alive
    BY <1>1, <1>2, <1>4, LenProperties
<1>6. db[t] \in Seq(Slot) /\ db \in Database
    BY DEF IInv, TypeOK, Database
<1>7. /\ db' = [db EXCEPT ![t] = @ \o added]
      /\ UNCHANGED <<schema, active>>
    BY DEF AddRows
<1> HIDE DEF added
<1>8. /\ db'[t] = db[t] \o added
      /\ \A u \in Tables \ {t} : db'[u] = db[u]
    BY <1>6, <1>7 DEF Database
<1>9. /\ Len(db[t]) \in Nat /\ DOMAIN db[t] = 1 .. Len(db[t])
      /\ Len(db'[t]) = Len(db[t]) + n
      /\ DOMAIN db'[t] = 1 .. Len(db[t]) + n
    BY <1>2, <1>4, <1>5, <1>6, <1>8, ConcatProperties, LenProperties
<1>10. \A r \in 1 .. Len(db[t]) + n :
           db'[t][r] = IF r <= Len(db[t]) THEN db[t][r] ELSE added[r - Len(db[t])]
    BY <1>4, <1>5, <1>6, <1>8, ConcatProperties
<1>11. \A r \in DOMAIN db'[t] :
           IF r \in DOMAIN db[t] THEN db'[t][r] = db[t][r] ELSE db'[t][r].alive
    BY <1>2, <1>5, <1>9, <1>10
<1>12. ConstraintsHold(schema, active, db')
    BY <1>7 DEF IInv, CommittedConstraintsHold
<1>13. Store!ConstraintsHold(schema, active, db')
    BY <1>12, SameConstraints
<1> QED BY <1>2, <1>7, <1>8, <1>9, <1>11, <1>13 DEF Store!Insert

\* A drained queue publishes one DELETE or one UPDATE of the store.
LEMMA FinishRefines == ASSUME IInv, IInv', StatementInv, Finish PROVE Store!StoreNext
<1>1. /\ ~ Idle /\ db' = work
      /\ UNCHANGED <<schema, active>>
    BY DEF Finish, Drained
<1>2. Store!ConstraintsHold(schema, active, db')
    <2>1. ConstraintsHold(schema, active, db')
        BY <1>1 DEF IInv, CommittedConstraintsHold
    <2> QED BY <2>1, SameConstraints
<1>3. Store!KeepsRowNumbers(db, db')
    BY <1>1, SameConstraints DEF Store!KeepsRowNumbers, StatementInv
<1>4. \/ stmt.kind = "delete" /\ stmt.table \in Tables
      \/ stmt.kind = "update"
    BY <1>1 DEF IInv, TypeOK, Statement, Idle
<1>5. CASE stmt.kind = "delete" /\ stmt.table \in Tables
    <2>1. /\ stmt.rows # {} /\ stmt.rows \subseteq Alive(db, stmt.table)
          /\ stmt.rows \cap Alive(db', stmt.table) = {}
        BY <1>1, <1>5 DEF StatementInv
    <2>2. Store!Delete(stmt.table, stmt.rows)
        BY <1>1, <1>2, <1>3, <2>1, SameConstraints DEF Store!Delete
    <2> QED BY <1>5, <2>1, <2>2, SameConstraints DEF Store!StoreNext
<1>6. CASE stmt.kind = "update"
    <2>1. \A t \in Tables : Store!Alive(db', t) = Store!Alive(db, t)
        BY <1>1, <1>6, SameConstraints DEF StatementInv
    <2>2. Store!Update
        BY <1>1, <1>2, <1>3, <2>1 DEF Store!Update
    <2> QED BY <2>2 DEF Store!StoreNext
<1> QED BY <1>4, <1>5, <1>6

LEMMA NextRefines ==
    IInv /\ IInv' /\ StatementInv /\ [Next]_vars => [Store!StoreNext]_(Store!storeVars)
<1> SUFFICES ASSUME IInv, IInv', StatementInv, [Next]_vars
             PROVE  Store!StoreNext \/ UNCHANGED <<schema, active, db>>
    BY DEF Store!storeVars
<1>1. ASSUME NEW f \in DOMAIN schema.fks, CreateForeignKey(f) PROVE Store!StoreNext
    <2>1. /\ active' = active \cup {f}
          /\ UNCHANGED <<schema, db>>
        BY <1>1 DEF CreateForeignKey
    <2>2. ConstraintsHold(schema, active', db)
        BY <2>1 DEF IInv, CommittedConstraintsHold
    <2>3. Store!Constrain(f)
        BY <2>1, <2>2, SameConstraints DEF Store!Constrain
    <2> QED BY <2>3 DEF Store!StoreNext
<1>2. ASSUME NEW t \in Tables, NEW batch \in Batches(t), AddRows(t, batch)
      PROVE  Store!StoreNext
    <2>1. Store!Insert(t)
        BY <1>2, AddRowsRefines
    <2> QED BY <2>1 DEF Store!StoreNext
<1>3. ASSUME Finish PROVE Store!StoreNext
    BY <1>3, FinishRefines
<1>4. ASSUME \/ \E t \in Tables : \E rows \in SUBSET Alive(db, t) : BeginDelete(t, rows)
             \/ \E t \in Tables : \E new \in NewRows(t) : BeginUpdate(t, new)
             \/ ResolveItem
             \/ \E t \in Tables : ApplyResolvedDeletes(t) \/ ApplyResolvedUpdates(t)
             \/ Abandon
             \/ UNCHANGED vars
      PROVE  UNCHANGED <<schema, active, db>>
    BY <1>4 DEF BeginDelete, BeginUpdate, ResolveItem, ApplyResolvedDeletes,
                ApplyResolvedUpdates, Abandon, vars
<1> QED BY <1>1, <1>2, <1>3, <1>4
        DEF Next, RunReferentialWork, RejectRestricted, RejectResolvedUpdates, RejectDangling

\* A statement is atomic for every schema: whatever the queue does and wherever a
\* throw strikes, the caller sees one step of RelationalStore or none.
THEOREM StatementsAreAtomic == Spec => ImplementsStore
<1>1. Spec => [](IInv /\ StatementInv)
    <2>1. IInv /\ IInv' /\ StatementInv /\ [Next]_vars => StatementInv'
        BY NextKeepsStatementInv
    <2> QED BY InitStatementInv, SpecKeepsIInv, <2>1, PTL DEF Spec
<1> QED BY <1>1, InitRefines, NextRefines, PTL DEF Spec, ImplementsStore, Store!StoreSpec
=============================================================================
