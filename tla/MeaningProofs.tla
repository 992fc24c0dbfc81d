---------------------------- MODULE MeaningProofs ----------------------------
(***************************************************************************)
(* What becomes of references: proofs about ReferentialActions for the     *)
(* schemas in which a row has one reference to a table and no reference is *)
(* itself referenced.                                                      *)
(***************************************************************************)
EXTENDS PropagationProofs, WellFoundedInduction

-----------------------------------------------------------------------------
(* Writing the columns of one foreign key *)

LEMMA IndependentCascades ==
    ASSUME NEW s, ReferencesAreIndependent(s) PROVE CascadesAreIndependent(s)
<1>1. CascadesKeepTheirColumns(s)
    <2> SUFFICES ASSUME NEW f \in DOMAIN s.fks, NEW g \in DOMAIN s.fks,
                        s.fks[f].child = s.fks[g].child,
                        s.fks[f].onDelete = "cascade", s.fks[g].onDelete = "setNull"
                 PROVE  KeyColumns(s.fks[f].columns) \cap KeyColumns(s.fks[g].columns) = {}
        BY DEF CascadesKeepTheirColumns
    <2>1. f # g
        OBVIOUS
    <2> QED BY <2>1 DEF ReferencesAreIndependent, ReferencesAreSeparate
<1> QED BY <1>1 DEF ReferencesAreIndependent, CascadesAreIndependent

\* Column c of t belongs to a foreign key.
IsReference(t, c) ==
    \E f \in active : schema.fks[f].child = t /\ c \in KeyColumns(schema.fks[f].columns)

\* A row that is written in the columns of f keeps the rest: the keys by which it is
\* referenced, its other references and the columns that are no reference.
LEMMA OtherColumnsStay ==
    ASSUME TypeOK, ReferencesAreIndependent(schema), NEW f \in active, NEW u, NEW v,
           \A c \in Columns : c \notin KeyColumns(schema.fks[f].columns) => v[c] = u[c]
    PROVE  LET t == schema.fks[f].child IN
           /\ SameKeys(t, v, u)
           /\ \A g \in active : schema.fks[g].child = t /\ g # f =>
                  Project(v, schema.fks[g].columns) = Project(u, schema.fks[g].columns)
           /\ \A c \in Columns : ~ IsReference(t, c) => v[c] = u[c]
<1> DEFINE t == schema.fks[f].child
<1>1. active \subseteq DOMAIN schema.fks
    BY DEF TypeOK
<1>2. ASSUME NEW g \in active, schema.fks[g].parent = t
      PROVE  Project(v, schema.fks[g].parentColumns) = Project(u, schema.fks[g].parentColumns)
    <2> DEFINE columns == schema.fks[g].parentColumns
    <2>1. KeyColumns(schema.fks[f].columns) \cap KeyColumns(columns) = {}
        BY <1>1, <1>2 DEF ReferencesAreIndependent, ReferencesAreNotKeys
    <2>2. \A i \in DOMAIN columns : columns[i] \in Columns /\ columns[i] \in KeyColumns(columns)
        BY KeyColumnsType DEF KeyColumns
    <2>3. \A i \in DOMAIN columns : v[columns[i]] = u[columns[i]]
        BY <2>1, <2>2
    <2> QED BY <2>3, ProjectionsAgree
<1>3. ASSUME NEW g \in active, schema.fks[g].child = t, g # f
      PROVE  Project(v, schema.fks[g].columns) = Project(u, schema.fks[g].columns)
    <2> DEFINE columns == schema.fks[g].columns
    <2>1. KeyColumns(schema.fks[f].columns) \cap KeyColumns(columns) = {}
        BY <1>1, <1>3 DEF ReferencesAreIndependent, ReferencesAreSeparate
    <2>2. \A i \in DOMAIN columns : columns[i] \in Columns /\ columns[i] \in KeyColumns(columns)
        BY KeyColumnsType DEF KeyColumns
    <2>3. \A i \in DOMAIN columns : v[columns[i]] = u[columns[i]]
        BY <2>1, <2>2
    <2> QED BY <2>3, ProjectionsAgree
<1>4. \A c \in Columns : ~ IsReference(t, c) => v[c] = u[c]
    BY DEF IsReference
<1> QED BY <1>2, <1>3, <1>4 DEF SameKeys

\* SET NULL clears the key, all of it.
LEMMA NulledKey ==
    ASSUME TypeOK, NEW f \in active, NEW row
    PROVE  /\ \A c \in Columns : c \notin KeyColumns(schema.fks[f].columns) =>
                  WithNullKey(row, schema.fks[f])[c] = row[c]
           /\ \A i \in DOMAIN schema.fks[f].columns :
                  WithNullKey(row, schema.fks[f])[schema.fks[f].columns[i]] = Null
<1>1. \A i \in DOMAIN schema.fks[f].columns :
          /\ schema.fks[f].columns[i] \in Columns
          /\ schema.fks[f].columns[i] \in KeyColumns(schema.fks[f].columns)
    BY KeyColumnsType DEF KeyColumns
<1> QED BY <1>1, NulledColumns

\* CASCADE gives the row the key of its parent.
LEMMA CascadedKey ==
    ASSUME TypeOK, ReferencesAreIndependent(schema), NEW f \in active, NEW row, NEW parentRow
    PROVE  /\ \A c \in Columns : c \notin KeyColumns(schema.fks[f].columns) =>
                  WithParentKey(row, schema.fks[f], parentRow)[c] = row[c]
           /\ Project(WithParentKey(row, schema.fks[f], parentRow), schema.fks[f].columns)
                  = Project(parentRow, schema.fks[f].parentColumns)
<1> DEFINE columns == schema.fks[f].columns
           parentColumns == schema.fks[f].parentColumns
           position(c) == CHOOSE i \in DOMAIN columns : columns[i] = c
           new == WithParentKey(row, schema.fks[f], parentRow)
<1>1. /\ DOMAIN columns = DOMAIN parentColumns
      /\ \A i \in DOMAIN columns : columns[i] \in Columns
    BY KeyColumnsType
<1>2. f \in DOMAIN schema.fks
    BY DEF TypeOK
<1>3. \A i, j \in DOMAIN columns : columns[i] = columns[j] => i = j
    BY <1>2 DEF ReferencesAreIndependent, KeyColumnsAreDistinct
<1>4. \A i \in DOMAIN columns : position(columns[i]) = i
    BY <1>3
<1>5. new = [c \in Columns |-> IF \E i \in DOMAIN columns : columns[i] = c
                               THEN parentRow[parentColumns[position(c)]] ELSE row[c]]
    BY DEF WithParentKey
<1>6. \A c : c \in KeyColumns(columns) <=> \E i \in DOMAIN columns : columns[i] = c
    BY DEF KeyColumns
<1>7. /\ Project(new, columns) = [i \in DOMAIN columns |-> new[columns[i]]]
      /\ Project(parentRow, parentColumns) = [i \in DOMAIN columns |-> parentRow[parentColumns[i]]]
    BY <1>1 DEF Project
<1> HIDE DEF columns, parentColumns, position, new
<1>8. \A c \in Columns : c \notin KeyColumns(columns) => new[c] = row[c]
    BY <1>5, <1>6
<1>9. \A i \in DOMAIN columns : new[columns[i]] = parentRow[parentColumns[i]]
    BY <1>1, <1>4, <1>5
<1>10. Project(new, columns) = Project(parentRow, parentColumns)
    BY <1>7, <1>9
<1> QED BY <1>8, <1>10 DEF columns, parentColumns, new

\* No two rows have one key, and a row references at most one through a foreign key.
LEMMA OneRowPerKey ==
    ASSUME IInv, NEW f \in active,
           NEW p \in Alive(db, schema.fks[f].parent), NEW q \in Alive(db, schema.fks[f].parent),
           Project(db[schema.fks[f].parent][p].vals, schema.fks[f].parentColumns)
               = Project(db[schema.fks[f].parent][q].vals, schema.fks[f].parentColumns),
           ~ HasNull(Project(db[schema.fks[f].parent][p].vals, schema.fks[f].parentColumns))
    PROVE  p = q
<1> DEFINE fk == schema.fks[f]
<1>1. fk.parent \in Tables /\ f \in DOMAIN schema.fks /\ schema \in Schemas
    BY KeyColumnsType DEF IInv, TypeOK
<1>2. PICK u \in schema.uniques[fk.parent] : u.columns = fk.parentColumns
    BY <1>1, SchemasAssumption
<1>3. UniqueIndexBuilds(db, fk.parent, u)
    BY <1>1, <1>2 DEF IInv, CommittedConstraintsHold, ConstraintsHold, TablesConsistent, IndexesBuild
<1> QED BY <1>2, <1>3 DEF UniqueIndexBuilds

LEMMA OneParent ==
    ASSUME IInv, NEW f \in active, NEW r, NEW p, NEW q,
           Referenced(schema.fks[f], r, p), Referenced(schema.fks[f], r, q)
    PROVE  p = q
BY OneRowPerKey DEF Referenced

\* A finite list has a last mutation of each row it mentions.
LEMMA LastMutation ==
    ASSUME NEW entries \in SUBSET Entry, IsFiniteSet(entries), NEW r, \E e \in entries : e.row = r
    PROVE  \E e \in entries : IsLastFor(e, entries, r)
<1> DEFINE after(e) == {x \in entries : x.row = r /\ e.pos <= x.pos}
           tails == {after(e) : e \in {x \in entries : x.row = r}}
<1>1. IsWellFoundedOn(StrictSubsetOrdering(entries), FiniteSubsetsOf(entries))
    BY FS_StrictSubsetOrderingWellFounded
<1>2. tails \subseteq FiniteSubsetsOf(entries)
    <2> SUFFICES ASSUME NEW e \in entries PROVE after(e) \in FiniteSubsetsOf(entries)
        OBVIOUS
    <2>1. after(e) \in SUBSET entries
        OBVIOUS
    <2> HIDE DEF after
    <2>2. IsFiniteSet(after(e))
        BY <2>1, FS_Subset
    <2> QED BY <2>1, <2>2 DEF FiniteSubsetsOf
<1>3. tails # {}
    OBVIOUS
<1>4. PICK least \in tails : \A y \in tails : <<y, least>> \notin StrictSubsetOrdering(entries)
    BY <1>1, <1>2, <1>3, WFMin
<1>5. PICK e \in entries : e.row = r /\ least = after(e)
    OBVIOUS
<1>6. ASSUME NEW x \in entries, x.row = r, ~ (x.pos <= e.pos) PROVE FALSE
    <2>1. x.pos \in Nat /\ e.pos \in Nat /\ \A y \in entries : y.pos \in Nat
        BY DEF Entry
    <2>2. after(x) \subseteq after(e) /\ e \in after(e) /\ e \notin after(x)
        BY <1>5, <1>6, <2>1
    <2>3. after(x) \in tails /\ after(e) \subseteq entries
        BY <1>6
    <2> QED BY <1>4, <1>5, <2>2, <2>3 DEF StrictSubsetOrdering
<1> QED BY <1>5, <1>6 DEF IsLastFor

\* A list of mutations with one for row r leaves the row as one of them says.
LEMMA ListedRowIsWritten ==
    ASSUME NEW d \in Database, NEW t \in Tables, NEW entries \in SUBSET Entry, IsFiniteSet(entries),
           NEW r \in DOMAIN d[t], \E e \in entries : e.row = r
    PROVE  \E e \in entries : e.row = r /\ OverwriteRows(d, t, entries)[t][r].vals = e.new
<1> DEFINE last   == CHOOSE e \in entries : IsLastFor(e, entries, r)
           slots  == [q \in DOMAIN d[t] |->
                         IF \E e \in entries : IsLastFor(e, entries, q)
                         THEN [d[t][q] EXCEPT !.vals =
                                  (CHOOSE e \in entries : IsLastFor(e, entries, q)).new]
                         ELSE d[t][q]]
<1>1. \E e \in entries : IsLastFor(e, entries, r)
    BY LastMutation
<1>2. last \in entries /\ last.row = r
    BY <1>1 DEF IsLastFor
<1>3. OverwriteRows(d, t, entries)[t] = slots
    BY DEF OverwriteRows, Database
<1>4. slots[r] = [d[t][r] EXCEPT !.vals = last.new]
    BY <1>1
<1>5. d[t][r] \in Slot
    BY SlotType
<1> HIDE DEF slots, last
<1>6. slots[r].vals = last.new
    BY <1>4, <1>5 DEF Slot
<1> QED BY <1>2, <1>3, <1>6

-----------------------------------------------------------------------------
(* What a reference has become                                               *)

\* The key by which p was referenced is no longer there.
Moved(f, p) ==
    LET fk == schema.fks[f] IN
    \/ p \notin Alive(work, fk.parent)
    \/ Project(work[fk.parent][p].vals, fk.parentColumns)
           # Project(db[fk.parent][p].vals, fk.parentColumns)

ActionOn(f, p) ==
    IF p \in Alive(work, schema.fks[f].parent) THEN schema.fks[f].onUpdate
                                               ELSE schema.fks[f].onDelete

\* Values `vals' are what row r should hold for f after what became of its parent p.
FollowsParent(f, p, vals) ==
    LET fk == schema.fks[f] IN
    \/ /\ ActionOn(f, p) = "setNull"
       /\ \A i \in DOMAIN fk.columns : vals[fk.columns[i]] = Null
    \/ /\ ActionOn(f, p) = "cascade" /\ p \in Alive(work, fk.parent)
       /\ Project(vals, fk.columns) = Project(work[fk.parent][p].vals, fk.parentColumns)

Follows(f, r, vals) ==
    \E p \in Alive(db, schema.fks[f].parent) :
        Referenced(schema.fks[f], r, p) /\ Moved(f, p) /\ FollowsParent(f, p, vals)

\* Row r of t may go from u to v: each reference stays or follows its parent.
KeepsMeaning(t, r, u, v) ==
    /\ \A f \in active : schema.fks[f].child = t =>
           \/ Project(v, schema.fks[f].columns) = Project(u, schema.fks[f].columns)
           \/ Follows(f, r, v)
    /\ \A c \in Columns : ~ IsReference(t, c) => v[c] = u[c]

RowsKeepMeaning ==
    \A t \in Tables : \A r \in DOMAIN db[t] :
        ~ Requested(t, r) => KeepsMeaning(t, r, db[t][r].vals, work[t][r].vals)

\* A pending update was computed from the row as it still is, touches no key by which
\* the row is referenced, and is the only one of its row.
UpdateIsResolved(t, e) ==
    /\ e.row \in Alive(db, t)
    /\ e.old = work[t][e.row].vals
    /\ SameKeys(t, e.new, e.old)
    /\ ~ Requested(t, e.row) => KeepsMeaning(t, e.row, e.old, e.new)

UpdatesKeepMeaning ==
    \A t \in Tables : \A e \in updates[t] :
        UpdateIsResolved(t, e) /\ \A d \in updates[t] : d.row = e.row => d.new = e.new

\* The references to p are still to be followed.
Waits(t, p) ==
    \E i \in DOMAIN queue :
        /\ queue[i].table = t /\ queue[i].kind = stmt.kind
        /\ \E e \in queue[i].rows : e.row = p /\ SameKeys(t, e.old, db[t][p].vals)

NoReferenceForgotten ==
    \A f \in active :
        LET fk == schema.fks[f] IN
        \A r \in Alive(db, fk.child) : \A p \in Alive(db, fk.parent) :
            Referenced(fk, r, p) /\ Moved(f, p) /\ ~ Requested(fk.child, r) =>
                \/ Waits(fk.parent, p)
                \/ IsTaken(fk.child, r)
                \/ ActionOn(f, p) = "noAction"
                \/ Follows(f, r, work[fk.child][r].vals)
                \/ \E e \in updates[fk.child] : e.row = r /\ Follows(f, r, e.new)

\* Nothing references a row of the item by the key it lost.
IsInert(item) == \A e \in item.rows : SameKeys(item.table, e.old, work[item.table][e.row].vals)

\* An UPDATE has written its own rows and nothing else yet.
IsFresh ==
    /\ NoPending /\ Len(queue) = 1 /\ queue[1].table = stmt.table
    /\ \A e \in queue[1].rows : /\ e.old = db[stmt.table][e.row].vals
                                /\ e.new = work[stmt.table][e.row].vals
    /\ \A t \in Tables : \A r \in DOMAIN db[t] :
           ~ Requested(t, r) => work[t][r].vals = db[t][r].vals

UpdateReachesOneLevel ==
    stmt.kind = "update" =>
        /\ \A i \in DOMAIN queue :
               /\ queue[i].kind = "update"
               /\ \A e \in queue[i].rows : e.row \in Alive(db, queue[i].table)
        /\ IsFresh \/ \A i \in DOMAIN queue : IsInert(queue[i])

MeaningInv ==
    stmt.kind \in {"delete", "update"} =>
        RowsKeepMeaning /\ UpdatesKeepMeaning /\ NoReferenceForgotten /\ UpdateReachesOneLevel

\* In a DELETE only rows that died have lost a key.
LEMMA DeadOnesMove ==
    ASSUME IInv, KeysStay, NEW f \in active, NEW p \in Alive(db, schema.fks[f].parent)
    PROVE  Moved(f, p) <=> p \notin Alive(work, schema.fks[f].parent)
<1> DEFINE fk == schema.fks[f]
<1>1. fk.parent \in Tables
    BY KeyColumnsType DEF IInv
<1>2. p \in DOMAIN db[fk.parent]
    BY DEF Alive
<1>3. SameKeys(fk.parent, work[fk.parent][p].vals, db[fk.parent][p].vals)
    BY <1>1, <1>2 DEF KeysStay, SameCascades
<1> QED BY <1>3 DEF Moved, SameKeys

\* Whether a row follows its parent depends on the columns of the key alone.
LEMMA FollowsByKey ==
    ASSUME NEW f \in active, NEW r, NEW u, NEW v,
           Project(u, schema.fks[f].columns) = Project(v, schema.fks[f].columns),
           Follows(f, r, u)
    PROVE  Follows(f, r, v)
<1>1. \A i \in DOMAIN schema.fks[f].columns :
          u[schema.fks[f].columns[i]] = v[schema.fks[f].columns[i]]
    BY ProjectionsAgree
<1>2. \A p : FollowsParent(f, p, u) => FollowsParent(f, p, v)
    BY <1>1 DEF FollowsParent
<1> QED BY <1>2 DEF Follows

LEMMA MeaningComposes ==
    ASSUME NEW t, NEW r, NEW u, NEW v, NEW w, KeepsMeaning(t, r, u, v), KeepsMeaning(t, r, v, w)
    PROVE  KeepsMeaning(t, r, u, w)
<1>1. ASSUME NEW f \in active, schema.fks[f].child = t
      PROVE  \/ Project(w, schema.fks[f].columns) = Project(u, schema.fks[f].columns)
             \/ Follows(f, r, w)
    BY <1>1, FollowsByKey DEF KeepsMeaning
<1> QED BY <1>1 DEF KeepsMeaning

\* A step is harmless to what follows already if the keys that moved stay where they are.
MovesStay ==
    \A f \in active : LET t == schema.fks[f].parent IN
        \A p \in Alive(db, t) : Moved(f, p) =>
            /\ p \in Alive(work', t) <=> p \in Alive(work, t)
            /\ Project(work'[t][p].vals, schema.fks[f].parentColumns)
                   = Project(work[t][p].vals, schema.fks[f].parentColumns)

LEMMA MeaningStays ==
    ASSUME UNCHANGED <<schema, active, db>>, MovesStay
    PROVE  /\ \A f \in active : \A p \in Alive(db, schema.fks[f].parent) : Moved(f, p) =>
                  Moved(f, p)' /\ ActionOn(f, p)' = ActionOn(f, p)
           /\ \A f \in active : \A r, vals : Follows(f, r, vals) => Follows(f, r, vals)'
           /\ \A t, r, u, v : KeepsMeaning(t, r, u, v) => KeepsMeaning(t, r, u, v)'
<1>1. \A t : /\ Alive(db, t)' = Alive(db, t)
             /\ Alive(work, t)' = Alive(work', t)
    BY DEF Alive
<1>2. ASSUME NEW f \in active, NEW p \in Alive(db, schema.fks[f].parent), Moved(f, p)
      PROVE  Moved(f, p)' /\ ActionOn(f, p)' = ActionOn(f, p)
    <2>1. /\ p \in Alive(work', schema.fks[f].parent) <=> p \in Alive(work, schema.fks[f].parent)
          /\ Project(work'[schema.fks[f].parent][p].vals, schema.fks[f].parentColumns)
                 = Project(work[schema.fks[f].parent][p].vals, schema.fks[f].parentColumns)
        BY <1>2 DEF MovesStay
    <2> QED BY <1>1, <1>2, <2>1 DEF Moved, ActionOn
<1>3. \A fk, r, p : Referenced(fk, r, p)' <=> Referenced(fk, r, p)
    BY DEF Referenced, Alive
<1>4. ASSUME NEW f \in active, NEW r, NEW vals, Follows(f, r, vals) PROVE Follows(f, r, vals)'
    <2>1. PICK p \in Alive(db, schema.fks[f].parent) :
              Referenced(schema.fks[f], r, p) /\ Moved(f, p) /\ FollowsParent(f, p, vals)
        BY <1>4 DEF Follows
    <2>2. /\ p \in Alive(work', schema.fks[f].parent) <=> p \in Alive(work, schema.fks[f].parent)
          /\ Project(work'[schema.fks[f].parent][p].vals, schema.fks[f].parentColumns)
                 = Project(work[schema.fks[f].parent][p].vals, schema.fks[f].parentColumns)
        BY <2>1 DEF MovesStay
    <2>3. Moved(f, p)' /\ ActionOn(f, p)' = ActionOn(f, p)
        BY <1>2, <2>1
    <2>4. FollowsParent(f, p, vals)'
        BY <1>1, <2>1, <2>2, <2>3 DEF FollowsParent
    <2> QED BY <1>1, <1>3, <2>1, <2>3, <2>4 DEF Follows
<1>5. \A t, c : IsReference(t, c)' <=> IsReference(t, c)
    BY DEF IsReference
<1>6. ASSUME NEW t, NEW r, NEW u, NEW v, KeepsMeaning(t, r, u, v) PROVE KeepsMeaning(t, r, u, v)'
    BY <1>4, <1>5, <1>6 DEF KeepsMeaning
<1> QED BY <1>2, <1>4, <1>6

-----------------------------------------------------------------------------
(* The references an item leads to                                           *)

\* In a DELETE a row that an item leads to is still the reference it was, to a row
\* that died.
LEMMA DeleteFollowsReferences ==
    ASSUME IInv, StatementInv, ReferencesAreIndependent(schema), KeysStay, RowsKeepMeaning,
           NEW item \in WorkItem, ItemIsResolved(item), NEW ref \in Impacted(item),
           ~ Requested(schema.fks[ref[2]].child, ref[3])
    PROVE  LET f == ref[2]
               p == ref[1].row
           IN  /\ Referenced(schema.fks[f], ref[3], p) /\ p \in Alive(db, schema.fks[f].parent)
               /\ p \notin Alive(work, schema.fks[f].parent)
<1> DEFINE f  == ref[2]
           fk == schema.fks[f]
           r  == ref[3]
           e  == ref[1]
           u  == work[fk.child][r].vals
<1>1. /\ e \in item.rows /\ f \in active /\ f \in DOMAIN schema.fks
      /\ fk.parent = item.table /\ fk.child \in Tables
      /\ r \in Alive(db, fk.child) /\ r \in DOMAIN db[fk.child]
      /\ Project(u, fk.columns) = Project(e.old, fk.parentColumns)
    BY ImpactedRow
<1>2. e.row \in Alive(db, fk.parent) /\ SameCascades(fk.parent, e.old, db[fk.parent][e.row].vals)
    BY <1>1 DEF ItemIsResolved, Resolved
<1>3. Project(e.old, fk.parentColumns) = Project(db[fk.parent][e.row].vals, fk.parentColumns)
    BY <1>1, <1>2 DEF SameCascades, SameKeys
<1>4. fk.parent \in Tables
    BY <1>1, KeyColumnsType DEF IInv
<1>5. db[fk.parent][e.row].vals \in schema.allowed[fk.parent]
    BY <1>2, <1>4, ResolvedRow
<1>6. ~ HasNull(Project(db[fk.parent][e.row].vals, fk.parentColumns))
    BY <1>1, <1>5, ParentKeysHaveNoNull DEF IInv, ReferencesAreIndependent
<1>7. e.row \notin Alive(work, fk.parent)
    <2>1. IsImpacted(item, e, fk, r)
        BY DEF Impacted
    <2>2. ~ (work[item.table][e.row].alive
                 /\ Project(work[item.table][e.row].vals, fk.parentColumns) = Project(e.old, fk.parentColumns))
        BY <2>1 DEF IsImpacted
    <2>3. SameCascades(fk.parent, work[fk.parent][e.row].vals, db[fk.parent][e.row].vals)
        BY <1>2, <1>4, ResolvedRow DEF KeysStay
    <2>4. Project(work[fk.parent][e.row].vals, fk.parentColumns)
              = Project(db[fk.parent][e.row].vals, fk.parentColumns)
        BY <1>1, <2>3 DEF SameCascades, SameKeys
    <2> QED BY <1>1, <1>3, <2>2, <2>4 DEF Alive
<1>8. ~ Follows(f, r, u)
    <2> SUFFICES ASSUME NEW p \in Alive(db, fk.parent), Moved(f, p), FollowsParent(f, p, u)
                 PROVE  FALSE
        BY DEF Follows
    <2>1. p \notin Alive(work, fk.parent)
        BY <1>1, DeadOnesMove
    <2>2. \A i \in DOMAIN fk.columns : u[fk.columns[i]] = Null
        BY <2>1 DEF FollowsParent
    <2>3. fk.columns # <<>> /\ DOMAIN fk.columns = 1 .. Len(fk.columns) /\ Len(fk.columns) \in Nat
        <3>1. schema.fks[f].columns \in Seq(Columns)
            BY <1>1, ForeignKeyType DEF IInv, ForeignKey, ColumnList
        <3> QED BY <1>1, <3>1, LenProperties DEF ReferencesAreIndependent, KeyColumnsAreDistinct
    <2>4. fk.columns \in Seq(Columns)
        BY <1>1, ForeignKeyType DEF IInv, ForeignKey, ColumnList
    <2>5. 1 \in DOMAIN fk.columns
        BY <2>3, <2>4, EmptySeq
    <2>6. HasNull(Project(u, fk.columns))
        BY <2>2, <2>5 DEF HasNull, Project
    <2> QED BY <1>1, <1>3, <1>6, <2>6
<1>9. Project(u, fk.columns) = Project(db[fk.child][r].vals, fk.columns)
    BY <1>1, <1>8 DEF RowsKeepMeaning, KeepsMeaning
<1>10. Project(db[fk.child][r].vals, fk.columns) = Project(db[fk.parent][e.row].vals, fk.parentColumns)
    BY <1>1, <1>3, <1>9
<1> HIDE DEF fk, r, e
<1>11. Referenced(fk, r, e.row)
    BY <1>1, <1>2, <1>6, <1>10 DEF Referenced
<1> QED BY <1>2, <1>7, <1>11 DEF fk, r, e, f

\* In an UPDATE only the rows it was asked to change lead anywhere, and to the rows that
\* referenced them by the keys they had.
LEMMA UpdateFollowsReferences ==
    ASSUME IInv, StatementInv, ReferencesAreIndependent(schema), stmt.kind = "update",
           UpdateReachesOneLevel, NEW i \in DOMAIN queue, NEW ref \in Impacted(queue[i])
    PROVE  LET f == ref[2]
               p == ref[1].row
           IN  /\ IsFresh /\ i = 1
               /\ p \in Alive(db, schema.fks[f].parent) /\ p \in Alive(work, schema.fks[f].parent)
               /\ Moved(f, p)
               /\ ~ Requested(schema.fks[f].child, ref[3]) => Referenced(schema.fks[f], ref[3], p)
<1> DEFINE f  == ref[2]
           fk == schema.fks[f]
           r  == ref[3]
           e  == ref[1]
           u  == work[fk.child][r].vals
           item == queue[i]
<1>1. item \in WorkItem /\ item.table \in Tables
    BY QueuedTables DEF IInv
<1> HIDE DEF item
<1>2. /\ e \in item.rows /\ f \in active
      /\ fk.parent = item.table /\ fk.child \in Tables
      /\ r \in Alive(db, fk.child) /\ r \in DOMAIN db[fk.child]
      /\ Project(u, fk.columns) = Project(e.old, fk.parentColumns)
    BY <1>1, ImpactedRow DEF item
<1>3. e.row \in Alive(db, item.table) /\ e.row \in Alive(work, item.table)
    BY <1>1, <1>2 DEF UpdateReachesOneLevel, StatementInv, item
<1>4. IsImpacted(item, e, fk, r)
    BY DEF Impacted, item
<1>5. Project(work[item.table][e.row].vals, fk.parentColumns) # Project(e.old, fk.parentColumns)
    BY <1>3, <1>4 DEF IsImpacted, Alive
<1>6. ~ IsInert(item)
    BY <1>2, <1>5 DEF IsInert, SameKeys
<1>7. IsFresh
    BY <1>6 DEF UpdateReachesOneLevel, item
<1>8. i = 1
    <2>1. queue \in Seq(WorkItem) /\ DOMAIN queue = 1 .. Len(queue)
        BY LenProperties DEF IInv, TypeOK
    <2> QED BY <1>7, <2>1 DEF IsFresh
<1>9. item.table = stmt.table /\ e.old = db[item.table][e.row].vals
    BY <1>2, <1>7, <1>8 DEF IsFresh, item
<1>10. Moved(f, e.row)
    BY <1>2, <1>5, <1>9 DEF Moved
<1>11. ASSUME ~ Requested(fk.child, r) PROVE Referenced(fk, r, e.row)
    <2>1. u = db[fk.child][r].vals
        BY <1>2, <1>7, <1>11 DEF IsFresh
    <2>2. db[item.table][e.row].vals \in schema.allowed[item.table]
        BY <1>1, <1>3, ResolvedRow
    <2>3. ~ HasNull(Project(db[fk.parent][e.row].vals, fk.parentColumns))
        BY <1>2, <2>2, ParentKeysHaveNoNull DEF IInv, ReferencesAreIndependent
    <2>4. Project(db[fk.child][r].vals, fk.columns) = Project(db[fk.parent][e.row].vals, fk.parentColumns)
        BY <1>2, <1>9, <2>1
    <2> HIDE DEF fk, r, e
    <2> QED BY <1>2, <1>3, <2>3, <2>4 DEF Referenced
<1> QED BY <1>2, <1>3, <1>7, <1>8, <1>10, <1>11

\* Update e of t is what reference `ref' of the item resolves to: SET NULL, or CASCADE of
\* an update.
ComesOf(item, t, e, ref) ==
    LET fk == schema.fks[ref[2]] IN
    /\ ref[1] \in item.rows /\ ref[2] \in active /\ ref[2] \in DOMAIN schema.fks
    /\ fk.child = t /\ fk.parent = item.table
    /\ e.row = ref[3] /\ e.row \in Alive(db, t)
    /\ e.old = work[t][e.row].vals /\ e.old \in Row /\ e.new # e.old
    /\ Project(e.old, fk.columns) = Project(ref[1].old, fk.parentColumns)
    /\ \/ ReferentialAction(item, fk) = "setNull" /\ e.new = WithNullKey(e.old, fk)
       \/ /\ ReferentialAction(item, fk) = "cascade" /\ item.kind = "update"
          /\ e.new = WithParentKey(e.old, fk, ref[1].new)

LEMMA ResolvedUpdate ==
    ASSUME IInv, StatementInv, NEW item \in WorkItem, NEW t \in Tables, NEW e \in ChildUpdates(item, t)
    PROVE  \E ref \in Impacted(item) : ComesOf(item, t, e, ref)
<1>1. PICK ref \in Impacted(item) :
          /\ schema.fks[ref[2]].child = t
          /\ \/ ReferentialAction(item, schema.fks[ref[2]]) = "setNull"
             \/ /\ ReferentialAction(item, schema.fks[ref[2]]) = "cascade"
                /\ item.kind = "update"
          /\ e = ChildEntry(item, ref)
          /\ e.new # e.old
    BY DEF ChildUpdates
<1> DEFINE fk == schema.fks[ref[2]]
<1>2. /\ ref[1] \in item.rows /\ ref[2] \in active /\ ref[2] \in DOMAIN schema.fks
      /\ fk.parent = item.table
      /\ e.row = ref[3] /\ ref[3] \in Alive(db, t)
      /\ e.old = work[t][ref[3]].vals /\ work[t][ref[3]].vals \in Row
      /\ Project(work[t][ref[3]].vals, fk.columns) = Project(ref[1].old, fk.parentColumns)
      /\ ReferentialAction(item, fk) = "setNull" => e.new = WithNullKey(work[t][ref[3]].vals, fk)
      /\ ReferentialAction(item, fk) # "setNull" /\ item.kind = "update" =>
             e.new = WithParentKey(work[t][ref[3]].vals, fk, ref[1].new)
    BY <1>1, ImpactedRow
<1>3. ReferentialAction(item, fk) = "cascade" => ReferentialAction(item, fk) # "setNull"
    OBVIOUS
<1> HIDE DEF fk
<1>4. \/ ReferentialAction(item, fk) = "setNull" /\ e.new = WithNullKey(e.old, fk)
      \/ /\ ReferentialAction(item, fk) = "cascade" /\ item.kind = "update"
         /\ e.new = WithParentKey(e.old, fk, ref[1].new)
    BY <1>1, <1>2, <1>3 DEF fk
<1> QED BY <1>1, <1>2, <1>4 DEF fk, ComesOf

\* In a DELETE updates come of SET NULL alone, and of a key whose ON DELETE is SET NULL:
\* an item that was updated has the keys it had.
LEMMA DeleteNulls ==
    ASSUME IInv, StatementInv, ReferencesAreIndependent(schema),
           NEW item \in WorkItem, ItemIsResolved(item), NEW ref \in Impacted(item),
           NEW t, NEW e, ComesOf(item, t, e, ref)
    PROVE  schema.fks[ref[2]].onDelete = "setNull" /\ e.new = WithNullKey(e.old, schema.fks[ref[2]])
<1> DEFINE fk == schema.fks[ref[2]]
<1>1. /\ ref[1] \in item.rows /\ ref[2] \in active /\ ref[2] \in DOMAIN schema.fks
      /\ fk.parent = item.table
    BY ImpactedRow
<1>0. /\ e.old \in Row /\ e.new # e.old
      /\ Project(e.old, fk.columns) = Project(ref[1].old, fk.parentColumns)
      /\ \/ ReferentialAction(item, fk) = "setNull" /\ e.new = WithNullKey(e.old, fk)
         \/ item.kind = "update" /\ e.new = WithParentKey(e.old, fk, ref[1].new)
    BY DEF ComesOf
<1>2. ReferentialAction(item, fk) = "setNull" /\ e.new = WithNullKey(e.old, fk)
    <2> SUFFICES ASSUME item.kind = "update", e.new = WithParentKey(e.old, fk, ref[1].new)
                 PROVE  FALSE
        BY <1>0
    <2>1. /\ SameCascades(item.table, ref[1].old, db[item.table][ref[1].row].vals)
          /\ SameCascades(item.table, ref[1].new, db[item.table][ref[1].row].vals)
        BY <1>1 DEF ItemIsResolved, Resolved
    <2>2. Project(ref[1].new, fk.parentColumns) = Project(ref[1].old, fk.parentColumns)
        BY <1>1, <2>1 DEF SameCascades, SameKeys
    <2>3. WithParentKey(e.old, fk, ref[1].new) = e.old
        BY <1>0, <1>1, <2>2, SameParentKeySameRow DEF IInv
    <2> QED BY <1>0, <2>3
<1>3. fk.onDelete = "setNull"
    <2>1. CASE item.kind = "delete"
        BY <1>2, <2>1 DEF ReferentialAction
    <2>2. CASE item.kind # "delete"
        <3>1. fk.onUpdate = "setNull" /\ item.kind = "update"
            BY <1>2, <2>2 DEF ReferentialAction, WorkItem
        <3>2. PICK g \in active : /\ schema.fks[g].child = item.table
                                  /\ schema.fks[g].onDelete = "setNull"
            BY <1>1, <3>1 DEF ItemIsResolved, SetNullable
        <3>3. g \in DOMAIN schema.fks
            BY DEF IInv, TypeOK
        <3> QED BY <1>1, <3>1, <3>2, <3>3 DEF ReferencesAreIndependent, LateUpdatesAreHarmless
    <2> QED BY <2>1, <2>2
<1> QED BY <1>2, <1>3

\* It writes the columns of one foreign key.
LEMMA OneReferenceWritten ==
    ASSUME TypeOK, ReferencesAreIndependent(schema),
           NEW item, NEW t, NEW e, NEW ref, ComesOf(item, t, e, ref)
    PROVE  /\ SameKeys(t, e.new, e.old)
           /\ \A g \in active : schema.fks[g].child = t /\ g # ref[2] =>
                  Project(e.new, schema.fks[g].columns) = Project(e.old, schema.fks[g].columns)
           /\ \A c \in Columns : ~ IsReference(t, c) => e.new[c] = e.old[c]
<1>1. PICK f \in active : f = ref[2] /\ schema.fks[f].child = t
    BY DEF ComesOf
<1>2. \/ e.new = WithNullKey(e.old, schema.fks[f])
      \/ e.new = WithParentKey(e.old, schema.fks[f], ref[1].new)
    BY <1>1 DEF ComesOf
<1>3. \A u : \A c \in Columns : c \notin KeyColumns(schema.fks[f].columns) =>
          WithNullKey(u, schema.fks[f])[c] = u[c]
    BY NulledKey
<1>4. \A u, v : \A c \in Columns : c \notin KeyColumns(schema.fks[f].columns) =>
          WithParentKey(u, schema.fks[f], v)[c] = u[c]
    BY ONLY TypeOK, ReferencesAreIndependent(schema), f \in active, CascadedKey
<1>5. \A c \in Columns : c \notin KeyColumns(schema.fks[f].columns) => e.new[c] = e.old[c]
    BY <1>2, <1>3, <1>4
<1>6. /\ SameKeys(schema.fks[f].child, e.new, e.old)
      /\ \A g \in active : schema.fks[g].child = schema.fks[f].child /\ g # f =>
             Project(e.new, schema.fks[g].columns) = Project(e.old, schema.fks[g].columns)
      /\ \A c \in Columns : ~ IsReference(schema.fks[f].child, c) => e.new[c] = e.old[c]
    BY <1>5, OtherColumnsStay
<1> QED BY <1>1, <1>6

\* A row that was written as the action of the foreign key says follows its parent.
LEMMA FollowsByAction ==
    ASSUME TypeOK, ReferencesAreIndependent(schema), NEW f \in active, NEW r, NEW row, NEW new,
           NEW p \in Alive(db, schema.fks[f].parent), Referenced(schema.fks[f], r, p), Moved(f, p),
           \/ ActionOn(f, p) = "setNull" /\ new = WithNullKey(row, schema.fks[f])
           \/ /\ ActionOn(f, p) = "cascade" /\ p \in Alive(work, schema.fks[f].parent)
              /\ new = WithParentKey(row, schema.fks[f], work[schema.fks[f].parent][p].vals)
    PROVE  Follows(f, r, new)
<1>1. \A i \in DOMAIN schema.fks[f].columns :
          WithNullKey(row, schema.fks[f])[schema.fks[f].columns[i]] = Null
    BY NulledKey
<1>2. Project(WithParentKey(row, schema.fks[f], work[schema.fks[f].parent][p].vals), schema.fks[f].columns)
          = Project(work[schema.fks[f].parent][p].vals, schema.fks[f].parentColumns)
    BY ONLY TypeOK, ReferencesAreIndependent(schema), f \in active, CascadedKey
<1>3. FollowsParent(f, p, new)
    BY <1>1, <1>2 DEF FollowsParent
<1> QED BY <1>3 DEF Follows

\* The row then follows its parent.
LEMMA ResolvedFollows ==
    ASSUME IInv, StatementInv, ReferencesAreIndependent(schema), ClosureInv, MeaningInv,
           stmt.kind \in {"delete", "update"}, 1 \in DOMAIN queue,
           NEW t, NEW e, NEW ref \in Impacted(queue[1]), ComesOf(queue[1], t, e, ref),
           ~ Requested(t, e.row)
    PROVE  Follows(ref[2], e.row, e.new)
<1> DEFINE item == queue[1]
<1>1. item \in WorkItem
    BY QueuedTables DEF IInv
<1>2. stmt.kind = "delete" => ItemIsResolved(item)
    BY DEF ClosureInv, QueueIsResolved
<1>3. PICK f \in active : /\ f = ref[2] /\ schema.fks[f].child = t /\ schema.fks[f].parent = item.table
                          /\ e.row = ref[3] /\ ref[1] \in item.rows
    BY DEF ComesOf
<1> DEFINE p == ref[1].row
           fk == schema.fks[f]
<1>0. TypeOK
    BY DEF IInv
<1>4. CASE stmt.kind = "delete"
    <2>1. Referenced(fk, e.row, p) /\ p \in Alive(db, fk.parent) /\ p \notin Alive(work, fk.parent)
        BY <1>1, <1>2, <1>3, <1>4, DeleteFollowsReferences DEF ClosureInv, MeaningInv
    <2>2. fk.onDelete = "setNull" /\ e.new = WithNullKey(e.old, schema.fks[f])
        BY <1>1, <1>2, <1>3, <1>4, DeleteNulls
    <2>3. Moved(f, p) /\ ActionOn(f, p) = "setNull"
        BY <2>1, <2>2 DEF Moved, ActionOn
    <2> QED BY <1>0, <1>3, <2>1, <2>2, <2>3, FollowsByAction
<1>5. CASE stmt.kind = "update"
    <2>1. /\ IsFresh /\ p \in Alive(db, fk.parent) /\ p \in Alive(work, fk.parent)
          /\ Moved(f, p) /\ Referenced(fk, e.row, p)
        BY <1>3, <1>5, UpdateFollowsReferences DEF MeaningInv
    <2>2. item.kind = "update" /\ ref[1].new = work[fk.parent][p].vals
        BY <1>3, <1>5, <2>1 DEF MeaningInv, UpdateReachesOneLevel, IsFresh
    <2>3. ActionOn(f, p) = fk.onUpdate /\ ReferentialAction(item, fk) = fk.onUpdate
        BY <2>1, <2>2 DEF ActionOn, ReferentialAction
    <2>4. \/ fk.onUpdate = "setNull" /\ e.new = WithNullKey(e.old, schema.fks[f])
          \/ fk.onUpdate = "cascade" /\ e.new = WithParentKey(e.old, schema.fks[f], ref[1].new)
        BY <1>3, <2>3 DEF ComesOf
    <2> QED BY <1>0, <1>3, <2>1, <2>2, <2>3, <2>4, FollowsByAction
<1> QED BY <1>4, <1>5

\* What the first item of the queue resolves to keeps the meaning of references.
LEMMA ResolvedUpdatesKeepMeaning ==
    ASSUME IInv, StatementInv, ReferencesAreIndependent(schema), ClosureInv, MeaningInv,
           stmt.kind \in {"delete", "update"}, 1 \in DOMAIN queue,
           NEW t \in Tables, NEW e \in ChildUpdates(queue[1], t)
    PROVE  UpdateIsResolved(t, e)
<1>0. TypeOK
    BY DEF IInv
<1>1. queue[1] \in WorkItem
    BY QueuedTables DEF IInv
<1>2. PICK ref \in Impacted(queue[1]) : ComesOf(queue[1], t, e, ref)
    BY <1>1, ResolvedUpdate
<1>3. /\ SameKeys(t, e.new, e.old)
      /\ \A g \in active : schema.fks[g].child = t /\ g # ref[2] =>
             Project(e.new, schema.fks[g].columns) = Project(e.old, schema.fks[g].columns)
      /\ \A c \in Columns : ~ IsReference(t, c) => e.new[c] = e.old[c]
    BY <1>0, <1>2, OneReferenceWritten
<1>4. ~ Requested(t, e.row) => KeepsMeaning(t, e.row, e.old, e.new)
    <2> SUFFICES ASSUME ~ Requested(t, e.row) PROVE KeepsMeaning(t, e.row, e.old, e.new)
        OBVIOUS
    <2>1. Follows(ref[2], e.row, e.new)
        BY <1>2, ResolvedFollows
    <2> QED BY <1>3, <2>1 DEF KeepsMeaning
<1>5. e.row \in Alive(db, t) /\ e.old = work[t][e.row].vals
    BY <1>2 DEF ComesOf
<1> QED BY <1>3, <1>4, <1>5 DEF UpdateIsResolved

\* A row is updated once by an item: it has one reference to the item's table, and to
\* one row of it.
LEMMA ResolvedOnce ==
    ASSUME IInv, StatementInv, ReferencesAreIndependent(schema), ClosureInv, MeaningInv,
           stmt.kind \in {"delete", "update"}, 1 \in DOMAIN queue,
           NEW t \in Tables, NEW d \in ChildUpdates(queue[1], t), NEW e \in ChildUpdates(queue[1], t),
           d.row = e.row
    PROVE  d.new = e.new
<1> DEFINE item == queue[1]
<1>1. item \in WorkItem
    BY QueuedTables DEF IInv
<1>2. stmt.kind = "delete" => ItemIsResolved(item)
    BY DEF ClosureInv, QueueIsResolved
<1> HIDE DEF item
<1>3. PICK x \in Impacted(item) : ComesOf(item, t, d, x)
    BY <1>1, ResolvedUpdate DEF item
<1>4. PICK y \in Impacted(item) : ComesOf(item, t, e, y)
    BY <1>1, ResolvedUpdate DEF item
<1>5. PICK f \in active : x[2] = f /\ y[2] = f
    <2>1. /\ x[2] \in active /\ x[2] \in DOMAIN schema.fks /\ y[2] \in DOMAIN schema.fks
          /\ schema.fks[x[2]].child = schema.fks[y[2]].child
          /\ schema.fks[x[2]].parent = schema.fks[y[2]].parent
        BY <1>3, <1>4 DEF ComesOf
    <2> QED BY <2>1 DEF ReferencesAreIndependent, ReferencesAreSeparate
<1>6. PICK fk : fk = schema.fks[f]
    OBVIOUS
<1>7. /\ d.old = e.old /\ fk.parent = item.table /\ x[1] \in item.rows /\ y[1] \in item.rows
      /\ Project(x[1].old, fk.parentColumns) = Project(y[1].old, fk.parentColumns)
      /\ \/ ReferentialAction(item, fk) = "setNull" /\ d.new = WithNullKey(d.old, fk)
         \/ ReferentialAction(item, fk) = "cascade" /\ d.new = WithParentKey(d.old, fk, x[1].new)
      /\ \/ ReferentialAction(item, fk) = "setNull" /\ e.new = WithNullKey(e.old, fk)
         \/ ReferentialAction(item, fk) = "cascade" /\ e.new = WithParentKey(e.old, fk, y[1].new)
    BY <1>3, <1>4, <1>5, <1>6 DEF ComesOf
<1>8. CASE stmt.kind = "delete"
    <2>1. d.new = WithNullKey(d.old, fk)
        BY <1>1, <1>2, <1>3, <1>5, <1>6, <1>8, DeleteNulls
    <2>2. e.new = WithNullKey(e.old, fk)
        BY <1>1, <1>2, <1>4, <1>5, <1>6, <1>8, DeleteNulls
    <2> QED BY <1>7, <2>1, <2>2
<1>9. CASE stmt.kind = "update"
    <2>1. IsFresh /\ x[1].row \in Alive(db, fk.parent)
        BY <1>3, <1>5, <1>6, <1>9, UpdateFollowsReferences DEF MeaningInv, item
    <2>2. y[1].row \in Alive(db, fk.parent)
        BY <1>4, <1>5, <1>6, <1>9, UpdateFollowsReferences DEF MeaningInv, item
    <2>3. \A z \in item.rows : z.old = db[fk.parent][z.row].vals /\ z.new = work[fk.parent][z.row].vals
        BY <1>7, <2>1 DEF IsFresh, item
    <2>4. fk.parent \in Tables
        BY <1>6, KeyColumnsType DEF IInv
    <2>5. db[fk.parent][x[1].row].vals \in schema.allowed[fk.parent]
        BY <2>1, <2>4, ResolvedRow
    <2>6. ~ HasNull(Project(db[fk.parent][x[1].row].vals, fk.parentColumns))
        BY <1>6, <2>5, ParentKeysHaveNoNull DEF IInv, ReferencesAreIndependent
    <2>7. Project(db[fk.parent][x[1].row].vals, fk.parentColumns)
              = Project(db[fk.parent][y[1].row].vals, fk.parentColumns)
        BY <1>7, <2>3
    <2>8. x[1].row = y[1].row
        BY <1>6, <2>1, <2>2, <2>6, <2>7, OneRowPerKey
    <2>9. x[1].new = y[1].new
        BY <1>7, <2>3, <2>8
    <2> QED BY <1>7, <2>9
<1> QED BY <1>8, <1>9

\* A reference that waits for the first item is resolved by it.
LEMMA ReferenceIsResolved ==
    ASSUME IInv, StatementInv, ClosureInv, MeaningInv, ReferencesAreIndependent(schema),
           stmt.kind \in {"delete", "update"}, 1 \in DOMAIN queue, ~ Restricted(queue[1]),
           NEW f \in active,
           NEW r \in Alive(work, schema.fks[f].child), NEW p \in Alive(db, schema.fks[f].parent),
           Referenced(schema.fks[f], r, p), Moved(f, p), ~ Requested(schema.fks[f].child, r),
           queue[1].table = schema.fks[f].parent, queue[1].kind = stmt.kind,
           NEW e \in queue[1].rows, e.row = p,
           SameKeys(schema.fks[f].parent, e.old, db[schema.fks[f].parent][p].vals)
    PROVE  \/ r \in RowsIn(ChildDeletes(queue[1], schema.fks[f].child))
           \/ ActionOn(f, p) = "noAction"
           \/ Follows(f, r, work[schema.fks[f].child][r].vals)
           \/ \E d \in ChildUpdates(queue[1], schema.fks[f].child) : d.row = r /\ Follows(f, r, d.new)
<1>18. TypeOK
    BY DEF IInv
<1>0. PICK fk : fk = schema.fks[f]
    OBVIOUS
<1>1. PICK item : item = queue[1] /\ item \in WorkItem
    BY QueuedTables DEF IInv
<1>2. /\ fk.child \in Tables /\ fk.parent \in Tables
      /\ fk.onDelete \in Action /\ fk.onUpdate \in Action
    BY <1>0, KeyColumnsType, ForeignKeyType DEF IInv, ForeignKey
<1>3. PICK vals : vals = work[fk.child][r].vals
    OBVIOUS
<1> SUFFICES ASSUME ~ Follows(f, r, vals), ActionOn(f, p) # "noAction"
             PROVE  \/ r \in RowsIn(ChildDeletes(item, fk.child))
                    \/ \E d \in ChildUpdates(item, fk.child) : d.row = r /\ Follows(f, r, d.new)
    BY <1>0, <1>1, <1>3
<1>4. r \in Alive(db, fk.child) /\ r \in DOMAIN db[fk.child] /\ r \in DOMAIN work[fk.child]
    BY <1>0, <1>2 DEF Alive, StatementInv
<1>5. Project(vals, fk.columns) = Project(db[fk.child][r].vals, fk.columns)
    BY <1>0, <1>2, <1>3, <1>4 DEF MeaningInv, RowsKeepMeaning, KeepsMeaning
<1>6. /\ Project(e.old, fk.parentColumns) = Project(db[fk.parent][p].vals, fk.parentColumns)
      /\ Project(db[fk.parent][p].vals, fk.parentColumns) = Project(db[fk.child][r].vals, fk.columns)
    BY <1>0 DEF SameKeys, Referenced
<1>7. ~ (work[fk.parent][p].alive
             /\ Project(work[fk.parent][p].vals, fk.parentColumns) = Project(e.old, fk.parentColumns))
    <2>1. p \notin Alive(work, fk.parent) => ~ work[fk.parent][p].alive
        BY <1>0, <1>2, ResolvedRow
    <2> QED BY <1>0, <1>6, <2>1 DEF Moved
<1>8. IsImpacted(item, e, fk, r)
    BY <1>0, <1>1, <1>3, <1>5, <1>6, <1>7 DEF IsImpacted
<1> DEFINE ref == <<e, f, r>>
<1>9. ref[1] = e /\ ref[2] = f /\ ref[3] = r
    OBVIOUS
<1>10. ref \in Impacted(item)
    BY <1>0, <1>1, <1>2, <1>4, <1>8 DEF Impacted
<1> HIDE DEF ref
<1> DEFINE d == ChildEntry(item, ref)
<1>11. /\ d.row = r /\ d.old = vals
       /\ ReferentialAction(item, fk) = "setNull" => d.new = WithNullKey(vals, fk)
       /\ ReferentialAction(item, fk) # "setNull" /\ item.kind = "update" =>
              d.new = WithParentKey(vals, fk, e.new)
    BY <1>0, <1>1, <1>3, <1>9, <1>10, ImpactedRow
<1>12. ReferentialAction(item, fk) # "restrict"
    BY <1>0, <1>1, <1>9, <1>10 DEF Restricted
<1>13. ReferentialAction(item, fk) = ActionOn(f, p)
    <2>1. CASE stmt.kind = "delete"
        BY <1>0, <1>1, <2>1, DeadOnesMove DEF ReferentialAction, ActionOn, ClosureInv
    <2>2. CASE stmt.kind = "update"
        BY <1>0, <1>1, <1>2, <2>2 DEF ReferentialAction, ActionOn, StatementInv
    <2> QED BY <2>1, <2>2
<1>14. CASE stmt.kind = "delete" /\ ReferentialAction(item, fk) = "cascade"
    <2>1. fk.onDelete = "cascade" /\ item.kind = "delete"
        BY <1>1, <1>14 DEF ReferentialAction
    <2>2. d \in ChildDeletes(item, fk.child)
        BY <1>0, <1>9, <1>10, <1>11, <2>1 DEF ChildDeletes
    <2> QED BY <1>11, <2>2 DEF RowsIn
<1>15. CASE ReferentialAction(item, fk) = "setNull"
    <2>1. d.new = WithNullKey(vals, schema.fks[f])
        BY <1>0, <1>11, <1>15
    <2>2. Follows(f, r, d.new)
        BY <1>0, <1>13, <1>15, <1>18, <2>1, FollowsByAction
    <2>4. d \in ChildUpdates(item, fk.child)
        BY <1>0, <1>9, <1>10, <1>11, <1>15, <2>2 DEF ChildUpdates
    <2> QED BY <1>11, <2>2, <2>4
<1>16. CASE stmt.kind = "update" /\ ReferentialAction(item, fk) = "cascade"
    <2>1. item.kind = "update"
        BY <1>1, <1>16
    <2>2. IsFresh /\ p \in Alive(work, fk.parent)
        BY <1>0, <1>1, <1>9, <1>10, <1>16, UpdateFollowsReferences DEF MeaningInv
    <2>3. e.new = work[fk.parent][p].vals
        BY <1>0, <1>1, <2>2 DEF IsFresh
    <2>5. d.new = WithParentKey(vals, schema.fks[f], work[schema.fks[f].parent][p].vals)
        BY <1>0, <1>11, <1>16, <2>1, <2>3
    <2>6. Follows(f, r, d.new)
        BY <1>0, <1>13, <1>16, <1>18, <2>2, <2>5, FollowsByAction
    <2>7. d \in ChildUpdates(item, fk.child)
        BY <1>0, <1>9, <1>10, <1>11, <1>16, <2>1, <2>6 DEF ChildUpdates
    <2> QED BY <1>11, <2>6, <2>7
<1>17. ReferentialAction(item, fk) \in Action
    BY <1>2 DEF ReferentialAction
<1> QED BY <1>12, <1>13, <1>14, <1>15, <1>16, <1>17 DEF Action

-----------------------------------------------------------------------------
(* Every step keeps the meaning of references                                *)

\* What does not depend on the working snapshot stays.
LEMMA SameSnapshots ==
    ASSUME UNCHANGED <<schema, active, db, stmt>>
    PROVE  /\ \A t, u, v : SameKeys(t, u, v)' <=> SameKeys(t, u, v)
           /\ \A t, r : Requested(t, r)' <=> Requested(t, r)
           /\ \A fk, r, p : Referenced(fk, r, p)' <=> Referenced(fk, r, p)
           /\ \A t : Alive(db, t)' = Alive(db, t)
BY DEF SameKeys, Requested, Referenced, Alive

LEMMA SameWork ==
    ASSUME UNCHANGED <<schema, active, db, work, stmt>>
    PROVE  /\ RowsKeepMeaning => RowsKeepMeaning'
           /\ \A f, p : Moved(f, p)' <=> Moved(f, p)
           /\ \A f, p : ActionOn(f, p)' = ActionOn(f, p)
           /\ \A f \in active : \A r, vals : Follows(f, r, vals) => Follows(f, r, vals)'
           /\ \A t, e : UpdateIsResolved(t, e) => UpdateIsResolved(t, e)'
           /\ \A item : IsInert(item) => IsInert(item)'
<1>1. MovesStay
    <2>1. work' = work
        OBVIOUS
    <2> QED BY <2>1 DEF MovesStay
<1>2. /\ \A f \in active : \A r, vals : Follows(f, r, vals) => Follows(f, r, vals)'
      /\ \A t, r, u, v : KeepsMeaning(t, r, u, v) => KeepsMeaning(t, r, u, v)'
    BY <1>1, MeaningStays
<1>3. /\ \A t, u, v : SameKeys(t, u, v)' <=> SameKeys(t, u, v)
      /\ \A t, r : Requested(t, r)' <=> Requested(t, r)
      /\ \A t : Alive(db, t)' = Alive(db, t) /\ Alive(work, t)' = Alive(work, t)
    BY SameSnapshots DEF Alive
<1>4. RowsKeepMeaning => RowsKeepMeaning'
    <2> SUFFICES ASSUME RowsKeepMeaning, NEW t \in Tables, NEW r \in DOMAIN db[t], ~ Requested(t, r)
                 PROVE  KeepsMeaning(t, r, db[t][r].vals, work[t][r].vals)'
        BY <1>3 DEF RowsKeepMeaning
    <2>1. KeepsMeaning(t, r, db[t][r].vals, work[t][r].vals)
        BY DEF RowsKeepMeaning
    <2>2. PICK u, v : u = db[t][r].vals /\ v = work[t][r].vals
        OBVIOUS
    <2>3. u = db'[t][r].vals /\ v = work'[t][r].vals
        BY <2>2
    <2>4. KeepsMeaning(t, r, u, v)'
        BY <1>2, <2>1, <2>2
    <2> QED BY <2>3, <2>4
<1>5. \A f, p : Moved(f, p)' <=> Moved(f, p)
    BY <1>3 DEF Moved
<1>6. \A f, p : ActionOn(f, p)' = ActionOn(f, p)
    BY <1>3 DEF ActionOn
<1>7. \A t, e : UpdateIsResolved(t, e) => UpdateIsResolved(t, e)'
    BY <1>2, <1>3 DEF UpdateIsResolved
<1>8. \A item : IsInert(item) => IsInert(item)'
    BY <1>3 DEF IsInert
<1> QED BY <1>2, <1>4, <1>5, <1>6, <1>7, <1>8

LEMMA ResolveItemKeepsMeaning ==
    ASSUME IInv, StatementInv, ReferencesAreIndependent(schema), ClosureInv, MeaningInv,
           stmt.kind \in {"delete", "update"}, ResolveItem
    PROVE  MeaningInv'
<1>1. /\ ~ Restricted(queue[1]) /\ 1 \in DOMAIN queue
      /\ \A i \in DOMAIN queue' : i + 1 \in DOMAIN queue /\ queue'[i] = queue[i + 1]
      /\ \A i \in DOMAIN queue : i # 1 => i - 1 \in DOMAIN queue' /\ queue'[i - 1] = queue[i]
    BY ResolvedQueue DEF ResolveItem
<1>2. /\ \A t \in Tables : /\ deletes[t] = {} /\ updates[t] = {}
                           /\ deletes'[t] = ChildDeletes(queue[1], t)
                           /\ updates'[t] = ChildUpdates(queue[1], t)
      /\ UNCHANGED <<schema, active, db, work, stmt>>
    <2>1. Head(queue) = queue[1]
        BY ResolvedQueue
    <2> QED BY <2>1 DEF ResolveItem, NoPending, NothingPending
<1>3. RowsKeepMeaning /\ UpdatesKeepMeaning /\ NoReferenceForgotten /\ UpdateReachesOneLevel
    BY DEF MeaningInv
<1>4. RowsKeepMeaning'
    BY <1>2, <1>3, SameWork
<1>5. UpdatesKeepMeaning'
    <2> SUFFICES ASSUME NEW t \in Tables, NEW e \in updates'[t]
                 PROVE  UpdateIsResolved(t, e)' /\ \A d \in updates'[t] : d.row = e.row => d.new = e.new
        BY DEF UpdatesKeepMeaning
    <2>1. UpdateIsResolved(t, e)
        BY <1>1, <1>2, ResolvedUpdatesKeepMeaning
    <2>2. \A d \in updates'[t] : d.row = e.row => d.new = e.new
        BY <1>1, <1>2, ResolvedOnce
    <2>3. UpdateIsResolved(t, e)'
        BY <1>2, <2>1, SameWork
    <2> QED BY <2>2, <2>3
<1>6. \A f, r, p, fk : /\ Moved(f, p)' <=> Moved(f, p)
                       /\ ActionOn(f, p)' = ActionOn(f, p)
                       /\ Referenced(fk, r, p)' <=> Referenced(fk, r, p)
    BY <1>2, SameWork, SameSnapshots
<1>7. /\ \A t : Alive(db, t)' = Alive(db, t) /\ Alive(work, t)' = Alive(work, t)
      /\ \A t, r : Requested(t, r)' <=> Requested(t, r)
      /\ \A t, u, v : SameKeys(t, u, v)' <=> SameKeys(t, u, v)
    BY <1>2, SameSnapshots DEF Alive
<1>8. \A f \in active : \A r, vals : Follows(f, r, vals) => Follows(f, r, vals)'
    BY <1>2, SameWork
<1>9. ASSUME NEW f \in active, NEW r \in Alive(db, schema.fks[f].child),
             NEW p \in Alive(db, schema.fks[f].parent),
             Referenced(schema.fks[f], r, p), Moved(f, p), ~ Requested(schema.fks[f].child, r),
             ActionOn(f, p) # "noAction", ~ Follows(f, r, work[schema.fks[f].child][r].vals)
      PROVE  \/ Waits(schema.fks[f].parent, p)'
             \/ IsTaken(schema.fks[f].child, r)'
             \/ \E e \in updates'[schema.fks[f].child] : e.row = r /\ Follows(f, r, e.new)'
    <2> DEFINE child == schema.fks[f].child
               parent == schema.fks[f].parent
    <2>1. child \in Tables /\ parent \in Tables
        BY KeyColumnsType DEF IInv
    <2>2. CASE r \notin Alive(work, child)
        BY <1>2, <1>7, <2>2 DEF IsTaken
    <2>3. CASE r \in Alive(work, child)
        <3>1. Waits(parent, p)
            BY <1>2, <1>3, <1>9, <2>1, <2>3 DEF NoReferenceForgotten, IsTaken, RowsIn
        <3>2. PICK i \in DOMAIN queue :
                  /\ queue[i].table = parent /\ queue[i].kind = stmt.kind
                  /\ \E e \in queue[i].rows : e.row = p /\ SameKeys(parent, e.old, db[parent][p].vals)
            BY <3>1 DEF Waits
        <3>3. CASE i # 1
            <4>1. i - 1 \in DOMAIN queue' /\ queue'[i - 1] = queue[i]
                BY <1>1, <3>3
            <4>2. PICK e \in queue[i].rows : e.row = p /\ SameKeys(parent, e.old, db[parent][p].vals)
                BY <3>2
            <4>3. PICK q : q = db[parent][p].vals
                OBVIOUS
            <4>4. SameKeys(parent, e.old, db[parent][p].vals)'
                BY <1>2, <1>7, <4>2, <4>3 DEF SameKeys
            <4>5. Waits(parent, p)'
                BY <1>2, <3>2, <4>1, <4>2, <4>4 DEF Waits
            <4> QED BY <4>5
        <3>4. CASE i = 1
            <4>1. PICK e \in queue[1].rows : e.row = p /\ SameKeys(parent, e.old, db[parent][p].vals)
                BY <3>2, <3>4
            <4>2. \/ r \in RowsIn(ChildDeletes(queue[1], child))
                  \/ \E d \in ChildUpdates(queue[1], child) : d.row = r /\ Follows(f, r, d.new)
                BY <1>1, <1>9, <2>3, <3>2, <3>4, <4>1, ReferenceIsResolved
            <4>3. CASE r \in RowsIn(ChildDeletes(queue[1], child))
                BY <1>2, <1>7, <2>1, <4>3 DEF IsTaken
            <4>4. CASE \E d \in ChildUpdates(queue[1], child) : d.row = r /\ Follows(f, r, d.new)
                BY <1>2, <1>8, <2>1, <4>4
            <4> QED BY <4>2, <4>3, <4>4
        <3> QED BY <3>3, <3>4
    <2> QED BY <2>2, <2>3
<1>10. NoReferenceForgotten'
    <2> SUFFICES ASSUME NEW f \in active, NEW r \in Alive(db, schema.fks[f].child),
                        NEW p \in Alive(db, schema.fks[f].parent),
                        Referenced(schema.fks[f], r, p), Moved(f, p), ~ Requested(schema.fks[f].child, r)
                 PROVE  \/ Waits(schema.fks[f].parent, p)'
                        \/ IsTaken(schema.fks[f].child, r)'
                        \/ ActionOn(f, p) = "noAction"
                        \/ Follows(f, r, work[schema.fks[f].child][r].vals)'
                        \/ \E e \in updates'[schema.fks[f].child] : e.row = r /\ Follows(f, r, e.new)'
        BY <1>2, <1>6, <1>7 DEF NoReferenceForgotten
    <2>1. CASE Follows(f, r, work[schema.fks[f].child][r].vals)
        <3>1. PICK v : v = work[schema.fks[f].child][r].vals
            OBVIOUS
        <3>2. Follows(f, r, v)'
            BY <1>8, <2>1, <3>1
        <3>3. v = work'[schema'.fks[f].child][r].vals
            BY <1>2, <3>1
        <3> QED BY <3>2, <3>3
    <2> QED BY <1>9, <2>1
<1>11. UpdateReachesOneLevel'
    <2> SUFFICES ASSUME stmt.kind = "update"
                 PROVE  \A i \in DOMAIN queue' :
                            /\ queue'[i].kind = "update"
                            /\ \A e \in queue'[i].rows : e.row \in Alive(db', queue'[i].table)
                            /\ IsInert(queue[i])'
        BY <1>2 DEF UpdateReachesOneLevel
    <2> SUFFICES ASSUME NEW i \in DOMAIN queue'
                 PROVE  /\ queue'[i].kind = "update"
                        /\ \A e \in queue'[i].rows : e.row \in Alive(db', queue'[i].table)
                        /\ IsInert(queue'[i])
        BY <1>2, <1>7 DEF IsInert
    <2>1. i + 1 \in DOMAIN queue /\ queue'[i] = queue[i + 1]
        BY <1>1
    <2>2. /\ queue[i + 1].kind = "update"
          /\ \A e \in queue[i + 1].rows : e.row \in Alive(db, queue[i + 1].table)
          /\ IsFresh \/ IsInert(queue[i + 1])
        BY <1>3, <2>1 DEF UpdateReachesOneLevel
    <2>3. ~ IsFresh
        <3>1. queue \in Seq(WorkItem) /\ DOMAIN queue = 1 .. Len(queue)
            BY LenProperties DEF IInv, TypeOK
        <3>2. queue' \in Seq(WorkItem) /\ DOMAIN queue' = 1 .. Len(queue') /\ Len(queue') \in Nat
            BY ResolvedQueue, LenProperties
        <3> QED BY <2>1, <3>1, <3>2 DEF IsFresh
    <2> QED BY <1>2, <2>1, <2>2, <2>3
<1> QED BY <1>2, <1>4, <1>5, <1>10, <1>11 DEF MeaningInv

\* The rows a DELETE was asked to delete wait for what references them.
LEMMA BeginDeleteKeepsMeaning ==
    ASSUME IInv, StatementInv, NEW t \in Tables, NEW rows \in SUBSET Alive(db, t),
           BeginDelete(t, rows)
    PROVE  MeaningInv'
<1> DEFINE entry(r) == [pos |-> r, row |-> r, old |-> db[t][r].vals, new |-> db[t][r].vals]
           entries == {entry(r) : r \in rows}
           item    == [kind |-> "delete", table |-> t, rows |-> entries]
<1>1. /\ Idle
      /\ work' = RemoveRows(db, t, rows)
      /\ queue' = <<item>>
      /\ stmt' = [kind |-> "delete", table |-> t, rows |-> rows]
      /\ UNCHANGED <<schema, active, db, deletes, updates>>
    BY DEF BeginDelete
<1>2. db \in Database
    BY DEF IInv, TypeOK
<1>3. /\ \A u \in Tables : /\ DOMAIN work'[u] = DOMAIN db[u]
                           /\ \A r \in DOMAIN db[u] : work'[u][r].vals = db[u][r].vals
      /\ Alive(work', t) = Alive(db, t) \ rows
      /\ \A u \in Tables : u # t => work'[u] = db[u]
    BY <1>1, <1>2, RemoveRowsEffect, RemoveRowsElsewhere
<1>4. \A u \in Tables : u # t => Alive(work', u) = Alive(db, u)
    BY <1>3 DEF Alive
<1>5. \A u \in Tables : updates'[u] = {}
    BY <1>1 DEF StatementInv, NoPending, NothingPending
<1>6. \A r \in rows : /\ entry(r) \in entries /\ entry(r).row = r
                      /\ entry(r).old = db[t][r].vals
    OBVIOUS
<1>7. item.kind = "delete" /\ item.table = t /\ item.rows = entries
    OBVIOUS
<1> HIDE DEF entries, item, entry
<1>8. 1 \in DOMAIN queue' /\ queue'[1] = item /\ stmt'.kind = "delete"
    BY <1>1
<1>9. \A u, v, r : KeepsMeaning(u, r, v, v)' /\ SameKeys(u, v, v)'
    BY DEF KeepsMeaning, SameKeys
<1>10. RowsKeepMeaning'
    BY <1>1, <1>3, <1>9 DEF RowsKeepMeaning
<1>11. UpdatesKeepMeaning'
    BY <1>5 DEF UpdatesKeepMeaning
<1>12. ASSUME NEW f \in active, NEW p \in Alive(db, schema.fks[f].parent), Moved(f, p)'
       PROVE  Waits(schema.fks[f].parent, p)'
    <2>1. schema.fks[f].parent \in Tables
        BY KeyColumnsType DEF IInv
    <2>2. p \in DOMAIN db[schema.fks[f].parent]
        BY DEF Alive
    <2>3. p \notin Alive(work', schema.fks[f].parent)
        BY <1>1, <1>3, <1>12, <2>1, <2>2 DEF Moved, Alive
    <2>4. schema.fks[f].parent = t /\ p \in rows
        BY <1>3, <1>4, <2>1, <2>3
    <2>5. PICK e \in item.rows : e.row = p /\ e.old = db[t][p].vals
        BY <1>6, <1>7, <2>4
    <2>6. SameKeys(t, e.old, db[t][p].vals)'
        BY <1>1, <2>5 DEF SameKeys
    <2> QED BY <1>1, <1>7, <1>8, <2>4, <2>5, <2>6 DEF Waits
<1>13. NoReferenceForgotten'
    BY <1>1, <1>12 DEF NoReferenceForgotten, Alive
<1> QED BY <1>8, <1>10, <1>11, <1>13 DEF MeaningInv, UpdateReachesOneLevel

\* So do the rows an UPDATE was asked to change, and it has changed no others.
LEMMA BeginUpdateKeepsMeaning ==
    ASSUME IInv, IInv', StatementInv, NEW t \in Tables, NEW new \in NewRows(t), BeginUpdate(t, new)
    PROVE  MeaningInv'
<1> DEFINE entry(r) == [pos |-> r, row |-> r, old |-> db[t][r].vals, new |-> new[r]]
           entries == {entry(r) : r \in DOMAIN new}
           item    == [kind |-> "update", table |-> t, rows |-> entries]
<1>1. /\ Idle
      /\ work' = OverwriteRows(db, t, entries)
      /\ queue' = <<item>>
      /\ stmt' = [kind |-> "update", table |-> t, rows |-> DOMAIN new]
      /\ UNCHANGED <<schema, active, db, deletes, updates>>
    BY DEF BeginUpdate
<1>2. db \in Database /\ DOMAIN new \subseteq Alive(db, t)
    BY DEF IInv, TypeOK, NewRows
<1>3. \A r \in DOMAIN new : /\ entry(r) \in entries /\ entry(r).row = r
                            /\ entry(r).old = db[t][r].vals
    OBVIOUS
<1>4. \A e \in entries : e.row \in DOMAIN new /\ e.old = db[t][e.row].vals /\ e.new = new[e.row]
    OBVIOUS
<1>5. item.kind = "update" /\ item.table = t /\ item.rows = entries
    OBVIOUS
<1> HIDE DEF entries, item, entry
<1>6. /\ 1 \in DOMAIN queue' /\ DOMAIN queue' = {1} /\ Len(queue') = 1 /\ queue'[1] = item
      /\ stmt'.kind = "update" /\ stmt'.table = t /\ stmt'.rows = DOMAIN new
    BY <1>1
<1>7. entries \in SUBSET Entry /\ IsFiniteSet(entries)
    <2>1. queue' \in Seq(WorkItem) /\ IsFiniteSet(queue'[1].rows)
        BY <1>6 DEF IInv, FiniteWork, TypeOK
    <2>2. item \in WorkItem
        BY <1>6, <2>1
    <2> QED BY <1>5, <1>6, <2>1, <2>2 DEF WorkItem
<1>8. /\ \A u \in Tables : /\ DOMAIN work'[u] = DOMAIN db[u]
                           /\ Alive(work', u) = Alive(db, u)
                           /\ u # t => work'[u] = db[u]
      /\ \A r \in DOMAIN db[t] :
             \/ work'[t][r].vals = db[t][r].vals
             \/ \E e \in entries : e.row = r /\ work'[t][r].vals = e.new
    BY <1>1, <1>2, <1>7, OverwriteRowsEffect
<1>9. \A e \in entries : e.new = work'[t][e.row].vals
    <2> SUFFICES ASSUME NEW e \in entries PROVE e.new = work'[t][e.row].vals
        OBVIOUS
    <2>1. e.row \in DOMAIN db[t]
        BY <1>2, <1>4 DEF Alive
    <2>2. \E d \in entries : d.row = e.row /\ work'[t][e.row].vals = d.new
        BY <1>1, <1>2, <1>7, <2>1, ListedRowIsWritten
    <2> QED BY <1>4, <2>2
<1>10. \A u \in Tables : \A r \in DOMAIN db[u] :
           ~ (u = t /\ r \in DOMAIN new) => work'[u][r].vals = db[u][r].vals
    BY <1>4, <1>8
<1>11. \A u, r : Requested(u, r)' <=> u = t /\ r \in DOMAIN new
    BY <1>6 DEF Requested
<1>12. NoPending' /\ \A u \in Tables : updates'[u] = {}
    BY <1>1 DEF StatementInv, NoPending, NothingPending
<1>13. \A u, v, r : KeepsMeaning(u, r, v, v)'
    BY DEF KeepsMeaning
<1>14. RowsKeepMeaning'
    <2> SUFFICES ASSUME NEW u \in Tables, NEW r \in DOMAIN db[u], ~ (u = t /\ r \in DOMAIN new)
                 PROVE  KeepsMeaning(u, r, db[u][r].vals, work[u][r].vals)'
        BY <1>1, <1>11 DEF RowsKeepMeaning
    <2>1. work'[u][r].vals = db'[u][r].vals
        BY <1>1, <1>10
    <2> QED BY <1>13, <2>1
<1>15. UpdatesKeepMeaning'
    BY <1>12 DEF UpdatesKeepMeaning
<1>16. ASSUME NEW f \in active, NEW p \in Alive(db, schema.fks[f].parent), Moved(f, p)'
       PROVE  Waits(schema.fks[f].parent, p)'
    <2>1. schema.fks[f].parent \in Tables
        BY KeyColumnsType DEF IInv
    <2>2. p \in DOMAIN db[schema.fks[f].parent]
        BY DEF Alive
    <2>3. p \in Alive(work', schema.fks[f].parent)
        BY <1>8, <2>1
    <2>4. work'[schema.fks[f].parent][p].vals # db[schema.fks[f].parent][p].vals
        BY <1>1, <1>16, <2>3 DEF Moved, Alive
    <2>5. schema.fks[f].parent = t /\ p \in DOMAIN new
        BY <1>10, <2>1, <2>2, <2>4
    <2>6. PICK e \in item.rows : e.row = p /\ e.old = db[t][p].vals
        BY <1>3, <1>5, <2>5
    <2>7. SameKeys(t, e.old, db[t][p].vals)'
        BY <1>1, <2>6 DEF SameKeys
    <2> QED BY <1>1, <1>5, <1>6, <2>5, <2>6, <2>7 DEF Waits
<1>17. NoReferenceForgotten'
    BY <1>1, <1>16 DEF NoReferenceForgotten, Alive
<1>18. IsFresh'
    BY <1>1, <1>4, <1>5, <1>6, <1>9, <1>10, <1>11, <1>12 DEF IsFresh
<1>19. UpdateReachesOneLevel'
    <2>1. \A i \in DOMAIN queue' : /\ queue'[i].kind = "update"
                                   /\ \A e \in queue'[i].rows : e.row \in Alive(db, queue'[i].table)
        BY <1>2, <1>4, <1>5, <1>6
    <2> QED BY <1>1, <1>18, <2>1 DEF UpdateReachesOneLevel, Alive
<1> QED BY <1>14, <1>15, <1>17, <1>19 DEF MeaningInv

\* The rows that a DELETE takes along wait as the requested ones did.
LEMMA ApplyResolvedDeletesKeepsMeaning ==
    ASSUME IInv, StatementInv, ClosureInv, MeaningInv, stmt.kind = "delete",
           NEW t \in Tables, ApplyResolvedDeletes(t)
    PROVE  MeaningInv'
<1> DEFINE item == [kind |-> "delete", table |-> t, rows |-> deletes[t]]
           gone == RowsIn(deletes[t])
<1>1. /\ work' = RemoveRows(work, t, gone)
      /\ queue' = Append(queue, item)
      /\ deletes' = [deletes EXCEPT ![t] = {}]
      /\ UNCHANGED <<schema, active, db, updates, stmt>>
    BY DEF ApplyResolvedDeletes, RowsIn
<1>2. item \in WorkItem /\ work \in Database
    BY DEF WorkItem, IInv, TypeOK, Pending
<1>3. item.kind = "delete" /\ item.table = t /\ item.rows = deletes[t]
    OBVIOUS
<1> HIDE DEF item
<1>4. /\ \A i \in DOMAIN queue : i \in DOMAIN queue' /\ queue'[i] = queue[i]
      /\ \E i \in DOMAIN queue' : queue'[i] = item
    BY <1>1, <1>2, AppendedQueue
<1>5. /\ \A u \in Tables : /\ DOMAIN work'[u] = DOMAIN work[u]
                           /\ \A r \in DOMAIN work[u] : work'[u][r].vals = work[u][r].vals
                           /\ Alive(work', u) \subseteq Alive(work, u)
      /\ Alive(work', t) = Alive(work, t) \ gone
      /\ \A u \in Tables : u # t => work'[u] = work[u]
    BY <1>1, <1>2, RemoveRowsEffect, RemoveRowsElsewhere
<1>6. \A u \in Tables : u # t => Alive(work', u) = Alive(work, u)
    BY <1>5 DEF Alive
<1>7. /\ deletes'[t] = {}
      /\ \A u \in Tables : u # t => deletes'[u] = deletes[u]
    BY <1>1 DEF IInv, TypeOK, Pending
<1>8. KeysStay /\ PendingIsResolved /\ RowsKeepMeaning /\ UpdatesKeepMeaning /\ NoReferenceForgotten
    BY DEF ClosureInv, MeaningInv
<1>9. \A u \in Tables : \A r \in Alive(db, u) : r \in DOMAIN work[u] /\ r \in DOMAIN db[u]
    BY ResolvedRow
<1>10. MovesStay
    <2> SUFFICES ASSUME NEW f \in active, NEW p \in Alive(db, schema.fks[f].parent), Moved(f, p)
                 PROVE  /\ p \notin Alive(work', schema.fks[f].parent)
                        /\ p \notin Alive(work, schema.fks[f].parent)
                        /\ Project(work'[schema.fks[f].parent][p].vals, schema.fks[f].parentColumns)
                               = Project(work[schema.fks[f].parent][p].vals, schema.fks[f].parentColumns)
        BY DEF MovesStay
    <2>1. schema.fks[f].parent \in Tables
        BY KeyColumnsType DEF IInv
    <2>2. p \notin Alive(work, schema.fks[f].parent)
        BY <1>8, DeadOnesMove
    <2>3. work'[schema.fks[f].parent][p].vals = work[schema.fks[f].parent][p].vals
        BY <1>5, <1>9, <2>1
    <2> QED BY <1>5, <2>1, <2>2, <2>3
<1>11. /\ \A f \in active : \A p \in Alive(db, schema.fks[f].parent) : Moved(f, p) =>
              Moved(f, p)' /\ ActionOn(f, p)' = ActionOn(f, p)
       /\ \A f \in active : \A r, vals : Follows(f, r, vals) => Follows(f, r, vals)'
       /\ \A u, r, v, w : KeepsMeaning(u, r, v, w) => KeepsMeaning(u, r, v, w)'
    BY <1>1, <1>10, MeaningStays
<1>12. /\ \A u, v, w : SameKeys(u, v, w)' <=> SameKeys(u, v, w)
       /\ \A u, r : Requested(u, r)' <=> Requested(u, r)
       /\ \A fk, r, p : Referenced(fk, r, p)' <=> Referenced(fk, r, p)
       /\ \A u : Alive(db, u)' = Alive(db, u)
    BY <1>1, SameSnapshots
<1>13. RowsKeepMeaning'
    <2> SUFFICES ASSUME NEW u \in Tables, NEW r \in DOMAIN db[u], ~ Requested(u, r)
                 PROVE  KeepsMeaning(u, r, db[u][r].vals, work[u][r].vals)'
        BY <1>1, <1>12 DEF RowsKeepMeaning
    <2>1. PICK v, w : v = db[u][r].vals /\ w = work[u][r].vals
        OBVIOUS
    <2>2. v = db'[u][r].vals /\ w = work'[u][r].vals
        BY <1>1, <1>5, <2>1 DEF StatementInv
    <2>3. KeepsMeaning(u, r, v, w)'
        BY <1>8, <1>11, <2>1 DEF RowsKeepMeaning
    <2> QED BY <2>2, <2>3
<1>14. UpdatesKeepMeaning'
    <2> SUFFICES ASSUME NEW u \in Tables, NEW e \in updates[u]
                 PROVE  UpdateIsResolved(u, e)' /\ \A d \in updates[u] : d.row = e.row => d.new = e.new
        BY <1>1 DEF UpdatesKeepMeaning
    <2>1. UpdateIsResolved(u, e) /\ \A d \in updates[u] : d.row = e.row => d.new = e.new
        BY <1>8 DEF UpdatesKeepMeaning
    <2>2. work'[u][e.row].vals = work[u][e.row].vals
        BY <1>5, <1>9, <2>1 DEF UpdateIsResolved
    <2> QED BY <1>11, <1>12, <2>1, <2>2 DEF UpdateIsResolved
<1>15. \A u \in Tables : \A p : Waits(u, p) => Waits(u, p)'
    <2> SUFFICES ASSUME NEW u \in Tables, NEW p, Waits(u, p) PROVE Waits(u, p)'
        OBVIOUS
    <2>1. PICK v : v = db[u][p].vals
        OBVIOUS
    <2>2. PICK i \in DOMAIN queue :
              /\ queue[i].table = u /\ queue[i].kind = stmt.kind
              /\ \E e \in queue[i].rows : e.row = p /\ SameKeys(u, e.old, v)
        BY <2>1 DEF Waits
    <2>3. i \in DOMAIN queue' /\ queue'[i] = queue[i]
        BY <1>4
    <2>4. PICK e \in queue'[i].rows : e.row = p /\ SameKeys(u, e.old, v)
        BY <2>2, <2>3
    <2>5. SameKeys(u, e.old, db[u][p].vals)'
        BY <1>1, <2>1, <2>4 DEF SameKeys
    <2> QED BY <1>1, <2>2, <2>3, <2>4, <2>5 DEF Waits
<1>16. \A p \in gone : Waits(t, p)'
    <2> SUFFICES ASSUME NEW p \in gone PROVE Waits(t, p)'
        OBVIOUS
    <2>1. PICK e \in deletes[t] : e.row = p
        BY DEF RowsIn
    <2>2. SameKeys(t, e.old, db[t][p].vals)
        BY <1>8, <2>1 DEF PendingIsResolved, Resolved, SameCascades
    <2>3. SameKeys(t, e.old, db[t][p].vals)'
        BY <1>1, <2>2 DEF SameKeys
    <2>4. PICK i \in DOMAIN queue' : queue'[i] = item
        BY <1>4
    <2> QED BY <1>1, <1>3, <2>1, <2>3, <2>4 DEF Waits
<1>17. \A u \in Tables : \A r : IsTaken(u, r) => IsTaken(u, r)'
    BY <1>1, <1>5, <1>6, <1>7 DEF IsTaken, RowsIn, Alive
<1>18. ASSUME NEW f \in active, NEW p \in Alive(db, schema.fks[f].parent), Moved(f, p)', ~ Moved(f, p)
       PROVE  Waits(schema.fks[f].parent, p)'
    <2>1. schema.fks[f].parent \in Tables
        BY KeyColumnsType DEF IInv
    <2>2. work'[schema.fks[f].parent][p].vals = work[schema.fks[f].parent][p].vals
        BY <1>5, <1>9, <2>1
    <2>3. p \in Alive(work, schema.fks[f].parent) /\ p \notin Alive(work', schema.fks[f].parent)
        BY <1>1, <1>18, <2>2 DEF Moved, Alive
    <2>4. schema.fks[f].parent = t /\ p \in gone
        BY <1>5, <1>6, <2>1, <2>3
    <2> QED BY <1>1, <1>16, <2>4
<1>19. NoReferenceForgotten'
    <2> SUFFICES ASSUME NEW f \in active, NEW r \in Alive(db, schema.fks[f].child),
                        NEW p \in Alive(db, schema.fks[f].parent),
                        Referenced(schema.fks[f], r, p), Moved(f, p), ~ Requested(schema.fks[f].child, r)
                 PROVE  \/ Waits(schema.fks[f].parent, p)'
                        \/ IsTaken(schema.fks[f].child, r)'
                        \/ ActionOn(f, p)' = "noAction"
                        \/ Follows(f, r, work[schema.fks[f].child][r].vals)'
                        \/ \E e \in updates'[schema.fks[f].child] : e.row = r /\ Follows(f, r, e.new)'
        BY <1>1, <1>12, <1>18 DEF NoReferenceForgotten
    <2>1. schema.fks[f].parent \in Tables /\ schema.fks[f].child \in Tables
        BY KeyColumnsType DEF IInv
    <2>2. \/ Waits(schema.fks[f].parent, p)
          \/ IsTaken(schema.fks[f].child, r)
          \/ ActionOn(f, p) = "noAction"
          \/ Follows(f, r, work[schema.fks[f].child][r].vals)
          \/ \E e \in updates[schema.fks[f].child] : e.row = r /\ Follows(f, r, e.new)
        BY <1>8 DEF NoReferenceForgotten
    <2>3. CASE Follows(f, r, work[schema.fks[f].child][r].vals)
        <3>1. PICK v : v = work[schema.fks[f].child][r].vals
            OBVIOUS
        <3>2. v = work'[schema'.fks[f].child][r].vals
            BY <1>1, <1>5, <1>9, <2>1, <3>1
        <3>3. Follows(f, r, v)'
            BY <1>11, <2>3, <3>1
        <3> QED BY <3>2, <3>3
    <2> QED BY <1>1, <1>11, <1>15, <1>17, <2>1, <2>2, <2>3
<1> QED BY <1>1, <1>13, <1>14, <1>19 DEF MeaningInv, UpdateReachesOneLevel

\* A resolved update moves no key by which its row is referenced, and what it does to the
\* references of the row is what they were waiting for.
LEMMA ApplyResolvedUpdatesKeepsMeaning ==
    ASSUME IInv, StatementInv, MeaningInv, stmt.kind \in {"delete", "update"},
           NEW t \in Tables, ApplyResolvedUpdates(t)
    PROVE  MeaningInv'
<1> DEFINE item == [kind |-> "update", table |-> t, rows |-> updates[t]]
<1>1. /\ IsFirstPending(updates, t)
      /\ work' = OverwriteRows(work, t, updates[t])
      /\ queue' = Append(queue, item)
      /\ updates' = [updates EXCEPT ![t] = {}]
      /\ UNCHANGED <<schema, active, db, deletes, stmt>>
    BY DEF ApplyResolvedUpdates
<1>2. /\ item \in WorkItem /\ work \in Database
      /\ updates[t] \in SUBSET Entry /\ IsFiniteSet(updates[t])
    BY DEF WorkItem, IInv, TypeOK, Pending, FiniteWork
<1>3. item.kind = "update" /\ item.table = t /\ item.rows = updates[t]
    OBVIOUS
<1> HIDE DEF item
<1>4. /\ \A i \in DOMAIN queue' : queue'[i] = item \/ \E j \in DOMAIN queue : queue'[i] = queue[j]
      /\ \A i \in DOMAIN queue : i \in DOMAIN queue' /\ queue'[i] = queue[i]
    BY <1>1, <1>2, AppendedQueue
<1>5. /\ \A u \in Tables : /\ DOMAIN work'[u] = DOMAIN work[u]
                           /\ Alive(work', u) = Alive(work, u)
                           /\ u # t => work'[u] = work[u]
      /\ \A r \in DOMAIN work[t] :
             \/ work'[t][r].vals = work[t][r].vals
             \/ \E e \in updates[t] : e.row = r /\ work'[t][r].vals = e.new
    BY <1>1, <1>2, OverwriteRowsEffect
<1>6. /\ updates'[t] = {}
      /\ \A u \in Tables : u # t => updates'[u] = updates[u]
    BY <1>1 DEF IInv, TypeOK, Pending
<1>7. RowsKeepMeaning /\ UpdatesKeepMeaning /\ NoReferenceForgotten /\ UpdateReachesOneLevel
    BY DEF MeaningInv
<1>8. \A u \in Tables : \A r \in Alive(db, u) : r \in DOMAIN work[u] /\ r \in DOMAIN db[u]
    BY ResolvedRow
<1>9. \A e \in updates[t] : /\ e.row \in DOMAIN work[t] /\ e.old = work[t][e.row].vals
                            /\ e.new = work'[t][e.row].vals
                            /\ SameKeys(t, e.new, e.old)
                            /\ ~ Requested(t, e.row) => KeepsMeaning(t, e.row, e.old, e.new)
    <2> SUFFICES ASSUME NEW e \in updates[t]
                 PROVE  /\ e.row \in DOMAIN work[t] /\ e.old = work[t][e.row].vals
                        /\ e.new = work'[t][e.row].vals
                        /\ SameKeys(t, e.new, e.old)
                        /\ ~ Requested(t, e.row) => KeepsMeaning(t, e.row, e.old, e.new)
        OBVIOUS
    <2>1. UpdateIsResolved(t, e) /\ \A d \in updates[t] : d.row = e.row => d.new = e.new
        BY <1>7 DEF UpdatesKeepMeaning
    <2>2. e.row \in DOMAIN work[t]
        BY <1>8, <2>1 DEF UpdateIsResolved
    <2>3. \E d \in updates[t] : d.row = e.row /\ work'[t][e.row].vals = d.new
        BY <1>1, <1>2, <2>2, ListedRowIsWritten
    <2> QED BY <2>1, <2>2, <2>3 DEF UpdateIsResolved
<1>10. \A u \in Tables : \A r \in DOMAIN work[u] : SameKeys(u, work'[u][r].vals, work[u][r].vals)
    <2> SUFFICES ASSUME NEW u \in Tables, NEW r \in DOMAIN work[u]
                 PROVE  SameKeys(u, work'[u][r].vals, work[u][r].vals)
        OBVIOUS
    <2>1. CASE work'[u][r].vals = work[u][r].vals
        BY <2>1 DEF SameKeys
    <2>2. CASE work'[u][r].vals # work[u][r].vals
        BY <1>5, <1>9, <2>2
    <2> QED BY <2>1, <2>2
<1>11. \A f \in active : \A p \in Alive(db, schema.fks[f].parent) :
           /\ schema.fks[f].parent \in Tables
           /\ p \in Alive(work', schema.fks[f].parent) <=> p \in Alive(work, schema.fks[f].parent)
           /\ Project(work'[schema.fks[f].parent][p].vals, schema.fks[f].parentColumns)
                  = Project(work[schema.fks[f].parent][p].vals, schema.fks[f].parentColumns)
    <2> SUFFICES ASSUME NEW f \in active, NEW p \in Alive(db, schema.fks[f].parent)
                 PROVE  /\ schema.fks[f].parent \in Tables
                        /\ p \in Alive(work', schema.fks[f].parent) <=> p \in Alive(work, schema.fks[f].parent)
                        /\ Project(work'[schema.fks[f].parent][p].vals, schema.fks[f].parentColumns)
                               = Project(work[schema.fks[f].parent][p].vals, schema.fks[f].parentColumns)
        OBVIOUS
    <2>1. schema.fks[f].parent \in Tables
        BY KeyColumnsType DEF IInv
    <2>2. p \in DOMAIN work[schema.fks[f].parent]
        BY <1>8, <2>1
    <2>3. SameKeys(schema.fks[f].parent, work'[schema.fks[f].parent][p].vals,
                   work[schema.fks[f].parent][p].vals)
        BY <1>10, <2>1, <2>2
    <2> QED BY <1>5, <2>1, <2>3 DEF SameKeys
<1>12. MovesStay
    BY <1>11 DEF MovesStay
<1>13. /\ \A f \in active : \A r, vals : Follows(f, r, vals) => Follows(f, r, vals)'
       /\ \A u, r, v, w : KeepsMeaning(u, r, v, w) => KeepsMeaning(u, r, v, w)'
    BY <1>1, <1>12, MeaningStays
<1>14. \A f \in active : \A p \in Alive(db, schema.fks[f].parent) :
           /\ Moved(f, p)' <=> Moved(f, p)
           /\ ActionOn(f, p)' = ActionOn(f, p)
    <2> SUFFICES ASSUME NEW f \in active, NEW p \in Alive(db, schema.fks[f].parent)
                 PROVE  /\ Moved(f, p)' <=> Moved(f, p)
                        /\ ActionOn(f, p)' = ActionOn(f, p)
        OBVIOUS
    <2>1. p \in Alive(work, schema.fks[f].parent)' <=> p \in Alive(work, schema.fks[f].parent)
        BY <1>1, <1>11 DEF Alive
    <2>2. Moved(f, p)' <=> Moved(f, p)
        BY <1>1, <1>11, <2>1 DEF Moved
    <2>3. ActionOn(f, p)' = ActionOn(f, p)
        BY <1>1, <2>1 DEF ActionOn
    <2> QED BY <2>2, <2>3
<1>15. /\ \A u, v, w : SameKeys(u, v, w)' <=> SameKeys(u, v, w)
       /\ \A u, r : Requested(u, r)' <=> Requested(u, r)
       /\ \A fk, r, p : Referenced(fk, r, p)' <=> Referenced(fk, r, p)
       /\ \A u : Alive(db, u)' = Alive(db, u)
    BY <1>1, SameSnapshots
<1>16. \A u \in Tables : \A r \in DOMAIN work[u] : ~ Requested(u, r) =>
           KeepsMeaning(u, r, work[u][r].vals, work'[u][r].vals)
    <2> SUFFICES ASSUME NEW u \in Tables, NEW r \in DOMAIN work[u], ~ Requested(u, r)
                 PROVE  KeepsMeaning(u, r, work[u][r].vals, work'[u][r].vals)
        OBVIOUS
    <2>1. CASE work'[u][r].vals = work[u][r].vals
        BY <2>1 DEF KeepsMeaning
    <2>2. CASE work'[u][r].vals # work[u][r].vals
        BY <1>5, <1>9, <2>2
    <2> QED BY <2>1, <2>2
<1>17. RowsKeepMeaning'
    <2> SUFFICES ASSUME NEW u \in Tables, NEW r \in DOMAIN db[u], ~ Requested(u, r)
                 PROVE  KeepsMeaning(u, r, db[u][r].vals, work[u][r].vals)'
        BY <1>1, <1>15 DEF RowsKeepMeaning
    <2>1. PICK v, w : v = db[u][r].vals /\ w = work'[u][r].vals
        OBVIOUS
    <2>2. KeepsMeaning(u, r, v, work[u][r].vals)
        BY <1>7, <2>1 DEF RowsKeepMeaning
    <2>3. KeepsMeaning(u, r, work[u][r].vals, w)
        BY <1>16, <2>1 DEF StatementInv
    <2>4. KeepsMeaning(u, r, v, w)
        BY <2>2, <2>3, MeaningComposes
    <2>5. KeepsMeaning(u, r, v, w)'
        BY <1>13, <2>4
    <2> QED BY <1>1, <2>1, <2>5
<1>18. UpdatesKeepMeaning'
    <2> SUFFICES ASSUME NEW u \in Tables, NEW e \in updates'[u]
                 PROVE  UpdateIsResolved(u, e)' /\ \A d \in updates'[u] : d.row = e.row => d.new = e.new
        BY DEF UpdatesKeepMeaning
    <2>1. u # t /\ updates'[u] = updates[u] /\ work'[u] = work[u]
        BY <1>5, <1>6
    <2>2. UpdateIsResolved(u, e) /\ \A d \in updates[u] : d.row = e.row => d.new = e.new
        BY <1>7, <2>1 DEF UpdatesKeepMeaning
    <2> QED BY <1>13, <1>15, <2>1, <2>2 DEF UpdateIsResolved
<1>19. \A u \in Tables : \A p : Waits(u, p) => Waits(u, p)'
    <2> SUFFICES ASSUME NEW u \in Tables, NEW p, Waits(u, p) PROVE Waits(u, p)'
        OBVIOUS
    <2>1. PICK v : v = db[u][p].vals
        OBVIOUS
    <2>2. PICK i \in DOMAIN queue :
              /\ queue[i].table = u /\ queue[i].kind = stmt.kind
              /\ \E e \in queue[i].rows : e.row = p /\ SameKeys(u, e.old, v)
        BY <2>1 DEF Waits
    <2>3. i \in DOMAIN queue' /\ queue'[i] = queue[i]
        BY <1>4
    <2>4. PICK e \in queue'[i].rows : e.row = p /\ SameKeys(u, e.old, v)
        BY <2>2, <2>3
    <2>5. SameKeys(u, e.old, db[u][p].vals)'
        BY <1>1, <2>1, <2>4 DEF SameKeys
    <2> QED BY <1>1, <2>2, <2>3, <2>4, <2>5 DEF Waits
<1>20. \A u \in Tables : \A r : IsTaken(u, r) => IsTaken(u, r)'
    BY <1>1, <1>5 DEF IsTaken, RowsIn, Alive
<1>21. NoReferenceForgotten'
    <2> SUFFICES ASSUME NEW f \in active, NEW r \in Alive(db, schema.fks[f].child),
                        NEW p \in Alive(db, schema.fks[f].parent),
                        Referenced(schema.fks[f], r, p), Moved(f, p), ~ Requested(schema.fks[f].child, r)
                 PROVE  \/ Waits(schema.fks[f].parent, p)'
                        \/ IsTaken(schema.fks[f].child, r)'
                        \/ ActionOn(f, p)' = "noAction"
                        \/ Follows(f, r, work[schema.fks[f].child][r].vals)'
                        \/ \E e \in updates'[schema.fks[f].child] : e.row = r /\ Follows(f, r, e.new)'
        BY <1>1, <1>14, <1>15 DEF NoReferenceForgotten
    <2> DEFINE child == schema.fks[f].child
    <2>1. schema.fks[f].parent \in Tables /\ child \in Tables
        BY KeyColumnsType DEF IInv
    <2>2. \/ Waits(schema.fks[f].parent, p)
          \/ IsTaken(child, r)
          \/ ActionOn(f, p) = "noAction"
          \/ Follows(f, r, work[child][r].vals)
          \/ \E e \in updates[child] : e.row = r /\ Follows(f, r, e.new)
        BY <1>7 DEF NoReferenceForgotten
    <2>3. PICK v : v = work'[child][r].vals
        OBVIOUS
    <2>4. ASSUME Follows(f, r, v) PROVE Follows(f, r, work[schema.fks[f].child][r].vals)'
        <3>1. Follows(f, r, v)'
            BY <1>13, <2>4
        <3>2. v = work'[schema'.fks[f].child][r].vals
            BY <1>1, <2>3
        <3> QED BY <3>1, <3>2
    <2>5. CASE Follows(f, r, work[child][r].vals)
        <3>1. KeepsMeaning(child, r, work[child][r].vals, v)
            BY <1>8, <1>16, <2>1, <2>3
        <3>2. \/ Project(v, schema.fks[f].columns) = Project(work[child][r].vals, schema.fks[f].columns)
              \/ Follows(f, r, v)
            BY <3>1 DEF KeepsMeaning
        <3>3. Follows(f, r, v)
            BY <2>5, <3>2, FollowsByKey
        <3> QED BY <2>4, <3>3
    <2>6. CASE \E e \in updates[child] : e.row = r /\ Follows(f, r, e.new)
        <3>1. CASE child = t
            <4>1. Follows(f, r, v)
                BY <1>9, <2>3, <2>6, <3>1
            <4> QED BY <2>4, <4>1
        <3>2. CASE child # t
            BY <1>6, <1>13, <2>1, <2>6, <3>2
        <3> QED BY <3>1, <3>2
    <2> QED BY <1>1, <1>14, <1>19, <1>20, <2>1, <2>2, <2>5, <2>6
<1>22. ASSUME NEW i \in DOMAIN queue',
              \A e \in queue'[i].rows :
                  SameKeys(queue'[i].table, e.old, work'[queue'[i].table][e.row].vals)
       PROVE  IsInert(queue[i])'
    BY <1>1, <1>22 DEF IsInert, SameKeys
<1>23. ASSUME stmt.kind = "update", NEW i \in DOMAIN queue'
       PROVE  /\ queue'[i].kind = "update"
              /\ \A e \in queue'[i].rows : e.row \in Alive(db, queue'[i].table)
              /\ IsInert(queue[i])'
    <2> SUFFICES /\ queue'[i].kind = "update"
                 /\ \A e \in queue'[i].rows : e.row \in Alive(db, queue'[i].table)
                 /\ \A e \in queue'[i].rows :
                        SameKeys(queue'[i].table, e.old, work'[queue'[i].table][e.row].vals)
        BY <1>22
    <2>1. ~ IsFresh
        BY <1>1, <1>23 DEF IsFirstPending, IsFresh, NoPending, NothingPending
    <2>2. CASE queue'[i] = item
        <3>1. \A e \in updates[t] : e.row \in Alive(db, t)
            BY <1>7 DEF UpdatesKeepMeaning, UpdateIsResolved
        <3>2. \A e \in updates[t] : SameKeys(t, e.old, work'[t][e.row].vals)
            BY <1>9 DEF SameKeys
        <3> QED BY <1>3, <1>15, <2>2, <3>1, <3>2
    <2>3. CASE queue'[i] # item
        <3>1. PICK j \in DOMAIN queue : queue'[i] = queue[j]
            BY <1>4, <2>3
        <3>2. queue[j].table \in Tables
            BY QueuedTables DEF IInv
        <3>3. /\ queue[j].kind = "update"
              /\ \A e \in queue[j].rows : e.row \in Alive(db, queue[j].table)
              /\ IsInert(queue[j])
            BY <1>7, <1>23, <2>1 DEF UpdateReachesOneLevel
        <3>4. \A e \in queue[j].rows : SameKeys(queue[j].table, e.old, work'[queue[j].table][e.row].vals)
            <4> SUFFICES ASSUME NEW e \in queue[j].rows
                         PROVE  SameKeys(queue[j].table, e.old, work'[queue[j].table][e.row].vals)
                OBVIOUS
            <4>1. e.row \in DOMAIN work[queue[j].table]
                BY <1>8, <3>2, <3>3
            <4>2. SameKeys(queue[j].table, work'[queue[j].table][e.row].vals, work[queue[j].table][e.row].vals)
                BY <1>10, <3>2, <4>1
            <4>3. SameKeys(queue[j].table, e.old, work[queue[j].table][e.row].vals)
                BY <3>3 DEF IsInert
            <4> QED BY <4>2, <4>3 DEF SameKeys
        <3> QED BY <1>15, <3>1, <3>3, <3>4
    <2> QED BY <2>2, <2>3
<1>24. UpdateReachesOneLevel'
    BY <1>1, <1>15, <1>23 DEF UpdateReachesOneLevel
<1> QED BY <1>1, <1>17, <1>18, <1>21, <1>24 DEF MeaningInv

LEMMA SameStateKeepsMeaning ==
    ASSUME UNCHANGED vars, MeaningInv, stmt.kind \in {"delete", "update"} PROVE MeaningInv'
<1>1. UNCHANGED <<schema, active, db, work, queue, deletes, updates, stmt>>
    BY DEF vars
<1>2. RowsKeepMeaning /\ UpdatesKeepMeaning /\ NoReferenceForgotten /\ UpdateReachesOneLevel
    BY DEF MeaningInv
<1>3. /\ RowsKeepMeaning => RowsKeepMeaning'
      /\ \A f, p : Moved(f, p)' <=> Moved(f, p)
      /\ \A f, p : ActionOn(f, p)' = ActionOn(f, p)
      /\ \A f \in active : \A r, vals : Follows(f, r, vals) => Follows(f, r, vals)'
      /\ \A t, e : UpdateIsResolved(t, e) => UpdateIsResolved(t, e)'
      /\ \A item : IsInert(item) => IsInert(item)'
    BY <1>1, SameWork
<1>4. /\ \A t, u, v : SameKeys(t, u, v)' <=> SameKeys(t, u, v)
      /\ \A t, r : Requested(t, r)' <=> Requested(t, r)
      /\ \A fk, r, p : Referenced(fk, r, p)' <=> Referenced(fk, r, p)
      /\ \A t : Alive(db, t)' = Alive(db, t) /\ Alive(work, t)' = Alive(work, t)
    BY <1>1, SameSnapshots DEF Alive
<1>5. UpdatesKeepMeaning'
    BY <1>1, <1>2, <1>3 DEF UpdatesKeepMeaning
<1>6. \A t, p : Waits(t, p) => Waits(t, p)'
    BY <1>1 DEF Waits, SameKeys
<1>7. \A t, r : IsTaken(t, r)' <=> IsTaken(t, r)
    BY <1>1 DEF IsTaken, Alive, RowsIn
<1>8. \A f \in active : \A r : Follows(f, r, work[schema.fks[f].child][r].vals) =>
          Follows(f, r, work[schema.fks[f].child][r].vals)'
    <2> SUFFICES ASSUME NEW f \in active, NEW r, Follows(f, r, work[schema.fks[f].child][r].vals)
                 PROVE  Follows(f, r, work[schema.fks[f].child][r].vals)'
        OBVIOUS
    <2>1. PICK v : v = work[schema.fks[f].child][r].vals
        OBVIOUS
    <2>2. Follows(f, r, v)' /\ v = work'[schema'.fks[f].child][r].vals
        BY <1>1, <1>3, <2>1
    <2> QED BY <2>2
<1>9. NoReferenceForgotten'
    BY <1>1, <1>2, <1>3, <1>4, <1>6, <1>7, <1>8 DEF NoReferenceForgotten
<1>10. IsFresh => IsFresh'
    BY <1>1 DEF IsFresh, NoPending, NothingPending, Requested
<1>11. \A i : IsInert(queue[i]) => IsInert(queue[i])'
    BY <1>1 DEF IsInert, SameKeys
<1>12. UpdateReachesOneLevel'
    BY <1>1, <1>2, <1>4, <1>10, <1>11 DEF UpdateReachesOneLevel
<1> QED BY <1>2, <1>3, <1>5, <1>9, <1>12 DEF MeaningInv

LEMMA StepKeepsMeaning ==
    IInv /\ IInv' /\ StatementInv /\ ReferencesAreIndependent(schema) /\ ClosureInv /\ MeaningInv
        /\ [Next]_vars => MeaningInv'
<1> SUFFICES ASSUME IInv, IInv', StatementInv, ReferencesAreIndependent(schema), ClosureInv, MeaningInv,
                    [Next]_vars
             PROVE  MeaningInv'
    OBVIOUS
<1>1. ASSUME stmt'.kind \notin {"delete", "update"} PROVE MeaningInv'
    BY <1>1 DEF MeaningInv
<1>2. NoStatement.kind = "none"
    BY DEF NoStatement
<1>3. ASSUME \/ \E f \in DOMAIN schema.fks : CreateForeignKey(f)
             \/ \E t \in Tables : \E batch \in Batches(t) : AddRows(t, batch)
             \/ Abandon \/ Finish
      PROVE  MeaningInv'
    BY <1>1, <1>2, <1>3 DEF CreateForeignKey, AddRows, Abandon, Finish, Idle
<1>4. ASSUME NEW t \in Tables, NEW rows \in SUBSET Alive(db, t), BeginDelete(t, rows)
      PROVE  MeaningInv'
    BY <1>4, BeginDeleteKeepsMeaning
<1>5. ASSUME NEW t \in Tables, NEW new \in NewRows(t), BeginUpdate(t, new) PROVE MeaningInv'
    BY <1>5, BeginUpdateKeepsMeaning
<1>6. ASSUME ResolveItem PROVE MeaningInv'
    <2>1. stmt' = stmt
        BY <1>6 DEF ResolveItem
    <2> QED BY <1>1, <1>6, <2>1, ResolveItemKeepsMeaning
<1>7. ASSUME NEW t \in Tables, ApplyResolvedDeletes(t) PROVE MeaningInv'
    <2>1. stmt' = stmt
        BY <1>7 DEF ApplyResolvedDeletes
    <2>2. stmt.kind # "update"
        BY <1>7 DEF StatementInv, ApplyResolvedDeletes, IsFirstPending, NothingPending
    <2> QED BY <1>1, <1>7, <2>1, <2>2, ApplyResolvedDeletesKeepsMeaning
<1>8. ASSUME NEW t \in Tables, ApplyResolvedUpdates(t) PROVE MeaningInv'
    <2>1. stmt' = stmt
        BY <1>8 DEF ApplyResolvedUpdates
    <2> QED BY <1>1, <1>8, <2>1, ApplyResolvedUpdatesKeepsMeaning
<1>9. ASSUME UNCHANGED vars PROVE MeaningInv'
    <2>1. stmt' = stmt
        BY <1>9 DEF vars
    <2> QED BY <1>1, <1>9, <2>1, SameStateKeepsMeaning
<1> QED BY <1>3, <1>4, <1>5, <1>6, <1>7, <1>8, <1>9
        DEF Next, RunReferentialWork, RejectRestricted, RejectResolvedUpdates, RejectDangling

LEMMA InitMeaningInv == Init => MeaningInv
BY DEF Init, MeaningInv, NoStatement

LEMMA SpecKeepsMeaning ==
    ASSUME \A s \in Schemas : ReferencesAreIndependent(s)
    PROVE  Spec => [](IInv /\ StatementInv /\ ClosureInv /\ MeaningInv)
<1>1. IInv => ReferencesAreIndependent(schema) /\ CascadesAreIndependent(schema)
    BY IndependentCascades DEF IInv, TypeOK
<1>2. IInv /\ StatementInv /\ ClosureInv /\ [Next]_vars => ClosureInv'
    BY <1>1, StepKeepsClosure
<1>3. IInv /\ IInv' /\ StatementInv /\ ClosureInv /\ MeaningInv /\ [Next]_vars => MeaningInv'
    BY <1>1, StepKeepsMeaning
<1>4. Spec => []StatementInv
    BY InitStatementInv, SpecKeepsIInv, NextKeepsStatementInv, PTL DEF Spec
<1>5. Spec => []ClosureInv
    BY InitClosureInv, SpecKeepsIInv, <1>2, <1>4, PTL DEF Spec
<1> QED BY InitMeaningInv, SpecKeepsIInv, <1>3, <1>4, <1>5, PTL DEF Spec

-----------------------------------------------------------------------------
(* When the queue has drained                                                *)

\* A reference to a key that stayed stays; one to a key that moved follows it, unless
\* the action is NO ACTION.
LEMMA DrainedReference ==
    ASSUME IInv, StatementInv, MeaningInv, Drained, NEW f \in active,
           NEW r \in Alive(work, schema.fks[f].child), NEW p \in Alive(db, schema.fks[f].parent),
           Referenced(schema.fks[f], r, p), ~ Requested(schema.fks[f].child, r)
    PROVE  LET fk  == schema.fks[f]
               was == Project(db[fk.child][r].vals, fk.columns)
               is  == Project(work[fk.child][r].vals, fk.columns)
           IN  /\ ~ Moved(f, p) => is = was
               /\ Moved(f, p) => \/ ActionOn(f, p) = "noAction" /\ is = was
                                 \/ FollowsParent(f, p, work[fk.child][r].vals)
<1>0. PICK fk : fk = schema.fks[f]
    OBVIOUS
<1>1. fk.child \in Tables
    BY <1>0, KeyColumnsType DEF IInv
<1>2. RowsKeepMeaning /\ NoReferenceForgotten
    BY DEF MeaningInv, Drained, Idle, IInv, TypeOK, Statement
<1>3. queue = <<>> /\ \A t \in Tables : deletes[t] = {} /\ updates[t] = {}
    BY DEF Drained, NoPending, NothingPending
<1>4. r \in Alive(db, fk.child) /\ r \in DOMAIN db[fk.child]
    BY <1>0, <1>1, ResolvedRow DEF Referenced
<1>5. PICK vals : vals = work[fk.child][r].vals
    OBVIOUS
<1>6. \/ Project(vals, fk.columns) = Project(db[fk.child][r].vals, fk.columns)
      \/ Follows(f, r, vals)
    BY <1>0, <1>1, <1>2, <1>4, <1>5 DEF RowsKeepMeaning, KeepsMeaning
<1>7. Follows(f, r, vals) => Moved(f, p) /\ FollowsParent(f, p, vals)
    BY OneParent DEF Follows
<1>8. Moved(f, p) => ActionOn(f, p) = "noAction" \/ Follows(f, r, vals)
    <2>1. ~ Waits(fk.parent, p)
        BY <1>3 DEF Waits
    <2>2. ~ IsTaken(fk.child, r)
        BY <1>0, <1>1, <1>3 DEF IsTaken, RowsIn
    <2> QED BY <1>0, <1>1, <1>2, <1>3, <1>4, <1>5, <2>1, <2>2 DEF NoReferenceForgotten
<1>9. FollowsParent(f, p, vals) => ActionOn(f, p) # "noAction"
    BY DEF FollowsParent
<1> QED BY <1>0, <1>5, <1>6, <1>7, <1>8, <1>9

LEMMA DrainedMeaning ==
    IInv /\ StatementInv /\ MeaningInv => ReferencesKeepTheirMeaning
<1> SUFFICES ASSUME IInv, StatementInv, MeaningInv, Drained, NEW f \in active,
                    NEW r \in Alive(work, schema.fks[f].child), NEW p \in Alive(db, schema.fks[f].parent),
                    Referenced(schema.fks[f], r, p), ~ Requested(schema.fks[f].child, r)
             PROVE  KeepsItsMeaning(schema.fks[f], r, p)
    BY DEF ReferencesKeepTheirMeaning
<1> DEFINE fk     == schema.fks[f]
           vals   == work[fk.child][r].vals
           was    == Project(db[fk.child][r].vals, fk.columns)
           is     == Project(vals, fk.columns)
           parent == Project(work[fk.parent][p].vals, fk.parentColumns)
           action == IF p \notin Alive(work, fk.parent) THEN fk.onDelete
                     ELSE IF parent # was THEN fk.onUpdate
                     ELSE "noAction"
<1>1. /\ ~ Moved(f, p) => is = was
      /\ Moved(f, p) => \/ ActionOn(f, p) = "noAction" /\ is = was
                        \/ FollowsParent(f, p, vals)
    BY DrainedReference
<1>2. was = Project(db[fk.parent][p].vals, fk.parentColumns)
    BY DEF Referenced
<1>3. Moved(f, p) <=> p \notin Alive(work, fk.parent) \/ parent # was
    BY <1>2 DEF Moved
<1>4. action = IF Moved(f, p) THEN ActionOn(f, p) ELSE "noAction"
    BY <1>3 DEF ActionOn
<1>5. FollowsParent(f, p, vals) =>
          \/ ActionOn(f, p) = "setNull" /\ \A i \in DOMAIN is : is[i] = Null
          \/ ActionOn(f, p) = "cascade" /\ p \in Alive(work, fk.parent) /\ is = parent
    BY DEF FollowsParent, Project
<1> HIDE DEF fk, vals, was, is, parent, action
<1>6. \/ action = "noAction" /\ is = was
      \/ action = "setNull" /\ \A i \in DOMAIN is : is[i] = Null
      \/ action = "cascade" /\ p \in Alive(work, fk.parent) /\ is = parent
    BY <1>1, <1>4, <1>5
<1>7. (CASE action = "noAction" -> is = was
         [] action = "setNull"  -> \A i \in DOMAIN is : is[i] = Null
         [] action = "cascade"  -> p \in Alive(work, fk.parent) /\ is = parent
         [] OTHER -> FALSE)
    BY <1>6
<1> QED BY <1>7 DEF KeepsItsMeaning, fk, vals, was, is, parent, action

LEMMA DrainedRepaired ==
    IInv /\ StatementInv /\ MeaningInv /\ ReferencesAreIndependent(schema) => NothingDanglesUnasked
<1> SUFFICES ASSUME IInv, StatementInv, MeaningInv, ReferencesAreIndependent(schema), Drained,
                    NEW f \in active, "noAction" \notin {schema.fks[f].onDelete, schema.fks[f].onUpdate},
                    NEW r \in Alive(work, schema.fks[f].child),
                    ~ (stmt.kind = "update" /\ Requested(schema.fks[f].child, r))
             PROVE  LET key == Project(work[schema.fks[f].child][r].vals, schema.fks[f].columns)
                    IN  HasNull(key) \/ HasParent(work, schema.fks[f], key)
    BY DEF NothingDanglesUnasked
<1>0. PICK fk : fk = schema.fks[f]
    OBVIOUS
<1>1. fk.child \in Tables /\ fk.parent \in Tables
    BY <1>0, KeyColumnsType DEF IInv
<1>2. r \in Alive(db, fk.child) /\ r \in DOMAIN db[fk.child]
    BY <1>0, <1>1 DEF StatementInv, Alive
<1>3. stmt.kind \in {"delete", "update"}
    BY DEF Drained, Idle, IInv, TypeOK, Statement
<1>4. ~ Requested(fk.child, r)
    BY <1>0, <1>3 DEF Requested, StatementInv
<1>5. PICK vals : vals = work[fk.child][r].vals
    OBVIOUS
<1> SUFFICES HasNull(Project(vals, fk.columns)) \/ HasParent(work, fk, Project(vals, fk.columns))
    BY <1>0, <1>5
<1>6. PICK was : was = Project(db[fk.child][r].vals, fk.columns)
    OBVIOUS
<1>7. HasNull(was) \/ HasParent(db, fk, was)
    BY <1>0, <1>2, <1>6 DEF IInv, CommittedConstraintsHold, ConstraintsHold,
                            AllForeignKeysValid, ExistingRowsSatisfy
<1>8. CASE HasNull(was)
    <2>1. ~ Follows(f, r, vals)
        BY <1>0, <1>6, <1>8 DEF Follows, Referenced
    <2>2. Project(vals, fk.columns) = was
        BY <1>0, <1>1, <1>2, <1>3, <1>4, <1>5, <1>6, <2>1 DEF MeaningInv, RowsKeepMeaning, KeepsMeaning
    <2> QED BY <1>8, <2>2
<1>9. CASE ~ HasNull(was)
    <2>1. PICK p \in Alive(db, fk.parent) : Project(db[fk.parent][p].vals, fk.parentColumns) = was
        BY <1>7, <1>9 DEF HasParent
    <2>2. Referenced(fk, r, p)
        BY <1>2, <1>6, <1>9, <2>1 DEF Referenced
    <2>3. /\ ~ Moved(f, p) => Project(vals, fk.columns) = was
          /\ Moved(f, p) => \/ ActionOn(f, p) = "noAction" /\ Project(vals, fk.columns) = was
                            \/ FollowsParent(f, p, vals)
        BY <1>0, <1>4, <1>5, <1>6, <2>1, <2>2, DrainedReference
    <2>4. ActionOn(f, p) # "noAction"
        BY DEF ActionOn
    <2>5. CASE ~ Moved(f, p)
        BY <1>0, <2>1, <2>3, <2>5 DEF Moved, HasParent
    <2>6. CASE FollowsParent(f, p, vals)
        <3>1. CASE \A i \in DOMAIN fk.columns : vals[fk.columns[i]] = Null
            <4>1. f \in DOMAIN schema.fks /\ fk.columns \in Seq(Columns)
                BY <1>0, ForeignKeyType DEF IInv, TypeOK, ForeignKey, ColumnList
            <4>2. fk.columns # <<>>
                BY <1>0, <4>1 DEF ReferencesAreIndependent, KeyColumnsAreDistinct
            <4>3. 1 \in DOMAIN fk.columns
                BY <4>1, <4>2, EmptySeq, LenProperties
            <4> QED BY <3>1, <4>3 DEF HasNull, Project
        <3>2. CASE /\ p \in Alive(work, fk.parent)
                   /\ Project(vals, fk.columns) = Project(work[fk.parent][p].vals, fk.parentColumns)
            BY <3>2 DEF HasParent
        <3> QED BY <1>0, <2>6, <3>1, <3>2 DEF FollowsParent
    <2> QED BY <2>3, <2>4, <2>5, <2>6
<1> QED BY <1>8, <1>9

\* A row that died without having been asked for referenced a row that died: without it
\* the rows that died would be closed, and the closure is the smallest such set.
LEMMA DeadRowsFollow ==
    ASSUME IInv, StatementInv, ClosureInv, Drained, stmt.kind = "delete", NEW t \in Tables,
           NEW r \in Alive(db, t), r \notin Alive(work, t), ~ Requested(t, r)
    PROVE  \E f \in active :
               /\ schema.fks[f].child = t
               /\ \E p \in Alive(db, schema.fks[f].parent) :
                      Referenced(schema.fks[f], r, p) /\ p \notin Alive(work, schema.fks[f].parent)
<1> DEFINE dead   == Rows(db) \ Rows(work)
           others == dead \ {<<t, r>>}
           asked  == {stmt.table} \X stmt.rows
           closed(x) == x \in SUBSET Rows(db) /\ asked \subseteq x /\ IsClosed(x)
<1>1. \A u, q : <<u, q>> \in dead <=> u \in Tables /\ q \in Alive(db, u) /\ q \notin Alive(work, u)
    BY DEF Rows
<1>2. dead = CascadeClosure
    BY DrainedClosure DEF DeleteTakesExactlyTheClosure
<1>3. ~ (asked \subseteq others /\ IsClosed(others))
    <2>1. \A row \in CascadeClosure : \A x : closed(x) => row \in x
        BY DEF CascadeClosure
    <2>2. <<t, r>> \in CascadeClosure /\ <<t, r>> \notin others
        BY <1>1, <1>2
    <2>3. ~ closed(others)
        BY <2>1, <2>2
    <2>4. others \in SUBSET Rows(db)
        OBVIOUS
    <2> QED BY <2>3, <2>4
<1>4. asked \subseteq others
    <2>1. /\ stmt.table \in Tables
          /\ stmt.rows \subseteq Alive(db, stmt.table) /\ stmt.rows \cap Alive(work, stmt.table) = {}
        BY DEF StatementInv, IInv, TypeOK, Statement, NoStatement
    <2> SUFFICES ASSUME NEW q \in stmt.rows PROVE <<stmt.table, q>> \in others
        OBVIOUS
    <2>2. <<stmt.table, q>> \in dead
        BY <1>1, <2>1
    <2>3. <<stmt.table, q>> # <<t, r>>
        BY DEF Requested
    <2> QED BY <2>2, <2>3
<1>5. PICK f \in active : \E q \in Alive(db, schema.fks[f].child) : \E p \in Alive(db, schema.fks[f].parent) :
          /\ schema.fks[f].onDelete = "cascade" /\ Referenced(schema.fks[f], q, p)
          /\ <<schema.fks[f].parent, p>> \in others /\ <<schema.fks[f].child, q>> \notin others
    BY <1>3, <1>4 DEF IsClosed
<1>6. PICK q \in Alive(db, schema.fks[f].child) : \E p \in Alive(db, schema.fks[f].parent) :
          /\ schema.fks[f].onDelete = "cascade" /\ Referenced(schema.fks[f], q, p)
          /\ <<schema.fks[f].parent, p>> \in others /\ <<schema.fks[f].child, q>> \notin others
    BY <1>5
<1>7. PICK p \in Alive(db, schema.fks[f].parent) :
          /\ schema.fks[f].onDelete = "cascade" /\ Referenced(schema.fks[f], q, p)
          /\ <<schema.fks[f].parent, p>> \in others /\ <<schema.fks[f].child, q>> \notin others
    BY <1>6
<1>8. p \notin Alive(work, schema.fks[f].parent)
    BY <1>1, <1>7
<1>9. <<schema.fks[f].child, q>> \in dead
    <2>1. NoneForgotten /\ schema.fks[f].child \in Tables
        BY KeyColumnsType DEF ClosureInv, IInv
    <2>2. ~ DeleteQueued(schema.fks[f].parent, p) /\ deletes[schema.fks[f].child] = {}
        BY <2>1 DEF Drained, NoPending, NothingPending, DeleteQueued
    <2>3. IsTaken(schema.fks[f].child, q)
        BY <1>7, <1>8, <2>1, <2>2 DEF NoneForgotten
    <2> QED BY <1>1, <2>1, <2>2, <2>3 DEF IsTaken, RowsIn
<1>10. schema.fks[f].child = t /\ q = r
    BY <1>7, <1>9
<1> QED BY <1>7, <1>8, <1>10

LEMMA DrainedChanges ==
    IInv /\ StatementInv /\ ClosureInv /\ MeaningInv => ChangesFollowReferences
<1> SUFFICES ASSUME IInv, StatementInv, ClosureInv, MeaningInv, Drained,
                    NEW t \in Tables, NEW r \in DOMAIN db[t], work[t][r] # db[t][r], ~ Requested(t, r)
             PROVE  \E f \in active :
                        /\ schema.fks[f].child = t
                        /\ \E p \in Alive(db, schema.fks[f].parent) :
                               /\ Referenced(schema.fks[f], r, p)
                               /\ work[schema.fks[f].parent][p] # db[schema.fks[f].parent][p]
    BY DEF ChangesFollowReferences
<1>1. stmt.kind \in {"delete", "update"}
    BY DEF Drained, Idle, IInv, TypeOK, Statement
<1>2. r \in DOMAIN work[t] /\ Alive(work, t) \subseteq Alive(db, t)
    BY DEF StatementInv
<1>3. db[t][r] \in Slot /\ work[t][r] \in Slot
    BY <1>2, SlotType DEF IInv, TypeOK
<1>4. \/ work[t][r].vals # db[t][r].vals
      \/ work[t][r].alive # db[t][r].alive
    BY <1>3 DEF Slot
<1>5. ASSUME NEW f \in active, NEW p \in Alive(db, schema.fks[f].parent), Moved(f, p)
      PROVE  work[schema.fks[f].parent][p] # db[schema.fks[f].parent][p]
    <2>1. p \in DOMAIN work[schema.fks[f].parent] /\ db[schema.fks[f].parent][p].alive
        BY KeyColumnsType, ResolvedRow DEF IInv, Alive
    <2> QED BY <1>5, <2>1 DEF Moved, Alive
<1>6. CASE work[t][r].vals # db[t][r].vals
    <2>1. KeepsMeaning(t, r, db[t][r].vals, work[t][r].vals)
        BY <1>1 DEF MeaningInv, RowsKeepMeaning
    <2>2. db[t][r].vals \in Row /\ work[t][r].vals \in Row
        BY <1>3 DEF Slot
    <2>3. PICK c \in Columns : work[t][r].vals[c] # db[t][r].vals[c]
        BY <1>6, <2>2 DEF Row
    <2>4. PICK f \in active : schema.fks[f].child = t /\ c \in KeyColumns(schema.fks[f].columns)
        BY <2>1, <2>3 DEF KeepsMeaning, IsReference
    <2>5. Project(work[t][r].vals, schema.fks[f].columns) # Project(db[t][r].vals, schema.fks[f].columns)
        BY <2>3, <2>4, ProjectionsAgree DEF KeyColumns
    <2>6. Follows(f, r, work[t][r].vals)
        BY <2>1, <2>4, <2>5 DEF KeepsMeaning
    <2> QED BY <1>5, <2>4, <2>6 DEF Follows
<1>7. CASE work[t][r].alive # db[t][r].alive
    <2>1. r \in Alive(db, t) /\ r \notin Alive(work, t)
        BY <1>2, <1>3, <1>7 DEF Alive, Slot
    <2>2. stmt.kind = "delete"
        BY <1>1, <2>1 DEF StatementInv
    <2>3. PICK f \in active :
              /\ schema.fks[f].child = t
              /\ \E p \in Alive(db, schema.fks[f].parent) :
                     Referenced(schema.fks[f], r, p) /\ p \notin Alive(work, schema.fks[f].parent)
        BY <2>1, <2>2, DeadRowsFollow
    <2> QED BY <1>5, <2>3 DEF Moved
<1> QED BY <1>4, <1>6, <1>7

-----------------------------------------------------------------------------
\* A child nobody asked to change ends with its own parent's new key, with NULL or with
\* the key it had, as the action of the foreign key says, whatever steps lie between: for
\* every schema in which a row has one foreign key to a table, each in columns of its
\* own, and no reference is itself referenced.
THEOREM ReferencesMeanWhatTheyMeant ==
    ASSUME \A s \in Schemas : ReferencesAreIndependent(s)
    PROVE  Spec => []ReferencesKeepTheirMeaning
BY SpecKeepsMeaning, DrainedMeaning, PTL

\* Nothing changes that was not asked for and did not reference something that changed,
\* for the same schemas.
THEOREM OnlyReferencesSpreadChange ==
    ASSUME \A s \in Schemas : ReferencesAreIndependent(s)
    PROVE  Spec => []ChangesFollowReferences
BY SpecKeepsMeaning, DrainedChanges, PTL

\* Propagation alone repairs every reference without NO ACTION that the statement did not
\* itself write, for the same schemas: the final validation refuses only what was asked.
THEOREM PropagationRepairsReferences ==
    ASSUME \A s \in Schemas : ReferencesAreIndependent(s)
    PROVE  Spec => []NothingDanglesUnasked
<1>1. IInv => ReferencesAreIndependent(schema)
    BY DEF IInv, TypeOK
<1> QED BY SpecKeepsMeaning, DrainedRepaired, <1>1, PTL

=============================================================================
