------------------------ MODULE MCReferentialActions ------------------------
(***************************************************************************)
(* Instances of ReferentialActions for TLC: small schemas, one per shape   *)
(* of foreign-key graph the code has to cope with.                         *)
(***************************************************************************)
EXTENDS ReferentialActions

MCTables  == {"A", "B", "C", "D"}
MCColumns == {"id", "ref"}
MCValues  == {1, 2}

Id  == <<"id">>
Ref == <<"ref">>

RowOf(id, ref) == [c \in MCColumns |-> IF c = "id" THEN id ELSE ref]

RowsOf(ids, refs) == {RowOf(i, r) : i \in ids, r \in refs}

Nullable == MCValues \cup {Null}

IdRows    == RowsOf(MCValues, {Null})      \* id INT NOT NULL
IdRefRows == RowsOf(MCValues, Nullable)    \* id INT NOT NULL, ref INT
RefRows   == RowsOf({Null}, Nullable)      \* ref INT

Key(columns) == [columns |-> columns, nullsDistinct |-> TRUE]

FK(child, columns, parent, parentColumns, onDelete, onUpdate) ==
    [child |-> child, columns |-> columns, parent |-> parent,
     parentColumns |-> parentColumns, onDelete |-> onDelete, onUpdate |-> onUpdate]

\* f, and no index or row for the tables it does not mention.
Only(f) == [t \in MCTables |-> IF t \in DOMAIN f THEN f[t] ELSE {}]

SchemaOf(fks, initial, uniques, allowed, maxRows) ==
    [fks |-> fks, initial |-> initial, uniques |-> Only(uniques),
     allowed |-> Only(allowed), maxRows |-> maxRows]

\* A <- B <- C: a cascade that ends in SET NULL.
Chain == SchemaOf(
    << FK("B", Ref, "A", Id, "cascade", "cascade"),
       FK("C", Ref, "B", Ref, "setNull", "cascade") >>,
    {1, 2},
    [A |-> {Key(Id)}, B |-> {Key(Ref)}],
    [A |-> IdRows, B |-> RefRows \ {RowOf(Null, Null)}, C |-> RowsOf({Null}, {1, Null})], 2)

\* A table that references itself, through a key created after its rows.
SelfReference == SchemaOf(
    << FK("A", Ref, "A", Id, "cascade", "cascade") >>,
    {},
    [A |-> {Key(Id)}], [A |-> IdRefRows], 3)

\* Two tables that reference each other.
Cycle == SchemaOf(
    << FK("A", Ref, "B", Id, "cascade", "setNull"),
       FK("B", Ref, "A", Id, "cascade", "cascade") >>,
    {1, 2},
    [A |-> {Key(Id)}, B |-> {Key(Id)}],
    [A |-> RowsOf({1, 2}, {1, Null}), B |-> RowsOf({1}, Nullable)], 2)

\* Two paths from A to D that meet again, with one row each.
Diamond == SchemaOf(
    << FK("B", Ref, "A", Id, "cascade", "restrict"),
       FK("C", Ref, "A", Id, "cascade", "noAction"),
       FK("D", Id, "B", Id, "cascade", "cascade"),
       FK("D", Ref, "C", Id, "cascade", "setNull") >>,
    {1, 2, 3, 4},
    [A |-> {Key(Id)}, B |-> {Key(Id)}, C |-> {Key(Id)}],
    [A |-> IdRows, B |-> RowsOf({1}, {1, Null}), C |-> RowsOf({1}, {1, Null}),
     D |-> RowsOf({1, Null}, {1, Null})], 1)

\* A two-column key whose parts may be NULL, and an index under which NULLs are equal.
Composite == SchemaOf(
    << FK("B", <<"id", "ref">>, "A", <<"ref", "id">>, "setNull", "cascade") >>,
    {1},
    [A |-> {Key(<<"ref", "id">>)},
     B |-> {[columns |-> Id, nullsDistinct |-> FALSE]}],
    [A |-> RowsOf(MCValues, {1}), B |-> RowsOf({1, Null}, Nullable)], 2)

\* RESTRICT and NO ACTION, and SET NULL into a NOT NULL column.
Guarded == SchemaOf(
    << FK("B", Ref, "A", Id, "restrict", "noAction"),
       FK("C", Ref, "A", Id, "noAction", "restrict"),
       FK("D", Id, "A", Id, "setNull", "setNull") >>,
    {1, 2, 3},
    [A |-> {Key(Id)}], [A |-> IdRows, B |-> RowsOf({Null}, {1}), C |-> RowsOf({Null}, {1}),
                        D |-> RowsOf({2}, {Null})], 2)

SoundSchemas == {Chain, SelfReference, Cycle, Diamond, Composite, Guarded}

\* The theorem of PropagationProofs about DELETE applies to all of them, those of
\* MeaningProofs to all but Chain, where a reference is itself referenced.
ASSUME SoundCascades == \A s \in SoundSchemas : CascadesAreIndependent(s)

ASSUME SoundReferences == \A s \in SoundSchemas \ {Chain} : ReferencesAreIndependent(s)

-----------------------------------------------------------------------------
(* Schemas in which the code breaks one of the properties *)

\* One child row with two foreign keys to the same parent table.
SharedParent == SchemaOf(
    << FK("B", Id, "A", Id, "setNull", "setNull"),
       FK("B", Ref, "A", Id, "setNull", "setNull") >>,
    {1, 2},
    [A |-> {Key(Id)}], [A |-> IdRows, B |-> RowsOf(Nullable, Nullable)], 2)

SharedParentSchemas == {SharedParent}

\* A parent key that may be NULL, as a UNIQUE column may.
NullableKey == SchemaOf(
    << FK("B", Ref, "A", Id, "cascade", "cascade") >>,
    {1},
    [A |-> {Key(Id)}], [A |-> RowsOf(Nullable, {Null}), B |-> RefRows], 2)

NullableKeySchemas == {NullableKey}

\* Two tables whose keys are each other's foreign keys, declared once both hold
\* the same rows.
MutualKeys == SchemaOf(
    << FK("A", Id, "B", Id, "cascade", "cascade"),
       FK("B", Id, "A", Id, "cascade", "cascade") >>,
    {},
    [A |-> {Key(Id)}, B |-> {Key(Id)}], [A |-> IdRows, B |-> IdRows], 2)

MutualKeysSchemas == {MutualKeys}
=============================================================================
