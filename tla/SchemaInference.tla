--------------------------- MODULE SchemaInference ---------------------------
(***************************************************************************)
(* Inferring a relational schema from discovered documents (SchemaBuilder) *)
(* and materializing the documents as its rows (DatabaseBuilder).          *)
(*                                                                         *)
(* A name is the sequence of its segments: joining a path with "__" is     *)
(* concatenation, and a key that itself holds "__" is a key of several     *)
(* segments, so the names that collide in the code are equal here.  Names  *)
(* that differ only in case are not generated.                             *)
(***************************************************************************)
EXTENDS Integers, Sequences, FiniteSets, SequencesExt

NoType == "none"

Null == [kind |-> "null"]

\* A document is [nodeType, value]; a value is Null or one of these.
Scalar(type, payload) == [kind |-> "scalar", type |-> type, payload |-> payload]

Object(entries) == [kind |-> "object", entries |-> entries]

Array(items) == [kind |-> "array", items |-> items]

Identity == <<"identity">>

ParentNodeType == <<"parentNodeType">>

ParentIdentity == <<"parentIdentity">>

NoParent == <<>>

-----------------------------------------------------------------------------
(* What both builders visit *)

RECURSIVE LeavesUnprefixed(_, _)

\* Mutant: the members of a nested object lose its name.
LeavesUnprefixed(entries, path) ==
    FlattenSeq([i \in DOMAIN entries |->
        IF entries[i].value.kind = "object" THEN LeavesUnprefixed(entries[i].value.entries, path)
        ELSE <<[name |-> path \o entries[i].key, value |-> entries[i].value]>>])

RECURSIVE Leaves(_, _)

\* The members of an object that are not objects, nested objects flattened.
Leaves(entries, path) ==
    FlattenSeq([i \in DOMAIN entries |->
        LET value == entries[i].value
            name  == path \o entries[i].key
        IN  IF value.kind = "object" THEN Leaves(value.entries, name)
            ELSE <<[name |-> name, value |-> value]>>])

ArraysOf(leaves) == SelectSeq(leaves, LAMBDA leaf : leaf.value.kind = "array")

\* The columns of one object; of two members with the same name the later wins.
CellsOf(leaves) ==
    LET at == {i \in DOMAIN leaves : leaves[i].value.kind # "array"}
    IN  [n \in {leaves[i].name : i \in at} |->
            leaves[Max({i \in at : leaves[i].name = n})].value]

\* The results the builders read: objects of the root node type.
Roots(docs, nodeType) ==
    SelectSeq(docs, LAMBDA doc : doc.nodeType = nodeType /\ doc.value.kind = "object")

-----------------------------------------------------------------------------
(* SchemaBuilder: a schema is the tables seen so far, or the error thrown *)

EmptySchema == [thrown |-> FALSE, tables |-> <<>>]

ThrownSchema == [thrown |-> TRUE, tables |-> <<>>]

\* DatabaseSchema.getOrCreateTable, getOrCreateChildTable: whoever asks first names
\* the parent.
WithTable(schema, name, parent) ==
    IF schema.thrown \/ name \in DOMAIN schema.tables THEN schema
    ELSE [schema EXCEPT !.tables =
             [n \in DOMAIN @ \cup {name} |->
                 IF n = name THEN [parent |-> parent, columns |-> <<>>, observedRows |-> 0]
                 ELSE @[n]]]

\* ColumnSchema.observe, where it does not throw.
Accepts(column, value) ==
    \/ value = Null
    \/ value.kind = "scalar" /\ column.type \in {NoType, value.type}

Observe(column, value) ==
    IF value = Null THEN [column EXCEPT !.nullable = TRUE]
    ELSE [column EXCEPT !.type = value.type]

\* Mutant: a column first seen in a later row is taken for NOT NULL.
NewColumnForgetful(table, value) == [type |-> NoType, nullable |-> value = Null]

\* Mutant: every column starts nullable.
NewColumnNullable(table, value) == [type |-> NoType, nullable |-> TRUE]

\* A column first seen in a later row had no value in the rows before.
NewColumn(table, value) ==
    [type |-> NoType, nullable |-> table.observedRows > 0 \/ value = Null]

\* TableSchema.observeRow
ObserveRow(schema, name, cells) ==
    LET table == schema.tables[name]
        known == DOMAIN table.columns
        column(n) == IF n \in known THEN table.columns[n] ELSE NewColumn(table, cells[n])
    IN  IF schema.thrown THEN schema
        ELSE IF \E n \in DOMAIN cells : ~ Accepts(column(n), cells[n]) THEN ThrownSchema
        ELSE [schema EXCEPT
                 !.tables[name].observedRows = @ + 1,
                 !.tables[name].columns =
                     [n \in known \cup DOMAIN cells |->
                         IF n \in DOMAIN cells THEN Observe(column(n), cells[n])
                         ELSE Observe(column(n), Null)]]

RECURSIVE ObserveObject(_, _, _, _)

\* observeObject: the child tables first, the object's own row last.
ObserveObject(schema, name, parent, entries) ==
    LET leaves == Leaves(entries, <<>>)
        element(s, table, item) ==
            IF item.kind = "object" THEN ObserveObject(s, table, name, item.entries)
            ELSE ObserveRow(WithTable(s, table, name), table, (<<"value">> :> item))
        array(s, leaf) ==
            FoldLeft(LAMBDA t, item : element(t, name \o leaf.name, item),
                     WithTable(s, name \o leaf.name, name), leaf.value.items)
    IN  ObserveRow(FoldLeft(array, WithTable(schema, name, parent), ArraysOf(leaves)),
                   name, CellsOf(leaves))

\* observeDiscoveryResults
InferSchema(docs, nodeType) ==
    FoldLeft(LAMBDA s, doc : ObserveObject(s, nodeType, NoParent, doc.value.entries),
             EmptySchema, Roots(docs, nodeType))

-----------------------------------------------------------------------------
(* DatabaseBuilder *)

\* validateStructuralColumns: the parent is always in the schema, children are
\* created below it.
StructuralColumnsAreFree(schema) ==
    \A n \in DOMAIN schema.tables :
        LET table == schema.tables[n]
            reserved == {Identity} \cup
                (IF table.parent = NoParent THEN {} ELSE {ParentNodeType, ParentIdentity})
        IN  reserved \cap DOMAIN table.columns = {}

\* ColumnSchema.requireType
EveryColumnHasAType(schema) ==
    \A n \in DOMAIN schema.tables : \A c \in DOMAIN schema.tables[n].columns :
        schema.tables[n].columns[c].type # NoType

NoRows == [thrown |-> FALSE, rows |-> <<>>]

ThrownRows == [thrown |-> TRUE, rows |-> <<>>]

\* addRow; parent is <<table, identity>> or NoParent.
AddRow(out, table, identity, parent, cells) ==
    [out EXCEPT !.rows = Append(@, [table |-> table, identity |-> identity,
                                    parent |-> parent, cells |-> cells])]

RECURSIVE AppendObjectRow(_, _, _, _, _, _)

\* appendObjectRow: an element is known by its parent's identity and its index.
AppendObjectRow(out, schema, name, entries, identity, parent) ==
    LET leaves == Leaves(entries, <<>>)
        element(o, table, item, id) ==
            IF o.thrown \/ item.kind = "array" THEN ThrownRows
            ELSE IF item.kind = "object"
            THEN AppendObjectRow(o, schema, table, item.entries, id, <<name, identity>>)
            ELSE AddRow(o, table, id, <<name, identity>>, (<<"value">> :> item))
        array(o, leaf) ==
            LET table == name \o leaf.name
            IN  IF o.thrown \/ schema.tables[table].parent # name THEN ThrownRows
                ELSE FoldLeft(LAMBDA t, i : element(t, table, leaf.value.items[i],
                                                    Append(identity, i)),
                              o, [i \in DOMAIN leaf.value.items |-> i])
    IN  FoldLeft(array, AddRow(out, name, identity, parent, CellsOf(leaves)),
                 ArraysOf(leaves))

\* The i-th discovered document has the identity <<i>>.
MaterializeRows(schema, docs, nodeType) ==
    FoldLeft(LAMBDA out, i :
                 IF out.thrown \/ docs[i].nodeType # nodeType \/ docs[i].value.kind # "object"
                 THEN out
                 ELSE AppendObjectRow(out, schema, nodeType, docs[i].value.entries,
                                      <<i>>, NoParent),
             NoRows, [i \in DOMAIN docs |-> i])

\* A row as the table stores it: its columns are the table's, absent ones NULL.
Bound(schema, row) ==
    [row EXCEPT !.cells = [c \in DOMAIN schema.tables[row.table].columns |->
                              IF c \in DOMAIN row.cells THEN row.cells[c] ELSE Null]]

\* Database.addRows: NOT NULL and type checks of the inferred columns.
Fits(schema, row) ==
    \A c \in DOMAIN row.cells :
        LET column == schema.tables[row.table].columns[c]
        IN  IF row.cells[c] = Null THEN column.nullable
            ELSE row.cells[c].kind = "scalar" /\ row.cells[c].type = column.type

NoDatabase == [thrown |-> TRUE]

\* DatabaseBuilder.build with the schema SchemaBuilder infers: the tables and their
\* rows, or a throw.
BuildDatabase(docs, nodeType) ==
    LET schema == InferSchema(docs, nodeType)
        made   == MaterializeRows(schema, docs, nodeType)
    IN  IF schema.thrown THEN NoDatabase
        ELSE IF ~ (StructuralColumnsAreFree(schema) /\ EveryColumnHasAType(schema))
        THEN NoDatabase
        ELSE IF made.thrown THEN NoDatabase
        ELSE LET rows == [i \in DOMAIN made.rows |-> Bound(schema, made.rows[i])]
             IN  IF \E i \in DOMAIN rows : ~ Fits(schema, rows[i]) THEN NoDatabase
                 ELSE [thrown |-> FALSE, tables |-> schema.tables, rows |-> rows]

-----------------------------------------------------------------------------
(* The same, told by position *)

RECURSIVE Positions(_, _, _, _, _, _)

\* Where each scalar, null and array inside a value belongs: path is its true path,
\* keys and indexes, which no other shares.
Positions(value, table, identity, parent, column, path) ==
    LET here == [table |-> table, identity |-> identity, parent |-> parent,
                 value |-> value, column |-> column, path |-> path]
    IN  CASE value.kind = "object" ->
                 UNION {Positions(value.entries[i].value, table, identity, parent,
                                  column \o value.entries[i].key,
                                  Append(path, value.entries[i].key)) :
                           i \in DOMAIN value.entries}
          [] value.kind = "array" ->
                 {here} \cup
                 UNION {Positions(value.items[i], table \o column, Append(identity, i),
                                  <<table, identity>>, <<>>, Append(path, <<"[]", i>>)) :
                           i \in DOMAIN value.items}
          [] OTHER -> {[here EXCEPT !.column = IF @ = <<>> THEN <<"value">> ELSE @]}

PositionsIn(docs, nodeType) ==
    UNION {Positions(docs[i].value, nodeType, <<i>>, NoParent, <<>>, <<<<"[]", i>>>>) :
              i \in {j \in DOMAIN docs : /\ docs[j].nodeType = nodeType
                                         /\ docs[j].value.kind = "object"}}

ArraysIn(docs, nodeType) == {p \in PositionsIn(docs, nodeType) : p.value.kind = "array"}

ScalarsIn(docs, nodeType) == {p \in PositionsIn(docs, nodeType) : p.value.kind # "array"}

\* No two scalars claim one cell, which takes a key that holds "__".
NoCollision(scalars) ==
    \A p, q \in scalars :
        <<p.table, p.identity, p.column>> = <<q.table, q.identity, q.column>> => p = q

\* Documents a relational schema exists for: no array in an array, no table below
\* two parents, no column of two types or of none, no name of a structural column.
Mappable(docs, nodeType) ==
    LET arrays  == ArraysIn(docs, nodeType)
        scalars == ScalarsIn(docs, nodeType)
    IN  /\ \A p \in arrays : p.column # <<>>
        /\ \A p, q \in arrays : p.table \o p.column = q.table \o q.column => p.table = q.table
        /\ \A p \in scalars :
              LET types == {q.value.type : q \in {q \in scalars :
                               /\ <<q.table, q.column>> = <<p.table, p.column>>
                               /\ q.value # Null}}
              IN  Cardinality(types) = 1
        /\ \A p \in scalars :
              /\ p.column # Identity
              /\ p.parent # NoParent => p.column \notin {ParentNodeType, ParentIdentity}
=============================================================================
