---------------------------- MODULE SchemaChanges ----------------------------
(***************************************************************************)
(* CREATE TABLE and ALTER TABLE on one Database.  A statement is bound to  *)
(* a list of actions against the snapshot it finds, and the actions are    *)
(* applied one by one, each to what the one before left behind.  One that  *)
(* throws ends the statement: outside a transaction nothing has happened,  *)
(* inside one the first actions stay, and COMMIT publishes them.           *)
(*                                                                         *)
(* Columns and indexes have ids, and constraints hold such ids.  Rows are  *)
(* left out, but for whether a table has any: then an action that looks at *)
(* them may throw.                                                         *)
(***************************************************************************)
EXTENDS Naturals, Sequences, FiniteSets

CONSTANTS
    Tables,            \* table names, which stand for their ids: no statement drops one
    ColumnNames,
    ConstraintNames,
    Statements,        \* the DDL statements a user issues
    AllowNullableForeignKeys,  \* a dialect rule
    MaxIds             \* bound: statements are issued while ids are below it

Types == {"integer", "decimal", "varchar"}

IsAssignable(from, to) == from = to \/ (from = "integer" /\ to = "decimal")

Columns == Nat \ {0}

Indexes == Nat \ {0}

Column == [name : ColumnNames, type : Types, nullable : BOOLEAN, position : Nat]

\* An index has its constraint's name, with _PKIDX or _FKIDX appended.
IndexNames == ConstraintNames \X {"", "_PKIDX", "_FKIDX"}

Index ==
    [name : IndexNames, unique : BOOLEAN, columns : Seq(Columns), positions : Seq(Nat)]

PrimaryKey == [kind : {"primaryKey"}, name : ConstraintNames, index : Indexes]

Unique == [kind : {"unique"}, name : ConstraintNames, index : Indexes, ownsIndex : BOOLEAN]

ForeignKey ==
    [kind : {"foreignKey"}, name : ConstraintNames, columns : Seq(Columns),
     reverseIndex : Indexes, parentTable : Tables, parentColumns : Seq(Columns),
     parentIndex : Indexes]

Check == [kind : {"check"}, name : ConstraintNames, columns : SUBSET Columns]

Constraint == PrimaryKey \cup Unique \cup ForeignKey \cup Check

\* columns and indexes map the ids in use; nextColumn and nextIndex are the
\* allocators.  populated: the table has been given rows.
IsTable(t) ==
    /\ DOMAIN t = {"columns", "indexes", "constraints", "nextColumn", "nextIndex", "populated"}
    /\ t.nextColumn \in Columns /\ t.nextIndex \in Indexes /\ t.populated \in BOOLEAN
    /\ DOMAIN t.columns \subseteq 1..(t.nextColumn - 1)
    /\ t.columns \in [DOMAIN t.columns -> Column]
    /\ DOMAIN t.indexes \subseteq 1..(t.nextIndex - 1)
    /\ t.indexes \in [DOMAIN t.indexes -> Index]
    /\ t.constraints \subseteq Constraint

EmptyTable ==
    [columns |-> <<>>, indexes |-> <<>>, constraints |-> {},
     nextColumn |-> 1, nextIndex |-> 1, populated |-> FALSE]

IsDatabase(d) == DOMAIN d \subseteq Tables /\ \A n \in DOMAIN d : IsTable(d[n])

-----------------------------------------------------------------------------
(* What a user writes.  A UNIQUE constraint is given columns or an index.  *)

ColumnDefinition ==
    [name : ColumnNames, type : Types, nullable : BOOLEAN, hasDefault : BOOLEAN]

TypeChange == [name : ColumnNames, type : Types]

KeyDefinition ==
    [kind : {"primaryKey", "check"}, name : ConstraintNames, columns : Seq(ColumnNames),
     using : {{}}]
    \cup [kind : {"unique"}, name : ConstraintNames, columns : Seq(ColumnNames) \ {<<>>},
          using : {{}}]
    \cup [kind : {"unique"}, name : ConstraintNames, columns : {<<>>},
          using : {{n} : n \in IndexNames}]

ForeignKeyDefinition ==
    [kind : {"foreignKey"}, name : ConstraintNames, columns : Seq(ColumnNames),
     parentTable : Tables, parentColumns : Seq(ColumnNames)]

ConstraintDefinition == KeyDefinition \cup ForeignKeyDefinition

Statement ==
    [kind : {"create_table"}, table : Tables, columns : Seq(ColumnDefinition),
     constraints : Seq(ConstraintDefinition)]
    \cup [kind : {"insert", "drop_primary_key"}, table : Tables]
    \cup [kind : {"add_constraint"}, table : Tables, spec : ConstraintDefinition]
    \cup [kind : {"drop_constraint"}, table : Tables, name : ConstraintNames]
    \cup [kind : {"add_column"}, table : Tables, columns : Seq(ColumnDefinition)]
    \cup [kind : {"drop_column"}, table : Tables, names : Seq(ColumnNames)]
    \cup [kind : {"rename_column"}, table : Tables, from : ColumnNames, to : ColumnNames]
    \cup [kind : {"modify_column"}, table : Tables, columns : Seq(TypeChange)]

ASSUME StatementsAssumption == Statements \subseteq Statement

IndexDefinition == [name : IndexNames, unique : BOOLEAN, columns : Seq(ColumnNames)]

\* What a statement is compiled to.
Action ==
    [op : {"create_table", "insert_rows", "drop_primaryKey"}, table : Tables]
    \cup [op : {"add_column"}, table : Tables, spec : ColumnDefinition]
    \cup [op : {"drop_column"}, table : Tables, name : ColumnNames]
    \cup [op : {"rename_column"}, table : Tables, from : ColumnNames, to : ColumnNames]
    \cup [op : {"alter_column"}, table : Tables, name : ColumnNames, type : Types]
    \cup [op : {"add_index"}, table : Tables, spec : IndexDefinition]
    \cup [op : {"drop_index"}, table : Tables, index : Indexes]
    \cup [op : {"add_primaryKey", "add_unique", "add_check"}, table : Tables, spec : KeyDefinition]
    \cup [op : {"add_foreignKey"}, table : Tables, spec : ForeignKeyDefinition]
    \cup [op : {"drop_constraint"}, table : Tables, name : ConstraintNames]

VARIABLES
    db,     \* the committed Database
    work,   \* the Database of the transaction, and db when there is none
    inTx,   \* an explicit transaction is open
    todo    \* the actions of the statement in progress that are still to be applied

vars == <<db, work, inTx, todo>>

-----------------------------------------------------------------------------
(* Looking things up in a table *)

Elements(seq) == {seq[i] : i \in DOMAIN seq}

HasColumn(t, name) == \E c \in DOMAIN t.columns : t.columns[c].name = name

ColumnNamed(t, name) == CHOOSE c \in DOMAIN t.columns : t.columns[c].name = name

HasColumns(t, names) == \A n \in Elements(names) : HasColumn(t, n)

IdsOf(t, names) == [i \in DOMAIN names |-> ColumnNamed(t, names[i])]

HasIndex(t, name) == \E x \in DOMAIN t.indexes : t.indexes[x].name = name

IndexNamed(t, name) == CHOOSE x \in DOMAIN t.indexes : t.indexes[x].name = name

\* Table.getUniqueIndexByColumns: the columns of an index, in this order.
UniqueIndexes(t, columns) ==
    {x \in DOMAIN t.indexes : t.indexes[x].unique /\ t.indexes[x].columns = columns}

OfKind(t, kind) == {c \in t.constraints : c.kind = kind}

NameUnused(t, name) == \A c \in t.constraints : c.name # name

Without(f, x) == [y \in DOMAIN f \ {x} |-> f[y]]

With(f, x, value) == [y \in DOMAIN f \cup {x} |-> IF y = x THEN value ELSE f[y]]

-----------------------------------------------------------------------------
(* What the methods of Table return *)

\* Table.createColumn
WithColumn(t, spec) ==
    [t EXCEPT !.columns = With(@, t.nextColumn,
                  [name |-> spec.name, type |-> spec.type, nullable |-> spec.nullable,
                   position |-> Cardinality(DOMAIN @)]),
              !.nextColumn = @ + 1]

\* Mutant: the indexes keep the positions they were created with.
WithoutColumnOnly(t, c) ==
    LET shifted == [b \in DOMAIN t.columns |->
                       IF t.columns[b].position < t.columns[c].position THEN t.columns[b]
                       ELSE [t.columns[b] EXCEPT !.position = @ - 1]]
    IN  [t EXCEPT !.columns = Without(shifted, c)]

\* Table.removeColumnById: the columns behind it move up, and every index takes
\* over the new positions.
WithoutColumn(t, c) ==
    LET shifted == [b \in DOMAIN t.columns |->
                       IF t.columns[b].position < t.columns[c].position THEN t.columns[b]
                       ELSE [t.columns[b] EXCEPT !.position = @ - 1]]
        rebound == [x \in DOMAIN t.indexes |->
                       [t.indexes[x] EXCEPT !.positions =
                           [i \in DOMAIN t.indexes[x].columns |->
                               shifted[t.indexes[x].columns[i]].position]]]
    IN  [t EXCEPT !.columns = Without(shifted, c), !.indexes = rebound]

\* Mutant: the id is not taken, and the next index overwrites this one.
WithIndexUnallocated(t, spec) ==
    LET columns == IdsOf(t, spec.columns)
    IN  [t EXCEPT !.indexes = With(@, t.nextIndex,
                      [name |-> spec.name, unique |-> spec.unique, columns |-> columns,
                       positions |-> [i \in DOMAIN columns |-> t.columns[columns[i]].position]])]

\* Table.createIndex
WithIndex(t, spec) ==
    LET columns == IdsOf(t, spec.columns)
    IN  [t EXCEPT !.indexes = With(@, t.nextIndex,
                      [name |-> spec.name, unique |-> spec.unique, columns |-> columns,
                       positions |-> [i \in DOMAIN columns |-> t.columns[columns[i]].position]]),
                  !.nextIndex = @ + 1]

WithConstraint(t, c) == [t EXCEPT !.constraints = @ \cup {c}]

\* Table.removePrimaryKey, removeUniqueById, removeCheckById: the index stays.
WithoutConstraint(t, c) == [t EXCEPT !.constraints = @ \ {c}]

\* Table.removeForeignKeyById: the reverse index goes with the key.
WithoutForeignKey(t, fk) ==
    [t EXCEPT !.constraints = @ \ {fk}, !.indexes = Without(@, fk.reverseIndex)]

\* A UNIQUE constraint is backed by the index it names, by a unique index on its
\* columns, or by a new one, which it owns.
NeedsIndex(t, spec) ==
    spec.using = {} /\ UniqueIndexes(t, IdsOf(t, spec.columns)) = {}

\* Table.createUniqueConstraint
WithUniqueConstraint(t, spec) ==
    LET backed == IF NeedsIndex(t, spec)
                  THEN WithIndex(t, [name |-> <<spec.name, "">>, unique |-> TRUE,
                                     columns |-> spec.columns])
                  ELSE t
        index  == IF NeedsIndex(t, spec) THEN t.nextIndex
                  ELSE IF spec.using # {} THEN CHOOSE x \in DOMAIN t.indexes : t.indexes[x].name \in spec.using
                  ELSE CHOOSE x \in UniqueIndexes(t, IdsOf(t, spec.columns)) : TRUE
    IN  WithConstraint(backed, [kind |-> "unique", name |-> spec.name, index |-> index,
                                ownsIndex |-> NeedsIndex(t, spec)])

-----------------------------------------------------------------------------
(* What the actions assert before they change anything *)

ReferencesColumn(t, c) ==
    \/ \E k \in OfKind(t, "foreignKey") : c \in Elements(k.columns)
    \/ \E x \in DOMAIN t.indexes : c \in Elements(t.indexes[x].columns)
    \/ \E k \in OfKind(t, "check") : c \in k.columns

\* Mutant: unique indexes are only compared column by column.
IndexAcceptedInOrder(t, spec) ==
    /\ ~ HasIndex(t, spec.name)
    /\ HasColumns(t, spec.columns)
    /\ spec.unique => UniqueIndexes(t, IdsOf(t, spec.columns)) = {}

\* Table.createIndex: no unique index may have the same set of columns.
IndexAccepted(t, spec) ==
    /\ ~ HasIndex(t, spec.name)
    /\ HasColumns(t, spec.columns)
    /\ spec.unique =>
          /\ spec.name[2] = "" => NameUnused(t, spec.name[1])
          /\ \A x \in DOMAIN t.indexes :
                t.indexes[x].unique =>
                    Elements(t.indexes[x].columns) # Elements(IdsOf(t, spec.columns))

PrimaryKeyAccepted(t, spec) ==
    /\ OfKind(t, "primaryKey") = {}
    /\ NameUnused(t, spec.name)
    /\ HasColumns(t, spec.columns)
    /\ \A c \in Elements(IdsOf(t, spec.columns)) : ~ t.columns[c].nullable
    /\ UniqueIndexes(t, IdsOf(t, spec.columns)) # {}

\* Mutant: a constraint that shares an index is not asked for its name.
UniqueAcceptedByIndex(t, spec) ==
    IF spec.using # {}
    THEN \E x \in DOMAIN t.indexes : t.indexes[x].name \in spec.using /\ t.indexes[x].unique
    ELSE /\ HasColumns(t, spec.columns)
         /\ NeedsIndex(t, spec) =>
               IndexAccepted(t, [name |-> <<spec.name, "">>, unique |-> TRUE,
                                 columns |-> spec.columns])

\* Table.createUniqueConstraint and createUnique
UniqueAccepted(t, spec) ==
    /\ NameUnused(t, spec.name)
    /\ IF spec.using # {}
       THEN \E x \in DOMAIN t.indexes : t.indexes[x].name \in spec.using /\ t.indexes[x].unique
       ELSE /\ HasColumns(t, spec.columns)
            /\ NeedsIndex(t, spec) =>
                  IndexAccepted(t, [name |-> <<spec.name, "">>, unique |-> TRUE,
                                    columns |-> spec.columns])

\* Database.createForeignKey
ForeignKeyAccepted(d, child, spec) ==
    /\ spec.parentTable \in DOMAIN d
    /\ HasColumns(child, spec.columns)
    /\ HasIndex(child, <<spec.name, "_FKIDX">>)
    /\ NameUnused(child, spec.name)
    /\ LET parent  == d[spec.parentTable]
           columns == IdsOf(child, spec.columns)
           keys    == IdsOf(parent, spec.parentColumns)
           reverse == child.indexes[IndexNamed(child, <<spec.name, "_FKIDX">>)]
       IN  /\ HasColumns(parent, spec.parentColumns)
           /\ UniqueIndexes(parent, keys) # {}
           /\ Len(columns) = Len(keys)
           /\ \A i \in DOMAIN columns : child.columns[columns[i]].type = parent.columns[keys[i]].type
           /\ reverse.columns = columns /\ ~ reverse.unique

\* Mutant: the index of the primary key is not looked at.
DropColumnAcceptedInKey(t, name) ==
    /\ HasColumn(t, name)
    /\ LET keys   == {k.index : k \in OfKind(t, "primaryKey")}
           others == [x \in DOMAIN t.indexes \ keys |-> t.indexes[x]]
       IN  ~ ReferencesColumn([t EXCEPT !.indexes = others], ColumnNamed(t, name))

\* Table.removeColumn, which does not know of foreign keys in other tables.
DropColumnAccepted(t, name) ==
    HasColumn(t, name) /\ ~ ReferencesColumn(t, ColumnNamed(t, name))

\* Database.assertColumnCanBeAltered: the columns a foreign key pairs with it,
\* on either side, must convert to the new type too.
AlterAccepted(d, n, c, type) ==
    /\ IsAssignable(d[n].columns[c].type, type)
    /\ \A m \in DOMAIN d : \A k \in OfKind(d[m], "foreignKey") : \A i \in DOMAIN k.columns :
          /\ m = n /\ k.columns[i] = c =>
                IsAssignable(d[k.parentTable].columns[k.parentColumns[i]].type, type)
          /\ k.parentTable = n /\ k.parentColumns[i] = c =>
                IsAssignable(d[m].columns[k.columns[i]].type, type)

\* Mutant: an index may be removed while a constraint uses it.
DropIndexAcceptedInUse(t, x) == x \in DOMAIN t.indexes

\* Table.removeIndexById, which does not know of foreign keys in other tables.
DropIndexAccepted(t, x) ==
    /\ x \in DOMAIN t.indexes
    /\ \A k \in t.constraints :
          x # CASE k.kind = "foreignKey" -> k.reverseIndex
                [] k.kind = "check"      -> 0
                [] OTHER                 -> k.index

\* assertAllForeignKeysValid requires the indexes of every foreign key.
RowsCanBeChecked(d) ==
    \A n \in DOMAIN d : \A k \in OfKind(d[n], "foreignKey") :
        /\ k.parentIndex \in DOMAIN d[k.parentTable].indexes
        /\ k.reverseIndex \in DOMAIN d[n].indexes

\* The action does not throw, whatever rows there are.
Accepted(a) ==
    IF a.op = "create_table" THEN a.table \notin DOMAIN work
    ELSE /\ a.table \in DOMAIN work
         /\ LET t == work[a.table] IN
            CASE a.op = "insert_rows"     -> RowsCanBeChecked(work)
              [] a.op = "add_column"      ->
                    /\ ~ HasColumn(t, a.spec.name)
                    /\ t.populated => a.spec.nullable \/ a.spec.hasDefault
              [] a.op = "drop_column"     -> DropColumnAccepted(t, a.name)
              [] a.op = "rename_column"   ->
                    HasColumn(t, a.from) /\ (a.from = a.to \/ ~ HasColumn(t, a.to))
              [] a.op = "alter_column"    ->
                    /\ HasColumn(t, a.name)
                    /\ AlterAccepted(work, a.table, ColumnNamed(t, a.name), a.type)
              [] a.op = "add_index"       -> IndexAccepted(t, a.spec)
              [] a.op = "drop_index"      -> DropIndexAccepted(t, a.index)
              [] a.op = "add_primaryKey"  -> PrimaryKeyAccepted(t, a.spec)
              [] a.op = "add_unique"      -> UniqueAccepted(t, a.spec)
              [] a.op = "add_foreignKey"  -> ForeignKeyAccepted(work, t, a.spec)
              [] a.op = "add_check"       ->
                    NameUnused(t, a.spec.name) /\ HasColumns(t, a.spec.columns)
              [] a.op = "drop_primaryKey" -> OfKind(t, "primaryKey") # {}
              [] a.op = "drop_constraint" -> ~ NameUnused(t, a.name)

\* The action reads the rows and may refuse them: a unique index does not build, a
\* reference has no parent row, a CHECK fails, a new row is invalid.
RowsMayRefuse(a) ==
    \/ a.op = "insert_rows"
    \/ /\ a.op \in {"add_index", "add_unique", "add_foreignKey", "add_check", "alter_column"}
       /\ work[a.table].populated

-----------------------------------------------------------------------------
(* Binding: what a statement compiles to, and when the binder refuses it *)

AddOp ==
    [primaryKey |-> "add_primaryKey", unique |-> "add_unique",
     foreignKey |-> "add_foreignKey", check |-> "add_check"]

\* Foreign keys and primary keys bring an index of their own, as an action of its own.
ConstraintActions(n, spec) ==
    LET index(suffix, unique) ==
            [op |-> "add_index", table |-> n,
             spec |-> [name |-> <<spec.name, suffix>>, columns |-> spec.columns, unique |-> unique]]
        add == [op |-> AddOp[spec.kind], table |-> n, spec |-> spec]
    IN  CASE spec.kind = "foreignKey" -> <<index("_FKIDX", FALSE), add>>
          [] spec.kind = "primaryKey" -> <<index("_PKIDX", TRUE), add>>
          [] OTHER                    -> <<add>>

\* bindCreateTable, without AS SELECT
CreateTableActions(s) ==
    LET upTo[i \in 0..Len(s.constraints)] ==
            IF i = 0 THEN <<>>
            ELSE upTo[i - 1] \o ConstraintActions(s.table, s.constraints[i])
    IN  <<[op |-> "create_table", table |-> s.table]>>
            \o [i \in DOMAIN s.columns |->
                   [op |-> "add_column", table |-> s.table, spec |-> s.columns[i]]]
            \o upTo[Len(s.constraints)]

\* The constraint, with the ids it holds, as the binder finds it.
DropConstraintActions(n, k) ==
    LET dropIndex(x) == [op |-> "drop_index", table |-> n, index |-> x]
        dropKey      == [op |-> "drop_constraint", table |-> n, name |-> k.name]
    IN  CASE k.kind = "primaryKey" -> <<[op |-> "drop_primaryKey", table |-> n]>>
          [] k.kind = "unique"     -> IF k.ownsIndex THEN <<dropKey, dropIndex(k.index)>>
                                      ELSE <<dropKey>>
          [] k.kind = "foreignKey" -> <<dropKey, dropIndex(k.reverseIndex)>>
          [] k.kind = "check"      -> <<dropKey>>

AddConstraintBinds(t, spec) ==
    /\ spec.kind # "check" => HasColumns(t, spec.columns)
    /\ spec.kind = "foreignKey" =>
          /\ spec.parentTable \in DOMAIN work
          /\ HasColumns(work[spec.parentTable], spec.parentColumns)
          /\ AllowNullableForeignKeys
                \/ \A c \in Elements(IdsOf(t, spec.columns)) : ~ t.columns[c].nullable

\* The action lists of a statement: none if the binder throws.
Bindings(s) ==
    IF s.kind = "create_table"
    THEN IF s.table \in DOMAIN work THEN {} ELSE {CreateTableActions(s)}
    ELSE IF s.table \notin DOMAIN work THEN {}
    ELSE LET t == work[s.table]
             onTable(op) == [op |-> op, table |-> s.table]
         IN  CASE s.kind = "insert" -> {<<onTable("insert_rows")>>}
               [] s.kind = "add_constraint" ->
                     IF AddConstraintBinds(t, s.spec) THEN {ConstraintActions(s.table, s.spec)}
                     ELSE {}
               [] s.kind = "drop_constraint" ->
                     {DropConstraintActions(s.table, k) :
                         k \in {k \in t.constraints : k.name = s.name}}
               [] s.kind = "drop_primary_key" -> {<<onTable("drop_primaryKey")>>}
               [] s.kind = "add_column" ->
                     {[i \in DOMAIN s.columns |->
                          [op |-> "add_column", table |-> s.table, spec |-> s.columns[i]]]}
               [] s.kind = "drop_column" ->
                     IF HasColumns(t, s.names)
                     THEN {[i \in DOMAIN s.names |->
                               [op |-> "drop_column", table |-> s.table, name |-> s.names[i]]]}
                     ELSE {}
               [] s.kind = "rename_column" ->
                     IF HasColumn(t, s.from) /\ ~ HasColumn(t, s.to)
                     THEN {<<[op |-> "rename_column", table |-> s.table,
                              from |-> s.from, to |-> s.to]>>}
                     ELSE {}
               [] s.kind = "modify_column" ->
                     IF \A i \in DOMAIN s.columns : HasColumn(t, s.columns[i].name)
                     THEN {[i \in DOMAIN s.columns |->
                               [op |-> "alter_column", table |-> s.table,
                                name |-> s.columns[i].name, type |-> s.columns[i].type]]}
                     ELSE {}

-----------------------------------------------------------------------------
(* Transactions and statements *)

Init ==
    /\ db = <<>>
    /\ work = <<>>
    /\ inTx = FALSE
    /\ todo = <<>>

Begin ==
    /\ todo = <<>> /\ ~ inTx
    /\ inTx' = TRUE
    /\ UNCHANGED <<db, work, todo>>

Commit ==
    /\ todo = <<>> /\ inTx
    /\ db' = work
    /\ inTx' = FALSE
    /\ UNCHANGED <<work, todo>>

Rollback ==
    /\ todo = <<>> /\ inTx
    /\ work' = db
    /\ inTx' = FALSE
    /\ UNCHANGED <<db, todo>>

WithinBounds ==
    \A n \in DOMAIN work : work[n].nextColumn <= MaxIds /\ work[n].nextIndex <= MaxIds

\* Engine.bindAndExecute up to the actions.
Issue(s) ==
    /\ todo = <<>>
    /\ WithinBounds
    /\ \E actions \in Bindings(s) : todo' = actions
    /\ UNCHANGED <<db, work, inTx>>

\* The first action left, if it is of this kind and does not throw.
Due(ops) == {a \in {todo[i] : i \in DOMAIN todo \cap {1}} : a.op \in ops /\ Accepted(a)}

\* Its table becomes t; after the last action an auto-commit publishes the result.
Becomes(a, t) ==
    /\ work' = With(work, a.table, t)
    /\ todo' = Tail(todo)
    /\ db' = IF Len(todo) = 1 /\ ~ inTx THEN work' ELSE db
    /\ UNCHANGED inTx

CreateTable == \E a \in Due({"create_table"}) : Becomes(a, EmptyTable)

InsertRows ==
    \E a \in Due({"insert_rows"}) : Becomes(a, [work[a.table] EXCEPT !.populated = TRUE])

AddColumn == \E a \in Due({"add_column"}) : Becomes(a, WithColumn(work[a.table], a.spec))

DropColumn ==
    \E a \in Due({"drop_column"}) :
        LET t == work[a.table] IN Becomes(a, WithoutColumn(t, ColumnNamed(t, a.name)))

RenameColumn ==
    \E a \in Due({"rename_column"}) :
        LET t == work[a.table]
        IN  Becomes(a, [t EXCEPT !.columns[ColumnNamed(t, a.from)].name = a.to])

AlterColumn ==
    \E a \in Due({"alter_column"}) :
        LET t == work[a.table]
        IN  Becomes(a, [t EXCEPT !.columns[ColumnNamed(t, a.name)].type = a.type])

AddIndex == \E a \in Due({"add_index"}) : Becomes(a, WithIndex(work[a.table], a.spec))

DropIndex ==
    \E a \in Due({"drop_index"}) :
        LET t == work[a.table] IN Becomes(a, [t EXCEPT !.indexes = Without(@, a.index)])

AddPrimaryKey ==
    \E a \in Due({"add_primaryKey"}) :
        LET t == work[a.table]
        IN  Becomes(a, WithConstraint(t,
                [kind |-> "primaryKey", name |-> a.spec.name,
                 index |-> CHOOSE x \in UniqueIndexes(t, IdsOf(t, a.spec.columns)) : TRUE]))

AddUniqueConstraint ==
    \E a \in Due({"add_unique"}) : Becomes(a, WithUniqueConstraint(work[a.table], a.spec))

AddForeignKey ==
    \E a \in Due({"add_foreignKey"}) :
        LET t      == work[a.table]
            parent == work[a.spec.parentTable]
            keys   == IdsOf(parent, a.spec.parentColumns)
        IN  Becomes(a, WithConstraint(t,
                [kind |-> "foreignKey", name |-> a.spec.name, columns |-> IdsOf(t, a.spec.columns),
                 reverseIndex |-> IndexNamed(t, <<a.spec.name, "_FKIDX">>),
                 parentTable |-> a.spec.parentTable, parentColumns |-> keys,
                 parentIndex |-> CHOOSE x \in UniqueIndexes(parent, keys) : TRUE]))

AddCheck ==
    \E a \in Due({"add_check"}) :
        LET t == work[a.table]
        IN  Becomes(a, WithConstraint(t,
                [kind |-> "check", name |-> a.spec.name,
                 columns |-> Elements(IdsOf(t, a.spec.columns))]))

DropPrimaryKey ==
    \E a \in Due({"drop_primaryKey"}) :
        LET t == work[a.table]
        IN  Becomes(a, [t EXCEPT !.constraints = @ \ OfKind(t, "primaryKey")])

\* DropUniqueAction, DropCheckAction, DropForeignKeyAction
DropConstraint ==
    \E a \in Due({"drop_constraint"}) :
        \E k \in {k \in work[a.table].constraints : k.name = a.name} :
            Becomes(a, IF k.kind = "foreignKey" THEN WithoutForeignKey(work[a.table], k)
                       ELSE WithoutConstraint(work[a.table], k))

\* An auto-commit transaction is dropped; an explicit one keeps what it has.
Throw ==
    /\ todo # <<>>
    /\ ~ Accepted(Head(todo)) \/ RowsMayRefuse(Head(todo))
    /\ todo' = <<>>
    /\ work' = IF inTx THEN work ELSE db
    /\ UNCHANGED <<db, inTx>>

Next ==
    \/ Begin \/ Commit \/ Rollback
    \/ \E s \in Statements : Issue(s)
    \/ CreateTable \/ InsertRows
    \/ AddColumn \/ DropColumn \/ RenameColumn \/ AlterColumn
    \/ AddIndex \/ DropIndex
    \/ AddPrimaryKey \/ AddUniqueConstraint \/ AddForeignKey \/ AddCheck
    \/ DropPrimaryKey \/ DropConstraint
    \/ Throw

Spec == Init /\ [][Next]_vars

-----------------------------------------------------------------------------
(* Properties *)

TypeOK ==
    /\ IsDatabase(db) /\ IsDatabase(work)
    /\ inTx \in BOOLEAN
    /\ todo \in Seq(Action)

\* The ids a constraint of t holds are columns and indexes of t, of the kind they
\* should be.
ConstraintResolves(t, k) ==
    /\ k.kind \in {"primaryKey", "unique"} => k.index \in DOMAIN t.indexes /\ t.indexes[k.index].unique
    /\ k.kind = "primaryKey" =>
          \A c \in Elements(t.indexes[k.index].columns) : ~ t.columns[c].nullable
    /\ k.kind = "check" => k.columns \subseteq DOMAIN t.columns
    /\ k.kind = "foreignKey" =>
          /\ Elements(k.columns) \subseteq DOMAIN t.columns
          /\ k.reverseIndex \in DOMAIN t.indexes
          /\ t.indexes[k.reverseIndex].columns = k.columns
          /\ ~ t.indexes[k.reverseIndex].unique

TableResolves(t) ==
    /\ \A x \in DOMAIN t.indexes : Elements(t.indexes[x].columns) \subseteq DOMAIN t.columns
    /\ \A k \in t.constraints : ConstraintResolves(t, k)

\* Every id a table's own constraints and indexes hold is one of its columns or
\* indexes, of the kind it should be, in every snapshot, also in the middle of a
\* statement and after one that failed half-way.
OwnReferencesResolve == \A n \in DOMAIN work : TableResolves(work[n])

\* The parent index of k is there, unique, and on exactly the parent columns, and
\* these are there.
ParentResolves(d, k) ==
    /\ k.parentTable \in DOMAIN d
    /\ k.parentIndex \in DOMAIN d[k.parentTable].indexes
    /\ LET index == d[k.parentTable].indexes[k.parentIndex]
       IN  index.unique /\ index.columns = k.parentColumns
    /\ Elements(k.parentColumns) \subseteq DOMAIN d[k.parentTable].columns

ForeignKeysOfResolve(d) ==
    \A n \in DOMAIN d : \A k \in OfKind(d[n], "foreignKey") : ParentResolves(d, k)

\* A foreign key finds its parent index and columns, whatever was dropped from the
\* parent table since: nothing in the parent knows of the key, and without the index
\* every row statement throws.
ForeignKeysResolve == ForeignKeysOfResolve(work)

ConstraintNamesDiffer(t) == \A j, k \in t.constraints : j.name = k.name => j = k

\* A constraint name means one constraint of its table, of whatever kind.
ConstraintNamesAreUnique == \A n \in DOMAIN work : ConstraintNamesDiffer(work[n])

UniqueIndexesDiffer(t) ==
    \A x, y \in DOMAIN t.indexes :
        /\ t.indexes[x].unique /\ t.indexes[y].unique
        /\ Elements(t.indexes[x].columns) = Elements(t.indexes[y].columns)
        => x = y

\* No two unique indexes of a table are on the same columns, in any order, so the
\* index a key is given does not depend on the order of creation.
UniqueIndexesAreDistinct == \A n \in DOMAIN work : UniqueIndexesDiffer(work[n])

\* The positions of a table have no gap.
PositionsAreDense(t) ==
    {t.columns[c].position : c \in DOMAIN t.columns} = 0..(Cardinality(DOMAIN t.columns) - 1)

IndexPositionsAreCurrent(t) ==
    \A x \in DOMAIN t.indexes :
        t.indexes[x].positions =
            [i \in DOMAIN t.indexes[x].columns |-> t.columns[t.indexes[x].columns[i]].position]

\* The column positions an index projects rows by are where its columns are now,
\* and the positions of a table have no gap, however many columns came and went.
PositionsAreCurrent ==
    \A n \in DOMAIN work : PositionsAreDense(work[n]) /\ IndexPositionsAreCurrent(work[n])

\* An action finds the index its id was resolved to when the statement was bound,
\* whatever the statement's earlier actions removed.
BoundIdsResolve ==
    todo # <<>> /\ Head(todo).op = "drop_index" =>
        Head(todo).index \in DOMAIN work[Head(todo).table].indexes
=============================================================================
