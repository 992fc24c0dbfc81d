--------------------------- MODULE MCSchemaChanges ---------------------------
(***************************************************************************)
(* Instances of SchemaChanges for TLC: a parent and a child table.         *)
(***************************************************************************)
EXTENDS SchemaChanges

MCTables == {"parent", "child"}
MCColumnNames == {"id", "x", "y"}
MCConstraintNames == {"pk", "u", "v", "fk"}

ColumnSpec(name, nullable) ==
    [name |-> name, type |-> "integer", nullable |-> nullable, hasDefault |-> FALSE]

OnColumns(kind, name, columns) ==
    [kind |-> kind, name |-> name, columns |-> columns, using |-> {}]

References(name, columns, parentColumns) ==
    [kind |-> "foreignKey", name |-> name, columns |-> columns,
     parentTable |-> "parent", parentColumns |-> parentColumns]

Create(n, columns, constraints) ==
    [kind |-> "create_table", table |-> n, columns |-> columns, constraints |-> constraints]

AddTo(n, spec) == [kind |-> "add_constraint", table |-> n, spec |-> spec]

DropFrom(n, name) == [kind |-> "drop_constraint", table |-> n, name |-> name]

Insert(n) == [kind |-> "insert", table |-> n]

CreateParent ==
    Create("parent", <<ColumnSpec("x", TRUE), ColumnSpec("id", FALSE)>>,
           <<OnColumns("primaryKey", "pk", <<"id">>)>>)

CreateChild == Create("child", <<ColumnSpec("x", TRUE)>>, <<>>)

\* All but the statements of the two sets below.  The child references the primary
\* key of the parent, whose index no statement removes.  The names collide on
\* purpose: u is a CHECK and a UNIQUE, v shares the index of u, and one order of the
\* columns of u and v excludes the other.
MCStatements ==
    {CreateParent, CreateChild, Insert("parent"),
     AddTo("child", References("fk", <<"x">>, <<"id">>)),
     AddTo("parent", OnColumns("unique", "u", <<"x", "id">>)),
     AddTo("parent", OnColumns("unique", "v", <<"id", "x">>)),
     AddTo("parent", OnColumns("check", "u", <<"x">>)),
     AddTo("parent", OnColumns("primaryKey", "pk", <<"id">>)),
     AddTo("parent", [OnColumns("unique", "v", <<>>) EXCEPT !.using = {<<"u", "">>}]),
     DropFrom("parent", "pk"), DropFrom("parent", "u"), DropFrom("parent", "v"),
     [kind |-> "drop_primary_key", table |-> "parent"],
     [kind |-> "add_column", table |-> "parent", columns |-> <<ColumnSpec("y", TRUE)>>],
     [kind |-> "drop_column", table |-> "parent", names |-> <<"x", "id">>],
     [kind |-> "drop_column", table |-> "child", names |-> <<"x">>],
     [kind |-> "rename_column", table |-> "parent", from |-> "x", to |-> "y"],
     [kind |-> "modify_column", table |-> "child",
      columns |-> <<[name |-> "x", type |-> "decimal"]>>]}

\* The child references a UNIQUE column, whose constraint owns its index.
UniqueParentStatements ==
    {CreateParent, CreateChild, Insert("child"),
     AddTo("parent", OnColumns("unique", "u", <<"x">>)),
     AddTo("child", References("fk", <<"x">>, <<"x">>)),
     DropFrom("parent", "u")}

\* The foreign key itself is dropped.
DropForeignKeyStatements ==
    {CreateParent, CreateChild, Insert("child"),
     AddTo("child", References("fk", <<"x">>, <<"id">>)),
     DropFrom("child", "fk")}
=============================================================================
