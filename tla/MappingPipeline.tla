--------------------------- MODULE MappingPipeline ---------------------------
(***************************************************************************)
(* The orchestrator with the databases that SchemaBuilder infers and       *)
(* DatabaseBuilder makes: what a business database holds when it is        *)
(* installed.  A configuration gives Build the value BuildDatabase.        *)
(***************************************************************************)
EXTENDS Orchestrator, SchemaInference

\* The rows of table t of a database.
RowsOf(database, t) == {i \in DOMAIN database.rows : database.rows[i].table = t}

\* Every scalar of every document of the root type is in exactly one cell, where its
\* position says, every row finds its parent row, and nothing else is stored.
\* Keys with "__" may make two scalars claim one cell; then the later one wins, and
\* nothing is said here (DatabaseBuilder.appendObjectRow).
HoldsEveryDocument(database, docs) ==
    LET scalars == ScalarsIn(docs, RootNodeType)
        at(t, id) == {i \in RowsOf(database, t) : database.rows[i].identity = id}
    IN  NoCollision(scalars) =>
           /\ \A p \in scalars : \E i \in DOMAIN database.rows :
                 /\ at(p.table, p.identity) = {i}
                 /\ database.rows[i].cells[p.column] = p.value
                 /\ database.rows[i].parent = p.parent
           /\ \A i \in DOMAIN database.rows :
                 LET row == database.rows[i]
                 IN  /\ row.parent # NoParent =>
                           Cardinality(at(row.parent[1], row.parent[2])) = 1
                     /\ \A c \in DOMAIN row.cells : row.cells[c] # Null =>
                           \E p \in scalars :
                               <<p.table, p.identity, p.column>> = <<row.table, row.identity, c>>

\* A business database that is installed holds the documents of the latest discovery.
BusinessDatabaseIsFaithful ==
    [][\A n \in DOMAIN business' \ DOMAIN business :
          HoldsEveryDocument(business'[n], results.docs)]_pipelineVars

\* The type of an inferred column is that of its values, and it is nullable exactly if
\* a row of its table has no value for it, whatever the order of the documents, of
\* their keys and of their arrays' elements (TableSchema.observeRow).
InferredColumnsAreExact ==
    [][\A n \in DOMAIN business' \ DOMAIN business : \A t \in DOMAIN business'[n].tables :
          LET columns == business'[n].tables[t].columns
          IN  \A c \in DOMAIN columns :
                 LET values == {business'[n].rows[i].cells[c] : i \in RowsOf(business'[n], t)}
                 IN  /\ {v.type : v \in values \ {Null}} = {columns[c].type}
                     /\ columns[c].nullable <=> Null \in values]_pipelineVars

\* The two passes over the documents agree: rows are refused only where no schema
\* exists, never because inference promised less than the rows need
\* (DatabaseBuilder.build against SchemaBuilder).
OnlyUnmappableDocumentsAreRefused ==
    [][results'.number # results.number /\ NoCollision(ScalarsIn(results'.docs, RootNodeType)) =>
          (BuildDatabase(results'.docs, RootNodeType).thrown
              <=> ~ Mappable(results'.docs, RootNodeType))]_pipelineVars
=============================================================================
