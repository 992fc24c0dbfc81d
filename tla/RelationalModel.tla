-------------------------- MODULE RelationalModel --------------------------
(***************************************************************************)
(* Rows, keys and structural constraints of one relational Database: what  *)
(* a snapshot is and when it satisfies its indexes, CHECKs and foreign     *)
(* keys.  Operators only; ReferentialActions and RelationalStore supply    *)
(* the state.                                                              *)
(*                                                                         *)
(* Row numbers start at 1 here and at 0 in the code.                       *)
(***************************************************************************)
EXTENDS Naturals, Sequences, FiniteSets

CONSTANTS
    Tables,      \* the table ids of the database
    Columns,     \* column ids; a table that lacks a column keeps Null in it
    Values,      \* the non-NULL column values
    Null,        \* SQL NULL
    Schemas      \* the schemas to explore; a behaviour picks one

Action == {"noAction", "restrict", "setNull", "cascade"}

Row == [Columns -> Values \cup {Null}]

\* A row slot: the column data at one row number and its rowAlive flag.
Slot == [vals : Row, alive : BOOLEAN]

Database == [Tables -> Seq(Slot)]

\* The columns of a key, in index order.
ColumnList == Seq(Columns)

ForeignKey ==
    [child : Tables, columns : ColumnList,
     parent : Tables, parentColumns : ColumnList,
     onDelete : Action, onUpdate : Action]

UniqueIndex == [columns : ColumnList, nullsDistinct : BOOLEAN]

(***************************************************************************)
(* A schema:                                                               *)
(*   fks      the foreign keys, in the order the tables and their foreign  *)
(*            keys are iterated;                                           *)
(*   initial  those that exist before the first row is added;              *)
(*   uniques  the unique indexes of each table;                            *)
(*   allowed  the rows that pass each column's assertDatum and the table's *)
(*            CHECKs (assertRowAgainstChecks);                             *)
(*   maxRows  bound: row slots per table.                                  *)
(***************************************************************************)
Schema ==
    [fks : Seq(ForeignKey), initial : SUBSET Nat,
     uniques : [Tables -> SUBSET UniqueIndex],
     allowed : [Tables -> SUBSET Row],
     maxRows : Nat]

ASSUME TablesAssumption == IsFiniteSet(Tables)

ASSUME NullAssumption == Null \notin Values

\* Database.createForeignKey requires a unique parent index on exactly the
\* parent columns, and as many child columns as parent columns.
ASSUME SchemasAssumption ==
    \A s \in Schemas :
        /\ s \in Schema
        /\ s.initial \subseteq DOMAIN s.fks
        /\ \A f \in DOMAIN s.fks :
               /\ Len(s.fks[f].columns) = Len(s.fks[f].parentColumns)
               /\ \E u \in s.uniques[s.fks[f].parent] :
                      u.columns = s.fks[f].parentColumns

-----------------------------------------------------------------------------
(* Rows, keys and indexes *)

Alive(d, t) == {r \in DOMAIN d[t] : d[t][r].alive}

Project(row, columns) == [i \in DOMAIN columns |-> row[columns[i]]]

HasNull(key) == \E i \in DOMAIN key : key[i] = Null

\* Index.build over the live rows of t does not throw.
UniqueIndexBuilds(d, t, u) ==
    \A r, s \in Alive(d, t) :
        LET key == Project(d[t][r].vals, u.columns)
        IN  (r # s /\ key = Project(d[t][s].vals, u.columns))
                => u.nullsDistinct /\ HasNull(key)

\* Every index of t builds; a non-unique index always does.
IndexesBuild(s, d, t) == \A u \in s.uniques[t] : UniqueIndexBuilds(d, t, u)

\* The parent index of fk has the key: a live parent row carries it.
HasParent(d, fk, key) ==
    \E p \in Alive(d, fk.parent) :
        Project(d[fk.parent][p].vals, fk.parentColumns) = key

ExistingRowsSatisfy(d, fk) ==
    \A r \in Alive(d, fk.child) :
        LET key == Project(d[fk.child][r].vals, fk.columns)
        IN  HasNull(key) \/ HasParent(d, fk, key)

\* fs are the positions in s.fks of the foreign keys that exist.
AllForeignKeysValid(s, fs, d) == \A f \in fs : ExistingRowsSatisfy(d, s.fks[f])

\* Every stored row passes its column and CHECK constraints, every index builds.
TablesConsistent(s, d) ==
    \A t \in Tables :
        /\ \A r \in DOMAIN d[t] : d[t][r].vals \in s.allowed[t]
        /\ IndexesBuild(s, d, t)

\* The structural constraints of a snapshot hold.
ConstraintsHold(s, fs, d) == TablesConsistent(s, d) /\ AllForeignKeysValid(s, fs, d)
=============================================================================
