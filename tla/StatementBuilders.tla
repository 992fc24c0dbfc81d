-------------------------- MODULE StatementBuilders --------------------------
(***************************************************************************)
(* The builders an InputBatch writes statements with.  A builder is known  *)
(* by its kind and by the calls made on it: they decide which calls it     *)
(* offers next and whether its statement can be created.  What the calls   *)
(* say is left out.                                                        *)
(***************************************************************************)
EXTENDS Integers, FiniteSets

Joins == {"innerJoin", "leftJoin", "rightJoin", "fullJoin"}

Sources == {"defaultValues", "values", "select"}

Alterations ==
    {"addColumn", "dropColumn", "renameColumn", "modifyColumn", "addConstraint",
     "dropConstraint", "dropPrimaryKey"}

ConstraintCalls == {"primaryKey", "unique", "foreignKey", "check"}

CallNames ==
    Joins \cup Sources \cup Alterations \cup ConstraintCalls
        \cup {"as", "set", "where", "returning", "from", "on", "unionAll", "references",
              "onDelete", "onUpdate", "alterColumn"}

QueryKinds == {"select", "unionAll"}

SimpleKinds == {"create_table", "alter_table", "insert_into", "update_set", "delete_from"}

InstantKinds == {"begin", "commit", "rollback", "use_database", "create_database"}

\* nested holds the queries the statement has taken over, by number.
Statement ==
    [kind : InstantKinds \cup SimpleKinds \cup QueryKinds, id : Nat,
     calls : SUBSET CallNames, nested : SUBSET Nat]

NoBuilder == [kind |-> "none"]

NewBuilder(kind, id) == [kind |-> kind, id |-> id, calls |-> {}, nested |-> {}]

-----------------------------------------------------------------------------
(* getNextCalls *)

Next_(required, optional) == [required |-> required, optional |-> optional]

\* Mutant: FOREIGN KEY does not ask for REFERENCES.
AlterTableCallsUnreferenced(calls) ==
    IF calls = {} THEN Next_(Alterations, {})
    ELSE IF calls = {"addConstraint"} THEN Next_(ConstraintCalls, {})
    ELSE IF "references" \in calls THEN Next_({}, {"onDelete", "onUpdate"} \ calls)
    ELSE Next_({}, {})

\* An AlterTableBuilder is known by the calls made so far.
AlterTableCalls(calls) ==
    IF calls = {} THEN Next_(Alterations, {})
    ELSE IF calls = {"addConstraint"} THEN Next_(ConstraintCalls, {})
    ELSE IF "references" \in calls THEN Next_({}, {"onDelete", "onUpdate"} \ calls)
    ELSE IF "foreignKey" \in calls THEN Next_({"references"}, {})
    ELSE Next_({}, {})

InsertIntoCalls(calls) ==
    IF calls \cap Sources = {} THEN Next_(Sources, {}) ELSE Next_({}, {"returning"})

DeleteFromCalls(calls) == Next_({}, ({"where"} \ calls) \cup {"returning"})

UpdateSetCalls(calls) ==
    IF "set" \notin calls THEN Next_({"set"}, {}) ELSE DeleteFromCalls(calls)

\* TabularExpressionReferencer: an alias may be given to a source that has none.
TabularCalls(hasSource, calls) ==
    (IF hasSource THEN {"as"} \ calls ELSE {}) \cup Joins

SelectCalls(calls) ==
    IF "from" \notin calls THEN Next_({"from"}, {})
    ELSE Next_({}, TabularCalls(TRUE, calls) \cup {"unionAll"} \cup ({"where"} \ calls))

UnionAllCalls(calls) == Next_({}, TabularCalls(FALSE, calls) \cup {"unionAll"})

NextCalls(b) ==
    CASE b.kind = "alter_table"  -> AlterTableCalls(b.calls)
      [] b.kind = "create_table" -> Next_({}, {"as"} \ b.calls)
      [] b.kind = "insert_into"  -> InsertIntoCalls(b.calls)
      [] b.kind = "update_set"   -> UpdateSetCalls(b.calls)
      [] b.kind = "delete_from"  -> DeleteFromCalls(b.calls)
      [] b.kind = "select"       -> SelectCalls(b.calls)
      [] b.kind = "unionAll"     -> UnionAllCalls(b.calls)
      [] b.kind = "innerJoin"    -> Next_({"on"}, {})

Offers(b, call) == call \in NextCalls(b).required \cup NextCalls(b).optional

-----------------------------------------------------------------------------
(* createStatement *)

\* Mutant: a constraint is taken for defined once its kind is known.
AlterTableCreatesUnreferenced(calls) ==
    IF "addConstraint" \in calls THEN calls \cap ConstraintCalls # {} ELSE calls # {}

AlterTableCreates(calls) ==
    IF "addConstraint" \in calls
    THEN calls \cap {"primaryKey", "unique", "check", "references"} # {}
    ELSE calls # {}

\* Whether createStatement returns; it throws on a builder that lacks a part.
Creates(b) ==
    CASE b.kind = "insert_into" -> b.calls \cap Sources # {}
      [] b.kind = "update_set"  -> "set" \in b.calls
      [] b.kind = "select"      -> "from" \in b.calls
      [] b.kind = "innerJoin"   -> FALSE
      [] b.kind = "alter_table" -> AlterTableCreates(b.calls)
      [] OTHER -> TRUE

Created(b) == [kind |-> b.kind, id |-> b.id, calls |-> b.calls, nested |-> b.nested]

-----------------------------------------------------------------------------
(* The builder after a call that the batch let through *)

\* The builder classes each method of InputBatch works on; any other builder makes
\* it throw, whatever the builder offers.
WorksOn(call) ==
    CASE call = "values" -> {"insert_into"}
      [] call = "returning" -> {"insert_into", "update_set"}
      [] call = "set"       -> {"update_set"}
      [] call = "where"     -> {"select", "update_set", "delete_from"}
      [] call = "from"      -> {"select"}
      [] call = "on"        -> {"innerJoin"}
      [] call \in {"as", "innerJoin"} -> QueryKinds
      [] OTHER -> {"alter_table"}

\* The methods that accept a query, with the builder classes they accept it for.
TakesQuery(call) ==
    CASE call = "as"     -> {"create_table"}
      [] call = "select" -> {"insert_into"}
      [] call = "from"   -> {"select"}
      [] call \in {"innerJoin", "unionAll"} -> QueryKinds
      [] OTHER -> {}

\* An ON replaces the source of the outer builder by the join, without its alias.
JoinedOn(b) == [b.outer EXCEPT !.calls = (@ \ {"as"}) \cup {"innerJoin"},
                               !.nested = @ \cup b.nested]

\* Called: the builder that is current after the call.
Called(b, call) ==
    CASE call = "on" -> JoinedOn(b)
      [] call = "innerJoin" -> [kind |-> "innerJoin", id |-> b.id, calls |-> {},
                                nested |-> {}, outer |-> b]
      [] call = "unionAll" -> [NewBuilder("unionAll", b.id) EXCEPT !.nested = b.nested]
      [] OTHER -> [b EXCEPT !.calls = @ \cup {call}]

\* Mutant: a UNION ALL, which has no source of its own, is joined all the same.
HasLeftSourceAlways(b, call) == TRUE

\* innerJoin on a builder without a source throws, after the batch has let it through
\* and has taken the right side out of its batch.
HasLeftSource(b, call) == call = "innerJoin" => b.kind = "select"
=============================================================================
