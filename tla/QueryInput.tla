----------------------------- MODULE QueryInput -----------------------------
(***************************************************************************)
(* An input batch and the answers of the queries it executes.              *)
(***************************************************************************)
EXTENDS InputBatch, Queries

CONSTANT Pool \* the queries the statements may stand for

VARIABLE answer \* the result of the query executed last, until the next step

inputVars == <<queue, builder, executing, written, calls, answer>>

NoAnswer == [ok |-> FALSE]

\* The result of each query of the pool, and what it would be if every reference were
\* found where it is meant to be.
Answers == [q \in Pool |-> BindQuery(q, FALSE)]

MeantAnswers == [q \in Pool |-> BindQuery(q, TRUE)]

RECURSIVE NestsQuery(_)
NestsQuery(s) ==
    \/ s.kind = "query"
    \/ s.kind = "join" /\ (NestsQuery(s.left) \/ NestsQuery(s.right))

\* The calls a query is written with.
CallsOf(q) ==
    IF q.kind = "unionAll" THEN {}
    ELSE {"from"} \cup (IF q.where = NoWhere THEN {} ELSE {"where"})
             \cup (IF q.source.alias = NoName THEN {} ELSE {"as"})
             \cup (IF q.source.kind = "join" THEN {"innerJoin"} ELSE {})

Writes(statement, q) ==
    /\ q.kind = statement.kind
    /\ CallsOf(q) = statement.calls
    /\ (q.kind = "unionAll" \/ NestsQuery(q.source)) = (statement.nested # {})

-----------------------------------------------------------------------------

InputInit == BatchInit /\ answer = NoAnswer

RunOther == Run /\ executing[1].kind \notin QueryKinds /\ answer' = NoAnswer

\* What executing a query of a given result leaves: one that is refused throws.
Answer(q, result) ==
    /\ executing' = IF result.ok THEN Tail(executing) ELSE <<>>
    /\ answer' = IF result.ok
                 THEN [ok |-> TRUE, query |-> q, columns |-> result.columns,
                       rows |-> result.rows]
                 ELSE NoAnswer

\* bindAndExecute, for a query.
RunQuery ==
    /\ Run
    /\ \E q \in Pool :
        /\ Writes(executing[1], q)
        /\ Answer(q, Answers[q])

InputNext ==
    \/ BatchCall /\ answer' = NoAnswer
    \/ RunOther
    \/ RunQuery

InputSpec == InputInit /\ [][InputNext]_inputVars

-----------------------------------------------------------------------------
(* Properties of the answers *)

\* The types of the values an expression may yield against its description: arithmetic
\* on NULL is false, and a CASE leaves the value of a branch as it is.
RECURSIVE Undescribed(_, _)
Undescribed(e, bound) ==
    CASE e.kind = "binary" ->
             (IF NullableOf(e, bound) THEN {Boolean} ELSE {})
                 \cup Undescribed(e.left, bound) \cup Undescribed(e.right, bound)
      [] e.kind = "case" ->
             LET Of(part) == {TypeOf(part, bound)} \cup Undescribed(part, bound)
             IN  UNION {Of(e.branches[i].then) : i \in DOMAIN e.branches}
                     \cup IF e.else = NoElse THEN {} ELSE Of(e.else)
      [] OTHER -> {}

RECURSIVE UndescribedInSource(_), UndescribedInQuery(_)
UndescribedInSource(s) ==
    CASE s.kind = "table" -> {}
      [] s.kind = "query" -> UndescribedInQuery(s.query)
      [] s.kind = "join"  -> UndescribedInSource(s.left) \cup UndescribedInSource(s.right)

UndescribedInQuery(q) ==
    IF q.kind = "unionAll" THEN UndescribedInQuery(q.left) \cup UndescribedInQuery(q.right)
    ELSE LET bound == Bound(BindSource(q.source, FALSE).relations, FALSE)
         IN  UndescribedInSource(q.source)
                 \cup UNION {Undescribed(q.projection[i].expression, bound) :
                                i \in DOMAIN q.projection}

\* The columns of a result are the contract for what reads it (INSERT ... SELECT and
\* CREATE TABLE ... AS take a table's columns from them): there is no NULL in a column
\* said to have none, and every value is one of its column's type.  Only two kinds of
\* value are not, and no other comes of them: the false of arithmetic on NULL and the
\* unconverted branch of a CASE.
RowsMatchTheirColumns ==
    answer.ok =>
        \A k \in DOMAIN answer.rows :
            /\ Len(answer.rows[k]) = Len(answer.columns)
            /\ \A i \in DOMAIN answer.columns :
                /\ \E type \in {answer.columns[i].type} \cup UndescribedInQuery(answer.query) :
                       MatchesSqlType(answer.rows[k][i], type)
                /\ answer.rows[k][i] = Null => answer.columns[i].nullable

\* The references in an expression or a predicate.
RECURSIVE References(_)
References(e) ==
    LET Of(parts) == UNION {References(parts[i]) : i \in DOMAIN parts} IN
    CASE e.kind = "column" -> {e.ref}
      [] e.kind \in {"literal", "none"} -> {}
      [] e.kind = "cast" -> References(e.expr)
      [] e.kind = "case" ->
             Of([i \in DOMAIN e.branches |-> e.branches[i].when])
                 \cup Of([i \in DOMAIN e.branches |-> e.branches[i].then])
                 \cup References(e.else)
      [] e.kind \in {"binary", "comparison", "xor"} ->
             References(e.left) \cup References(e.right)
      [] e.kind = "concat" -> Of(e.parts)
      [] e.kind = "json_value" -> References(e.source)
      [] e.kind \in {"and", "or"} -> Of(e.predicates)
      [] e.kind \in {"not", "is_null", "is_not_null"} -> References(e.inner)

Qualified(e) == \A reference \in References(e) : reference.relation # NoName

\* Every reference says which relation it means, and every relation has a name.
RECURSIVE SourceQualified(_), QueryQualified(_)
SourceQualified(s) ==
    CASE s.kind = "table" -> TRUE
      [] s.kind = "query" -> s.alias # NoName /\ QueryQualified(s.query)
      [] s.kind = "join"  ->
             Qualified(s.on) /\ SourceQualified(s.left) /\ SourceQualified(s.right)

QueryQualified(q) ==
    IF q.kind = "unionAll" THEN QueryQualified(q.left) /\ QueryQualified(q.right)
    ELSE /\ SourceQualified(q.source) /\ Qualified(q.where)
         /\ \A i \in DOMAIN q.projection : Qualified(q.projection[i].expression)

\* The answer is the one the names call for.
Gives(result) == result.ok /\ answer.columns = result.columns /\ answer.rows = result.rows

AsMeant == Gives(MeantAnswers[answer.query])

\* Where every relation has a name and every reference uses it, the rows are those of
\* the columns named: in self joins, under aliases, through derived tables and joins
\* of joins (RelationScope.requireColumnPosition).
QualifiedNamesBindAsMeant == answer.ok /\ QueryQualified(answer.query) => AsMeant

\* semantic/docs/module_overview.md: "Unqualified references must resolve to exactly one
\* matching column", and it is that column they stand for.
NamesBindToTheirColumn == answer.ok => AsMeant
=============================================================================
