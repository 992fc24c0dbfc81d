------------------------------ MODULE Queries ------------------------------
(***************************************************************************)
(* Queries from their binding to their rows: names resolved against the    *)
(* relations of the source, positions found for them, expressions and      *)
(* predicates evaluated, and the columns that describe the result.  An     *)
(* identifier is a sequence, so that a column named by the engine can be   *)
(* told from those named by the user; NoName is the missing one.           *)
(***************************************************************************)
EXTENDS SqlTypes, FiniteSets, SequencesExt

CONSTANT
    Database,                            \* the tables, by name
    DenyDuplicateDerivedTableColumnNames \* the rule of that name

NoName == <<>>
ResultColumnName == "column"

NoId == 0

Star == <<>>

NoElse == [kind |-> "none"]

NoWhere == [kind |-> "none"]

\* What a query that throws, when bound or when run, comes to.
Refused == [ok |-> FALSE]

-----------------------------------------------------------------------------
(* RelationScope *)

\* The columns of a scope in the order of the values of a row.
Cells(relations) ==
    FlattenSeq([r \in DOMAIN relations |->
        [i \in DOMAIN relations[r].columns |->
            [relation |-> relations[r].name, id |-> relations[r].columns[i].id,
             column |-> relations[r].columns[i].column]]])

\* The positions a reference can mean.
Meanings(reference, relations) ==
    LET cells == Cells(relations) IN
    {p \in DOMAIN cells :
        /\ reference.relation \in {NoName, cells[p].relation}
        /\ cells[p].column.name = reference.column}

\* resolveColumn returns: the relation named is there once, the column is there once.
Resolves(reference, relations) ==
    /\ reference.relation # NoName =>
           Cardinality({r \in DOMAIN relations : relations[r].name = reference.relation}) = 1
    /\ Cardinality(Meanings(reference, relations)) = 1

\* Mutant: the relation of a reference is not looked at when its position is found.
MatchesAnyRelation(cell, relationName, resolved) ==
    IF cell.id # NoId THEN cell.id = resolved.id
    ELSE cell.column.name = resolved.column.name

Matches(cell, relationName, resolved) ==
    /\ cell.relation = NoName \/ relationName = NoName \/ cell.relation = relationName
    /\ IF cell.id # NoId THEN cell.id = resolved.id
       ELSE cell.column.name = resolved.column.name

\* requireColumnPosition, for the column a reference has been resolved to.  A reference
\* without a relation is resolved to a column without a relation.
Position(reference, relations) ==
    LET cells == Cells(relations)
        resolved == cells[CHOOSE p \in Meanings(reference, relations) : TRUE]
        matching == {p \in DOMAIN cells : Matches(cells[p], reference.relation, resolved)}
    IN  CHOOSE p \in matching : \A q \in matching : p <= q

\* The references that resolve in a scope, each with its column and its position: the
\* one the code finds, or the one that is meant.
Bound(relations, asMeant) ==
    LET cells == Cells(relations)
        references == [relation : {NoName} \cup {cells[p].relation : p \in DOMAIN cells},
                       column : {cells[p].column.name : p \in DOMAIN cells}]
        Meant(reference) == CHOOSE p \in Meanings(reference, relations) : TRUE
    IN  [reference \in {r \in references : Resolves(r, relations)} |->
            [column |-> cells[Meant(reference)].column,
             position |-> IF asMeant THEN Meant(reference)
                          ELSE Position(reference, relations)]]

-----------------------------------------------------------------------------
(* The description of an expression; bound is that of the scope *)

RECURSIVE TypeOf(_, _)
TypeOf(e, bound) ==
    CASE e.kind = "literal" -> SqlTypeFromValue(e.value)
      [] e.kind = "column"  -> bound[e.ref].column.type
      [] e.kind = "cast"    -> e.type
      [] e.kind = "case"    ->
             CommonSqlType({TypeOf(e.branches[i].then, bound) : i \in DOMAIN e.branches}
                 \cup IF e.else = NoElse THEN {} ELSE {TypeOf(e.else, bound)})
      [] e.kind \in {"concat", "json_value"} -> Varchar(Unlimited)
      [] e.kind = "binary"  -> CommonSqlType({TypeOf(e.left, bound), TypeOf(e.right, bound)})

RECURSIVE NullableOf(_, _)
NullableOf(e, bound) ==
    CASE e.kind = "literal" -> e.value = Null
      [] e.kind = "column"  -> bound[e.ref].column.nullable
      [] e.kind = "cast"    -> NullableOf(e.expr, bound)
      [] e.kind = "case"    ->
             \/ e.else = NoElse
             \/ NullableOf(e.else, bound)
             \/ \E i \in DOMAIN e.branches : NullableOf(e.branches[i].then, bound)
      [] e.kind = "binary"  -> NullableOf(e.left, bound) \/ NullableOf(e.right, bound)
      [] e.kind = "concat"  -> \E i \in DOMAIN e.parts : NullableOf(e.parts[i], bound)
      [] e.kind = "json_value" -> TRUE

\* resolveExpression and resolvePredicate return.  Only the type of a column is known
\* when a cast is checked.
RECURSIVE Resolved(_, _), PredicateResolved(_, _)
Resolved(e, bound) ==
    CASE e.kind = "literal" -> TRUE
      [] e.kind = "column"  -> e.ref \in DOMAIN bound
      [] e.kind = "cast"    ->
             /\ Resolved(e.expr, bound)
             /\ e.expr.kind = "column" => IsCastable(bound[e.expr.ref].column.type, e.type)
      [] e.kind = "case"    ->
             /\ \A i \in DOMAIN e.branches :
                    /\ PredicateResolved(e.branches[i].when, bound)
                    /\ Resolved(e.branches[i].then, bound)
             /\ e.else = NoElse \/ Resolved(e.else, bound)
      [] e.kind = "binary"  -> Resolved(e.left, bound) /\ Resolved(e.right, bound)
      [] e.kind = "concat"  -> \A i \in DOMAIN e.parts : Resolved(e.parts[i], bound)
      [] e.kind = "json_value" -> Resolved(e.source, bound) /\ TypeOf(e.source, bound) = Json

PredicateResolved(p, bound) ==
    CASE p.kind = "comparison" -> Resolved(p.left, bound) /\ Resolved(p.right, bound)
      [] p.kind \in {"and", "or"} ->
             \A i \in DOMAIN p.predicates : PredicateResolved(p.predicates[i], bound)
      [] p.kind = "xor" -> PredicateResolved(p.left, bound) /\ PredicateResolved(p.right, bound)
      [] p.kind = "not" -> PredicateResolved(p.inner, bound)
      [] p.kind \in {"is_null", "is_not_null"} -> Resolved(p.inner, bound)

-----------------------------------------------------------------------------
(* Evaluation *)

\* BinaryExpression: an operation on NULL is false.
Arithmetic(operator, left, right) ==
    CASE Thrown \in {left, right} -> Thrown
      [] Null \in {left, right}   -> Bool(FALSE)
      [] left.kind # "number" \/ right.kind # "number" -> Thrown
      [] operator = "add"      -> Num(left.n + right.n)
      [] operator = "subtract" -> Num(left.n - right.n)
      [] operator = "multiply" -> Num((left.n * right.n) \div 2)

\* ComparisonPredicate: a comparison with NULL is false, and only numbers are put in
\* order here.
Comparison(operator, left, right) ==
    CASE Thrown \in {left, right} -> Thrown
      [] Null \in {left, right}   -> Bool(FALSE)
      [] operator = "eq" -> Bool(left = right)
      [] operator = "ne" -> Bool(left # right)
      [] left.kind # "number" \/ right.kind # "number" -> Thrown
      [] operator = "gt"  -> Bool(left.n > right.n)
      [] operator = "lt"  -> Bool(left.n < right.n)
      [] operator = "gte" -> Bool(left.n >= right.n)
      [] operator = "lte" -> Bool(left.n <= right.n)

\* The first result other than the given one, or that one: every and some stop there.
FirstOther(results, usual) ==
    LET other == {i \in DOMAIN results : results[i] # usual} IN
    IF other = {} THEN usual
    ELSE results[CHOOSE i \in other : \A j \in other : i <= j]

\* CaseExpression, of the results of the conditions and what follows them.
CaseOf(verdicts, thens, else) ==
    LET stop == {i \in DOMAIN verdicts : verdicts[i] # Bool(FALSE)}
        first == CHOOSE i \in stop : \A j \in stop : i <= j
    IN  CASE stop = {} -> else
          [] verdicts[first] = Thrown -> Thrown
          [] OTHER -> thens[first]

\* ConcatExpression: NULL is written as nothing.
ConcatOf(values) ==
    IF Thrown \in ToSet(values) THEN Thrown
    ELSE Str(FlattenSeq([i \in DOMAIN values |->
                 IF values[i] = Null THEN <<>> ELSE TokensOf(values[i])]))

\* JsonValueExpression, for a path of one property: it must be there and be a scalar.
JsonValueOf(value, key) ==
    IF value.kind # "object" THEN Thrown
    ELSE IF key \notin DOMAIN value.properties THEN Thrown
    ELSE CASE value.properties[key] = Null -> Null
           [] value.properties[key].kind = "object" -> Thrown
           [] OTHER -> Str(TokensOf(value.properties[key]))

RECURSIVE Eval(_, _, _), Holds(_, _, _)
Eval(e, row, bound) ==
    CASE e.kind = "literal" -> e.value
      [] e.kind = "column"  -> row[bound[e.ref].position]
      [] e.kind = "cast"    -> CastValue(Eval(e.expr, row, bound), e.type)
      [] e.kind = "case"    ->
             CaseOf([i \in DOMAIN e.branches |-> Holds(e.branches[i].when, row, bound)],
                    [i \in DOMAIN e.branches |-> Eval(e.branches[i].then, row, bound)],
                    IF e.else = NoElse THEN Null ELSE Eval(e.else, row, bound))
      [] e.kind = "binary"  ->
             Arithmetic(e.operator, Eval(e.left, row, bound), Eval(e.right, row, bound))
      [] e.kind = "concat"  ->
             ConcatOf([i \in DOMAIN e.parts |-> Eval(e.parts[i], row, bound)])
      [] e.kind = "json_value" -> JsonValueOf(Eval(e.source, row, bound), e.key)

Holds(p, row, bound) ==
    CASE p.kind = "comparison" ->
             Comparison(p.operator, Eval(p.left, row, bound), Eval(p.right, row, bound))
      [] p.kind \in {"and", "or"} ->
             FirstOther([i \in DOMAIN p.predicates |-> Holds(p.predicates[i], row, bound)],
                        Bool(p.kind = "and"))
      [] p.kind = "xor" ->
             LET left == Holds(p.left, row, bound)
                 right == Holds(p.right, row, bound)
             IN  IF Thrown \in {left, right} THEN Thrown ELSE Bool(left # right)
      [] p.kind = "not" ->
             LET inner == Holds(p.inner, row, bound) IN
             IF inner = Thrown THEN Thrown ELSE Bool(~ inner.b)
      [] p.kind \in {"is_null", "is_not_null"} ->
             LET value == Eval(p.inner, row, bound) IN
             IF value = Thrown THEN Thrown
             ELSE Bool((value = Null) = (p.kind = "is_null"))

-----------------------------------------------------------------------------
(* The columns of a result *)

\* allocateColumnName: a column without a name gets the next default name.
NamedColumns(columns) ==
    [i \in DOMAIN columns |->
        IF columns[i].name # NoName THEN columns[i]
        ELSE [columns[i] EXCEPT !.name =
                  <<ResultColumnName, Cardinality({j \in 1 .. i : columns[j].name = NoName})>>]]

\* A name that looks like a default one is refused, even where the engine gave it to a
\* derived table.
TakesDefaultName(columns) ==
    \E i \in DOMAIN columns :
        columns[i].name # NoName /\ columns[i].name[1] = ResultColumnName

Describes(item, bound) ==
    [name |-> CASE item.alias # NoName -> item.alias
                [] item.expression.kind = "column" ->
                       bound[item.expression.ref].column.name
                [] OTHER -> NoName,
     type |-> TypeOf(item.expression, bound),
     nullable |-> NullableOf(item.expression, bound)]

\* Mutant: a union is taken to be nullable only where its left side is.
ReconciledLeft(left, right) ==
    [left EXCEPT !.type = CommonSqlType({left.type, right.type})]

\* reconcileQueryColumns, for one pair of columns.
Reconciled(left, right) ==
    [name |-> left.name, type |-> CommonSqlType({left.type, right.type}),
     nullable |-> left.nullable \/ right.nullable]

Reconcilable(left, right) ==
    /\ Len(left) = Len(right)
    /\ \A i \in DOMAIN left :
           IsAssignable(left[i].type, right[i].type) \/ IsAssignable(right[i].type, left[i].type)

FromPlan(alias, columns) ==
    [name |-> alias,
     columns |-> [i \in DOMAIN columns |-> [column |-> columns[i], id |-> NoId]]]

-----------------------------------------------------------------------------
(* Plans and their rows *)

\* A predicate that cannot be bound, or throws on one of the rows.
Fails(predicate, rows, bound) ==
    \/ ~ PredicateResolved(predicate, bound)
    \/ \E k \in DOMAIN rows : Holds(predicate, rows[k], bound) = Thrown

\* FilterNode, and the filter of a join.
Filtered(predicate, rows, bound) ==
    SelectSeq(rows, LAMBDA row : Holds(predicate, row, bound) = Bool(TRUE))

BindTable(s) ==
    IF s.table \notin DOMAIN Database THEN Refused
    ELSE LET columns == Database[s.table].columns IN
         [ok |-> TRUE, rows |-> Database[s.table].rows,
          columns |-> [i \in DOMAIN columns |-> columns[i].column],
          relations |-> <<[name |-> IF s.alias = NoName THEN s.table ELSE s.alias,
                           columns |-> columns]>>]

\* bindQueryReference, for a query that is bound.
BindDerived(s, plan) ==
    IF /\ DenyDuplicateDerivedTableColumnNames
       /\ \E i \in DOMAIN plan.columns, j \in DOMAIN plan.columns :
              i # j /\ plan.columns[i].name = plan.columns[j].name
    THEN Refused
    ELSE [ok |-> TRUE, columns |-> plan.columns, rows |-> plan.rows,
          relations |-> <<FromPlan(s.alias, plan.columns)>>]

Pairs(left, right) ==
    FlattenSeq([l \in DOMAIN left |-> [r \in DOMAIN right |-> left[l] \o right[r]]])

\* bindJoin, for two sides that are bound.
JoinOn(s, columns, relations, rows, bound) ==
    IF Fails(s.on, rows, bound) THEN Refused
    ELSE [ok |-> TRUE, columns |-> columns, rows |-> Filtered(s.on, rows, bound),
          relations |-> IF s.alias = NoName THEN relations ELSE <<FromPlan(s.alias, columns)>>]

BindJoin(s, left, right, asMeant) ==
    JoinOn(s, left.columns \o right.columns, left.relations \o right.relations,
           Pairs(left.rows, right.rows), Bound(left.relations \o right.relations, asMeant))

\* The result with these columns and rows, if its names, types and values are all there.
Result(columns, rows) ==
    IF \/ TakesDefaultName(columns)
       \/ \E i \in DOMAIN columns : columns[i].type = NoType
       \/ \E k \in DOMAIN rows : Thrown \in ToSet(rows[k])
    THEN Refused
    ELSE [ok |-> TRUE, columns |-> NamedColumns(columns), rows |-> rows]

\* bindExplicitProjection and EvaluateNode.
Projected(items, columns, rows, bound) ==
    CASE items = Star -> Result(columns, rows)
      [] \E i \in DOMAIN items : ~ Resolved(items[i].expression, bound) -> Refused
      [] OTHER ->
             Result([i \in DOMAIN items |-> Describes(items[i], bound)],
                    [k \in DOMAIN rows |->
                        [i \in DOMAIN items |-> Eval(items[i].expression, rows[k], bound)]])

\* bindSelect, for a source that is bound.
SelectFrom(q, source, bound) ==
    IF q.where # NoWhere /\ Fails(q.where, source.rows, bound) THEN Refused
    ELSE Projected(q.projection, source.columns,
                   IF q.where = NoWhere THEN source.rows
                   ELSE Filtered(q.where, source.rows, bound),
                   bound)

BindSelect(q, source, asMeant) == SelectFrom(q, source, Bound(source.relations, asMeant))

\* bindTabularExpression and bindQuery, each with what running the plan returns; a
\* statement throws alike when it cannot be bound and when a row cannot be computed.
RECURSIVE BindSource(_, _), BindQuery(_, _)
BindSource(s, asMeant) ==
    CASE s.kind = "table" -> BindTable(s)
      [] s.kind = "query" ->
             LET plan == BindQuery(s.query, asMeant) IN
             IF plan.ok THEN BindDerived(s, plan) ELSE Refused
      [] s.kind = "join" ->
             LET left == BindSource(s.left, asMeant)
                 right == BindSource(s.right, asMeant)
             IN  IF left.ok /\ right.ok THEN BindJoin(s, left, right, asMeant) ELSE Refused

BindQuery(q, asMeant) ==
    IF q.kind = "select"
    THEN LET source == BindSource(q.source, asMeant) IN
         IF source.ok THEN BindSelect(q, source, asMeant) ELSE Refused
    ELSE LET left == BindQuery(q.left, asMeant)
             right == BindQuery(q.right, asMeant)
         IN  IF left.ok /\ right.ok /\ Reconcilable(left.columns, right.columns)
             THEN [ok |-> TRUE, rows |-> left.rows \o right.rows,
                   columns |-> [i \in DOMAIN left.columns |->
                                   Reconciled(left.columns[i], right.columns[i])]]
             ELSE Refused
=============================================================================
