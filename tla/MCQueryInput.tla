---------------------------- MODULE MCQueryInput ----------------------------
(***************************************************************************)
(* Instances of QueryInput for TLC: two tables with a column name and the  *)
(* column ids in common, and queries that use every reference their source *)
(* resolves.                                                               *)
(***************************************************************************)
EXTENDS QueryInput

\* The public methods of MySqlInputBatch and SqlServerInputBatch that extend a builder,
\* by the names of InputBatch.
MySqlMethods ==
    {"as", "addColumn", "dropColumn", "renameColumn", "alterColumn", "addConstraint",
     "unique", "check", "values", "set", "returning", "select", "from", "innerJoin", "on",
     "where", "unionAll"}

SqlServerMethods == MySqlMethods

\* Those of PostgresInputBatch.
PostgresMethods == MySqlMethods \cup {"foreignKey", "references", "onDelete", "onUpdate"}

ASSUME DialectsSupplyEveryPart ==
    \A methods \in {MySqlMethods, SqlServerMethods, PostgresMethods} :
        SuppliesEveryPart(methods)

users  == <<"users">>
orders == <<"orders">>

id     == <<"id">>
name   == <<"name">>
buyer  == <<"buyer">>
amount == <<"amount">>
doc    == <<"doc">>

Column(n, columnId, type, nullable) ==
    [id |-> columnId, column |-> [name |-> n, type |-> type, nullable |-> nullable]]

One == Num(2)
Two == Num(4)
Half == Num(1)

MCDatabase ==
    (users :> [columns |-> <<Column(id, 1, Integer, FALSE),
                             Column(name, 2, Varchar(Unlimited), TRUE)>>,
               rows |-> <<<<One, Text("ann")>>, <<Two, Null>>>>]) @@
    (orders :> [columns |-> <<Column(id, 1, Integer, FALSE),
                              Column(buyer, 2, Integer, TRUE),
                              Column(amount, 3, Decimal(2, 1), TRUE),
                              Column(doc, 4, Json, FALSE)>>,
                rows |-> <<<<One, Two, Half, Object("x" :> One)>>,
                           <<Num(6), Null, Null, Object("x" :> Null)>>>>])

Col(relation, column) == [kind |-> "column", ref |-> [relation |-> relation, column |-> column]]
Lit(value) == [kind |-> "literal", value |-> value]
Cast(e, type) == [kind |-> "cast", expr |-> e, type |-> type]
Binary(operator, l, r) == [kind |-> "binary", operator |-> operator, left |-> l, right |-> r]
Concat(parts) == [kind |-> "concat", parts |-> parts]
JsonValue(e, key) == [kind |-> "json_value", source |-> e, key |-> key]
Case(when, then, else) ==
    [kind |-> "case", branches |-> <<[when |-> when, then |-> then]>>, else |-> else]

Compare(operator, l, r) ==
    [kind |-> "comparison", operator |-> operator, left |-> l, right |-> r]
And(ps) == [kind |-> "and", predicates |-> ps]
Or(ps) == [kind |-> "or", predicates |-> ps]
Xor(l, r) == [kind |-> "xor", left |-> l, right |-> r]
Not(p) == [kind |-> "not", inner |-> p]
IsNull(e) == [kind |-> "is_null", inner |-> e]
IsNotNull(e) == [kind |-> "is_not_null", inner |-> e]

Item(e) == [expression |-> e, alias |-> NoName]
ItemAs(e, alias) == [expression |-> e, alias |-> alias]

Table(t, alias) == [kind |-> "table", table |-> t, alias |-> alias]
Derived(q, alias) == [kind |-> "query", query |-> q, alias |-> alias]
Joined(l, r, on, alias) ==
    [kind |-> "join", left |-> l, right |-> r, on |-> on, alias |-> alias]

Select(items, s, where) ==
    [kind |-> "select", projection |-> items, source |-> s, where |-> where]
UnionAll(l, r) == [kind |-> "unionAll", left |-> l, right |-> r]

u == <<"u">>
v == <<"v">>
d == <<"d">>

\* A query with a column named by the engine, and one with the column name of a table.
Buyers == Select(<<Item(Col(NoName, buyer)), Item(Binary("add", Col(NoName, id), Lit(One)))>>,
                 Table(orders, NoName), NoWhere)
Ids == Select(<<Item(Cast(Col(users, id), Varchar(Unlimited)))>>, Table(users, NoName), NoWhere)
Names == Select(<<Item(Col(NoName, name)), ItemAs(Col(NoName, id), buyer)>>,
                Table(users, NoName), NoWhere)

SameBuyer(l, r) == Compare("eq", Col(l, id), Col(r, buyer))

Tables == {Table(orders, NoName), Table(orders, u)}

UsersWithOrders(alias) ==
    Joined(Table(users, NoName), Table(orders, NoName), SameBuyer(users, orders), alias)

JoinsOfTables ==
    {UsersWithOrders(NoName), UsersWithOrders(d),
     Joined(Table(users, u), Table(users, v), Compare("lt", Col(u, id), Col(v, id)), NoName),
     Joined(UsersWithOrders(NoName), Table(users, v), Compare("ne", Col(v, id), Col(users, id)),
            NoName)}

DerivedTables == {Derived(Buyers, NoName), Derived(Names, d),
                  Derived(UnionAll(Names, Names), d)}

DerivedJoins == {Joined(Derived(Names, d), Table(orders, NoName), SameBuyer(orders, d), NoName),
                 Joined(Derived(Names, NoName), Table(orders, NoName),
                        IsNotNull(Col(orders, buyer)), NoName)}

MCSources == Tables \cup JoinsOfTables \cup DerivedTables \cup DerivedJoins

\* The references a source resolves.
Named(s) == DOMAIN Bound(BindSource(s, TRUE).relations, TRUE)

Ref(r) == [kind |-> "column", ref |-> r]

\* Every reference alone; and predicates on it.
Plain ==
    UNION {{Select(<<Item(Ref(r))>>, s, NoWhere), Select(Star, s, IsNotNull(Ref(r)))} :
               <<s, r>> \in UNION {{s} \X Named(s) : s \in MCSources}}

orderId     == Col(orders, id)
orderBuyer  == Col(orders, buyer)
orderAmount == Col(orders, amount)
orderDoc    == Col(orders, doc)

Small == Compare("lte", orderId, Lit(One))

\* One of each expression, on the orders.
Expressions ==
    {Lit(Null), Lit(Half), Cast(orderDoc, Varchar(Unlimited)),
     Cast(Cast(orderAmount, Varchar(Unlimited)), Integer),
     Cast(Concat(<<Lit(Text("true"))>>), Boolean),
     Concat(<<orderId, orderBuyer, Lit(Bool(TRUE))>>),
     Binary("multiply", orderId, Lit(Half)), Binary("subtract", orderBuyer, orderId),
     Binary("add", Lit(Text("x")), orderId),
     JsonValue(orderDoc, "x"), JsonValue(orderDoc, "y"), JsonValue(orderId, "x"),
     Case(Small, orderId, NoElse), Case(Small, orderId, orderAmount),
     Case(Small, orderId, Lit(Text("none"))), Case(Small, Lit(Text("one")), orderDoc)}

\* One of each predicate.
Predicates ==
    {And(<<IsNotNull(orderBuyer), Compare("gt", orderBuyer, Lit(One))>>),
     And(<<Small, Compare("gte", Lit(Text("x")), orderId)>>),
     Or(<<Small, Not(IsNull(orderAmount))>>),
     Xor(Small, Compare("ne", orderBuyer, Lit(Two))),
     Not(Compare("lt", orderBuyer, Lit(Two)))}

FromOrders(items, where) == Select(items, Table(orders, NoName), where)

Unions ==
    {UnionAll(FromOrders(<<Item(orderId)>>, NoWhere), FromOrders(<<Item(e)>>, NoWhere)) :
        e \in {orderId, orderBuyer, orderAmount, orderDoc}}
    \cup {UnionAll(Names, Ids)}

MCPool ==
    Plain \cup Unions
    \cup {FromOrders(<<Item(e), ItemAs(e, name)>>, NoWhere) : e \in Expressions}
    \cup {FromOrders(Star, p) : p \in Predicates}
    \cup {Select(Star, s, NoWhere) : s \in MCSources}
=============================================================================
