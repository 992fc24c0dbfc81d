------------------------------ MODULE SqlTypes ------------------------------
(***************************************************************************)
(* SQL types, the values of a query and what converts between them.  A     *)
(* number is given in halves, a string as the sequence of the texts and    *)
(* numbers written one after the other in it.  Dates are left out as       *)
(* values.                                                                 *)
(***************************************************************************)
EXTENDS Integers, Sequences

Unlimited == -1

SqlType(kind, params) == [kind |-> kind, params |-> params]

Integer == SqlType("integer", <<>>)
Decimal(precision, scale) == SqlType("decimal", <<precision, scale>>)
Varchar(length) == SqlType("varchar", <<length>>)
Boolean == SqlType("boolean", <<>>)
Date == SqlType("date", <<>>)
Timestamp(precision) == SqlType("timestamp", <<precision>>)
Json == SqlType("json", <<>>)

\* The type of an expression that has none: deriving it throws.
NoType == SqlType("none", <<>>)

\* isSameType is equality.
IsAssignable(from, to) == from = to \/ (from.kind = "integer" /\ to.kind = "decimal")

IsCastable(from, to) ==
    \/ from = to
    \/ to.kind \in CASE from.kind = "integer"   -> {"decimal", "varchar"}
                     [] from.kind = "decimal"   -> {"integer", "varchar"}
                     [] from.kind = "boolean"   -> {"varchar"}
                     [] from.kind = "varchar"   -> {"integer", "decimal", "boolean",
                                                    "date", "timestamp"}
                     [] from.kind = "date"      -> {"varchar", "timestamp"}
                     [] from.kind = "timestamp" -> {"varchar", "date"}
                     [] OTHER -> {}

\* A parameter the types disagree on is dropped.
MergeDecimalTypes(types) ==
    LET Agreed(i) == IF \A t \in types, u \in types : t.params[i] = u.params[i]
                     THEN (CHOOSE t \in types : TRUE).params[i]
                     ELSE Unlimited
    IN  Decimal(Agreed(1), Agreed(2))

\* commonSqlType, of the set of types of a nonempty list.
CommonSqlType(types) ==
    CASE \E t \in types : types = {t} -> CHOOSE t \in types : TRUE
      [] \A t \in types : t.kind \in {"integer", "decimal"} ->
             MergeDecimalTypes({t \in types : t.kind = "decimal"})
      [] \A t \in types : IsCastable(t, Varchar(Unlimited)) -> Varchar(Unlimited)
      [] OTHER -> NoType

-----------------------------------------------------------------------------
(* Values *)

Null == [kind |-> "null"]

Num(halves) == [kind |-> "number", n |-> halves]

\* tokens: <<"text", t>> for a text t, <<"num", h>> for a number of h halves.
Str(tokens) == [kind |-> "string", s |-> tokens]

Text(t) == Str(<<<<"text", t>>>>)

Bool(b) == [kind |-> "boolean", b |-> b]

\* A JSON object: a function of its properties.
Object(properties) == [kind |-> "object", properties |-> properties]

\* What the evaluation of an expression that throws is taken to be.
Thrown == [kind |-> "thrown"]

IsWhole(value) == value.kind = "number" /\ value.n % 2 = 0

MatchesSqlType(value, type) ==
    \/ value = Null
    \/ CASE type.kind = "integer" -> IsWhole(value)
         [] type.kind = "decimal" -> value.kind = "number"
         [] type.kind = "varchar" -> value.kind = "string"
         [] type.kind = "boolean" -> value.kind = "boolean"
         [] type.kind = "json"    -> value # Thrown

SqlTypeFromValue(value) ==
    CASE value.kind = "string"  -> Varchar(Unlimited)
      [] value.kind = "number"  -> IF IsWhole(value) THEN Integer
                                   ELSE Decimal(Unlimited, Unlimited)
      [] value.kind = "boolean" -> Boolean
      [] value.kind = "object"  -> Json
      [] OTHER -> NoType

\* String(value), by what it shows in a concatenation.
TokensOf(value) ==
    CASE value.kind = "string"  -> value.s
      [] value.kind = "number"  -> <<<<"num", value.n>>>>
      [] value.kind = "boolean" -> <<<<"text", IF value.b THEN "true" ELSE "false">>>>
      [] value.kind = "object"  -> <<<<"text", "[object Object]">>>>

\* Number(value); Thrown stands for NaN, which every caller refuses.  Of the strings,
\* only the empty one and those that are one written number have a value.
NumberOf(value) ==
    CASE value.kind = "number"  -> value
      [] value.kind = "boolean" -> Num(IF value.b THEN 2 ELSE 0)
      [] value = Str(<<>>)      -> Num(0)
      [] value.kind = "string" /\ Len(value.s) = 1 /\ value.s[1][1] = "num" ->
             Num(value.s[1][2])
      [] OTHER -> Thrown

CastValue(value, type) ==
    CASE value \in {Null, Thrown} -> value
      [] type.kind = "integer" -> IF IsWhole(NumberOf(value)) THEN NumberOf(value) ELSE Thrown
      [] type.kind = "decimal" -> NumberOf(value)
      [] type.kind = "varchar" -> Str(TokensOf(value))
      [] type.kind = "boolean" ->
             CASE value.kind = "boolean" -> value
               [] value = Text("true")  -> Bool(TRUE)
               [] value = Text("false") -> Bool(FALSE)
               [] OTHER -> Thrown
      [] type.kind = "json" -> value
=============================================================================
