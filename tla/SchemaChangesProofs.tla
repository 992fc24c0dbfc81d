------------------------- MODULE SchemaChangesProofs -------------------------
(***************************************************************************)
(* What holds of SchemaChanges for every set of tables, names and          *)
(* statements.                                                             *)
(***************************************************************************)
EXTENDS SchemaChanges, FiniteSetTheorems, FunctionTheorems, SequenceTheorems,
        WellFoundedInduction, TLAPS

(* Induction over the naturals, for a set instead of a predicate: of the    *)
(* intervals 0..n that end outside it, the smallest can not be.             *)
LEMMA NaturalsByInduction ==
    ASSUME NEW S, 0 \in S, \A n \in Nat : n \in S => n + 1 \in S
    PROVE  Nat \subseteq S
<1> DEFINE T == {0..n : n \in Nat \ S}
<1> SUFFICES ASSUME T # {} PROVE FALSE
    OBVIOUS
<1>1. IsWellFoundedOn(StrictSubsetOrdering(Nat), FiniteSubsetsOf(Nat))
    BY FS_StrictSubsetOrderingWellFounded
<1>2. T \subseteq FiniteSubsetsOf(Nat)
  <2> SUFFICES ASSUME NEW n \in Nat PROVE 0..n \in FiniteSubsetsOf(Nat)
      OBVIOUS
  <2>1. IsFiniteSet(0..n)
      BY FS_Interval
  <2> QED
      BY <2>1 DEF FiniteSubsetsOf
<1>3. PICK x \in T : \A y \in T : <<y, x>> \notin StrictSubsetOrdering(Nat)
    BY <1>1, <1>2, WFMin
<1>4. PICK n \in Nat \ S : x = 0..n
    OBVIOUS
<1>5. n - 1 \in Nat /\ n - 1 \notin S
    BY <1>4, n # 0
<1>6. 0..(n - 1) \in T
    BY <1>5
<1>7. 0..(n - 1) \subseteq 0..n /\ 0..(n - 1) # 0..n /\ 0..n \subseteq Nat
    BY <1>5
<1> QED
    BY <1>3, <1>4, <1>6, <1>7 DEF StrictSubsetOrdering

(* A function on the domain of a sequence is a sequence.                    *)
LEMMA MappedSequence ==
    ASSUME NEW S, NEW T, NEW seq \in Seq(S), NEW f \in [DOMAIN seq -> T]
    PROVE  f \in Seq(T) /\ Len(f) = Len(seq)
<1>1. Len(seq) \in Nat /\ DOMAIN seq = 1..Len(seq)
    BY LenProperties
<1>2. f \in Seq(T)
    BY <1>1, SeqDef
<1>3. DOMAIN f = 1..Len(f) /\ Len(f) \in Nat
    BY <1>2, LenProperties
<1> QED
    BY <1>1, <1>2, <1>3

LEMMA ShortSequences ==
    ASSUME NEW S, NEW a \in S
    PROVE  /\ <<a>> \in Seq(S)
           /\ \A b \in S : <<a, b>> \in Seq(S)
OBVIOUS

(* The actions of one constraint *)
LEMMA ConstraintActionsAreActions ==
    ASSUME NEW n \in Tables, NEW spec \in ConstraintDefinition
    PROVE  ConstraintActions(n, spec) \in Seq(Action)
<1> DEFINE create(suffix, unique) ==
        [op |-> "add_index", table |-> n,
         spec |-> [name |-> <<spec.name, suffix>>, columns |-> spec.columns, unique |-> unique]]
    add == [op |-> AddOp[spec.kind], table |-> n, spec |-> spec]
<1>1. spec.name \in ConstraintNames /\ spec.columns \in Seq(ColumnNames)
    BY EmptySeq DEF ConstraintDefinition, KeyDefinition, ForeignKeyDefinition
<1>2. create("_FKIDX", FALSE) \in Action /\ create("_PKIDX", TRUE) \in Action
    BY <1>1 DEF Action, IndexDefinition, IndexNames
<1>3. add \in Action
  <2>1. CASE spec \in ForeignKeyDefinition
    <3>1. add.op = "add_foreignKey"
        BY <2>1 DEF ForeignKeyDefinition, AddOp
    <3> QED
        BY <2>1, <3>1 DEF Action
  <2>2. CASE spec \in KeyDefinition
    <3>1. add.op \in {"add_primaryKey", "add_unique", "add_check"}
        BY <2>2 DEF KeyDefinition, AddOp
    <3> QED
        BY <2>2, <3>1 DEF Action
  <2> QED
      BY <2>1, <2>2 DEF ConstraintDefinition
<1>4. spec.kind \in {"primaryKey", "unique", "check", "foreignKey"}
    BY DEF ConstraintDefinition, KeyDefinition, ForeignKeyDefinition
<1>5. /\ spec.kind = "foreignKey" => ConstraintActions(n, spec) = <<create("_FKIDX", FALSE), add>>
      /\ spec.kind = "primaryKey" => ConstraintActions(n, spec) = <<create("_PKIDX", TRUE), add>>
      /\ spec.kind \in {"unique", "check"} => ConstraintActions(n, spec) = <<add>>
    BY <1>4 DEF ConstraintActions
<1>6. <<add>> \in Seq(Action) /\ <<create("_FKIDX", FALSE), add>> \in Seq(Action)
      /\ <<create("_PKIDX", TRUE), add>> \in Seq(Action)
    BY <1>2, <1>3, ShortSequences
<1> HIDE DEF create, add
<1> QED
    BY <1>4, <1>5, <1>6

(* The actions of a CREATE TABLE: each of its constraints adds its own.      *)
LEMMA CreateTableActionsAreActions ==
    ASSUME NEW s, s.table \in Tables, s.columns \in Seq(ColumnDefinition),
           s.constraints \in Seq(ConstraintDefinition)
    PROVE  CreateTableActions(s) \in Seq(Action)
<1> DEFINE n == Len(s.constraints)
           of(i) == ConstraintActions(s.table, s.constraints[i])
           upTo[i \in 0..n] == IF i = 0 THEN <<>> ELSE upTo[i - 1] \o of(i)
           Builds(g, k) == g = [i \in 0..k |-> IF i = 0 THEN <<>> ELSE g[i - 1] \o of(i)]
           create == <<[op |-> "create_table", table |-> s.table]>>
           add == [i \in DOMAIN s.columns |->
                      [op |-> "add_column", table |-> s.table, spec |-> s.columns[i]]]
<1>1. CreateTableActions(s) = create \o add \o upTo[n]
    BY DEF CreateTableActions
<1>2. n \in Nat /\ \A i \in 1..n : of(i) \in Seq(Action)
    BY LenProperties, ElementOfSeq, ConstraintActionsAreActions
<1>3. upTo = CHOOSE g : Builds(g, n)
    OBVIOUS
<1> HIDE DEF of, n, upTo
<1>4. \E g : Builds(g, n)
  <2> DEFINE Built(k) == \E g \in [0..k -> Seq(Action)] : Builds(g, k)
             S == {k \in Nat : k <= n => Built(k)}
  <2>1. 0 \in S
    <3> DEFINE g == [i \in 0..0 |-> <<>>]
    <3>1. g \in [0..0 -> Seq(Action)] /\ Builds(g, 0)
        BY EmptySeq
    <3> QED
        BY <3>1
  <2>2. ASSUME NEW k \in Nat, k + 1 <= n, Built(k) PROVE Built(k + 1)
    <3>0. k + 1 \in 1..n
        BY <1>2, <2>2
    <3>1. PICK g \in [0..k -> Seq(Action)] : Builds(g, k)
        BY <2>2
    <3> DEFINE next == g[k] \o of(k + 1)
               h == [i \in 0..(k + 1) |-> IF i = k + 1 THEN next ELSE g[i]]
    <3>2. next \in Seq(Action)
        BY <1>2, <3>0, ConcatProperties
    <3> HIDE DEF next
    <3>3. h \in [0..(k + 1) -> Seq(Action)]
        BY <3>2
    <3>4. ASSUME NEW i \in 0..(k + 1)
          PROVE  h[i] = IF i = 0 THEN <<>> ELSE h[i - 1] \o of(i)
      <4>1. CASE i = k + 1
        <5>1. h[i] = next /\ i # 0 /\ h[i - 1] = g[k]
            BY <4>1
        <5>2. next = g[k] \o of(i)
            BY <4>1 DEF next
        <5> QED
            BY <5>1, <5>2
      <4>2. CASE i # k + 1
        <5>1. i \in 0..k /\ h[i] = g[i]
            BY <4>2
        <5>2. g[i] = IF i = 0 THEN <<>> ELSE g[i - 1] \o of(i)
            BY <3>1, <5>1
        <5>3. i # 0 => h[i - 1] = g[i - 1]
            BY <5>1
        <5> QED
            BY <5>1, <5>2, <5>3
      <4> QED
          BY <4>1, <4>2
    <3>5. Builds(h, k + 1)
        BY <3>3, <3>4
    <3> QED
        BY <3>3, <3>5
  <2> HIDE DEF Built
  <2>3. \A k \in Nat : k \in S => k + 1 \in S
      BY <1>2, <2>2
  <2>4. n \in S
      BY <1>2, <2>1, <2>3, NaturalsByInduction
  <2>5. Built(n)
      BY <2>4, <1>2
  <2> QED
      BY <2>5 DEF Built
<1>5. Builds(upTo, n)
    BY <1>3, <1>4
<1>6. upTo[n] \in Seq(Action)
  <2> DEFINE S == {k \in Nat : k <= n => upTo[k] \in Seq(Action)}
  <2>1. 0 \in S
      BY <1>2, <1>5, EmptySeq
  <2>2. ASSUME NEW k \in Nat, k \in S PROVE k + 1 \in S
    <3> SUFFICES ASSUME k + 1 <= n PROVE upTo[k + 1] \in Seq(Action)
        OBVIOUS
    <3>1. upTo[k] \in Seq(Action) /\ of(k + 1) \in Seq(Action)
        BY <1>2, <2>2
    <3>2. k + 1 \in 0..n /\ k + 1 # 0 /\ (k + 1) - 1 = k
        BY <1>2
    <3>3. upTo[k + 1] = upTo[(k + 1) - 1] \o of(k + 1)
        BY <1>5, <3>2
    <3> QED
        BY <3>1, <3>2, <3>3, ConcatProperties
  <2>3. n \in S
      BY <1>2, <2>1, <2>2, NaturalsByInduction
  <2> QED
      BY <2>3, <1>2
<1>7. create \in Seq(Action)
    BY DEF Action
<1>8. add \in Seq(Action)
  <2>1. ASSUME NEW i \in DOMAIN s.columns PROVE add[i] \in Action
    <3>1. s.columns[i] \in ColumnDefinition
        BY ElementOfSeq, LenProperties
    <3> QED
        BY <3>1 DEF Action
  <2>2. add \in [DOMAIN s.columns -> Action]
      BY <2>1
  <2> HIDE DEF add
  <2> QED
      BY <2>2, MappedSequence
<1> HIDE DEF create, add
<1> QED
    BY <1>1, <1>6, <1>7, <1>8, ConcatProperties

(* The actions a constraint is dropped with *)
LEMMA DropConstraintActionsAreActions ==
    ASSUME NEW n \in Tables, NEW k \in Constraint
    PROVE  DropConstraintActions(n, k) \in Seq(Action)
<1> DEFINE dropIndex(x) == [op |-> "drop_index", table |-> n, index |-> x]
           dropKey == [op |-> "drop_constraint", table |-> n, name |-> k.name]
           dropPrimaryKey == [op |-> "drop_primaryKey", table |-> n]
<1>1. dropKey \in Action /\ dropPrimaryKey \in Action
    BY DEF Action, Constraint, PrimaryKey, Unique, ForeignKey, Check
<1>2. \A x \in Indexes : dropIndex(x) \in Action
    BY DEF Action
<1>3. k.kind \in {"primaryKey", "unique", "foreignKey", "check"}
    BY DEF Constraint, PrimaryKey, Unique, ForeignKey, Check
<1>4. /\ k.kind = "unique" => k.index \in Indexes
      /\ k.kind = "foreignKey" => k.reverseIndex \in Indexes
    BY DEF Constraint, PrimaryKey, Unique, ForeignKey, Check
<1>5. \/ DropConstraintActions(n, k) = <<dropPrimaryKey>>
      \/ DropConstraintActions(n, k) = <<dropKey>>
      \/ k.kind = "unique" /\ DropConstraintActions(n, k) = <<dropKey, dropIndex(k.index)>>
      \/ k.kind = "foreignKey"
         /\ DropConstraintActions(n, k) = <<dropKey, dropIndex(k.reverseIndex)>>
    BY <1>3 DEF DropConstraintActions
<1> HIDE DEF dropIndex, dropKey, dropPrimaryKey
<1> QED
    BY <1>1, <1>2, <1>4, <1>5, ShortSequences

(* Whatever the binder finds in a database, it compiles to actions.         *)
LEMMA BindingsAreActions ==
    ASSUME IsDatabase(work), NEW s \in Statement, NEW actions \in Bindings(s)
    PROVE  actions \in Seq(Action)
<1>1. s.table \in Tables
    BY DEF Statement
<1>2. CASE s.kind = "create_table"
  <2>1. s.columns \in Seq(ColumnDefinition) /\ s.constraints \in Seq(ConstraintDefinition)
      BY <1>2 DEF Statement
  <2> QED
      BY <1>1, <1>2, <2>1, CreateTableActionsAreActions DEF Bindings
<1>3. CASE s.kind # "create_table"
  <2> DEFINE t == work[s.table]
  <2>1. s.table \in DOMAIN work /\ IsTable(t)
      BY <1>3 DEF Bindings, IsDatabase
  <2>2. CASE s.kind \in {"insert", "drop_primary_key"}
    <3>1. \E op \in {"insert_rows", "drop_primaryKey"} : actions = <<[op |-> op, table |-> s.table]>>
        BY <2>1, <2>2 DEF Bindings
    <3>2. \A op \in {"insert_rows", "drop_primaryKey"} : [op |-> op, table |-> s.table] \in Action
        BY <1>1 DEF Action
    <3> QED
        BY <3>1, <3>2, ShortSequences
  <2>3. CASE s.kind = "add_constraint"
    <3>1. s.spec \in ConstraintDefinition
        BY <2>3 DEF Statement
    <3>2. actions = ConstraintActions(s.table, s.spec)
        BY <2>1, <2>3 DEF Bindings
    <3> QED
        BY <1>1, <3>1, <3>2, ConstraintActionsAreActions
  <2>4. CASE s.kind = "drop_constraint"
    <3>1. \E k \in t.constraints : actions = DropConstraintActions(s.table, k)
        BY <2>1, <2>4 DEF Bindings
    <3>2. t.constraints \subseteq Constraint
        BY <2>1 DEF IsTable
    <3> QED
        BY <1>1, <3>1, <3>2, DropConstraintActionsAreActions
  <2>5. CASE s.kind = "add_column"
    <3> DEFINE a(i) == [op |-> "add_column", table |-> s.table, spec |-> s.columns[i]]
    <3>1. s.columns \in Seq(ColumnDefinition)
        BY <2>5 DEF Statement
    <3>2. actions = [i \in DOMAIN s.columns |-> a(i)]
        BY <2>1, <2>5 DEF Bindings
    <3>3. ASSUME NEW i \in DOMAIN s.columns PROVE a(i) \in Action
      <4>1. s.columns[i] \in ColumnDefinition
          BY <3>1, ElementOfSeq, LenProperties
      <4> QED
          BY <1>1, <4>1 DEF Action
    <3> HIDE DEF a
    <3> QED
        BY <3>1, <3>2, <3>3, MappedSequence
  <2>6. CASE s.kind = "drop_column"
    <3> DEFINE a(i) == [op |-> "drop_column", table |-> s.table, name |-> s.names[i]]
    <3>1. s.names \in Seq(ColumnNames)
        BY <2>6 DEF Statement
    <3>2. actions = [i \in DOMAIN s.names |-> a(i)]
        BY <2>1, <2>6 DEF Bindings
    <3>3. ASSUME NEW i \in DOMAIN s.names PROVE a(i) \in Action
      <4>1. s.names[i] \in ColumnNames
          BY <3>1, ElementOfSeq, LenProperties
      <4> QED
          BY <1>1, <4>1 DEF Action
    <3> HIDE DEF a
    <3> QED
        BY <3>1, <3>2, <3>3, MappedSequence
  <2>7. CASE s.kind = "rename_column"
    <3> DEFINE a == [op |-> "rename_column", table |-> s.table, from |-> s.from, to |-> s.to]
    <3>1. s.from \in ColumnNames /\ s.to \in ColumnNames
        BY <2>7 DEF Statement
    <3>2. a \in Action
        BY <1>1, <3>1 DEF Action
    <3>3. actions = <<a>>
        BY <2>1, <2>7 DEF Bindings
    <3> HIDE DEF a
    <3> QED
        BY <3>2, <3>3, ShortSequences
  <2>8. CASE s.kind = "modify_column"
    <3> DEFINE a(i) == [op |-> "alter_column", table |-> s.table,
                        name |-> s.columns[i].name, type |-> s.columns[i].type]
    <3>1. s.columns \in Seq(TypeChange)
        BY <2>8 DEF Statement
    <3>2. actions = [i \in DOMAIN s.columns |-> a(i)]
        BY <2>1, <2>8 DEF Bindings
    <3>3. ASSUME NEW i \in DOMAIN s.columns PROVE a(i) \in Action
      <4>1. s.columns[i] \in TypeChange
          BY <3>1, ElementOfSeq, LenProperties
      <4>2. s.columns[i].name \in ColumnNames /\ s.columns[i].type \in Types
          BY <4>1 DEF TypeChange
      <4> QED
          BY <1>1, <4>2 DEF Action
    <3> HIDE DEF a
    <3> QED
        BY <3>1, <3>2, <3>3, MappedSequence
  <2> QED
      BY <1>3, <2>2, <2>3, <2>4, <2>5, <2>6, <2>7, <2>8 DEF Statement
<1> QED
    BY <1>2, <1>3

-----------------------------------------------------------------------------
(* One table                                                               *)

\* Column and index names tell columns and indexes apart, as the code's name maps
\* assume.
ColumnNamesDiffer(t) ==
    \A b, c \in DOMAIN t.columns : t.columns[b].name = t.columns[c].name => b = c

IndexNamesDiffer(t) ==
    \A x, y \in DOMAIN t.indexes : t.indexes[x].name = t.indexes[y].name => x = y

\* Two foreign keys do not share their reverse index: it has the name of its key.
ReverseIndexesAreNamed(t) ==
    \A k \in OfKind(t, "foreignKey") : t.indexes[k.reverseIndex].name = <<k.name, "_FKIDX">>

\* The inductive invariant of a table
GoodTable(t) ==
    /\ IsTable(t)
    /\ TableResolves(t)
    /\ ConstraintNamesDiffer(t)
    /\ UniqueIndexesDiffer(t)
    /\ PositionsAreDense(t)
    /\ IndexPositionsAreCurrent(t)
    /\ ColumnNamesDiffer(t)
    /\ IndexNamesDiffer(t)
    /\ ReverseIndexesAreNamed(t)

\* r is t but for these fields.
OnlyChanges(r, t, fields) ==
    DOMAIN r = DOMAIN t /\ \A f \in DOMAIN t \ fields : r[f] = t[f]

LEMMA ColumnIsFound ==
    ASSUME NEW t, NEW name, HasColumn(t, name)
    PROVE  /\ ColumnNamed(t, name) \in DOMAIN t.columns
           /\ t.columns[ColumnNamed(t, name)].name = name
BY DEF HasColumn, ColumnNamed

LEMMA IndexIsFound ==
    ASSUME NEW t, NEW name, HasIndex(t, name)
    PROVE  /\ IndexNamed(t, name) \in DOMAIN t.indexes
           /\ t.indexes[IndexNamed(t, name)].name = name
BY DEF HasIndex, IndexNamed

LEMMA PositionsStillCurrent ==
    ASSUME NEW t, IndexPositionsAreCurrent(t), NEW r, r.columns = t.columns,
           \A x \in DOMAIN r.indexes : x \in DOMAIN t.indexes /\ r.indexes[x] = t.indexes[x]
    PROVE  IndexPositionsAreCurrent(r)
BY DEF IndexPositionsAreCurrent

\* Only the columns and the indexes matter to what a constraint resolves to.
LEMMA ConstraintStillResolves ==
    ASSUME NEW t, NEW k, ConstraintResolves(t, k),
           NEW r, r.columns = t.columns, r.indexes = t.indexes
    PROVE  ConstraintResolves(r, k)
BY DEF ConstraintResolves

LEMMA OthersStay ==
    ASSUME NEW f, NEW x, NEW y \in DOMAIN f, y # x
    PROVE  y \in DOMAIN Without(f, x) /\ Without(f, x)[y] = f[y]
BY DEF Without

LEMMA ElementsAreMembers ==
    ASSUME NEW S, NEW seq \in Seq(S)
    PROVE  Elements(seq) \subseteq S
BY LenProperties, ElementOfSeq DEF Elements

\* The parts of IsTable
LEMMA TableParts ==
    ASSUME NEW t, IsTable(t)
    PROVE  /\ DOMAIN t = {"columns", "indexes", "constraints", "nextColumn", "nextIndex", "populated"}
           /\ t.nextColumn \in Nat \ {0} /\ t.nextIndex \in Nat \ {0} /\ t.populated \in BOOLEAN
           /\ \A c \in DOMAIN t.columns :
                 c \in Columns /\ c \in Nat /\ c < t.nextColumn /\ t.columns[c] \in Column
           /\ \A x \in DOMAIN t.indexes :
                 x \in Indexes /\ x \in Nat /\ x < t.nextIndex /\ t.indexes[x] \in Index
           /\ t.constraints \subseteq Constraint
           /\ IsFiniteSet(DOMAIN t.columns)
<1>1. t.nextColumn \in Nat \ {0} /\ t.nextIndex \in Nat \ {0}
    BY DEF IsTable, Columns, Indexes
<1>2. DOMAIN t.columns \subseteq 1..(t.nextColumn - 1) /\ DOMAIN t.indexes \subseteq 1..(t.nextIndex - 1)
    BY DEF IsTable
<1>3. IsFiniteSet(1..(t.nextColumn - 1))
  <2>1. 1 \in Int /\ t.nextColumn - 1 \in Int
      BY <1>1
  <2> QED
      BY <2>1, FS_Interval
<1>4. IsFiniteSet(DOMAIN t.columns)
    BY <1>2, <1>3, FS_Subset
<1>5. t.columns \in [DOMAIN t.columns -> Column] /\ t.indexes \in [DOMAIN t.indexes -> Index]
    BY DEF IsTable
<1> QED
    BY <1>1, <1>2, <1>4, <1>5 DEF IsTable, Columns, Indexes

LEMMA IdsAreColumns ==
    ASSUME NEW t, IsTable(t), NEW names \in Seq(ColumnNames), HasColumns(t, names)
    PROVE  /\ IdsOf(t, names) \in Seq(DOMAIN t.columns)
           /\ IdsOf(t, names) \in Seq(Columns)
           /\ Elements(IdsOf(t, names)) \subseteq DOMAIN t.columns
<1>1. ASSUME NEW i \in DOMAIN names PROVE ColumnNamed(t, names[i]) \in DOMAIN t.columns
    BY ColumnIsFound DEF HasColumns, Elements
<1>2. IdsOf(t, names) \in [DOMAIN names -> DOMAIN t.columns]
    BY <1>1 DEF IdsOf
<1>3. IdsOf(t, names) \in Seq(DOMAIN t.columns)
    BY <1>2, MappedSequence
<1>4. DOMAIN t.columns \subseteq Columns
    BY TableParts
<1> QED
    BY <1>3, <1>4, SeqMonotonic, ElementsAreMembers

LEMMA PositionsAreNaturals ==
    ASSUME NEW t, IsTable(t), NEW columns \in Seq(DOMAIN t.columns)
    PROVE  [i \in DOMAIN columns |-> t.columns[columns[i]].position] \in Seq(Nat)
<1> DEFINE p == [i \in DOMAIN columns |-> t.columns[columns[i]].position]
<1>1. ASSUME NEW i \in DOMAIN columns PROVE t.columns[columns[i]].position \in Nat
  <2>1. columns[i] \in DOMAIN t.columns
      BY LenProperties, ElementOfSeq
  <2> QED
      BY <2>1, TableParts DEF Column
<1>2. p \in [DOMAIN columns -> Nat]
    BY <1>1
<1> HIDE DEF p
<1>3. p \in Seq(Nat)
    BY <1>2, MappedSequence
<1> QED
    BY <1>3 DEF p

LEMMA EmptyTableIsGood == GoodTable(EmptyTable)
<1> DEFINE t == EmptyTable
<1>1. /\ DOMAIN t = {"columns", "indexes", "constraints", "nextColumn", "nextIndex", "populated"}
      /\ t.columns = <<>> /\ t.indexes = <<>> /\ t.constraints = {}
      /\ t.nextColumn = 1 /\ t.nextIndex = 1 /\ t.populated = FALSE
    BY DEF EmptyTable
<1>2. DOMAIN t.columns = {} /\ DOMAIN t.indexes = {}
    BY <1>1
<1> HIDE DEF t
<1>3. IsTable(t)
  <2>1. t.columns \in [DOMAIN t.columns -> Column] /\ t.indexes \in [DOMAIN t.indexes -> Index]
    <3>1. \A S : <<>> \in [{} -> S]
        OBVIOUS
    <3> QED
        BY <1>1, <1>2, <3>1
  <2>2. t.nextColumn \in Columns /\ t.nextIndex \in Indexes
      BY <1>1 DEF Columns, Indexes
  <2>3. DOMAIN t.columns \subseteq 1..(t.nextColumn - 1) /\ DOMAIN t.indexes \subseteq 1..(t.nextIndex - 1)
      BY <1>1, <1>2
  <2>4. t.populated \in BOOLEAN
      BY <1>1
  <2> QED
      BY <1>1, <2>1, <2>2, <2>3, <2>4 DEF IsTable
<1>4. PositionsAreDense(t)
  <2>1. Cardinality(DOMAIN t.columns) = 0
      BY <1>2, FS_EmptySet
  <2> QED
      BY <1>2, <2>1 DEF PositionsAreDense
<1>5. TableResolves(t) /\ ConstraintNamesDiffer(t) /\ UniqueIndexesDiffer(t)
      /\ IndexPositionsAreCurrent(t) /\ ColumnNamesDiffer(t) /\ IndexNamesDiffer(t)
      /\ ReverseIndexesAreNamed(t)
    BY <1>1, <1>2 DEF TableResolves, ConstraintNamesDiffer, UniqueIndexesDiffer,
       IndexPositionsAreCurrent, ColumnNamesDiffer, IndexNamesDiffer, ReverseIndexesAreNamed, OfKind
<1> QED
    BY <1>3, <1>4, <1>5 DEF GoodTable, t

LEMMA ConstraintsMayGo ==
    ASSUME NEW t, GoodTable(t), NEW r, OnlyChanges(r, t, {"constraints", "populated"}),
           r.constraints \subseteq t.constraints, r.populated \in BOOLEAN
    PROVE  GoodTable(r)
<1>1. IsTable(t)
    BY DEF GoodTable
<1>2. /\ DOMAIN r = DOMAIN t /\ r.columns = t.columns /\ r.indexes = t.indexes
      /\ r.nextColumn = t.nextColumn /\ r.nextIndex = t.nextIndex
    BY <1>1, TableParts DEF OnlyChanges
<1>3. IsTable(r)
    BY <1>1, <1>2 DEF IsTable
<1>4. TableResolves(r)
    BY <1>2, ConstraintStillResolves DEF GoodTable, TableResolves
<1>5. PositionsAreDense(r) /\ IndexPositionsAreCurrent(r)
    BY <1>2, PositionsStillCurrent DEF GoodTable, PositionsAreDense
<1>6. ConstraintNamesDiffer(r) /\ UniqueIndexesDiffer(r) /\ ColumnNamesDiffer(r)
      /\ IndexNamesDiffer(r) /\ ReverseIndexesAreNamed(r)
    BY <1>2 DEF GoodTable, ConstraintNamesDiffer, UniqueIndexesDiffer, ColumnNamesDiffer,
       IndexNamesDiffer, ReverseIndexesAreNamed, OfKind
<1> QED
    BY <1>3, <1>4, <1>5, <1>6 DEF GoodTable

\* A constraint that resolves, under a name of its own
LEMMA ConstraintMayCome ==
    ASSUME NEW t, GoodTable(t), NEW k \in Constraint, ConstraintResolves(t, k),
           NameUnused(t, k.name),
           k.kind = "foreignKey" => t.indexes[k.reverseIndex].name = <<k.name, "_FKIDX">>
    PROVE  GoodTable(WithConstraint(t, k))
<1> DEFINE r == WithConstraint(t, k)
<1>1. IsTable(t)
    BY DEF GoodTable
<1>2. /\ DOMAIN r = DOMAIN t /\ r.columns = t.columns /\ r.indexes = t.indexes
      /\ r.nextColumn = t.nextColumn /\ r.nextIndex = t.nextIndex /\ r.populated = t.populated
      /\ r.constraints = t.constraints \cup {k}
    BY <1>1, TableParts DEF WithConstraint
<1> HIDE DEF r
<1>3. IsTable(r)
    BY <1>1, <1>2 DEF IsTable
<1>4. TableResolves(r)
    BY <1>2 DEF GoodTable, TableResolves, ConstraintResolves
<1>5. PositionsAreDense(r) /\ IndexPositionsAreCurrent(r)
    BY <1>2, PositionsStillCurrent DEF GoodTable, PositionsAreDense
<1>6. UniqueIndexesDiffer(r) /\ ColumnNamesDiffer(r) /\ IndexNamesDiffer(r)
    BY <1>2 DEF GoodTable, UniqueIndexesDiffer, ColumnNamesDiffer, IndexNamesDiffer
<1>7. ReverseIndexesAreNamed(r)
    BY <1>2 DEF GoodTable, ReverseIndexesAreNamed, OfKind
<1>8. ConstraintNamesDiffer(r)
    BY <1>2 DEF GoodTable, ConstraintNamesDiffer, NameUnused
<1>9. GoodTable(r)
    BY <1>3, <1>4, <1>5, <1>6, <1>7, <1>8 DEF GoodTable
<1> QED
    BY <1>9 DEF r

\* Columns may change in anything but their position and nullability.
LEMMA StillResolves ==
    ASSUME NEW t, GoodTable(t), NEW r, r.indexes = t.indexes, r.constraints = t.constraints,
           DOMAIN t.columns \subseteq DOMAIN r.columns,
           \A b \in DOMAIN t.columns : /\ r.columns[b].position = t.columns[b].position
                                       /\ r.columns[b].nullable = t.columns[b].nullable
    PROVE  TableResolves(r) /\ IndexPositionsAreCurrent(r)
<1>1. \A x \in DOMAIN t.indexes : Elements(t.indexes[x].columns) \subseteq DOMAIN t.columns
    BY DEF GoodTable, TableResolves
<1>2. \A x \in DOMAIN r.indexes : Elements(r.indexes[x].columns) \subseteq DOMAIN r.columns
    BY <1>1
<1>3. ASSUME NEW k \in r.constraints PROVE ConstraintResolves(r, k)
  <2>1. ConstraintResolves(t, k)
      BY DEF GoodTable, TableResolves
  <2>2. k.kind = "primaryKey" =>
           \A b \in Elements(r.indexes[k.index].columns) : ~ r.columns[b].nullable
      BY <1>1, <2>1 DEF ConstraintResolves
  <2> QED
      BY <2>1, <2>2 DEF ConstraintResolves
<1>4. ASSUME NEW x \in DOMAIN t.indexes
      PROVE  t.indexes[x].positions =
                [i \in DOMAIN t.indexes[x].columns |-> r.columns[t.indexes[x].columns[i]].position]
  <2> DEFINE columns == t.indexes[x].columns
  <2>1. \A i \in DOMAIN columns : r.columns[columns[i]].position = t.columns[columns[i]].position
      BY <1>1 DEF Elements
  <2>2. t.indexes[x].positions = [i \in DOMAIN columns |-> t.columns[columns[i]].position]
      BY DEF GoodTable, IndexPositionsAreCurrent
  <2> HIDE DEF columns
  <2>3. [i \in DOMAIN columns |-> t.columns[columns[i]].position]
           = [i \in DOMAIN columns |-> r.columns[columns[i]].position]
      BY <2>1
  <2> QED
      BY <2>2, <2>3 DEF columns
<1> QED
    BY <1>2, <1>3, <1>4 DEF TableResolves, IndexPositionsAreCurrent

\* Renaming a column and changing its type
LEMMA ColumnMayBeRedefined ==
    ASSUME NEW t, GoodTable(t), NEW r, OnlyChanges(r, t, {"columns"}),
           NEW c \in DOMAIN t.columns, NEW new \in Column,
           r.columns = [t.columns EXCEPT ![c] = new],
           new.position = t.columns[c].position, new.nullable = t.columns[c].nullable,
           \A b \in DOMAIN t.columns \ {c} : t.columns[b].name # new.name
    PROVE  GoodTable(r)
<1>1. IsTable(t)
    BY DEF GoodTable
<1>2. /\ DOMAIN r = DOMAIN t /\ r.constraints = t.constraints /\ r.indexes = t.indexes
      /\ r.nextColumn = t.nextColumn /\ r.nextIndex = t.nextIndex /\ r.populated = t.populated
    BY <1>1, TableParts DEF OnlyChanges
<1>3. t.columns \in [DOMAIN t.columns -> Column]
    BY <1>1 DEF IsTable
<1>4. /\ DOMAIN r.columns = DOMAIN t.columns
      /\ r.columns \in [DOMAIN t.columns -> Column]
      /\ r.columns[c] = new
      /\ \A b \in DOMAIN t.columns \ {c} : r.columns[b] = t.columns[b]
    BY <1>3
<1>5. \A b \in DOMAIN t.columns : /\ r.columns[b].position = t.columns[b].position
                                  /\ r.columns[b].nullable = t.columns[b].nullable
    BY <1>4
<1>6. IsTable(r)
    BY <1>1, <1>2, <1>4 DEF IsTable
<1>7. TableResolves(r) /\ IndexPositionsAreCurrent(r)
    BY <1>2, <1>4, <1>5, StillResolves
<1>8. PositionsAreDense(r)
    BY <1>4, <1>5 DEF GoodTable, PositionsAreDense
<1>9. ColumnNamesDiffer(r)
    BY <1>4 DEF GoodTable, ColumnNamesDiffer
<1>10. ConstraintNamesDiffer(r) /\ UniqueIndexesDiffer(r) /\ IndexNamesDiffer(r)
       /\ ReverseIndexesAreNamed(r)
    BY <1>2 DEF GoodTable, ConstraintNamesDiffer, UniqueIndexesDiffer, IndexNamesDiffer,
       ReverseIndexesAreNamed, OfKind
<1> QED
    BY <1>6, <1>7, <1>8, <1>9, <1>10 DEF GoodTable

\* RenameColumnAction
LEMMA ColumnMayBeRenamed ==
    ASSUME NEW t, GoodTable(t), NEW from, NEW to \in ColumnNames,
           HasColumn(t, from), from = to \/ ~ HasColumn(t, to)
    PROVE  GoodTable([t EXCEPT !.columns[ColumnNamed(t, from)].name = to])
<1> DEFINE c == ColumnNamed(t, from)
           new == [t.columns[c] EXCEPT !.name = to]
           r == [t EXCEPT !.columns[c].name = to]
<1>1. IsTable(t)
    BY DEF GoodTable
<1>2. c \in DOMAIN t.columns /\ t.columns[c].name = from /\ t.columns[c] \in Column
    BY <1>1, ColumnIsFound, TableParts
<1>3. OnlyChanges(r, t, {"columns"}) /\ r.columns = [t.columns EXCEPT ![c] = new]
    BY <1>1, TableParts DEF OnlyChanges
<1>4. /\ new \in Column /\ new.position = t.columns[c].position
      /\ new.nullable = t.columns[c].nullable /\ new.name = to
    BY <1>2 DEF Column
<1>5. \A b \in DOMAIN t.columns \ {c} : t.columns[b].name # to
    BY <1>2 DEF GoodTable, ColumnNamesDiffer, HasColumn
<1> HIDE DEF r, new, c
<1>6. GoodTable(r)
    BY <1>2, <1>3, <1>4, <1>5, ColumnMayBeRedefined
<1> QED
    BY <1>6 DEF r, c

\* AlterColumnAction
LEMMA ColumnMayChangeType ==
    ASSUME NEW t, GoodTable(t), NEW name, NEW type \in Types, HasColumn(t, name)
    PROVE  GoodTable([t EXCEPT !.columns[ColumnNamed(t, name)].type = type])
<1> DEFINE c == ColumnNamed(t, name)
           new == [t.columns[c] EXCEPT !.type = type]
           r == [t EXCEPT !.columns[c].type = type]
<1>1. IsTable(t)
    BY DEF GoodTable
<1>2. c \in DOMAIN t.columns /\ t.columns[c] \in Column
    BY <1>1, ColumnIsFound, TableParts
<1>3. OnlyChanges(r, t, {"columns"}) /\ r.columns = [t.columns EXCEPT ![c] = new]
    BY <1>1, TableParts DEF OnlyChanges
<1>4. /\ new \in Column /\ new.position = t.columns[c].position
      /\ new.nullable = t.columns[c].nullable /\ new.name = t.columns[c].name
    BY <1>2 DEF Column
<1>5. \A b \in DOMAIN t.columns \ {c} : t.columns[b].name # new.name
    BY <1>2, <1>4 DEF GoodTable, ColumnNamesDiffer
<1> HIDE DEF r, new, c
<1>6. GoodTable(r)
    BY <1>2, <1>3, <1>4, <1>5, ColumnMayBeRedefined
<1> QED
    BY <1>6 DEF r, c

\* createColumn: the new column comes behind the others.
LEMMA ColumnMayCome ==
    ASSUME NEW t, GoodTable(t), NEW spec \in ColumnDefinition, ~ HasColumn(t, spec.name)
    PROVE  GoodTable(WithColumn(t, spec))
<1> DEFINE r == WithColumn(t, spec)
           c == t.nextColumn
           n == Cardinality(DOMAIN t.columns)
           new == [name |-> spec.name, type |-> spec.type, nullable |-> spec.nullable, position |-> n]
<1>1. IsTable(t)
    BY DEF GoodTable
<1>2. /\ DOMAIN r = DOMAIN t /\ r.constraints = t.constraints /\ r.indexes = t.indexes
      /\ r.nextIndex = t.nextIndex /\ r.populated = t.populated
      /\ r.nextColumn = c + 1
      /\ r.columns = With(t.columns, c, new)
    BY <1>1, TableParts DEF WithColumn
<1>3. n \in Nat /\ c \in Nat \ {0} /\ c \notin DOMAIN t.columns
    BY <1>1, TableParts, FS_CardinalityType
<1>4. new \in Column /\ new.position = n /\ new.name = spec.name
    BY <1>3 DEF ColumnDefinition, Column
<1> HIDE DEF r, c, n, new
<1>5. /\ DOMAIN r.columns = DOMAIN t.columns \cup {c}
      /\ r.columns[c] = new
      /\ \A b \in DOMAIN t.columns : r.columns[b] = t.columns[b]
    BY <1>2, <1>3 DEF With
<1>6. IsTable(r)
  <2>1. r.columns \in [DOMAIN r.columns -> Column]
    <3>1. \A b \in DOMAIN r.columns : r.columns[b] \in Column
        BY <1>1, <1>4, <1>5, TableParts
    <3>2. r.columns = [b \in DOMAIN r.columns |-> r.columns[b]]
        BY <1>2 DEF With
    <3> QED
        BY <3>1, <3>2
  <2>2. DOMAIN r.columns \subseteq 1..(r.nextColumn - 1)
    <3>1. r.nextColumn - 1 = c
        BY <1>2, <1>3
    <3>2. \A b \in DOMAIN t.columns : b \in 1..c
        BY <1>1, <1>3, TableParts DEF Columns, c
    <3> QED
        BY <1>3, <1>5, <3>1, <3>2
  <2>3. r.nextColumn \in Columns
      BY <1>2, <1>3 DEF Columns
  <2> QED
      BY <1>1, <1>2, <2>1, <2>2, <2>3 DEF IsTable
<1>7. TableResolves(r) /\ IndexPositionsAreCurrent(r)
    BY <1>2, <1>5, StillResolves
<1>8. PositionsAreDense(r)
  <2>1. Cardinality(DOMAIN r.columns) = n + 1
      BY <1>1, <1>3, <1>5, TableParts, FS_AddElement DEF n
  <2>2. {t.columns[b].position : b \in DOMAIN t.columns} = 0..(n - 1)
      BY DEF GoodTable, PositionsAreDense, n
  <2>3. {r.columns[b].position : b \in DOMAIN r.columns} = 0..(n - 1) \cup {n}
      BY <1>4, <1>5, <2>2
  <2>4. 0..(n - 1) \cup {n} = 0..((n + 1) - 1)
      BY <1>3
  <2> QED
      BY <2>1, <2>3, <2>4 DEF PositionsAreDense
<1>9. ColumnNamesDiffer(r)
    BY <1>4, <1>5 DEF GoodTable, ColumnNamesDiffer, HasColumn
<1>10. ConstraintNamesDiffer(r) /\ UniqueIndexesDiffer(r) /\ IndexNamesDiffer(r)
       /\ ReverseIndexesAreNamed(r)
    BY <1>2 DEF GoodTable, ConstraintNamesDiffer, UniqueIndexesDiffer, IndexNamesDiffer,
       ReverseIndexesAreNamed, OfKind
<1>11. GoodTable(r)
    BY <1>6, <1>7, <1>8, <1>9, <1>10 DEF GoodTable
<1> QED
    BY <1>11 DEF r

\* Positions without a gap tell columns apart, and stay so when one goes and those
\* behind it move up.
LEMMA DensePositionsDiffer ==
    ASSUME NEW D, IsFiniteSet(D), NEW p \in [D -> Nat],
           {p[c] : c \in D} = 0..(Cardinality(D) - 1)
    PROVE  \A b, c \in D : p[b] = p[c] => b = c
<1> DEFINE n == Cardinality(D)
           T == 0..(n - 1)
<1>1. n \in Nat
    BY FS_CardinalityType
<1> HIDE DEF n
<1>2. IsFiniteSet(T) /\ Cardinality(T) = n
    BY <1>1, FS_Interval
<1>3. p \in Surjection(D, T)
  <2>1. \A c \in D : p[c] \in T
      BY DEF n
  <2>2. \A i \in T : \E c \in D : p[c] = i
      BY DEF n
  <2> QED
      BY <2>1, <2>2 DEF Surjection
<1>4. p \in Injection(D, T)
    BY <1>2, <1>3, FS_SurjSameCardinalityImpliesInj DEF n
<1> QED
    BY <1>4 DEF Injection, IsInjective

ValuesOn(f, S) == {f[x] : x \in S}

LEMMA PositionsCloseUp ==
    ASSUME NEW D, IsFiniteSet(D), NEW p \in [D -> Nat],
           ValuesOn(p, D) = 0..(Cardinality(D) - 1), NEW c \in D,
           NEW q, \A b \in D \ {c} : q[b] = IF p[b] < p[c] THEN p[b] ELSE p[b] - 1
    PROVE  /\ \A b \in D \ {c} : q[b] \in Nat
           /\ ValuesOn(q, D \ {c}) = 0..(Cardinality(D \ {c}) - 1)
<1> DEFINE n == Cardinality(D)
<1> USE DEF ValuesOn
<1>1. n \in Nat /\ Cardinality(D \ {c}) = n - 1
    BY FS_CardinalityType, FS_RemoveElement
<1>2. \A b \in D : p[b] \in 0..(n - 1)
    OBVIOUS
<1>3. \A i \in 0..(n - 1) : \E b \in D : p[b] = i
    OBVIOUS
<1>4. \A b \in D \ {c} : p[b] # p[c]
    BY DensePositionsDiffer
<1> HIDE DEF n
<1>5. ASSUME NEW b \in D \ {c} PROVE q[b] \in 0..(n - 2)
    BY <1>1, <1>2, <1>4
<1>6. ASSUME NEW i \in 0..(n - 2) PROVE \E b \in D \ {c} : q[b] = i
  <2>1. CASE i < p[c]
    <3>1. PICK b \in D : p[b] = i
        BY <1>1, <1>3
    <3> QED
        BY <2>1, <3>1, <1>1
  <2>2. CASE ~ i < p[c]
    <3>1. i + 1 \in 0..(n - 1)
        BY <1>1
    <3>2. PICK b \in D : p[b] = i + 1
        BY <1>3, <3>1
    <3>3. b # c /\ ~ p[b] < p[c]
        BY <1>1, <2>2, <3>2, <1>2
    <3> QED
        BY <3>2, <3>3, <1>1
  <2> QED
      BY <2>1, <2>2
<1> QED
    BY <1>1, <1>5, <1>6

LEMMA IndexReprojected ==
    ASSUME NEW x \in Index, NEW new \in Seq(Nat)
    PROVE  LET y == [x EXCEPT !.positions = new]
           IN  /\ y.name = x.name /\ y.unique = x.unique /\ y.columns = x.columns
               /\ y.positions = new
               /\ y \in Index
BY DEF Index

\* removeColumnById, of a column nothing of the table holds
LEMMA ColumnMayGo ==
    ASSUME NEW t, GoodTable(t), NEW c \in DOMAIN t.columns, ~ ReferencesColumn(t, c)
    PROVE  GoodTable(WithoutColumn(t, c))
<1> DEFINE r == WithoutColumn(t, c)
           D == DOMAIN t.columns
           shifted == [b \in D |->
                          IF t.columns[b].position < t.columns[c].position THEN t.columns[b]
                          ELSE [t.columns[b] EXCEPT !.position = @ - 1]]
           positionsOf(x) == [i \in DOMAIN t.indexes[x].columns |->
                                 shifted[t.indexes[x].columns[i]].position]
           p == [b \in D |-> t.columns[b].position]
           q == [b \in D |-> shifted[b].position]
<1>1. IsTable(t)
    BY DEF GoodTable
<1>2. /\ DOMAIN r = DOMAIN t /\ r.constraints = t.constraints
      /\ r.nextColumn = t.nextColumn /\ r.nextIndex = t.nextIndex /\ r.populated = t.populated
      /\ r.columns = Without(shifted, c)
      /\ r.indexes = [x \in DOMAIN t.indexes |->
                         [t.indexes[x] EXCEPT !.positions = positionsOf(x)]]
    BY <1>1, TableParts DEF WithoutColumn
<1>3. \A b \in D : t.columns[b] \in Column
    BY <1>1, TableParts
<1>4. ASSUME NEW b \in D
      PROVE  /\ shifted[b].name = t.columns[b].name
             /\ shifted[b].type = t.columns[b].type
             /\ shifted[b].nullable = t.columns[b].nullable
             /\ q[b] = IF p[b] < p[c] THEN p[b] ELSE p[b] - 1
             /\ shifted[b].position \in Nat => shifted[b] \in Column
    BY <1>3 DEF Column
<1>5. DOMAIN r.columns = D \ {c} /\ \A b \in D \ {c} : r.columns[b] = shifted[b]
    BY <1>2 DEF Without
<1>6. \A x \in DOMAIN t.indexes : Elements(t.indexes[x].columns) \subseteq D \ {c}
    BY DEF GoodTable, TableResolves, ReferencesColumn
<1>7. /\ \A b \in D \ {c} : q[b] \in Nat
      /\ ValuesOn(q, D \ {c}) = 0..(Cardinality(D \ {c}) - 1)
  <2>1. p \in [D -> Nat] /\ IsFiniteSet(D)
      BY <1>1, <1>3, TableParts DEF Column
  <2>2. ValuesOn(p, D) = 0..(Cardinality(D) - 1)
      BY DEF GoodTable, PositionsAreDense, ValuesOn
  <2>3. c \in D /\ \A b \in D \ {c} : q[b] = IF p[b] < p[c] THEN p[b] ELSE p[b] - 1
      BY <1>4
  <2> HIDE DEF p, q, D
  <2> QED
      BY <2>1, <2>2, <2>3, PositionsCloseUp
<1>8. \A b \in D \ {c} : shifted[b].position = q[b]
    OBVIOUS
<1> HIDE DEF r, shifted, p, q, D
<1>9. ASSUME NEW x \in DOMAIN t.indexes PROVE positionsOf(x) \in Seq(Nat)
  <2> DEFINE columns == t.indexes[x].columns
  <2>1. columns \in Seq(Columns)
      BY <1>1, TableParts DEF Index
  <2>2. \A i \in DOMAIN columns : shifted[columns[i]].position \in Nat
      BY <1>6, <1>7, <1>8 DEF Elements
  <2>3. positionsOf(x) \in [DOMAIN columns -> Nat]
      BY <2>2
  <2> HIDE DEF columns, positionsOf
  <2> QED
      BY <2>1, <2>3, MappedSequence
<1>10. /\ DOMAIN r.indexes = DOMAIN t.indexes
      /\ \A x \in DOMAIN t.indexes : /\ r.indexes[x].name = t.indexes[x].name
                                     /\ r.indexes[x].unique = t.indexes[x].unique
                                     /\ r.indexes[x].columns = t.indexes[x].columns
                                     /\ r.indexes[x].positions = positionsOf(x)
                                     /\ r.indexes[x] \in Index
  <2> HIDE DEF positionsOf
  <2>1. \A x \in DOMAIN t.indexes : r.indexes[x] = [t.indexes[x] EXCEPT !.positions = positionsOf(x)]
      BY <1>2
  <2>2. \A x \in DOMAIN t.indexes : t.indexes[x] \in Index
      BY <1>1, TableParts
  <2> QED
      BY <1>2, <1>9, <2>1, <2>2, IndexReprojected
<1>11. IsTable(r)
  <2>1. r.columns \in [DOMAIN r.columns -> Column]
    <3>1. \A b \in D \ {c} : r.columns[b] \in Column
        BY <1>4, <1>5, <1>7, <1>8
    <3>2. r.columns = [b \in DOMAIN r.columns |-> r.columns[b]]
        BY <1>2 DEF Without
    <3> QED
        BY <1>5, <3>1, <3>2
  <2>2. r.indexes \in [DOMAIN r.indexes -> Index]
    <3>1. r.indexes = [x \in DOMAIN r.indexes |-> r.indexes[x]]
        BY <1>2
    <3> QED
        BY <1>10, <3>1
  <2>3. DOMAIN r.columns \subseteq 1..(r.nextColumn - 1)
      BY <1>1, <1>2, <1>5 DEF IsTable, D
  <2> QED
      BY <1>1, <1>2, <1>10, <2>1, <2>2, <2>3 DEF IsTable
<1>12. TableResolves(r)
  <2>1. \A x \in DOMAIN r.indexes : Elements(r.indexes[x].columns) \subseteq DOMAIN r.columns
      BY <1>5, <1>10, <1>6
  <2>2. ASSUME NEW k \in r.constraints PROVE ConstraintResolves(r, k)
    <3>1. k \in t.constraints /\ ConstraintResolves(t, k)
        BY <1>2 DEF GoodTable, TableResolves
    <3>2. k.kind = "primaryKey" =>
             \A b \in Elements(r.indexes[k.index].columns) : ~ r.columns[b].nullable
      <4> SUFFICES ASSUME k.kind = "primaryKey", NEW b \in Elements(r.indexes[k.index].columns)
                   PROVE  ~ r.columns[b].nullable
          OBVIOUS
      <4>1. k.index \in DOMAIN t.indexes /\ r.indexes[k.index].columns = t.indexes[k.index].columns
          BY <1>10, <3>1 DEF ConstraintResolves
      <4>2. b \in D \ {c} /\ ~ t.columns[b].nullable
          BY <1>6, <3>1, <4>1 DEF ConstraintResolves
      <4> QED
          BY <1>4, <1>5, <4>2
    <3>3. k.kind = "check" => k.columns \subseteq DOMAIN r.columns
        BY <1>5, <3>1 DEF ConstraintResolves, ReferencesColumn, OfKind, D
    <3>4. k.kind = "foreignKey" => Elements(k.columns) \subseteq DOMAIN r.columns
        BY <1>5, <3>1 DEF ConstraintResolves, ReferencesColumn, OfKind, D
    <3> QED
        BY <1>10, <3>1, <3>2, <3>3, <3>4 DEF ConstraintResolves
  <2> QED
      BY <2>1, <2>2 DEF TableResolves
<1>13. PositionsAreDense(r)
  <2>1. {r.columns[b].position : b \in DOMAIN r.columns} = ValuesOn(q, D \ {c})
      BY <1>5, <1>8 DEF ValuesOn
  <2> QED
      BY <1>5, <1>7, <2>1 DEF PositionsAreDense
<1>14. IndexPositionsAreCurrent(r)
  <2>1. ASSUME NEW x \in DOMAIN t.indexes
        PROVE  r.indexes[x].positions =
                  [i \in DOMAIN r.indexes[x].columns |-> r.columns[r.indexes[x].columns[i]].position]
    <3> DEFINE columns == t.indexes[x].columns
    <3>1. \A i \in DOMAIN columns : r.columns[columns[i]] = shifted[columns[i]]
        BY <1>5, <1>6 DEF Elements
    <3> HIDE DEF columns
    <3>2. [i \in DOMAIN columns |-> shifted[columns[i]].position]
             = [i \in DOMAIN columns |-> r.columns[columns[i]].position]
        BY <3>1
    <3> QED
        BY <1>10, <3>2 DEF columns
  <2>2. DOMAIN r.indexes = DOMAIN t.indexes
      BY <1>10
  <2> QED
      BY <2>1, <2>2 DEF IndexPositionsAreCurrent
<1>15. ColumnNamesDiffer(r)
    BY <1>4, <1>5 DEF GoodTable, ColumnNamesDiffer, D
<1>16. UniqueIndexesDiffer(r) /\ IndexNamesDiffer(r)
    BY <1>10 DEF GoodTable, UniqueIndexesDiffer, IndexNamesDiffer
<1>17. ReverseIndexesAreNamed(r)
  <2>1. \A k \in OfKind(t, "foreignKey") : k.reverseIndex \in DOMAIN t.indexes
      BY DEF GoodTable, TableResolves, ConstraintResolves, OfKind
  <2> QED
      BY <1>2, <1>10, <2>1 DEF GoodTable, ReverseIndexesAreNamed, OfKind
<1>18. ConstraintNamesDiffer(r)
    BY <1>2 DEF GoodTable, ConstraintNamesDiffer
<1>19. GoodTable(r)
    BY <1>11, <1>12, <1>13, <1>14, <1>15, <1>16, <1>17, <1>18 DEF GoodTable
<1> QED
    BY <1>19 DEF r

\* createIndex, by the assertions it makes
LEMMA IndexMayCome ==
    ASSUME NEW t, GoodTable(t), NEW spec \in IndexDefinition, IndexAccepted(t, spec)
    PROVE  /\ GoodTable(WithIndex(t, spec))
           /\ WithIndex(t, spec).constraints = t.constraints
           /\ DOMAIN WithIndex(t, spec).indexes = DOMAIN t.indexes \cup {t.nextIndex}
           /\ WithIndex(t, spec).indexes[t.nextIndex].unique = spec.unique
           /\ t.nextIndex \notin DOMAIN t.indexes
           /\ \A x \in DOMAIN t.indexes : WithIndex(t, spec).indexes[x] = t.indexes[x]
<1> DEFINE r == WithIndex(t, spec)
           y == t.nextIndex
           columns == IdsOf(t, spec.columns)
           positions == [i \in DOMAIN columns |-> t.columns[columns[i]].position]
           new == [name |-> spec.name, unique |-> spec.unique, columns |-> columns,
                   positions |-> positions]
<1>1. IsTable(t)
    BY DEF GoodTable
<1>2. /\ DOMAIN r = DOMAIN t /\ r.columns = t.columns /\ r.constraints = t.constraints
      /\ r.nextColumn = t.nextColumn /\ r.populated = t.populated
      /\ r.nextIndex = y + 1
      /\ r.indexes = With(t.indexes, y, new)
    BY <1>1, TableParts DEF WithIndex
<1>3. y \in Nat \ {0} /\ y \notin DOMAIN t.indexes
    BY <1>1, TableParts
<1>4. /\ columns \in Seq(DOMAIN t.columns) /\ columns \in Seq(Columns)
      /\ Elements(columns) \subseteq DOMAIN t.columns
    BY <1>1, IdsAreColumns DEF IndexAccepted, IndexDefinition
<1>5. positions \in Seq(Nat)
    BY <1>1, <1>4, PositionsAreNaturals
<1>6. new \in Index /\ new.name = spec.name /\ new.unique = spec.unique
      /\ new.columns = columns /\ new.positions = positions
  <2> HIDE DEF columns, positions
  <2> QED
      BY <1>4, <1>5 DEF IndexDefinition, Index
<1> HIDE DEF r, y, new
<1>7. /\ DOMAIN r.indexes = DOMAIN t.indexes \cup {y}
      /\ r.indexes[y] = new
      /\ \A x \in DOMAIN t.indexes : r.indexes[x] = t.indexes[x]
    BY <1>2, <1>3 DEF With
<1>8. IsTable(r)
  <2>1. r.indexes \in [DOMAIN r.indexes -> Index]
    <3>1. \A x \in DOMAIN r.indexes : r.indexes[x] \in Index
        BY <1>1, <1>6, <1>7, TableParts
    <3>2. r.indexes = [x \in DOMAIN r.indexes |-> r.indexes[x]]
        BY <1>2 DEF With
    <3> QED
        BY <3>1, <3>2
  <2>2. DOMAIN r.indexes \subseteq 1..(r.nextIndex - 1)
    <3>1. r.nextIndex - 1 = y
        BY <1>2, <1>3
    <3>2. \A x \in DOMAIN t.indexes : x \in 1..y
        BY <1>1, <1>3, TableParts DEF Indexes, y
    <3> QED
        BY <1>3, <1>7, <3>1, <3>2
  <2>3. r.nextIndex \in Indexes
      BY <1>2, <1>3 DEF Indexes
  <2> QED
      BY <1>1, <1>2, <2>1, <2>2, <2>3 DEF IsTable
<1>9. TableResolves(r)
  <2>1. \A x \in DOMAIN r.indexes : Elements(r.indexes[x].columns) \subseteq DOMAIN r.columns
      BY <1>2, <1>4, <1>6, <1>7 DEF GoodTable, TableResolves
  <2>2. \A k \in r.constraints : ConstraintResolves(r, k)
      BY <1>2, <1>7 DEF GoodTable, TableResolves, ConstraintResolves
  <2> QED
      BY <2>1, <2>2 DEF TableResolves
<1>10. PositionsAreDense(r)
    BY <1>2 DEF GoodTable, PositionsAreDense
<1>11. IndexPositionsAreCurrent(r)
  <2>1. ASSUME NEW x \in DOMAIN t.indexes
        PROVE  r.indexes[x].positions =
                  [i \in DOMAIN r.indexes[x].columns |-> r.columns[r.indexes[x].columns[i]].position]
      BY <1>2, <1>7 DEF GoodTable, IndexPositionsAreCurrent
  <2>2. new.positions = [i \in DOMAIN new.columns |-> r.columns[new.columns[i]].position]
      BY <1>2, <1>6
  <2> QED
      BY <1>7, <2>1, <2>2 DEF IndexPositionsAreCurrent
<1>12. IndexNamesDiffer(r)
  <2>1. \A x \in DOMAIN t.indexes : t.indexes[x].name # spec.name
      BY DEF IndexAccepted, HasIndex
  <2>2. IndexNamesDiffer(t)
      BY DEF GoodTable
  <2> HIDE DEF columns
  <2> QED
      BY <1>6, <1>7, <2>1, <2>2 DEF IndexNamesDiffer
<1>13. UniqueIndexesDiffer(r)
  <2>1. spec.unique => \A x \in DOMAIN t.indexes :
                          t.indexes[x].unique => Elements(t.indexes[x].columns) # Elements(columns)
      BY DEF IndexAccepted
  <2> HIDE DEF columns
  <2> QED
      BY <1>6, <1>7, <2>1 DEF GoodTable, UniqueIndexesDiffer
<1>14. ReverseIndexesAreNamed(r)
  <2>1. \A k \in OfKind(t, "foreignKey") : k.reverseIndex \in DOMAIN t.indexes
      BY DEF GoodTable, TableResolves, ConstraintResolves, OfKind
  <2> QED
      BY <1>2, <1>7, <2>1 DEF GoodTable, ReverseIndexesAreNamed, OfKind
<1>15. ConstraintNamesDiffer(r) /\ ColumnNamesDiffer(r)
    BY <1>2 DEF GoodTable, ConstraintNamesDiffer, ColumnNamesDiffer
<1>16. GoodTable(r)
    BY <1>8, <1>9, <1>10, <1>11, <1>12, <1>13, <1>14, <1>15 DEF GoodTable
<1> QED
    BY <1>2, <1>3, <1>6, <1>7, <1>16 DEF r, y

\* An index that no constraint of the table uses
LEMMA IndexMayGo ==
    ASSUME NEW t, GoodTable(t), NEW r, OnlyChanges(r, t, {"indexes"}), NEW x,
           r.indexes = Without(t.indexes, x),
           \A k \in t.constraints : /\ k.kind \in {"primaryKey", "unique"} => k.index # x
                                    /\ k.kind = "foreignKey" => k.reverseIndex # x
    PROVE  GoodTable(r)
<1>1. IsTable(t)
    BY DEF GoodTable
<1>2. /\ DOMAIN r = DOMAIN t /\ r.columns = t.columns /\ r.constraints = t.constraints
      /\ r.nextColumn = t.nextColumn /\ r.nextIndex = t.nextIndex /\ r.populated = t.populated
    BY <1>1, TableParts DEF OnlyChanges
<1>3. DOMAIN r.indexes = DOMAIN t.indexes \ {x}
      /\ \A y \in DOMAIN t.indexes \ {x} : r.indexes[y] = t.indexes[y]
    BY DEF Without
<1>4. IsTable(r)
  <2>1. r.indexes \in [DOMAIN r.indexes -> Index]
    <3>1. \A y \in DOMAIN r.indexes : r.indexes[y] \in Index
        BY <1>1, <1>3, TableParts
    <3>2. r.indexes = [y \in DOMAIN r.indexes |-> r.indexes[y]]
        BY DEF Without
    <3> QED
        BY <3>1, <3>2
  <2> QED
      BY <1>1, <1>2, <1>3, <2>1 DEF IsTable
<1>5. TableResolves(r)
  <2>1. \A y \in DOMAIN r.indexes : Elements(r.indexes[y].columns) \subseteq DOMAIN r.columns
      BY <1>2, <1>3 DEF GoodTable, TableResolves
  <2>2. ASSUME NEW k \in r.constraints PROVE ConstraintResolves(r, k)
    <3>1. k \in t.constraints /\ ConstraintResolves(t, k)
        BY <1>2 DEF GoodTable, TableResolves
    <3> QED
        BY <1>2, <1>3, <3>1 DEF ConstraintResolves
  <2> QED
      BY <2>1, <2>2 DEF TableResolves
<1>6. PositionsAreDense(r) /\ IndexPositionsAreCurrent(r)
    BY <1>2, <1>3, PositionsStillCurrent DEF GoodTable, PositionsAreDense
<1>7. UniqueIndexesDiffer(r) /\ IndexNamesDiffer(r)
    BY <1>3 DEF GoodTable, UniqueIndexesDiffer, IndexNamesDiffer
<1>8. ReverseIndexesAreNamed(r)
  <2>1. \A k \in OfKind(t, "foreignKey") : k.reverseIndex \in DOMAIN t.indexes \ {x}
      BY DEF GoodTable, TableResolves, ConstraintResolves, OfKind
  <2> QED
      BY <1>2, <1>3, <2>1 DEF GoodTable, ReverseIndexesAreNamed, OfKind
<1>9. ConstraintNamesDiffer(r) /\ ColumnNamesDiffer(r)
    BY <1>2 DEF GoodTable, ConstraintNamesDiffer, ColumnNamesDiffer
<1> QED
    BY <1>4, <1>5, <1>6, <1>7, <1>8, <1>9 DEF GoodTable

\* removeForeignKeyById: no other constraint uses the reverse index it takes along.
LEMMA ForeignKeyMayGo ==
    ASSUME NEW t, GoodTable(t), NEW fk \in OfKind(t, "foreignKey")
    PROVE  GoodTable(WithoutForeignKey(t, fk))
<1> DEFINE r == WithoutForeignKey(t, fk)
           s == WithoutConstraint(t, fk)
<1>1. IsTable(t)
    BY DEF GoodTable
<1>2. /\ OnlyChanges(s, t, {"constraints", "populated"}) /\ s.populated = t.populated
      /\ s.constraints = t.constraints \ {fk} /\ s.indexes = t.indexes
    BY <1>1, TableParts DEF WithoutConstraint, OnlyChanges
<1>3. OnlyChanges(r, s, {"indexes"}) /\ r.indexes = Without(t.indexes, fk.reverseIndex)
    BY <1>1, TableParts DEF WithoutForeignKey, WithoutConstraint, OnlyChanges
<1> HIDE DEF r, s
<1>4. GoodTable(s)
    BY <1>1, <1>2, ConstraintsMayGo, TableParts
<1>5. fk \in t.constraints /\ fk.kind = "foreignKey" /\ ConstraintResolves(t, fk)
      /\ t.indexes[fk.reverseIndex].name = <<fk.name, "_FKIDX">>
    BY DEF GoodTable, TableResolves, ReverseIndexesAreNamed, OfKind
<1>6. ASSUME NEW k \in t.constraints \ {fk}, k.kind \in {"primaryKey", "unique"}
      PROVE  k.index # fk.reverseIndex
    BY <1>5, <1>6 DEF GoodTable, TableResolves, ConstraintResolves
<1>7. ASSUME NEW k \in t.constraints \ {fk}, k.kind = "foreignKey"
      PROVE  k.reverseIndex # fk.reverseIndex
  <2>1. t.indexes[k.reverseIndex].name = <<k.name, "_FKIDX">>
      BY <1>7 DEF GoodTable, ReverseIndexesAreNamed, OfKind
  <2>2. k.name # fk.name
      BY <1>5 DEF GoodTable, ConstraintNamesDiffer
  <2> QED
      BY <1>5, <2>1, <2>2
<1>8. GoodTable(r)
    BY <1>2, <1>3, <1>4, <1>6, <1>7, IndexMayGo
<1> QED
    BY <1>8 DEF r

\* createUniqueConstraint, by the assertions it makes
LEMMA UniqueConstraintMayCome ==
    ASSUME NEW t, GoodTable(t), NEW spec \in KeyDefinition, UniqueAccepted(t, spec)
    PROVE  /\ GoodTable(WithUniqueConstraint(t, spec))
           /\ DOMAIN t.indexes \subseteq DOMAIN WithUniqueConstraint(t, spec).indexes
           /\ \A x \in DOMAIN t.indexes : WithUniqueConstraint(t, spec).indexes[x] = t.indexes[x]
           /\ \E k : k.kind = "unique"
                     /\ WithUniqueConstraint(t, spec).constraints = t.constraints \cup {k}
<1> DEFINE index == [name |-> <<spec.name, "">>, unique |-> TRUE, columns |-> spec.columns]
           needs == NeedsIndex(t, spec)
           backed == IF needs THEN WithIndex(t, index) ELSE t
           x == IF needs THEN t.nextIndex
                ELSE IF spec.using # {} THEN CHOOSE y \in DOMAIN t.indexes : t.indexes[y].name \in spec.using
                ELSE CHOOSE y \in UniqueIndexes(t, IdsOf(t, spec.columns)) : TRUE
           k == [kind |-> "unique", name |-> spec.name, index |-> x, ownsIndex |-> needs]
<1>1. IsTable(t)
    BY DEF GoodTable
<1>2. WithUniqueConstraint(t, spec) = WithConstraint(backed, k)
    BY DEF WithUniqueConstraint
<1>3. needs \in BOOLEAN
    BY DEF NeedsIndex
<1>4. /\ GoodTable(backed) /\ backed.constraints = t.constraints
      /\ DOMAIN t.indexes \subseteq DOMAIN backed.indexes
      /\ \A y \in DOMAIN t.indexes : backed.indexes[y] = t.indexes[y]
      /\ x \in DOMAIN backed.indexes /\ backed.indexes[x].unique
  <2>1. CASE needs
    <3>1. index \in IndexDefinition /\ index.unique
      <4>1. spec.name \in ConstraintNames /\ spec.columns \in Seq(ColumnNames)
          BY EmptySeq DEF KeyDefinition
      <4>2. <<spec.name, "">> \in IndexNames
          BY <4>1 DEF IndexNames
      <4> QED
          BY <4>1, <4>2 DEF IndexDefinition
    <3>2. IndexAccepted(t, index)
        BY <2>1 DEF UniqueAccepted, NeedsIndex
    <3>3. backed = WithIndex(t, index) /\ x = t.nextIndex
        BY <2>1
    <3> HIDE DEF index, backed, x, needs
    <3> QED
        BY <3>1, <3>2, <3>3, IndexMayCome
  <2>2. CASE ~ needs /\ spec.using # {}
    <3>1. PICK name \in IndexNames : spec.using = {name}
        BY <2>2 DEF KeyDefinition
    <3>2. PICK y \in DOMAIN t.indexes : t.indexes[y].name = name /\ t.indexes[y].unique
        BY <2>2, <3>1 DEF UniqueAccepted
    <3>3. x \in DOMAIN t.indexes /\ t.indexes[x].name = name
        BY <2>2, <3>1, <3>2
    <3>4. x = y
        BY <3>2, <3>3 DEF GoodTable, IndexNamesDiffer
    <3> QED
        BY <2>2, <3>2, <3>4
  <2>3. CASE ~ needs /\ spec.using = {}
    <3>1. x \in UniqueIndexes(t, IdsOf(t, spec.columns))
        BY <2>3 DEF NeedsIndex
    <3> QED
        BY <2>3, <3>1 DEF UniqueIndexes
  <2> QED
      BY <2>1, <2>2, <2>3
<1> HIDE DEF backed, x, needs
<1>5. k \in Unique
  <2>1. spec.name \in ConstraintNames
      BY DEF KeyDefinition
  <2>2. x \in Indexes
      BY <1>4, TableParts DEF GoodTable
  <2> QED
      BY <1>3, <2>1, <2>2 DEF Unique
<1>6. k \in Constraint /\ k.kind = "unique" /\ k.index = x /\ k.name = spec.name
    BY <1>5 DEF Constraint
<1> HIDE DEF k
<1>7. ConstraintResolves(backed, k) /\ NameUnused(backed, k.name)
    BY <1>4, <1>6 DEF ConstraintResolves, UniqueAccepted, NameUnused
<1>8. GoodTable(WithConstraint(backed, k))
    BY <1>4, <1>6, <1>7, ConstraintMayCome
<1>9. /\ WithConstraint(backed, k).indexes = backed.indexes
      /\ WithConstraint(backed, k).constraints = t.constraints \cup {k}
    BY <1>4, TableParts DEF WithConstraint, GoodTable
<1> QED
    BY <1>2, <1>4, <1>6, <1>8, <1>9

-----------------------------------------------------------------------------
(* The snapshots                                                           *)

GoodDatabase(d) == DOMAIN d \subseteq Tables /\ \A n \in DOMAIN d : GoodTable(d[n])

\* The inductive invariant: the committed snapshot is as good as the working one, for
\* a statement that throws goes back to it.
IInv ==
    /\ GoodDatabase(db) /\ GoodDatabase(work)
    /\ inTx \in BOOLEAN
    /\ todo \in Seq(Action)

LEMMA InitIsGood == Init => IInv
<1> SUFFICES ASSUME Init PROVE IInv
    OBVIOUS
<1>1. DOMAIN db = {} /\ DOMAIN work = {}
    BY DEF Init
<1>2. todo \in Seq(Action) /\ inTx \in BOOLEAN
    BY EmptySeq DEF Init
<1> QED
    BY <1>1, <1>2 DEF IInv, GoodDatabase

LEMMA DueIsAnAction ==
    ASSUME todo \in Seq(Action), NEW ops, NEW a \in Due(ops)
    PROVE  a \in Action /\ a.op \in ops /\ Accepted(a) /\ todo # <<>>
<1>1. 1 \in DOMAIN todo /\ a = todo[1] /\ a.op \in ops /\ Accepted(a)
    BY DEF Due
<1>2. a \in Action
    BY <1>1, LenProperties, ElementOfSeq
<1> QED
    BY <1>1, <1>2

\* A table of the snapshot is replaced by a good one.
LEMMA GoodTableReplaced ==
    ASSUME NEW d, GoodDatabase(d), NEW n \in Tables, NEW r, GoodTable(r)
    PROVE  GoodDatabase(With(d, n, r))
BY DEF GoodDatabase, With

LEMMA BecomesKeepsGood ==
    ASSUME IInv, NEW ops, NEW a \in Due(ops), NEW r, GoodTable(r), Becomes(a, r)
    PROVE  IInv'
<1>1. a \in Action /\ todo # <<>>
    BY DueIsAnAction DEF IInv
<1>2. a.table \in Tables
    BY <1>1 DEF Action
<1>3. GoodDatabase(With(work, a.table, r))
    BY <1>2, GoodTableReplaced DEF IInv
<1>4. GoodDatabase(work')
    BY <1>3 DEF Becomes
<1>5. db' = work' \/ db' = db
    BY DEF Becomes
<1>6. GoodDatabase(db')
    BY <1>4, <1>5 DEF IInv
<1>7. todo' \in Seq(Action) /\ inTx' \in BOOLEAN
    BY <1>1, HeadTailProperties DEF Becomes, IInv
<1> QED
    BY <1>4, <1>6, <1>7 DEF IInv, GoodDatabase

\* What AddPrimaryKey adds
LEMMA PrimaryKeyMayCome ==
    ASSUME NEW t, GoodTable(t), NEW spec \in KeyDefinition, PrimaryKeyAccepted(t, spec)
    PROVE  LET k == [kind |-> "primaryKey", name |-> spec.name,
                     index |-> CHOOSE x \in UniqueIndexes(t, IdsOf(t, spec.columns)) : TRUE]
           IN  k.kind = "primaryKey" /\ GoodTable(WithConstraint(t, k))
<1> DEFINE columns == IdsOf(t, spec.columns)
           x == CHOOSE x \in UniqueIndexes(t, columns) : TRUE
           k == [kind |-> "primaryKey", name |-> spec.name, index |-> x]
<1>1. /\ UniqueIndexes(t, columns) # {} /\ NameUnused(t, spec.name)
      /\ \A c \in Elements(columns) : ~ t.columns[c].nullable
    BY DEF PrimaryKeyAccepted
<1>2. x \in UniqueIndexes(t, columns)
    BY <1>1
<1>3. x \in DOMAIN t.indexes /\ t.indexes[x].unique /\ t.indexes[x].columns = columns
    BY <1>2 DEF UniqueIndexes
<1>4. x \in Indexes
    BY <1>3, TableParts DEF GoodTable
<1>5. spec.name \in ConstraintNames
    BY DEF KeyDefinition
<1> HIDE DEF x, columns
<1>6. k \in Constraint /\ k.kind = "primaryKey" /\ k.index = x /\ k.name = spec.name
    BY <1>4, <1>5 DEF Constraint, PrimaryKey
<1> HIDE DEF k
<1>7. ConstraintResolves(t, k)
    BY <1>1, <1>3, <1>6 DEF ConstraintResolves
<1>8. GoodTable(WithConstraint(t, k))
    BY <1>1, <1>6, <1>7, ConstraintMayCome
<1> QED
    BY <1>6, <1>8 DEF k, x, columns

\* What AddCheck adds
LEMMA CheckMayCome ==
    ASSUME NEW t, GoodTable(t), NEW spec \in KeyDefinition, NameUnused(t, spec.name),
           HasColumns(t, spec.columns)
    PROVE  LET k == [kind |-> "check", name |-> spec.name,
                     columns |-> Elements(IdsOf(t, spec.columns))]
           IN  k.kind = "check" /\ GoodTable(WithConstraint(t, k))
<1> DEFINE columns == Elements(IdsOf(t, spec.columns))
           k == [kind |-> "check", name |-> spec.name, columns |-> columns]
<1>1. spec.columns \in Seq(ColumnNames) /\ spec.name \in ConstraintNames
    BY EmptySeq DEF KeyDefinition
<1>2. columns \subseteq DOMAIN t.columns /\ columns \subseteq Columns
    BY <1>1, IdsAreColumns, TableParts DEF GoodTable
<1> HIDE DEF columns
<1>3. k \in Constraint /\ k.kind = "check" /\ k.columns = columns /\ k.name = spec.name
    BY <1>1, <1>2 DEF Constraint, Check
<1> HIDE DEF k
<1>4. ConstraintResolves(t, k)
    BY <1>2, <1>3 DEF ConstraintResolves
<1>5. GoodTable(WithConstraint(t, k))
    BY <1>3, <1>4, ConstraintMayCome
<1> QED
    BY <1>3, <1>5 DEF k, columns

\* What AddForeignKey adds
LEMMA ForeignKeyMayCome ==
    ASSUME NEW d, GoodDatabase(d), NEW n \in DOMAIN d, NEW spec \in ForeignKeyDefinition,
           ForeignKeyAccepted(d, d[n], spec)
    PROVE  LET t == d[n]
               parent == d[spec.parentTable]
               keys == IdsOf(parent, spec.parentColumns)
               k == [kind |-> "foreignKey", name |-> spec.name,
                     columns |-> IdsOf(t, spec.columns),
                     reverseIndex |-> IndexNamed(t, <<spec.name, "_FKIDX">>),
                     parentTable |-> spec.parentTable, parentColumns |-> keys,
                     parentIndex |-> CHOOSE x \in UniqueIndexes(parent, keys) : TRUE]
           IN  GoodTable(WithConstraint(t, k)) /\ ParentResolves(d, k)
<1> DEFINE t == d[n]
           parent == d[spec.parentTable]
           columns == IdsOf(t, spec.columns)
           keys == IdsOf(parent, spec.parentColumns)
           reverse == IndexNamed(t, <<spec.name, "_FKIDX">>)
           x == CHOOSE x \in UniqueIndexes(parent, keys) : TRUE
           k == [kind |-> "foreignKey", name |-> spec.name, columns |-> columns,
                 reverseIndex |-> reverse, parentTable |-> spec.parentTable,
                 parentColumns |-> keys, parentIndex |-> x]
<1>1. /\ spec.parentTable \in DOMAIN d
      /\ HasColumns(t, spec.columns) /\ HasColumns(parent, spec.parentColumns)
      /\ HasIndex(t, <<spec.name, "_FKIDX">>)
      /\ NameUnused(t, spec.name)
      /\ UniqueIndexes(parent, keys) # {}
      /\ t.indexes[reverse].columns = columns /\ ~ t.indexes[reverse].unique
    BY DEF ForeignKeyAccepted
<1>2. /\ spec.name \in ConstraintNames /\ spec.parentTable \in Tables
      /\ spec.columns \in Seq(ColumnNames) /\ spec.parentColumns \in Seq(ColumnNames)
    BY DEF ForeignKeyDefinition
<1>3. GoodTable(t) /\ IsTable(t) /\ GoodTable(parent) /\ IsTable(parent)
    BY <1>1 DEF GoodDatabase, GoodTable
<1>4. columns \in Seq(Columns) /\ Elements(columns) \subseteq DOMAIN t.columns
    BY <1>1, <1>2, <1>3, IdsAreColumns
<1>5. keys \in Seq(Columns) /\ Elements(keys) \subseteq DOMAIN parent.columns
    BY <1>1, <1>2, <1>3, IdsAreColumns
<1>6. reverse \in DOMAIN t.indexes /\ t.indexes[reverse].name = <<spec.name, "_FKIDX">>
    BY <1>1, IndexIsFound
<1>7. x \in DOMAIN parent.indexes /\ parent.indexes[x].unique /\ parent.indexes[x].columns = keys
  <2>1. x \in UniqueIndexes(parent, keys)
      BY <1>1
  <2> QED
      BY <2>1 DEF UniqueIndexes
<1>8. reverse \in Indexes /\ x \in Indexes
    BY <1>3, <1>6, <1>7, TableParts
<1> HIDE DEF x, columns, keys, reverse
<1>9. k \in ForeignKey
    BY <1>2, <1>4, <1>5, <1>8 DEF ForeignKey
<1>10. /\ k \in Constraint /\ k.kind = "foreignKey" /\ k.name = spec.name
       /\ k.columns = columns /\ k.reverseIndex = reverse /\ k.parentTable = spec.parentTable
       /\ k.parentColumns = keys /\ k.parentIndex = x
    BY <1>9 DEF Constraint
<1> HIDE DEF k
<1>11. ConstraintResolves(t, k)
    BY <1>1, <1>4, <1>6, <1>10 DEF ConstraintResolves
<1>12. GoodTable(WithConstraint(t, k))
    BY <1>1, <1>3, <1>6, <1>10, <1>11, ConstraintMayCome
<1>13. ParentResolves(d, k)
    BY <1>1, <1>5, <1>7, <1>10 DEF ParentResolves
<1> QED
    BY <1>12, <1>13 DEF k, x, columns, keys, reverse

\* What an action that is due finds: its table, which is good, and its definitions.
LEMMA DueFinds ==
    ASSUME IInv, NEW ops, NEW a \in Due(ops), a.op # "create_table"
    PROVE  /\ a \in Action /\ Accepted(a) /\ a.op \in ops
           /\ a.table \in DOMAIN work /\ a.table \in Tables
           /\ GoodTable(work[a.table]) /\ IsTable(work[a.table])
<1>1. a \in Action /\ Accepted(a) /\ a.op \in ops
    BY DueIsAnAction DEF IInv
<1>2. a.table \in Tables
    BY <1>1 DEF Action
<1>3. a.table \in DOMAIN work
    BY <1>1 DEF Accepted
<1> QED
    BY <1>1, <1>2, <1>3 DEF IInv, GoodDatabase, GoodTable

LEMMA CreateTableStep == IInv /\ CreateTable => IInv'
BY EmptyTableIsGood, BecomesKeepsGood DEF CreateTable

LEMMA InsertRowsStep == IInv /\ InsertRows => IInv'
<1> SUFFICES ASSUME IInv, NEW a \in Due({"insert_rows"}),
                    Becomes(a, [work[a.table] EXCEPT !.populated = TRUE])
             PROVE  IInv'
    BY DEF InsertRows
<1> DEFINE t == work[a.table]
           r == [t EXCEPT !.populated = TRUE]
<1>1. GoodTable(t) /\ IsTable(t)
    BY DueFinds, DueIsAnAction DEF IInv
<1>2. /\ OnlyChanges(r, t, {"constraints", "populated"})
      /\ r.constraints \subseteq t.constraints /\ r.populated \in BOOLEAN
    BY <1>1, TableParts DEF OnlyChanges
<1>3. GoodTable(r)
    BY <1>1, <1>2, ConstraintsMayGo
<1> QED
    BY <1>3, BecomesKeepsGood

LEMMA AddColumnStep == IInv /\ AddColumn => IInv'
<1> SUFFICES ASSUME IInv, NEW a \in Due({"add_column"}), Becomes(a, WithColumn(work[a.table], a.spec))
             PROVE  IInv'
    BY DEF AddColumn
<1>1. a.op = "add_column"
    BY DueIsAnAction DEF IInv
<1>2. GoodTable(work[a.table]) /\ Accepted(a) /\ a \in Action
    BY <1>1, DueFinds
<1>3. ~ HasColumn(work[a.table], a.spec.name)
    BY <1>1, <1>2 DEF Accepted
<1>4. a.spec \in ColumnDefinition
    BY <1>1, <1>2 DEF Action
<1>5. GoodTable(WithColumn(work[a.table], a.spec))
    BY <1>2, <1>3, <1>4, ColumnMayCome
<1> QED
    BY <1>5, BecomesKeepsGood

LEMMA DropColumnStep == IInv /\ DropColumn => IInv'
<1> SUFFICES ASSUME IInv, NEW a \in Due({"drop_column"}),
                    Becomes(a, WithoutColumn(work[a.table], ColumnNamed(work[a.table], a.name)))
             PROVE  IInv'
    BY DEF DropColumn
<1> DEFINE t == work[a.table]
<1>1. a.op = "drop_column"
    BY DueIsAnAction DEF IInv
<1>2. GoodTable(t) /\ Accepted(a)
    BY <1>1, DueFinds
<1>3. HasColumn(t, a.name) /\ ~ ReferencesColumn(t, ColumnNamed(t, a.name))
    BY <1>1, <1>2 DEF Accepted, DropColumnAccepted
<1>4. ColumnNamed(t, a.name) \in DOMAIN t.columns
    BY <1>3, ColumnIsFound
<1>5. GoodTable(WithoutColumn(t, ColumnNamed(t, a.name)))
    BY <1>2, <1>3, <1>4, ColumnMayGo
<1> QED
    BY <1>5, BecomesKeepsGood

LEMMA RenameColumnStep == IInv /\ RenameColumn => IInv'
<1> SUFFICES ASSUME IInv, NEW a \in Due({"rename_column"}),
                    Becomes(a, [work[a.table] EXCEPT
                                   !.columns[ColumnNamed(work[a.table], a.from)].name = a.to])
             PROVE  IInv'
    BY DEF RenameColumn
<1>1. a.op = "rename_column"
    BY DueIsAnAction DEF IInv
<1>2. GoodTable(work[a.table]) /\ Accepted(a) /\ a \in Action
    BY <1>1, DueFinds
<1>3. /\ HasColumn(work[a.table], a.from)
      /\ a.from = a.to \/ ~ HasColumn(work[a.table], a.to)
    BY <1>1, <1>2 DEF Accepted
<1>4. a.to \in ColumnNames
    BY <1>1, <1>2 DEF Action
<1> QED
    BY <1>2, <1>3, <1>4, ColumnMayBeRenamed, BecomesKeepsGood

LEMMA AlterColumnStep == IInv /\ AlterColumn => IInv'
<1> SUFFICES ASSUME IInv, NEW a \in Due({"alter_column"}),
                    Becomes(a, [work[a.table] EXCEPT
                                   !.columns[ColumnNamed(work[a.table], a.name)].type = a.type])
             PROVE  IInv'
    BY DEF AlterColumn
<1>1. a.op = "alter_column"
    BY DueIsAnAction DEF IInv
<1>2. GoodTable(work[a.table]) /\ Accepted(a) /\ a \in Action
    BY <1>1, DueFinds
<1>3. HasColumn(work[a.table], a.name)
    BY <1>1, <1>2 DEF Accepted
<1>4. a.type \in Types
    BY <1>1, <1>2 DEF Action
<1> QED
    BY <1>2, <1>3, <1>4, ColumnMayChangeType, BecomesKeepsGood

LEMMA AddIndexStep == IInv /\ AddIndex => IInv'
<1> SUFFICES ASSUME IInv, NEW a \in Due({"add_index"}), Becomes(a, WithIndex(work[a.table], a.spec))
             PROVE  IInv'
    BY DEF AddIndex
<1>1. a.op = "add_index"
    BY DueIsAnAction DEF IInv
<1>2. GoodTable(work[a.table]) /\ Accepted(a) /\ a \in Action
    BY <1>1, DueFinds
<1>3. IndexAccepted(work[a.table], a.spec)
    BY <1>1, <1>2 DEF Accepted
<1>4. a.spec \in IndexDefinition
    BY <1>1, <1>2 DEF Action
<1>5. GoodTable(WithIndex(work[a.table], a.spec))
    BY <1>2, <1>3, <1>4, IndexMayCome
<1> QED
    BY <1>5, BecomesKeepsGood

LEMMA DropIndexStep == IInv /\ DropIndex => IInv'
<1> SUFFICES ASSUME IInv, NEW a \in Due({"drop_index"}),
                    Becomes(a, [work[a.table] EXCEPT !.indexes = Without(@, a.index)])
             PROVE  IInv'
    BY DEF DropIndex
<1> DEFINE t == work[a.table]
           r == [t EXCEPT !.indexes = Without(@, a.index)]
<1>1. a.op = "drop_index"
    BY DueIsAnAction DEF IInv
<1>2. GoodTable(t) /\ IsTable(t) /\ Accepted(a)
    BY <1>1, DueFinds
<1>3. DropIndexAccepted(t, a.index)
    BY <1>1, <1>2 DEF Accepted
<1>4. \A k \in t.constraints : /\ k.kind \in {"primaryKey", "unique"} => k.index # a.index
                               /\ k.kind = "foreignKey" => k.reverseIndex # a.index
    BY <1>3 DEF DropIndexAccepted
<1>5. OnlyChanges(r, t, {"indexes"}) /\ r.indexes = Without(t.indexes, a.index)
    BY <1>2, TableParts DEF OnlyChanges
<1> HIDE DEF r
<1>6. GoodTable(r)
    BY <1>2, <1>4, <1>5, IndexMayGo
<1> QED
    BY <1>6, BecomesKeepsGood DEF r

LEMMA AddPrimaryKeyStep == IInv /\ AddPrimaryKey => IInv'
<1> SUFFICES ASSUME IInv, NEW a \in Due({"add_primaryKey"}),
                    Becomes(a, WithConstraint(work[a.table],
                        [kind |-> "primaryKey", name |-> a.spec.name,
                         index |-> CHOOSE x \in UniqueIndexes(work[a.table],
                                                   IdsOf(work[a.table], a.spec.columns)) : TRUE]))
             PROVE  IInv'
    BY DEF AddPrimaryKey
<1>1. a.op = "add_primaryKey"
    BY DueIsAnAction DEF IInv
<1>2. GoodTable(work[a.table]) /\ Accepted(a) /\ a \in Action
    BY <1>1, DueFinds
<1>3. PrimaryKeyAccepted(work[a.table], a.spec)
    BY <1>1, <1>2 DEF Accepted
<1>4. a.spec \in KeyDefinition
    BY <1>1, <1>2 DEF Action
<1> QED
    BY <1>2, <1>3, <1>4, PrimaryKeyMayCome, BecomesKeepsGood

LEMMA AddUniqueConstraintStep == IInv /\ AddUniqueConstraint => IInv'
<1> SUFFICES ASSUME IInv, NEW a \in Due({"add_unique"}),
                    Becomes(a, WithUniqueConstraint(work[a.table], a.spec))
             PROVE  IInv'
    BY DEF AddUniqueConstraint
<1>1. a.op = "add_unique"
    BY DueIsAnAction DEF IInv
<1>2. GoodTable(work[a.table]) /\ Accepted(a) /\ a \in Action
    BY <1>1, DueFinds
<1>3. UniqueAccepted(work[a.table], a.spec)
    BY <1>1, <1>2 DEF Accepted
<1>4. a.spec \in KeyDefinition
    BY <1>1, <1>2 DEF Action
<1>5. GoodTable(WithUniqueConstraint(work[a.table], a.spec))
    BY <1>2, <1>3, <1>4, UniqueConstraintMayCome
<1> QED
    BY <1>5, BecomesKeepsGood

LEMMA AddForeignKeyStep == IInv /\ AddForeignKey => IInv'
<1> SUFFICES ASSUME IInv, NEW a \in Due({"add_foreignKey"}),
                    LET t == work[a.table]
                        parent == work[a.spec.parentTable]
                        keys == IdsOf(parent, a.spec.parentColumns)
                    IN  Becomes(a, WithConstraint(t,
                            [kind |-> "foreignKey", name |-> a.spec.name,
                             columns |-> IdsOf(t, a.spec.columns),
                             reverseIndex |-> IndexNamed(t, <<a.spec.name, "_FKIDX">>),
                             parentTable |-> a.spec.parentTable, parentColumns |-> keys,
                             parentIndex |-> CHOOSE x \in UniqueIndexes(parent, keys) : TRUE]))
             PROVE  IInv'
    BY DEF AddForeignKey
<1>1. a.op = "add_foreignKey"
    BY DueIsAnAction DEF IInv
<1>2. a.table \in DOMAIN work /\ GoodDatabase(work) /\ Accepted(a) /\ a \in Action
    BY <1>1, DueFinds DEF IInv
<1>3. ForeignKeyAccepted(work, work[a.table], a.spec)
    BY <1>1, <1>2 DEF Accepted
<1>4. a.spec \in ForeignKeyDefinition
    BY <1>1, <1>2 DEF Action
<1> QED
    BY <1>2, <1>3, <1>4, ForeignKeyMayCome, BecomesKeepsGood

LEMMA AddCheckStep == IInv /\ AddCheck => IInv'
<1> SUFFICES ASSUME IInv, NEW a \in Due({"add_check"}),
                    Becomes(a, WithConstraint(work[a.table],
                        [kind |-> "check", name |-> a.spec.name,
                         columns |-> Elements(IdsOf(work[a.table], a.spec.columns))]))
             PROVE  IInv'
    BY DEF AddCheck
<1>1. a.op = "add_check"
    BY DueIsAnAction DEF IInv
<1>2. GoodTable(work[a.table]) /\ Accepted(a) /\ a \in Action
    BY <1>1, DueFinds
<1>3. NameUnused(work[a.table], a.spec.name) /\ HasColumns(work[a.table], a.spec.columns)
    BY <1>1, <1>2 DEF Accepted
<1>4. a.spec \in KeyDefinition
    BY <1>1, <1>2 DEF Action
<1> QED
    BY <1>2, <1>3, <1>4, CheckMayCome, BecomesKeepsGood

LEMMA DropPrimaryKeyStep == IInv /\ DropPrimaryKey => IInv'
<1> SUFFICES ASSUME IInv, NEW a \in Due({"drop_primaryKey"}),
                    Becomes(a, [work[a.table] EXCEPT
                                   !.constraints = @ \ OfKind(work[a.table], "primaryKey")])
             PROVE  IInv'
    BY DEF DropPrimaryKey
<1> DEFINE t == work[a.table]
           r == [t EXCEPT !.constraints = @ \ OfKind(t, "primaryKey")]
<1>1. GoodTable(t) /\ IsTable(t)
    BY DueFinds, DueIsAnAction DEF IInv
<1>2. /\ OnlyChanges(r, t, {"constraints", "populated"})
      /\ r.constraints \subseteq t.constraints /\ r.populated \in BOOLEAN
    BY <1>1, TableParts DEF OnlyChanges
<1>3. GoodTable(r)
    BY <1>1, <1>2, ConstraintsMayGo
<1> QED
    BY <1>3, BecomesKeepsGood

LEMMA DropConstraintStep == IInv /\ DropConstraint => IInv'
<1> SUFFICES ASSUME IInv, NEW a \in Due({"drop_constraint"}), NEW k \in work[a.table].constraints,
                    Becomes(a, IF k.kind = "foreignKey" THEN WithoutForeignKey(work[a.table], k)
                               ELSE WithoutConstraint(work[a.table], k))
             PROVE  IInv'
    BY DEF DropConstraint
<1> DEFINE t == work[a.table]
<1>1. GoodTable(t) /\ IsTable(t)
    BY DueFinds, DueIsAnAction DEF IInv
<1>2. CASE k.kind = "foreignKey"
  <2>1. GoodTable(WithoutForeignKey(t, k))
      BY <1>1, <1>2, ForeignKeyMayGo DEF OfKind
  <2> QED
      BY <1>2, <2>1, BecomesKeepsGood
<1>3. CASE k.kind # "foreignKey"
  <2> DEFINE r == WithoutConstraint(t, k)
  <2>1. /\ OnlyChanges(r, t, {"constraints", "populated"})
        /\ r.constraints \subseteq t.constraints /\ r.populated \in BOOLEAN
      BY <1>1, TableParts DEF OnlyChanges, WithoutConstraint
  <2>2. GoodTable(r)
      BY <1>1, <2>1, ConstraintsMayGo
  <2> QED
      BY <1>3, <2>2, BecomesKeepsGood
<1> QED
    BY <1>2, <1>3

LEMMA IssueStep == ASSUME NEW s \in Statements PROVE IInv /\ Issue(s) => IInv'
<1> SUFFICES ASSUME IInv, Issue(s) PROVE IInv'
    OBVIOUS
<1>1. IsDatabase(work)
    BY DEF IInv, GoodDatabase, GoodTable, IsDatabase
<1>2. s \in Statement
    BY StatementsAssumption
<1>3. todo' \in Seq(Action)
    BY <1>1, <1>2, BindingsAreActions DEF Issue
<1> QED
    BY <1>3 DEF IInv, Issue, GoodDatabase

LEMMA TransactionSteps == IInv /\ (Begin \/ Commit \/ Rollback \/ Throw) => IInv'
<1> SUFFICES ASSUME IInv, Begin \/ Commit \/ Rollback \/ Throw PROVE IInv'
    OBVIOUS
<1>1. (db' = db \/ db' = work) /\ (work' = work \/ work' = db)
    BY DEF Begin, Commit, Rollback, Throw
<1>2. GoodDatabase(db') /\ GoodDatabase(work')
    BY <1>1 DEF IInv
<1>3. todo' = todo \/ todo' = <<>>
    BY DEF Begin, Commit, Rollback, Throw
<1>4. todo' \in Seq(Action)
    BY <1>3, EmptySeq DEF IInv
<1>5. inTx' \in BOOLEAN
    BY DEF IInv, Begin, Commit, Rollback, Throw
<1> QED
    BY <1>2, <1>4, <1>5 DEF IInv, GoodDatabase

LEMMA StepKeepsGood == IInv /\ [Next]_vars => IInv'
<1> SUFFICES ASSUME IInv, [Next]_vars PROVE IInv'
    OBVIOUS
<1>1. CASE UNCHANGED vars
    BY <1>1 DEF vars, IInv, GoodDatabase
<1>2. CASE Next
    BY <1>2, IssueStep, TransactionSteps, CreateTableStep, InsertRowsStep, AddColumnStep,
       DropColumnStep, RenameColumnStep, AlterColumnStep, AddIndexStep, DropIndexStep,
       AddPrimaryKeyStep, AddUniqueConstraintStep, AddForeignKeyStep, AddCheckStep,
       DropPrimaryKeyStep, DropConstraintStep DEF Next
<1> QED
    BY <1>1, <1>2

LEMMA AlwaysGood == Spec => []IInv
BY InitIsGood, StepKeepsGood, PTL DEF Spec

\* The variables have their types whatever statements are issued, and a statement is
\* only ever compiled to actions an executor knows: the statements given, the ids the
\* tables allocate and the names in use are all it takes.
THEOREM TypesAreCorrect == Spec => []TypeOK
<1>1. IInv => TypeOK
    BY DEF IInv, GoodDatabase, GoodTable, TypeOK, IsDatabase
<1> QED
    BY <1>1, AlwaysGood, PTL

\* The ids that a table's constraints and indexes hold are columns and indexes of
\* that table, after every single action of every statement.
THEOREM TablesResolve == Spec => []OwnReferencesResolve
<1>1. IInv => OwnReferencesResolve
    BY DEF IInv, GoodDatabase, GoodTable, OwnReferencesResolve
<1> QED
    BY <1>1, AlwaysGood, PTL

\* No two constraints of a table share a name, whichever of the four kinds they are
\* and whether or not they brought an index of that name.
THEOREM ConstraintNamesDoNotCollide == Spec => []ConstraintNamesAreUnique
<1>1. IInv => ConstraintNamesAreUnique
    BY DEF IInv, GoodDatabase, GoodTable, ConstraintNamesAreUnique
<1> QED
    BY <1>1, AlwaysGood, PTL

\* No two unique indexes of a table have the same columns in some order: so the index
\* that a key of a given column list is bound to is determined by the columns.
THEOREM UniqueIndexesDoNotCollide == Spec => []UniqueIndexesAreDistinct
<1>1. IInv => UniqueIndexesAreDistinct
    BY DEF IInv, GoodDatabase, GoodTable, UniqueIndexesAreDistinct
<1> QED
    BY <1>1, AlwaysGood, PTL

\* However columns come and go, positions have no gap and every index projects rows by
\* the positions its columns have now.
THEOREM PositionsFollowColumns == Spec => []PositionsAreCurrent
<1>1. IInv => PositionsAreCurrent
    BY DEF IInv, GoodDatabase, GoodTable, PositionsAreCurrent
<1> QED
    BY <1>1, AlwaysGood, PTL

-----------------------------------------------------------------------------
(* Foreign keys and the tables they reference.  The parent does not know of   *)
(* them, so what they need is an invariant of the whole snapshot, and one that *)
(* holds only as long as no drop_index takes an index they look up.            *)

\* The action that DROP CONSTRAINT of a UNIQUE constraint ends with, when a foreign
\* key of any table looks up its index.
DropsReferencedIndex ==
    \E a \in Due({"drop_index"}) : \E n \in DOMAIN work : \E k \in OfKind(work[n], "foreignKey") :
        k.parentTable = a.table /\ k.parentIndex = a.index

ParentsInv == IInv /\ ForeignKeysOfResolve(db) /\ ForeignKeysOfResolve(work)

\* The index is still there, as a unique one and on the same columns.
KeepsIndex(r, t, x) ==
    /\ x \in DOMAIN r.indexes
    /\ r.indexes[x].unique
    /\ r.indexes[x].columns = t.indexes[x].columns

\* r has no foreign key that t has not, and keeps the unique indexes of t.
KeepsKeys(r, t) ==
    /\ OfKind(r, "foreignKey") \subseteq t.constraints
    /\ \A x \in DOMAIN t.indexes : t.indexes[x].unique => KeepsIndex(r, t, x)

\* A table is replaced by one whose foreign keys have parents and that keeps every
\* index some foreign key looks up.
LEMMA ParentsStay ==
    ASSUME NEW d, ForeignKeysOfResolve(d), NEW n, NEW r, GoodTable(r),
           \A k \in OfKind(r, "foreignKey") : ParentResolves(d, k),
           \A k \in OfKind(r, "foreignKey") :
               k.parentTable = n => KeepsIndex(r, d[n], k.parentIndex),
           \A m \in DOMAIN d : \A k \in OfKind(d[m], "foreignKey") :
               k.parentTable = n => KeepsIndex(r, d[n], k.parentIndex)
    PROVE  ForeignKeysOfResolve(With(d, n, r))
<1> DEFINE e == With(d, n, r)
<1>1. DOMAIN e = DOMAIN d \cup {n} /\ e[n] = r /\ \A m \in DOMAIN d \ {n} : e[m] = d[m]
    BY DEF With
<1> HIDE DEF e
<1>2. ASSUME NEW m \in DOMAIN e, NEW k \in OfKind(e[m], "foreignKey")
      PROVE  ParentResolves(e, k)
  <2>1. ParentResolves(d, k) /\ (k.parentTable = n => KeepsIndex(r, d[n], k.parentIndex))
      BY <1>1, <1>2 DEF ForeignKeysOfResolve
  <2>2. CASE k.parentTable # n
      BY <1>1, <2>1, <2>2 DEF ParentResolves
  <2>3. CASE k.parentTable = n
    <3>1. Elements(r.indexes[k.parentIndex].columns) \subseteq DOMAIN r.columns
        BY <2>1, <2>3 DEF KeepsIndex, GoodTable, TableResolves
    <3> QED
        BY <1>1, <2>1, <2>3, <3>1 DEF ParentResolves, KeepsIndex
  <2> QED
      BY <2>2, <2>3
<1>3. ForeignKeysOfResolve(e)
    BY <1>2 DEF ForeignKeysOfResolve
<1> QED
    BY <1>3 DEF e

\* What an action publishes, if it publishes, is its working snapshot.
LEMMA BecomesKeepsParents ==
    ASSUME ParentsInv, IInv', NEW ops, NEW a \in Due(ops), NEW r, Becomes(a, r),
           GoodTable(r) => ForeignKeysOfResolve(With(work, a.table, r))
    PROVE  ParentsInv'
<1>1. work' = With(work, a.table, r) /\ (db' = work' \/ db' = db)
    BY DEF Becomes
<1>2. a.table \in DOMAIN work' /\ work'[a.table] = r
    BY <1>1 DEF With
<1>3. GoodTable(r)
    BY <1>2 DEF IInv, GoodDatabase
<1>4. ForeignKeysOfResolve(work')
    BY <1>1, <1>3
<1>5. ForeignKeysOfResolve(db')
    BY <1>1, <1>4 DEF ParentsInv
<1> QED
    BY <1>4, <1>5 DEF ParentsInv, ForeignKeysOfResolve

LEMMA KeepingKeysKeepsParents ==
    ASSUME ParentsInv, IInv', NEW ops, NEW a \in Due(ops), a.op # "create_table",
           NEW r, Becomes(a, r), KeepsKeys(r, work[a.table])
    PROVE  ParentsInv'
<1>1. a.table \in DOMAIN work
    BY DueFinds DEF ParentsInv
<1>2. ASSUME NEW m \in DOMAIN work, NEW k \in OfKind(work[m], "foreignKey")
      PROVE  /\ ParentResolves(work, k)
             /\ k.parentTable = a.table => KeepsIndex(r, work[a.table], k.parentIndex)
    BY <1>2 DEF ParentsInv, ForeignKeysOfResolve, ParentResolves, KeepsKeys
<1>3. OfKind(r, "foreignKey") \subseteq OfKind(work[a.table], "foreignKey")
    BY DEF KeepsKeys, OfKind
<1>4. GoodTable(r) => ForeignKeysOfResolve(With(work, a.table, r))
    BY <1>1, <1>2, <1>3, ParentsStay DEF ParentsInv
<1> QED
    BY <1>4, BecomesKeepsParents

LEMMA UntouchedKeysAreKept ==
    ASSUME NEW t, GoodTable(t), NEW r, r.indexes = t.indexes,
           OfKind(r, "foreignKey") \subseteq t.constraints
    PROVE  KeepsKeys(r, t)
BY DEF KeepsKeys, KeepsIndex

LEMMA CreateTableKeepsParents == ParentsInv /\ IInv' /\ CreateTable => ParentsInv'
<1> SUFFICES ASSUME ParentsInv, IInv', NEW a \in Due({"create_table"}), Becomes(a, EmptyTable)
             PROVE  ParentsInv'
    BY DEF CreateTable
<1>1. a.op = "create_table" /\ Accepted(a)
    BY DueIsAnAction DEF ParentsInv, IInv
<1>2. a.table \notin DOMAIN work
    BY <1>1 DEF Accepted
<1>3. OfKind(EmptyTable, "foreignKey") = {}
    BY DEF EmptyTable, OfKind
<1>4. \A m \in DOMAIN work : \A k \in OfKind(work[m], "foreignKey") : k.parentTable # a.table
    BY <1>2 DEF ParentsInv, ForeignKeysOfResolve, ParentResolves
<1>5. ForeignKeysOfResolve(With(work, a.table, EmptyTable))
    BY <1>3, <1>4, EmptyTableIsGood, ParentsStay DEF ParentsInv
<1> QED
    BY <1>5, BecomesKeepsParents

LEMMA InsertRowsKeepsParents == ParentsInv /\ IInv' /\ InsertRows => ParentsInv'
<1> SUFFICES ASSUME ParentsInv, IInv', NEW a \in Due({"insert_rows"}),
                    Becomes(a, [work[a.table] EXCEPT !.populated = TRUE])
             PROVE  ParentsInv'
    BY DEF InsertRows
<1> DEFINE t == work[a.table]
           r == [t EXCEPT !.populated = TRUE]
<1>1. a.op # "create_table"
    BY DueIsAnAction DEF ParentsInv, IInv
<1>2. GoodTable(t) /\ IsTable(t)
    BY <1>1, DueFinds DEF ParentsInv
<1>3. r.indexes = t.indexes /\ r.constraints = t.constraints
    BY <1>2, TableParts
<1> HIDE DEF r
<1>4. KeepsKeys(r, t)
    BY <1>2, <1>3, UntouchedKeysAreKept DEF OfKind
<1> QED
    BY <1>1, <1>4, KeepingKeysKeepsParents DEF r

LEMMA AddColumnKeepsParents == ParentsInv /\ IInv' /\ AddColumn => ParentsInv'
<1> SUFFICES ASSUME ParentsInv, IInv', NEW a \in Due({"add_column"}),
                    Becomes(a, WithColumn(work[a.table], a.spec))
             PROVE  ParentsInv'
    BY DEF AddColumn
<1> DEFINE t == work[a.table]
           r == WithColumn(t, a.spec)
<1>1. a.op # "create_table"
    BY DueIsAnAction DEF ParentsInv, IInv
<1>2. GoodTable(t) /\ IsTable(t)
    BY <1>1, DueFinds DEF ParentsInv
<1>3. r.indexes = t.indexes /\ r.constraints = t.constraints
    BY <1>2, TableParts DEF WithColumn
<1> HIDE DEF r
<1>4. KeepsKeys(r, t)
    BY <1>2, <1>3, UntouchedKeysAreKept DEF OfKind
<1> QED
    BY <1>1, <1>4, KeepingKeysKeepsParents DEF r

LEMMA DropColumnKeepsParents == ParentsInv /\ IInv' /\ DropColumn => ParentsInv'
<1> SUFFICES ASSUME ParentsInv, IInv', NEW a \in Due({"drop_column"}),
                    Becomes(a, WithoutColumn(work[a.table], ColumnNamed(work[a.table], a.name)))
             PROVE  ParentsInv'
    BY DEF DropColumn
<1> DEFINE t == work[a.table]
           r == WithoutColumn(t, ColumnNamed(t, a.name))
<1>1. a.op # "create_table"
    BY DueIsAnAction DEF ParentsInv, IInv
<1>2. GoodTable(t) /\ IsTable(t)
    BY <1>1, DueFinds DEF ParentsInv
<1>3. /\ r.constraints = t.constraints
      /\ DOMAIN r.indexes = DOMAIN t.indexes
      /\ \A x \in DOMAIN t.indexes : \E positions :
            r.indexes[x] = [t.indexes[x] EXCEPT !.positions = positions]
    BY <1>2, TableParts DEF WithoutColumn
<1>4. \A x \in DOMAIN t.indexes :
          r.indexes[x].unique = t.indexes[x].unique /\ r.indexes[x].columns = t.indexes[x].columns
  <2> SUFFICES ASSUME NEW x \in DOMAIN t.indexes
               PROVE  /\ r.indexes[x].unique = t.indexes[x].unique
                      /\ r.indexes[x].columns = t.indexes[x].columns
      OBVIOUS
  <2>1. t.indexes[x] \in Index
      BY <1>2, TableParts
  <2>2. PICK positions : r.indexes[x] = [t.indexes[x] EXCEPT !.positions = positions]
      BY <1>3
  <2> HIDE DEF r
  <2> QED
      BY <2>1, <2>2 DEF Index
<1> HIDE DEF r
<1>5. KeepsKeys(r, t)
    BY <1>3, <1>4 DEF KeepsKeys, KeepsIndex, OfKind
<1> QED
    BY <1>1, <1>5, KeepingKeysKeepsParents DEF r

LEMMA RenameColumnKeepsParents == ParentsInv /\ IInv' /\ RenameColumn => ParentsInv'
<1> SUFFICES ASSUME ParentsInv, IInv', NEW a \in Due({"rename_column"}),
                    Becomes(a, [work[a.table] EXCEPT
                                   !.columns[ColumnNamed(work[a.table], a.from)].name = a.to])
             PROVE  ParentsInv'
    BY DEF RenameColumn
<1> DEFINE t == work[a.table]
           r == [t EXCEPT !.columns[ColumnNamed(t, a.from)].name = a.to]
<1>1. a.op # "create_table"
    BY DueIsAnAction DEF ParentsInv, IInv
<1>2. GoodTable(t) /\ IsTable(t)
    BY <1>1, DueFinds DEF ParentsInv
<1>3. r.indexes = t.indexes /\ r.constraints = t.constraints
    BY <1>2, TableParts
<1> HIDE DEF r
<1>4. KeepsKeys(r, t)
    BY <1>2, <1>3, UntouchedKeysAreKept DEF OfKind
<1> QED
    BY <1>1, <1>4, KeepingKeysKeepsParents DEF r

LEMMA AlterColumnKeepsParents == ParentsInv /\ IInv' /\ AlterColumn => ParentsInv'
<1> SUFFICES ASSUME ParentsInv, IInv', NEW a \in Due({"alter_column"}),
                    Becomes(a, [work[a.table] EXCEPT
                                   !.columns[ColumnNamed(work[a.table], a.name)].type = a.type])
             PROVE  ParentsInv'
    BY DEF AlterColumn
<1> DEFINE t == work[a.table]
           r == [t EXCEPT !.columns[ColumnNamed(t, a.name)].type = a.type]
<1>1. a.op # "create_table"
    BY DueIsAnAction DEF ParentsInv, IInv
<1>2. GoodTable(t) /\ IsTable(t)
    BY <1>1, DueFinds DEF ParentsInv
<1>3. r.indexes = t.indexes /\ r.constraints = t.constraints
    BY <1>2, TableParts
<1> HIDE DEF r
<1>4. KeepsKeys(r, t)
    BY <1>2, <1>3, UntouchedKeysAreKept DEF OfKind
<1> QED
    BY <1>1, <1>4, KeepingKeysKeepsParents DEF r

\* The id of a new index is free.
LEMMA AddIndexKeepsParents == ParentsInv /\ IInv' /\ AddIndex => ParentsInv'
<1> SUFFICES ASSUME ParentsInv, IInv', NEW a \in Due({"add_index"}),
                    Becomes(a, WithIndex(work[a.table], a.spec))
             PROVE  ParentsInv'
    BY DEF AddIndex
<1> DEFINE t == work[a.table]
           r == WithIndex(t, a.spec)
<1>1. a.op # "create_table"
    BY DueIsAnAction DEF ParentsInv, IInv
<1>2. GoodTable(t) /\ IsTable(t)
    BY <1>1, DueFinds DEF ParentsInv
<1>3. r.constraints = t.constraints /\ \E index : r.indexes = With(t.indexes, t.nextIndex, index)
    BY <1>2, TableParts DEF WithIndex
<1>4. t.nextIndex \notin DOMAIN t.indexes
    BY <1>2, TableParts
<1> HIDE DEF r
<1>5. \A x \in DOMAIN t.indexes : x \in DOMAIN r.indexes /\ r.indexes[x] = t.indexes[x]
    BY <1>3, <1>4 DEF With
<1>6. KeepsKeys(r, t)
    BY <1>3, <1>5 DEF KeepsKeys, KeepsIndex, OfKind
<1> QED
    BY <1>1, <1>6, KeepingKeysKeepsParents DEF r

\* The one action that needs the hypothesis
LEMMA DropIndexKeepsParents ==
    ParentsInv /\ IInv' /\ DropIndex /\ ~ DropsReferencedIndex => ParentsInv'
<1> SUFFICES ASSUME ParentsInv, IInv', ~ DropsReferencedIndex, NEW a \in Due({"drop_index"}),
                    Becomes(a, [work[a.table] EXCEPT !.indexes = Without(@, a.index)])
             PROVE  ParentsInv'
    BY DEF DropIndex
<1> DEFINE t == work[a.table]
           r == [t EXCEPT !.indexes = Without(@, a.index)]
<1>1. a.op # "create_table"
    BY DueIsAnAction DEF ParentsInv, IInv
<1>2. GoodTable(t) /\ IsTable(t) /\ a.table \in DOMAIN work
    BY <1>1, DueFinds DEF ParentsInv
<1>3. r.indexes = Without(t.indexes, a.index) /\ r.constraints = t.constraints
    BY <1>2, TableParts
<1> HIDE DEF r
<1>4. OfKind(r, "foreignKey") = OfKind(t, "foreignKey")
    BY <1>3 DEF OfKind
<1>5. ASSUME NEW m \in DOMAIN work, NEW k \in OfKind(work[m], "foreignKey"), k.parentTable = a.table
      PROVE  KeepsIndex(r, t, k.parentIndex)
  <2>1. k.parentIndex # a.index
      BY <1>5 DEF DropsReferencedIndex
  <2>2. k.parentIndex \in DOMAIN t.indexes /\ t.indexes[k.parentIndex].unique
      BY <1>5 DEF ParentsInv, ForeignKeysOfResolve, ParentResolves
  <2> QED
      BY <1>3, <2>1, <2>2, OthersStay DEF KeepsIndex
<1>6. \A k \in OfKind(r, "foreignKey") : ParentResolves(work, k)
    BY <1>2, <1>4 DEF ParentsInv, ForeignKeysOfResolve
<1>7. GoodTable(r) => ForeignKeysOfResolve(With(work, a.table, r))
    BY <1>2, <1>4, <1>5, <1>6, ParentsStay DEF ParentsInv
<1> QED
    BY <1>7, BecomesKeepsParents DEF r

LEMMA AddedConstraintKeepsParents ==
    ASSUME ParentsInv, IInv', NEW ops, NEW a \in Due(ops), a.op # "create_table",
           NEW k, k.kind # "foreignKey", Becomes(a, WithConstraint(work[a.table], k))
    PROVE  ParentsInv'
<1> DEFINE t == work[a.table]
           r == WithConstraint(t, k)
<1>1. GoodTable(t) /\ IsTable(t)
    BY DueFinds DEF ParentsInv
<1>2. r.indexes = t.indexes /\ r.constraints = t.constraints \cup {k}
    BY <1>1, TableParts DEF WithConstraint
<1> HIDE DEF r
<1>3. KeepsKeys(r, t)
    BY <1>1, <1>2, UntouchedKeysAreKept DEF OfKind
<1> QED
    BY <1>3, KeepingKeysKeepsParents DEF r

LEMMA AddPrimaryKeyKeepsParents == ParentsInv /\ IInv' /\ AddPrimaryKey => ParentsInv'
<1> SUFFICES ASSUME ParentsInv, IInv', NEW a \in Due({"add_primaryKey"}), NEW name, NEW x,
                    Becomes(a, WithConstraint(work[a.table],
                        [kind |-> "primaryKey", name |-> name, index |-> x]))
             PROVE  ParentsInv'
    BY DEF AddPrimaryKey
<1>1. a.op # "create_table"
    BY DueIsAnAction DEF ParentsInv, IInv
<1> QED
    BY <1>1, AddedConstraintKeepsParents

LEMMA AddCheckKeepsParents == ParentsInv /\ IInv' /\ AddCheck => ParentsInv'
<1> SUFFICES ASSUME ParentsInv, IInv', NEW a \in Due({"add_check"}), NEW name, NEW columns,
                    Becomes(a, WithConstraint(work[a.table],
                        [kind |-> "check", name |-> name, columns |-> columns]))
             PROVE  ParentsInv'
    BY DEF AddCheck
<1>1. a.op # "create_table"
    BY DueIsAnAction DEF ParentsInv, IInv
<1> QED
    BY <1>1, AddedConstraintKeepsParents

LEMMA AddUniqueConstraintKeepsParents ==
    ParentsInv /\ IInv' /\ AddUniqueConstraint => ParentsInv'
<1> SUFFICES ASSUME ParentsInv, IInv', NEW a \in Due({"add_unique"}),
                    Becomes(a, WithUniqueConstraint(work[a.table], a.spec))
             PROVE  ParentsInv'
    BY DEF AddUniqueConstraint
<1> DEFINE t == work[a.table]
           r == WithUniqueConstraint(t, a.spec)
<1>1. a.op = "add_unique"
    BY DueIsAnAction DEF ParentsInv, IInv
<1>2. GoodTable(t) /\ Accepted(a) /\ a \in Action
    BY <1>1, DueFinds DEF ParentsInv
<1>3. UniqueAccepted(t, a.spec) /\ a.spec \in KeyDefinition
    BY <1>1, <1>2 DEF Accepted, Action
<1>4. /\ \A x \in DOMAIN t.indexes : x \in DOMAIN r.indexes /\ r.indexes[x] = t.indexes[x]
      /\ \E k : k.kind = "unique" /\ r.constraints = t.constraints \cup {k}
    BY <1>2, <1>3, UniqueConstraintMayCome
<1> HIDE DEF r
<1>5. KeepsKeys(r, t)
    BY <1>4 DEF KeepsKeys, KeepsIndex, OfKind
<1> QED
    BY <1>1, <1>5, KeepingKeysKeepsParents DEF r

\* The new foreign key finds its parent; the parent may be the table itself.
LEMMA AddForeignKeyKeepsParents == ParentsInv /\ IInv' /\ AddForeignKey => ParentsInv'
<1> SUFFICES ASSUME ParentsInv, IInv', NEW a \in Due({"add_foreignKey"}),
                    LET t == work[a.table]
                        parent == work[a.spec.parentTable]
                        keys == IdsOf(parent, a.spec.parentColumns)
                    IN  Becomes(a, WithConstraint(t,
                            [kind |-> "foreignKey", name |-> a.spec.name,
                             columns |-> IdsOf(t, a.spec.columns),
                             reverseIndex |-> IndexNamed(t, <<a.spec.name, "_FKIDX">>),
                             parentTable |-> a.spec.parentTable, parentColumns |-> keys,
                             parentIndex |-> CHOOSE x \in UniqueIndexes(parent, keys) : TRUE]))
             PROVE  ParentsInv'
    BY DEF AddForeignKey
<1> DEFINE t == work[a.table]
<1>1. a.op = "add_foreignKey"
    BY DueIsAnAction DEF ParentsInv, IInv
<1>2. /\ a.table \in DOMAIN work /\ GoodDatabase(work) /\ GoodTable(t) /\ IsTable(t)
      /\ Accepted(a) /\ a \in Action
    BY <1>1, DueFinds DEF ParentsInv, IInv
<1>3. ForeignKeyAccepted(work, t, a.spec) /\ a.spec \in ForeignKeyDefinition
    BY <1>1, <1>2 DEF Accepted, Action
<1>4. PICK k : Becomes(a, WithConstraint(t, k)) /\ ParentResolves(work, k)
    BY <1>2, <1>3, ForeignKeyMayCome
<1> DEFINE r == WithConstraint(t, k)
<1>5. r.indexes = t.indexes /\ r.constraints = t.constraints \cup {k}
    BY <1>2, TableParts DEF WithConstraint
<1> HIDE DEF r
<1>6. ASSUME NEW m \in DOMAIN work, NEW j \in OfKind(work[m], "foreignKey") \cup {k}
      PROVE  ParentResolves(work, j) /\ (j.parentTable = a.table => KeepsIndex(r, t, j.parentIndex))
    BY <1>4, <1>5, <1>6 DEF ParentsInv, ForeignKeysOfResolve, ParentResolves, KeepsIndex
<1>7. OfKind(r, "foreignKey") \subseteq OfKind(t, "foreignKey") \cup {k}
    BY <1>5 DEF OfKind
<1>8. GoodTable(r) => ForeignKeysOfResolve(With(work, a.table, r))
    BY <1>2, <1>6, <1>7, ParentsStay DEF ParentsInv
<1> QED
    BY <1>4, <1>8, BecomesKeepsParents DEF r

LEMMA DropPrimaryKeyKeepsParents == ParentsInv /\ IInv' /\ DropPrimaryKey => ParentsInv'
<1> SUFFICES ASSUME ParentsInv, IInv', NEW a \in Due({"drop_primaryKey"}),
                    Becomes(a, [work[a.table] EXCEPT
                                   !.constraints = @ \ OfKind(work[a.table], "primaryKey")])
             PROVE  ParentsInv'
    BY DEF DropPrimaryKey
<1> DEFINE t == work[a.table]
           r == [t EXCEPT !.constraints = @ \ OfKind(t, "primaryKey")]
<1>1. a.op # "create_table"
    BY DueIsAnAction DEF ParentsInv, IInv
<1>2. GoodTable(t) /\ IsTable(t)
    BY <1>1, DueFinds DEF ParentsInv
<1>3. r.indexes = t.indexes /\ r.constraints \subseteq t.constraints
    BY <1>2, TableParts
<1> HIDE DEF r
<1>4. KeepsKeys(r, t)
    BY <1>2, <1>3, UntouchedKeysAreKept DEF OfKind
<1> QED
    BY <1>1, <1>4, KeepingKeysKeepsParents DEF r

\* The reverse index a foreign key takes along is not unique, so no key looks it up.
LEMMA DropConstraintKeepsParents == ParentsInv /\ IInv' /\ DropConstraint => ParentsInv'
<1> SUFFICES ASSUME ParentsInv, IInv', NEW a \in Due({"drop_constraint"}),
                    NEW k \in work[a.table].constraints,
                    Becomes(a, IF k.kind = "foreignKey" THEN WithoutForeignKey(work[a.table], k)
                               ELSE WithoutConstraint(work[a.table], k))
             PROVE  ParentsInv'
    BY DEF DropConstraint
<1> DEFINE t == work[a.table]
           r == IF k.kind = "foreignKey" THEN WithoutForeignKey(t, k) ELSE WithoutConstraint(t, k)
<1>1. a.op # "create_table"
    BY DueIsAnAction DEF ParentsInv, IInv
<1>2. GoodTable(t) /\ IsTable(t)
    BY <1>1, DueFinds DEF ParentsInv
<1>3. ASSUME k.kind = "foreignKey" PROVE KeepsKeys(r, t)
  <2>1. r.indexes = Without(t.indexes, k.reverseIndex) /\ r.constraints \subseteq t.constraints
      BY <1>2, <1>3, TableParts DEF WithoutForeignKey
  <2>2. ~ t.indexes[k.reverseIndex].unique
      BY <1>2, <1>3 DEF GoodTable, TableResolves, ConstraintResolves
  <2> HIDE DEF r
  <2> QED
      BY <2>1, <2>2 DEF KeepsKeys, KeepsIndex, OfKind, Without
<1>4. ASSUME k.kind # "foreignKey" PROVE KeepsKeys(r, t)
  <2>1. r.indexes = t.indexes /\ r.constraints \subseteq t.constraints
      BY <1>2, <1>4, TableParts DEF WithoutConstraint
  <2> HIDE DEF r
  <2> QED
      BY <1>2, <2>1, UntouchedKeysAreKept DEF OfKind
<1>5. KeepsKeys(r, t)
    BY <1>3, <1>4
<1> HIDE DEF r
<1> QED
    BY <1>1, <1>5, KeepingKeysKeepsParents DEF r

LEMMA OtherStepsKeepParents ==
    ASSUME ParentsInv, (\E s \in Statements : Issue(s)) \/ Begin \/ Commit \/ Rollback \/ Throw
    PROVE  ForeignKeysOfResolve(db') /\ ForeignKeysOfResolve(work')
<1>1. (db' = db \/ db' = work) /\ (work' = work \/ work' = db)
    BY DEF Issue, Begin, Commit, Rollback, Throw
<1> QED
    BY <1>1 DEF ParentsInv

LEMMA StepKeepsParents == ParentsInv /\ [Next /\ ~ DropsReferencedIndex]_vars => ParentsInv'
<1> SUFFICES ASSUME ParentsInv, [Next /\ ~ DropsReferencedIndex]_vars PROVE ParentsInv'
    OBVIOUS
<1>1. IInv'
    BY StepKeepsGood DEF ParentsInv
<1>2. CASE UNCHANGED vars
    BY <1>1, <1>2 DEF vars, ParentsInv, ForeignKeysOfResolve
<1>3. CASE (\E s \in Statements : Issue(s)) \/ Begin \/ Commit \/ Rollback \/ Throw
    BY <1>1, <1>3, OtherStepsKeepParents DEF ParentsInv, ForeignKeysOfResolve
<1>4. CASE ~ DropsReferencedIndex /\
           (\/ CreateTable \/ InsertRows \/ AddColumn \/ DropColumn \/ RenameColumn
            \/ AlterColumn \/ AddIndex \/ DropIndex \/ AddPrimaryKey \/ AddUniqueConstraint
            \/ AddForeignKey \/ AddCheck \/ DropPrimaryKey \/ DropConstraint)
    BY <1>1, <1>4, CreateTableKeepsParents, InsertRowsKeepsParents, AddColumnKeepsParents,
       DropColumnKeepsParents, RenameColumnKeepsParents, AlterColumnKeepsParents,
       AddIndexKeepsParents, DropIndexKeepsParents, AddPrimaryKeyKeepsParents,
       AddUniqueConstraintKeepsParents, AddForeignKeyKeepsParents, AddCheckKeepsParents,
       DropPrimaryKeyKeepsParents, DropConstraintKeepsParents
<1> QED
    BY <1>2, <1>3, <1>4 DEF Next

\* A foreign key loses its parent in one way only: DROP CONSTRAINT of a UNIQUE
\* constraint ends in an action that takes an index the key looks up.  No other
\* statement, however it is interleaved with others, fails half-way or is rolled back,
\* makes a foreign key dangle.
THEOREM OnlyDropIndexStrandsForeignKeys ==
    Spec /\ [][~ DropsReferencedIndex]_vars => []ForeignKeysResolve
<1>1. Init => ParentsInv
  <2> SUFFICES ASSUME Init PROVE ParentsInv
      OBVIOUS
  <2>1. DOMAIN db = {} /\ DOMAIN work = {}
      BY DEF Init
  <2> QED
      BY <2>1, InitIsGood DEF ParentsInv, ForeignKeysOfResolve
<1>2. ParentsInv /\ [Next]_vars /\ [~ DropsReferencedIndex]_vars => ParentsInv'
    BY StepKeepsParents
<1>3. ParentsInv => ForeignKeysResolve
    BY DEF ParentsInv, ForeignKeysResolve
<1> QED
    BY <1>1, <1>2, <1>3, PTL DEF Spec
=============================================================================
