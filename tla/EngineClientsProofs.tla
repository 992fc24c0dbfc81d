------------------------ MODULE EngineClientsProofs ------------------------
(***************************************************************************)
(* Proofs about EngineClients, for any databases, statements, rulesets and *)
(* rules, and any number of them.                                          *)
(***************************************************************************)
EXTENDS EngineProofs, FiniteSetTheorems

-----------------------------------------------------------------------------
(* The numbers of the statements of a ruleset *)

LEMMA RulesetShape ==
    ASSUME NEW S, NEW shapes \in Rulesets(S)
    PROVE  /\ \E n \in 1..MaxInstructions : DOMAIN shapes = 1..n
           /\ \A g \in DOMAIN shapes :
                  \E k \in 1..MaxPerGroup : shapes[g] \in [1..k -> S]
<1> DEFINE G == NonEmptyUpTo(S, MaxPerGroup)
<1>1. PICK n \in 1..MaxInstructions : shapes \in [1..n -> G]
    BY DEF Rulesets, NonEmptyUpTo
<1>2. \A g \in 1..n : shapes[g] \in G
    BY <1>1
<1>3. \A group \in G : \E k \in 1..MaxPerGroup : group \in [1..k -> S]
    BY DEF NonEmptyUpTo
<1> QED BY <1>1, <1>2, <1>3

LEMMA PlacesAre ==
    ASSUME NEW shapes
    PROVE  /\ \A g \in DOMAIN shapes : \A i \in DOMAIN shapes[g] : <<g, i>> \in Places(shapes)
           /\ \A p \in Places(shapes) :
                  p[1] \in DOMAIN shapes /\ p[2] \in DOMAIN shapes[p[1]] /\ p = <<p[1], p[2]>>
BY DEF Places

LEMMA PlacesFinite ==
    ASSUME NEW S, NEW shapes \in Rulesets(S)
    PROVE  /\ IsFiniteSet(Places(shapes))
           /\ \A p \in Places(shapes) : p[1] \in Nat /\ p[2] \in Nat
<1> DEFINE All == (1..MaxInstructions) \X (1..MaxPerGroup)
<1>1. MaxInstructions \in Nat /\ MaxPerGroup \in Nat
    BY ShapesAssumption
<1>2. \A g \in DOMAIN shapes : /\ g \in 1..MaxInstructions
                               /\ DOMAIN shapes[g] \subseteq 1..MaxPerGroup
    BY <1>1, RulesetShape
<1>3. Places(shapes) \in SUBSET All
    BY <1>2, PlacesAre
<1>4. IsFiniteSet(1..MaxInstructions) /\ IsFiniteSet(1..MaxPerGroup)
    BY <1>1, FS_Interval
<1>5. IsFiniteSet(All)
    BY <1>4, FS_Product
<1>6. IsFiniteSet(Places(shapes))
    BY <1>3, <1>5, FS_Subset
<1> QED BY <1>3, <1>6

\* Later statements have greater numbers.
LEMMA LaterIsGreater ==
    ASSUME NEW S, NEW shapes \in Rulesets(S),
           NEW g \in DOMAIN shapes, NEW i \in DOMAIN shapes[g],
           NEW h \in DOMAIN shapes, NEW j \in DOMAIN shapes[h],
           g < h \/ (g = h /\ i < j)
    PROVE  Cardinality(UpTo(shapes, g, i)) < Cardinality(UpTo(shapes, h, j))
<1> DEFINE A == UpTo(shapes, g, i)
           B == UpTo(shapes, h, j)
<1>1. /\ IsFiniteSet(Places(shapes))
      /\ \A p \in Places(shapes) : p[1] \in Nat /\ p[2] \in Nat
      /\ <<g, i>> \in Places(shapes)
      /\ <<h, j>> \in Places(shapes)
    BY PlacesFinite, PlacesAre
<1>2. g \in Nat /\ i \in Nat /\ h \in Nat /\ j \in Nat
    BY <1>1
<1>3. IsFiniteSet(B)
    BY <1>1, FS_Subset DEF UpTo
<1>4. A \in SUBSET B
    BY <1>1, <1>2 DEF UpTo
<1>5. <<h, j>> \in B /\ <<h, j>> \notin A
    BY <1>1, <1>2 DEF UpTo
<1> HIDE DEF A, B
<1>6. A # B
    BY <1>5
<1>7. Cardinality(A) <= Cardinality(B) /\ Cardinality(A) # Cardinality(B)
    BY <1>3, <1>4, <1>6, FS_Subset
<1>8. Cardinality(A) \in Nat /\ Cardinality(B) \in Nat
    BY <1>3, <1>4, FS_Subset, FS_CardinalityType
<1>9. Cardinality(A) < Cardinality(B)
    BY <1>7, <1>8
<1> QED BY <1>9 DEF A, B

LEMMA Numbering ==
    ASSUME NEW S, NEW shapes \in Rulesets(S)
    PROVE  /\ SizeOf(shapes) \in Nat
           /\ \A g \in DOMAIN shapes : \A i \in DOMAIN shapes[g] :
                  Cardinality(UpTo(shapes, g, i)) \in 1..SizeOf(shapes)
           /\ \A g, h \in DOMAIN shapes : \A i \in DOMAIN shapes[g], j \in DOMAIN shapes[h] :
                  Cardinality(UpTo(shapes, g, i)) = Cardinality(UpTo(shapes, h, j))
                      => g = h /\ i = j
<1>1. /\ IsFiniteSet(Places(shapes))
      /\ \A p \in Places(shapes) : p[1] \in Nat /\ p[2] \in Nat
    BY PlacesFinite
<1>2. ASSUME NEW g \in DOMAIN shapes, NEW i \in DOMAIN shapes[g]
      PROVE  g \in Nat /\ i \in Nat
    <2>1. <<g, i>> \in Places(shapes)
        BY PlacesAre
    <2> QED BY <1>1, <2>1
<1>3. SizeOf(shapes) \in Nat
    BY <1>1, FS_CardinalityType DEF SizeOf
<1>4. ASSUME NEW g \in DOMAIN shapes, NEW i \in DOMAIN shapes[g]
      PROVE  Cardinality(UpTo(shapes, g, i)) \in 1..SizeOf(shapes)
    <2> DEFINE A == UpTo(shapes, g, i)
    <2>1. A \in SUBSET Places(shapes)
        BY DEF UpTo
    <2>2. <<g, i>> \in A
        BY <1>2, PlacesAre DEF UpTo
    <2> HIDE DEF A
    <2>3. /\ IsFiniteSet(A)
          /\ Cardinality(A) <= SizeOf(shapes)
          /\ Cardinality(A) \in Nat
        BY <1>1, <2>1, FS_Subset, FS_CardinalityType DEF SizeOf
    <2>4. Cardinality(A) # 0
        BY <2>2, <2>3, FS_EmptySet
    <2>5. Cardinality(A) \in 1..SizeOf(shapes)
        BY <1>3, <2>3, <2>4
    <2> QED BY <2>5 DEF A
<1>5. ASSUME NEW g \in DOMAIN shapes, NEW i \in DOMAIN shapes[g],
             NEW h \in DOMAIN shapes, NEW j \in DOMAIN shapes[h],
             Cardinality(UpTo(shapes, g, i)) = Cardinality(UpTo(shapes, h, j))
      PROVE  g = h /\ i = j
    <2> DEFINE a == Cardinality(UpTo(shapes, g, i))
               b == Cardinality(UpTo(shapes, h, j))
    <2>1. g \in Nat /\ i \in Nat /\ h \in Nat /\ j \in Nat
        BY <1>2
    <2>2. a \in 1..SizeOf(shapes) /\ b \in 1..SizeOf(shapes) /\ a = b
        BY <1>4, <1>5
    <2>3. g < h \/ (g = h /\ i < j) => a < b
        BY LaterIsGreater
    <2>4. h < g \/ (h = g /\ j < i) => b < a
        BY LaterIsGreater
    <2> HIDE DEF a, b
    <2> QED BY <1>3, <2>1, <2>2, <2>3, <2>4
<1> QED BY <1>3, <1>4, <1>5

-----------------------------------------------------------------------------
(* Groups of statements *)

DistinctIn(groups) ==
    \A g, h \in DOMAIN groups : \A i \in DOMAIN groups[g], j \in DOMAIN groups[h] :
        groups[g][i].sid = groups[h][j].sid => g = h /\ i = j

GroupsOK(groups) ==
    /\ groups \in Seq(Seq(Statement)) \ {<<>>}
    /\ \A g \in DOMAIN groups : groups[g] # <<>>
    /\ DistinctIn(groups)

LEMMA GroupFacts ==
    ASSUME NEW groups, GroupsOK(groups)
    PROVE  /\ Len(groups) \in Nat \ {0}
           /\ DOMAIN groups = 1..Len(groups)
           /\ \A g \in 1..Len(groups) : /\ groups[g] \in Seq(Statement)
                                        /\ Len(groups[g]) \in Nat \ {0}
                                        /\ DOMAIN groups[g] = 1..Len(groups[g])
           /\ \A g \in 1..Len(groups) : \A i \in 1..Len(groups[g]) :
                  groups[g][i] \in Statement
<1>1. Len(groups) \in Nat \ {0} /\ DOMAIN groups = 1..Len(groups)
    BY EmptySeq, LenProperties DEF GroupsOK
<1>2. ASSUME NEW g \in 1..Len(groups)
      PROVE  /\ groups[g] \in Seq(Statement)
             /\ Len(groups[g]) \in Nat \ {0}
             /\ DOMAIN groups[g] = 1..Len(groups[g])
    <2>1. groups[g] \in Seq(Statement) /\ groups[g] # <<>>
        BY <1>1, ElementOfSeq DEF GroupsOK
    <2> QED BY <2>1, EmptySeq, LenProperties
<1>3. \A g \in 1..Len(groups) : \A i \in 1..Len(groups[g]) : groups[g][i] \in Statement
    BY <1>2, ElementOfSeq
<1> QED BY <1>1, <1>2, <1>3

LEMMA NewStatementType ==
    ASSUME NEW shape \in Shape, NEW sid \in Nat
    PROVE  NewStatement(shape, sid) \in Statement
<1>1. /\ shape.kind \in StatementKinds
      /\ shape.db \in Names \cup {NoName}
      /\ shape.actions \in 0..MaxActions
      /\ NamesWhatItCreates(shape)
    BY DEF Shape
<1> QED BY <1>1 DEF NewStatement, Statement, NamesWhatItCreates

LEMMA GroupsAre ==
    ASSUME NEW S \in SUBSET Shape, NEW shapes \in Rulesets(S), NEW b \in Nat
    PROVE  LET groups == Groups(shapes, b) IN
           /\ GroupsOK(groups)
           /\ \A g \in DOMAIN groups : \A i \in DOMAIN groups[g] :
                  /\ groups[g][i].sid \in (b + 1)..(b + SizeOf(shapes))
                  /\ \E s \in S : groups[g][i].kind = s.kind
<1> DEFINE groups == Groups(shapes, b)
           sid(g, i) == b + Cardinality(UpTo(shapes, g, i))
<1>1. /\ DOMAIN groups = DOMAIN shapes
      /\ \A g \in DOMAIN shapes :
            /\ DOMAIN groups[g] = DOMAIN shapes[g]
            /\ groups[g] = [i \in DOMAIN shapes[g] |-> NewStatement(shapes[g][i], sid(g, i))]
            /\ \A i \in DOMAIN shapes[g] :
                   groups[g][i] = NewStatement(shapes[g][i], sid(g, i))
    BY DEF Groups
<1>2. PICK n \in 1..MaxInstructions : DOMAIN shapes = 1..n
    BY RulesetShape
<1>3. n \in Nat \ {0}
    BY ShapesAssumption
<1>4. ASSUME NEW g \in 1..n PROVE groups[g] \in Seq(Statement) /\ groups[g] # <<>>
    <2>1. PICK k \in 1..MaxPerGroup : shapes[g] \in [1..k -> S]
        BY <1>2, RulesetShape
    <2>2. k \in Nat \ {0}
        BY ShapesAssumption
    <2>3. \A i \in 1..k : NewStatement(shapes[g][i], sid(g, i)) \in Statement
        <3>1. ASSUME NEW i \in 1..k PROVE sid(g, i) \in Nat /\ shapes[g][i] \in Shape
            <4>1. Cardinality(UpTo(shapes, g, i)) \in 1..SizeOf(shapes) /\ SizeOf(shapes) \in Nat
                BY <1>2, <2>1, Numbering
            <4> QED BY <2>1, <4>1
        <3> HIDE DEF sid
        <3> QED BY <3>1, NewStatementType
    <2>4. groups[g] \in [1..k -> Statement]
        <3> HIDE DEF sid
        <3> QED BY <1>1, <1>2, <2>1, <2>3
    <2>5. groups[g] \in Seq(Statement)
        BY <2>2, <2>4, SeqDef
    <2>6. DOMAIN groups[g] = 1..k
        BY <2>4
    <2> HIDE DEF groups
    <2>7. 1 \in DOMAIN groups[g]
        BY <2>2, <2>6
    <2>8. Len(groups[g]) # 0
        BY <2>5, <2>7, LenProperties
    <2> QED BY <2>5, <2>8, EmptySeq
<1>5. groups \in Seq(Seq(Statement)) \ {<<>>}
    <2>1. DOMAIN groups = 1..n /\ groups \in [1..n -> Seq(Statement)]
        BY <1>1, <1>2, <1>4 DEF Groups
    <2> HIDE DEF groups
    <2>2. groups \in Seq(Seq(Statement))
        BY <1>3, <2>1, SeqDef
    <2>3. Len(groups) # 0
        BY <1>3, <2>1, <2>2, LenProperties
    <2> QED BY <2>2, <2>3, EmptySeq
<1>6. ASSUME NEW g \in DOMAIN groups, NEW i \in DOMAIN groups[g]
      PROVE  /\ groups[g][i].sid = sid(g, i)
             /\ groups[g][i].sid \in (b + 1)..(b + SizeOf(shapes))
             /\ \E s \in S : groups[g][i].kind = s.kind
    <2>1. g \in DOMAIN shapes /\ i \in DOMAIN shapes[g]
        BY <1>1
    <2>2. Cardinality(UpTo(shapes, g, i)) \in 1..SizeOf(shapes) /\ SizeOf(shapes) \in Nat
        BY <2>1, Numbering
    <2>3. shapes[g][i] \in S
        BY <2>1, RulesetShape
    <2>4. groups[g][i] = NewStatement(shapes[g][i], sid(g, i))
        BY <1>1, <2>1
    <2>5. groups[g][i].sid = sid(g, i) /\ groups[g][i].kind = shapes[g][i].kind
        BY <2>4 DEF NewStatement
    <2> QED BY <2>2, <2>3, <2>5
<1>7. DistinctIn(groups)
    <2> SUFFICES ASSUME NEW g \in DOMAIN groups, NEW h \in DOMAIN groups,
                        NEW i \in DOMAIN groups[g], NEW j \in DOMAIN groups[h],
                        groups[g][i].sid = groups[h][j].sid
                 PROVE  g = h /\ i = j
        BY DEF DistinctIn
    <2>1. /\ g \in DOMAIN shapes /\ i \in DOMAIN shapes[g]
          /\ h \in DOMAIN shapes /\ j \in DOMAIN shapes[h]
        BY <1>1
    <2>2. sid(g, i) = sid(h, j)
        BY <1>6
    <2>3. /\ Cardinality(UpTo(shapes, g, i)) \in 1..SizeOf(shapes)
          /\ Cardinality(UpTo(shapes, h, j)) \in 1..SizeOf(shapes)
          /\ SizeOf(shapes) \in Nat
        BY <2>1, Numbering
    <2>4. Cardinality(UpTo(shapes, g, i)) = Cardinality(UpTo(shapes, h, j))
        BY <2>2, <2>3
    <2> QED BY <2>1, <2>4, Numbering
<1>8. \A g \in DOMAIN groups : groups[g] # <<>>
    BY <1>1, <1>2, <1>4
<1> HIDE DEF groups
<1> QED BY <1>5, <1>6, <1>7, <1>8 DEF GroupsOK, groups

-----------------------------------------------------------------------------
(* The statements that wait *)

\* s numbers a statement of the groups at or behind a position.
Behind(groups, g, i, s) ==
    \E h \in DOMAIN groups : \E j \in DOMAIN groups[h] :
        (h > g \/ (h = g /\ j >= i)) /\ groups[h][j].sid = s

\* s numbers a statement that a call has yet to run.
Left(r, s) ==
    \/ r.kind = "batch" /\ \E i \in DOMAIN r.rest : r.rest[i].sid = s
    \/ r.kind = "import" /\ Behind(r.ruleset, r.instruction, r.statement, s)
    \/ r.kind = "validation" /\ Behind(r.rules, 1, r.statement, s)

Queued(q, s) == \E i \in DOMAIN q : q[i].sid = s

Waits(r, q, s) == Left(r, s) \/ Queued(q, s)

DistinctSids(q) == \A i, j \in DOMAIN q : q[i].sid = q[j].sid => i = j

\* Of the b statements built, the engine has seen none of those that wait, and each
\* waits in one place.
Order(e, r, q, b) ==
    /\ Used(e) \subseteq 1..b
    /\ \A s : Waits(r, q, s) => s \in 1..b /\ s \notin Used(e)
    /\ \A s : ~ (Left(r, s) /\ Queued(q, s))
    /\ DistinctSids(q)

\* s has been built and will never run.
Retired(e, r, q, b, s) == s \in 1..b /\ s \notin Used(e) /\ ~ Waits(r, q, s)

LEMMA IdleLeavesNothing == \A s : ~ Left(Idle, s)
BY DEF Left, Idle

\* One statement has run and nothing new waits.
LEMMA OrderAfterStatement ==
    ASSUME NEW e, NEW f, NEW r, NEW r2, NEW q, NEW b, NEW ran,
           Order(e, r, q, b), Left(r, ran),
           Used(f) \subseteq Used(e) \cup {ran},
           \A s : Left(r2, s) => Left(r, s) /\ s # ran
    PROVE  /\ Order(f, r2, q, b)
           /\ \A s : Retired(e, r, q, b, s) => Retired(f, r2, q, b, s)
<1>1. ran \in 1..b
    BY DEF Order, Waits
<1>2. Used(f) \subseteq 1..b
    BY <1>1 DEF Order
<1>3. ASSUME NEW s, Waits(r2, q, s) PROVE s \in 1..b /\ s \notin Used(f)
    <2>1. Waits(r, q, s) /\ s # ran
        BY <1>3 DEF Waits, Order
    <2> QED BY <2>1 DEF Order
<1>4. \A s : Retired(e, r, q, b, s) => Retired(f, r2, q, b, s)
    BY DEF Retired, Waits
<1> QED BY <1>2, <1>3, <1>4 DEF Order

\* No statement has run and nothing new waits.
LEMMA OrderAfterOther ==
    ASSUME NEW e, NEW f, NEW r, NEW r2, NEW q, NEW b,
           Order(e, r, q, b), Used(f) \subseteq Used(e),
           \A s : Left(r2, s) => Left(r, s)
    PROVE  /\ Order(f, r2, q, b)
           /\ \A s : Retired(e, r, q, b, s) => Retired(f, r2, q, b, s)
BY DEF Order, Waits, Retired

\* Statements have been built for a call.
LEMMA OrderAfterBuilding ==
    ASSUME NEW e, NEW f, NEW r2, NEW q, NEW b \in Nat, NEW b2 \in Nat, b <= b2,
           Order(e, Idle, q, b), Used(f) \subseteq Used(e),
           \A s : Left(r2, s) => s \in (b + 1)..b2
    PROVE  /\ Order(f, r2, q, b2)
           /\ \A s : Retired(e, Idle, q, b, s) => Retired(f, r2, q, b2, s)
<1>1. 1..b \subseteq 1..b2
    OBVIOUS
<1>2. \A s \in 1..b : s \notin (b + 1)..b2
    OBVIOUS
<1>3. (b + 1)..b2 \subseteq 1..b2
    OBVIOUS
<1> DEFINE old == 1..b
           new == (b + 1)..b2
           all == 1..b2
<1> HIDE DEF old, new, all
<1>4. /\ Used(e) \subseteq old
      /\ \A s : Queued(q, s) => s \in old /\ s \notin Used(e)
      /\ DistinctSids(q)
    BY DEF Order, Waits, old
<1>5. /\ old \subseteq all /\ new \subseteq all
      /\ \A s \in old : s \notin new
      /\ \A s : Left(r2, s) => s \in new
    BY <1>1, <1>2, <1>3 DEF old, new, all
<1>6. Used(f) \subseteq all
    BY <1>4, <1>5
<1>7. \A s : Waits(r2, q, s) => s \in all /\ s \notin Used(f)
    BY <1>4, <1>5 DEF Waits
<1>8. \A s : ~ (Left(r2, s) /\ Queued(q, s))
    BY <1>4, <1>5
<1>9. ASSUME NEW s, Retired(e, Idle, q, b, s) PROVE Retired(f, r2, q, b2, s)
    <2>1. s \in old /\ s \notin Used(e) /\ ~ Queued(q, s)
        BY <1>9 DEF Retired, Waits, old
    <2>2. s \in all /\ s \notin Used(f) /\ ~ Waits(r2, q, s)
        BY <1>5, <2>1 DEF Waits
    <2> QED BY <2>2 DEF Retired, all
<1> QED BY <1>4, <1>6, <1>7, <1>8, <1>9 DEF Order, all

-----------------------------------------------------------------------------
(* The inductive invariant *)

BatchOK(r) == DistinctSids(r.rest)

\* Every instruction before the current one has succeeded.
ImportOK(r) ==
    /\ GroupsOK(r.ruleset)
    /\ r.instruction \in 1..Len(r.ruleset) + 1
    /\ r.instruction <= Len(r.ruleset) => r.statement \in 1..Len(r.ruleset[r.instruction])
    /\ r.results \in Seq(Status)
    /\ Len(r.results) = r.instruction - 1
    /\ \A i \in 1..Len(r.results) : r.results[i] = "succeeded"

ValidationOK(r) ==
    /\ GroupsOK(r.rules)
    /\ r.statement \in 0..Len(r.rules[1])
    /\ \A g \in DOMAIN r.rules : \A i \in DOMAIN r.rules[g] : r.rules[g][i].kind = "sql"

RunningOK(r) ==
    /\ r.kind = "batch" => BatchOK(r)
    /\ r.kind = "import" => ImportOK(r)
    /\ r.kind = "validation" => ValidationOK(r)

\* The first instruction of a report that did not succeed is at position at, and no
\* statement behind the one it failed at will ever run.
ReportedAt(rep, at, e, r, q, b) ==
    /\ at \in 1..Len(rep.ruleset) + 1
    /\ Len(rep.results) = Len(rep.ruleset)
    /\ rep.committed <=> at > Len(rep.ruleset)
    /\ \A i \in 1..Len(rep.results) :
           rep.results[i] = (IF i < at THEN "succeeded"
                             ELSE IF i = at THEN "failed" ELSE "notExecuted")
    /\ \A g \in at..Len(rep.ruleset) : \A i \in DOMAIN rep.ruleset[g] :
           (g = at => i > rep.failedStatement) => Retired(e, r, q, b, rep.ruleset[g][i].sid)

ReportOK(rep, e, r, q, b) ==
    rep # NoReport => \E at \in 1..Len(rep.ruleset) + 1 : ReportedAt(rep, at, e, r, q, b)

IInv ==
    /\ TypeOK
    /\ EngineInv(engine, policy)
    /\ RunningOK(running)
    /\ Order(engine, running, pending, built)
    /\ RulesAreIndependent
    /\ ReportOK(report, engine, running, pending, built)

LEMMA ReportStays ==
    ASSUME NEW rep, NEW e, NEW f, NEW r, NEW r2, NEW q, NEW q2, NEW b, NEW b2,
           ReportOK(rep, e, r, q, b),
           \A s : Retired(e, r, q, b, s) => Retired(f, r2, q2, b2, s)
    PROVE  ReportOK(rep, f, r2, q2, b2)
BY DEF ReportOK, ReportedAt

LEMMA RunningType ==
    ASSUME TypeOK
    PROVE  /\ running.kind = "batch" => running \in Batch
           /\ running.kind = "import" => running \in Import
           /\ running.kind = "validation" => running \in Validation
           /\ running.kind = "idle" => running = Idle
           /\ running = Idle => running.kind = "idle"
           /\ running.kind \in {"idle", "batch", "import", "validation"}
BY DEF TypeOK, Idle, Batch, Import, Validation

LEMMA InitHasIInv == Init => IInv
<1> SUFFICES ASSUME Init PROVE IInv
    OBVIOUS
<1> USE DEF Init
<1>1. <<>> \in Seq(Statement) /\ DOMAIN <<>> = {}
    BY EmptySeq, EmptyHasNoElements DEF Elements
<1>2. /\ engine \in EngineState
      /\ ~ InTransaction(engine)
      /\ engine.databases.effects = {}
      /\ engine.txHistory = {}
    BY DEF NewEngine, EngineState, Databases, InTransaction
<1>3. TypeOK
    BY <1>1, <1>2, ShapesAssumption DEF TypeOK
<1>4. EngineInv(engine, policy)
    BY <1>2 DEF EngineInv, KeepsCommitted, Explained, NumbersTransactions, NoneTwice, Runs
<1>5. RunningOK(running) /\ RulesAreIndependent
    BY DEF RunningOK, Idle, RulesAreIndependent
<1>6. Used(engine) = {}
    <2>1. \A s : s \notin Used(engine)
        BY <1>2, UsedIs DEF InHistory, SidsOf
    <2> QED BY <2>1
<1>7. Order(engine, running, pending, built)
    BY <1>1, <1>6, IdleLeavesNothing DEF Order, Waits, Queued, DistinctSids
<1>8. ReportOK(report, engine, running, pending, built)
    BY DEF ReportOK
<1> QED BY <1>3, <1>4, <1>5, <1>7, <1>8 DEF IInv

-----------------------------------------------------------------------------
(* From one statement to the next *)

LEMMA AdvanceBehind ==
    ASSUME NEW groups, GroupsOK(groups),
           NEW g \in 1..Len(groups), NEW i \in 1..Len(groups[g])
    PROVE  /\ Behind(groups, g, i, groups[g][i].sid)
           /\ \A s : Behind(groups, g, i + 1, s)
                         => Behind(groups, g, i, s) /\ s # groups[g][i].sid
           /\ \A s : Behind(groups, g + 1, 1, s)
                         => Behind(groups, g, i, s) /\ s # groups[g][i].sid
<1>1. /\ Len(groups) \in Nat
      /\ DOMAIN groups = 1..Len(groups)
      /\ \A h \in 1..Len(groups) : Len(groups[h]) \in Nat /\ DOMAIN groups[h] = 1..Len(groups[h])
    BY GroupFacts
<1>2. Behind(groups, g, i, groups[g][i].sid)
    <2>1. g \in DOMAIN groups /\ i \in DOMAIN groups[g] /\ i >= i
        BY <1>1
    <2> QED BY <2>1 DEF Behind
<1>3. ASSUME NEW s, NEW h \in DOMAIN groups, NEW j \in DOMAIN groups[h],
             groups[h][j].sid = s, h > g \/ (h = g /\ j >= i + 1)
      PROVE  Behind(groups, g, i, s) /\ s # groups[g][i].sid
    <2>1. h \in Nat /\ j \in Nat /\ g \in Nat /\ i \in Nat
        BY <1>1
    <2>2. h > g \/ (h = g /\ j >= i)
        BY <1>3, <2>1
    <2>3. ~ (h = g /\ j = i)
        BY <1>3, <2>1
    <2>4. Behind(groups, g, i, s)
        BY <1>3, <2>2 DEF Behind
    <2>5. g \in DOMAIN groups /\ i \in DOMAIN groups[g] /\ DistinctIn(groups)
        BY <1>1 DEF GroupsOK
    <2>6. s # groups[g][i].sid
        BY <1>3, <2>3, <2>5 DEF DistinctIn
    <2> QED BY <2>4, <2>6
<1>4. \A s : Behind(groups, g, i + 1, s) => Behind(groups, g, i, s) /\ s # groups[g][i].sid
    BY <1>3 DEF Behind
<1>5. ASSUME NEW s, Behind(groups, g + 1, 1, s)
      PROVE  Behind(groups, g, i, s) /\ s # groups[g][i].sid
    <2>1. PICK h \in DOMAIN groups : \E j \in DOMAIN groups[h] :
              (h > g + 1 \/ (h = g + 1 /\ j >= 1)) /\ groups[h][j].sid = s
        BY <1>5 DEF Behind
    <2>2. PICK j \in DOMAIN groups[h] :
              (h > g + 1 \/ (h = g + 1 /\ j >= 1)) /\ groups[h][j].sid = s
        BY <2>1
    <2>3. h > g
        BY <1>1, <2>2
    <2> QED BY <1>3, <2>2, <2>3
<1> QED BY <1>2, <1>4, <1>5

LEMMA TailOfGroups ==
    ASSUME NEW groups, GroupsOK(groups), Len(groups) # 1, NEW i \in 1..Len(groups[1])
    PROVE  /\ GroupsOK(Tail(groups))
           /\ \A g \in DOMAIN Tail(groups) :
                  g + 1 \in DOMAIN groups /\ Tail(groups)[g] = groups[g + 1]
           /\ \A s : Behind(Tail(groups), 1, 0, s)
                         => Behind(groups, 1, i, s) /\ s # groups[1][i].sid
<1> DEFINE rest == Tail(groups)
<1>1. /\ Len(groups) \in Nat \ {0}
      /\ groups \in Seq(Seq(Statement))
      /\ groups # <<>>
      /\ DOMAIN groups = 1..Len(groups)
      /\ \A h \in 1..Len(groups) : Len(groups[h]) \in Nat /\ DOMAIN groups[h] = 1..Len(groups[h])
    BY GroupFacts DEF GroupsOK
<1>2. /\ rest \in Seq(Seq(Statement))
      /\ Len(rest) = Len(groups) - 1
      /\ \A g \in 1..Len(rest) : rest[g] = groups[g + 1]
    BY <1>1, HeadTailProperties
<1> HIDE DEF rest
<1>3. Len(rest) \in Nat \ {0} /\ DOMAIN rest = 1..Len(rest)
    BY <1>1, <1>2, LenProperties
<1>4. ASSUME NEW g \in DOMAIN rest PROVE g + 1 \in DOMAIN groups /\ rest[g] = groups[g + 1]
    <2>1. g \in 1..Len(rest)
        BY <1>3
    <2>2. Len(groups) \in Nat /\ Len(rest) = Len(groups) - 1
        BY <1>1, <1>2
    <2>3. g + 1 \in 1..Len(groups)
        BY <2>1, <2>2
    <2> QED BY <1>1, <1>2, <2>1, <2>3
<1>5. rest # <<>>
    BY <1>3, EmptySeq
<1>6. \A g \in DOMAIN rest : rest[g] # <<>>
    BY <1>4 DEF GroupsOK
<1>7. DistinctIn(rest)
    <2> SUFFICES ASSUME NEW g \in DOMAIN rest, NEW h \in DOMAIN rest,
                        NEW a \in DOMAIN rest[g], NEW b \in DOMAIN rest[h],
                        rest[g][a].sid = rest[h][b].sid
                 PROVE  g = h /\ a = b
        BY DEF DistinctIn
    <2>1. g + 1 = h + 1 /\ a = b
        BY <1>4 DEF GroupsOK, DistinctIn
    <2>2. g \in Nat /\ h \in Nat
        BY <1>3
    <2> QED BY <2>1, <2>2
<1>8. ASSUME NEW s, Behind(rest, 1, 0, s)
      PROVE  Behind(groups, 1, i, s) /\ s # groups[1][i].sid
    <2> DEFINE at(g) == \E j \in DOMAIN rest[g] : rest[g][j].sid = s
    <2>0. PICK g \in DOMAIN rest : at(g)
        BY <1>8 DEF Behind
    <2>1. PICK j \in DOMAIN rest[g] : rest[g][j].sid = s
        BY <2>0
    <2>2. g + 1 \in DOMAIN groups /\ j \in DOMAIN groups[g + 1] /\ groups[g + 1][j].sid = s
        BY <1>4, <2>1
    <2>3. g + 1 > 1 /\ g + 1 # 1
        BY <1>3
    <2>4. 1 \in DOMAIN groups /\ i \in DOMAIN groups[1]
        BY <1>1
    <2>5. Behind(groups, 1, i, s)
        BY <2>2, <2>3 DEF Behind
    <2>6. s # groups[1][i].sid
        BY <2>2, <2>3, <2>4 DEF GroupsOK, DistinctIn
    <2> QED BY <2>5, <2>6
<1>9. GroupsOK(rest)
    BY <1>2, <1>5, <1>6, <1>7 DEF GroupsOK
<1> QED BY <1>4, <1>8, <1>9 DEF rest

\* The statement a call runs next is one it has not run, so the engine stays in order.
LEMMA StatementRuns ==
    ASSUME IInv, NEW stmt \in Statement, Left(running, stmt.sid),
           NEW out \in ExecuteStatement(engine, policy, stmt)
    PROVE  /\ Kept(engine, policy, stmt, out)
           /\ stmt.sid \notin Used(engine)
<1>1. stmt.sid \notin Used(engine)
    BY DEF IInv, Order, Waits
<1>2. engine \in EngineState /\ policy \in Policy /\ EngineInv(engine, policy)
    BY DEF IInv, TypeOK
<1> QED BY <1>1, <1>2, ExecuteKeeps

-----------------------------------------------------------------------------
(* The user's steps *)

LEMMA AddStatementKeepsIInv ==
    ASSUME IInv, NEW shape \in Shapes, AddStatement(shape)
    PROVE  IInv'
<1> DEFINE stmt == NewStatement(shape, built + 1)
<1> USE DEF AddStatement
<1>1. /\ pending \in Seq(Statement) /\ built \in Nat /\ built + 1 \in 0..MaxStatements
      /\ stmt \in Statement
    <2>1. built \in Nat /\ built + 1 \in 0..MaxStatements
        BY ShapesAssumption DEF IInv, TypeOK
    <2>2. stmt \in Statement
        BY <2>1, NewStatementType, ShapesAssumption
    <2> QED BY <2>1, <2>2 DEF IInv, TypeOK
<1>2. /\ pending' \in Seq(Statement)
      /\ DOMAIN pending = 1..Len(pending)
      /\ DOMAIN pending' = 1..Len(pending) + 1
      /\ Len(pending) \in Nat
      /\ \A i \in 1..Len(pending) : pending'[i] = pending[i]
      /\ pending'[Len(pending) + 1] = stmt
    <2> HIDE DEF stmt
    <2>1. pending' = Append(pending, stmt)
        BY DEF stmt
    <2> QED BY <1>1, <2>1, AppendProperties, LenProperties
<1>3. stmt.sid = built + 1
    BY DEF NewStatement
<1> HIDE DEF stmt
<1>4. TypeOK'
    BY <1>1, <1>2 DEF IInv, TypeOK
<1>5. \A s : Queued(pending', s) <=> Queued(pending, s) \/ s = built + 1
    BY <1>2, <1>3 DEF Queued
<1>6. ~ Queued(pending, built + 1) /\ built + 1 \notin Used(engine)
    BY <1>1 DEF IInv, Order, Waits
<1>7. DistinctSids(pending')
    <2> SUFFICES ASSUME NEW i \in DOMAIN pending', NEW j \in DOMAIN pending',
                        pending'[i].sid = pending'[j].sid
                 PROVE  i = j
        BY DEF DistinctSids
    <2>1. DistinctSids(pending)
        BY DEF IInv, Order
    <2>2. \A k \in 1..Len(pending) : pending'[k].sid # built + 1
        BY <1>2, <1>6 DEF Queued
    <2>3. CASE i \in 1..Len(pending) /\ j \in 1..Len(pending)
        BY <1>2, <2>1, <2>3 DEF DistinctSids
    <2>4. CASE i = Len(pending) + 1 /\ j \in 1..Len(pending)
        BY <1>2, <1>3, <2>2, <2>4
    <2>5. CASE i \in 1..Len(pending) /\ j = Len(pending) + 1
        BY <1>2, <1>3, <2>2, <2>5
    <2> QED BY <1>2, <2>3, <2>4, <2>5
<1>8. /\ Order(engine, running, pending', built + 1)
      /\ \A s : Retired(engine, running, pending, built, s)
                    => Retired(engine, running, pending', built + 1, s)
    <2>1. Order(engine, running, pending, built) /\ \A s : ~ Left(running, s)
        BY IdleLeavesNothing DEF IInv
    <2>2. \A s \in 1..built : s \in 1..built + 1 /\ s # built + 1
        BY <1>1
    <2>3. built + 1 \in 1..built + 1
        BY <1>1
    <2> QED BY <1>5, <1>6, <1>7, <2>1, <2>2, <2>3 DEF Order, Waits, Retired
<1>9. ReportOK(report, engine, running, pending', built + 1)
    BY <1>8, ReportStays DEF IInv
<1> QED BY <1>4, <1>8, <1>9 DEF IInv, RulesAreIndependent

LEMMA ExecuteKeepsIInv ==
    ASSUME IInv, Execute
    PROVE  IInv'
<1> USE DEF Execute
<1>1. /\ pending \in Seq(Statement) \ {<<>>}
      /\ running'.kind = "batch" /\ running'.rest = pending
      /\ <<>> \in Seq(Statement)
    BY EmptySeq DEF IInv, TypeOK
<1>2. running' \in Batch
    BY <1>1 DEF Batch
<1>3. TypeOK'
    BY <1>1, <1>2 DEF IInv, TypeOK
<1>4. RunningOK(running') /\ RulesAreIndependent'
    BY <1>1 DEF IInv, Order, RunningOK, BatchOK, RulesAreIndependent
<1>5. \A s : ~ Queued(<<>>, s)
    BY EmptyHasNoElements DEF Queued, Elements
<1>6. \A s : Left(running', s) <=> Queued(pending, s)
    BY <1>1 DEF Left, Queued
<1>7. DistinctSids(<<>>)
    BY EmptyHasNoElements DEF DistinctSids, Elements
<1>8. Order(engine, running', <<>>, built)
    BY <1>5, <1>6, <1>7 DEF IInv, Order, Waits
<1>9. \A s : Retired(engine, running, pending, built, s)
                 => Retired(engine, running', <<>>, built, s)
    BY <1>5, <1>6 DEF Retired, Waits
<1>10. ReportOK(report, engine, running', <<>>, built)
    BY <1>9, ReportStays DEF IInv
<1> QED BY <1>3, <1>4, <1>8, <1>10 DEF IInv

LEMMA UpdatePolicyKeepsIInv ==
    ASSUME IInv, UpdatePolicy
    PROVE  IInv'
<1> USE DEF UpdatePolicy
<1>1. policy' \in Policy /\ policy'.trackStatementHistory = policy.trackStatementHistory
    BY DEF IInv, TypeOK, Policy
<1>2. TypeOK'
    BY <1>1 DEF IInv, TypeOK
<1>3. EngineInv(engine, policy')
    BY <1>1 DEF IInv, EngineInv
<1> QED BY <1>2, <1>3 DEF IInv, RulesAreIndependent

LEMMA EnsureDatabaseKeepsIInv ==
    ASSUME IInv, NEW n \in Names, EnsureDatabase(n)
    PROVE  IInv'
<1> USE DEF EnsureDatabase
<1> DEFINE dbs == WithDatabase(engine.databases, n)
<1>1. engine \in EngineState /\ engine.databases \in Databases
    BY EngineFields DEF IInv, TypeOK
<1>2. dbs \in Databases /\ dbs.effects = engine.databases.effects
    BY <1>1 DEF WithDatabase, Databases
<1> HIDE DEF dbs
<1>3. engine' = [engine EXCEPT !.databases = dbs]
    BY DEF dbs
<1>4. /\ engine' \in EngineState
      /\ engine'.databases.effects = engine.databases.effects
      /\ engine'.txHistory = engine.txHistory
      /\ engine'.latestTxId = engine.latestTxId
      /\ engine'.currentTransaction = engine.currentTransaction
    BY <1>1, <1>2, <1>3 DEF EngineState
<1>5. EngineInv(engine', policy) /\ Used(engine') = Used(engine)
    BY <1>4, SameEngine DEF IInv
<1>6. TypeOK'
    BY <1>4 DEF IInv, TypeOK
<1>7. RulesAreIndependent' /\ RunningOK(running')
    BY DEF IInv, RulesAreIndependent, Idle
<1>8. /\ Order(engine', running, pending, built)
      /\ \A s : Retired(engine, running, pending, built, s)
                    => Retired(engine', running, pending, built, s)
    BY <1>5, OrderAfterOther DEF IInv
<1>9. ReportOK(report, engine', running, pending, built)
    BY <1>8, ReportStays DEF IInv
<1> QED BY <1>5, <1>6, <1>7, <1>8, <1>9 DEF IInv

\* Statements have been built for a call that begins with the first of them.
LEMMA AfterBuilding ==
    ASSUME IInv, running = Idle, NEW S \in SUBSET Shape, NEW shapes \in Rulesets(S),
           NEW f, Used(f) \subseteq Used(engine), NEW r2,
           \A s : Left(r2, s) =>
               \E g \in DOMAIN Groups(shapes, built) :
                   \E i \in DOMAIN Groups(shapes, built)[g] :
                       Groups(shapes, built)[g][i].sid = s
    PROVE  /\ Order(f, r2, pending, built + SizeOf(shapes))
           /\ ReportOK(report, f, r2, pending, built + SizeOf(shapes))
<1>1. built \in Nat /\ SizeOf(shapes) \in Nat
    BY Numbering, ShapesAssumption DEF IInv, TypeOK
<1> DEFINE b2 == built + SizeOf(shapes)
<1>2. b2 \in Nat /\ built <= b2
    BY <1>1
<1>3. \A s : Left(r2, s) => s \in (built + 1)..b2
    BY <1>1, GroupsAre
<1> HIDE DEF b2
<1>4. Order(engine, Idle, pending, built) /\ ReportOK(report, engine, Idle, pending, built)
    BY DEF IInv
<1>5. /\ Order(f, r2, pending, b2)
      /\ \A s : Retired(engine, Idle, pending, built, s) => Retired(f, r2, pending, b2, s)
    BY <1>1, <1>2, <1>3, <1>4, OrderAfterBuilding
<1>6. ReportOK(report, f, r2, pending, b2)
    BY <1>4, <1>5, ReportStays
<1> QED BY <1>5, <1>6 DEF b2

LEMMA ValidateKeepsIInv ==
    ASSUME IInv, NEW n \in Names, NEW shapes \in Rulesets(RuleShapes), Validate(n, shapes)
    PROVE  IInv'
<1> USE DEF Validate
<1> DEFINE groups == Groups(shapes, built)
<1>1. RuleShapes \in SUBSET Shape /\ \A s \in RuleShapes : s.kind = "sql"
    BY ShapesAssumption
<1>2. built \in Nat /\ SizeOf(shapes) \in Nat /\ built' \in 0..MaxStatements
    BY <1>1, Numbering, ShapesAssumption DEF IInv, TypeOK
<1>3. /\ GroupsOK(groups)
      /\ \A g \in DOMAIN groups : \A i \in DOMAIN groups[g] : groups[g][i].kind = "sql"
    BY <1>1, <1>2, GroupsAre
<1>4. ASSUME NEW s, Left(running', s)
      PROVE  \E g \in DOMAIN groups : \E i \in DOMAIN groups[g] : groups[g][i].sid = s
    <2> HIDE DEF groups
    <2>1. running'.kind = "validation" /\ running'.rules = groups
        BY DEF groups
    <2> QED BY <1>4, <2>1 DEF Left, Behind
<1>5. /\ Order(engine, running', pending, built')
      /\ ReportOK(report, engine, running', pending, built')
    BY <1>1, <1>4, AfterBuilding
<1> HIDE DEF groups
<1>6. /\ running' = [kind |-> "validation", database |-> n, rules |-> groups, statement |-> 0]
      /\ running'.kind = "validation" /\ running'.rules = groups /\ running'.statement = 0
    BY DEF groups
<1>7. running' \in Validation
    BY <1>3, <1>6 DEF Validation, GroupsOK
<1>8. Len(groups[1]) \in Nat
    BY <1>3, GroupFacts
<1>9. RunningOK(running') /\ RulesAreIndependent'
    BY <1>3, <1>6, <1>8 DEF RunningOK, ValidationOK, RulesAreIndependent
<1>10. TypeOK'
    BY <1>2, <1>7 DEF IInv, TypeOK
<1> QED BY <1>5, <1>9, <1>10 DEF IInv

LEMMA BeginImportKeepsIInv ==
    ASSUME IInv, NEW n \in Names, NEW shapes \in Rulesets(ImportShapes),
           BeginImport(shapes, n)
    PROVE  IInv'
<1> DEFINE groups == Groups(shapes, built)
           selected == [engine EXCEPT !.currentDb = n]
           call == [kind |-> "import", ruleset |-> groups, instruction |-> 1,
                    statement |-> 1, results |-> <<>>]
<1>1. /\ running = Idle
      /\ built + SizeOf(shapes) <= MaxStatements
      /\ built' = built + SizeOf(shapes)
      /\ policy' = policy /\ pending' = pending /\ report' = report
      /\ \/ engine' = selected /\ running' = running
         \/ /\ ~ InTransaction(engine)
            /\ engine' = BeginTx(selected)
            /\ running' = call
    BY DEF BeginImport
<1>2. ImportShapes \in SUBSET Shape
    BY ShapesAssumption
<1>3. built \in Nat /\ SizeOf(shapes) \in Nat /\ built' \in 0..MaxStatements
    BY <1>1, <1>2, Numbering, ShapesAssumption DEF IInv, TypeOK
<1>4. GroupsOK(groups)
    BY <1>2, <1>3, GroupsAre
<1>5. /\ selected \in EngineState
      /\ InTransaction(selected) <=> InTransaction(engine)
      /\ EngineInv(selected, policy)
      /\ Used(selected) = Used(engine)
      /\ policy \in Policy
    BY UseDatabaseKeeps DEF IInv, TypeOK
<1> HIDE DEF selected
<1>6. engine' \in EngineState /\ EngineInv(engine', policy) /\ Used(engine') = Used(engine)
    BY <1>1, <1>5, BeginTxType, BeginTxKeeps
<1>7. \A s : Left(call, s) =>
          \E g \in DOMAIN groups : \E i \in DOMAIN groups[g] : groups[g][i].sid = s
    <2> HIDE DEF groups
    <2> QED BY DEF Left, Behind
<1>8. \A s : Left(running', s) =>
          \E g \in DOMAIN groups : \E i \in DOMAIN groups[g] : groups[g][i].sid = s
    <2> HIDE DEF call, groups
    <2> QED BY <1>1, <1>7, IdleLeavesNothing
<1>9. /\ Order(engine', running', pending, built')
      /\ ReportOK(report, engine', running', pending, built')
    BY <1>1, <1>2, <1>6, <1>8, AfterBuilding
<1> HIDE DEF groups
<1>10. call \in Import /\ RunningOK(call) /\ call.kind = "import"
    <2>1. <<>> \in Seq(Status) /\ Len(<<>>) = 0
        BY EmptySeq
    <2>2. Len(groups) \in Nat \ {0} /\ Len(groups[1]) \in Nat \ {0}
        BY <1>4, GroupFacts
    <2>3. groups \in Seq(Seq(Statement))
        BY <1>4 DEF GroupsOK
    <2>4. /\ call.kind = "import" /\ call.ruleset = groups /\ call.instruction = 1
          /\ call.statement = 1 /\ call.results = <<>>
        OBVIOUS
    <2>5. call \in Import
        BY <2>1, <2>3 DEF Import
    <2> HIDE DEF call
    <2>6. ImportOK(call)
        BY <1>4, <2>1, <2>2, <2>4 DEF ImportOK
    <2> QED BY <2>4, <2>5, <2>6 DEF RunningOK
<1> HIDE DEF call
<1>11. /\ running' \in {Idle} \cup Import
       /\ RunningOK(running')
       /\ running'.kind # "validation"
    BY <1>1, <1>10 DEF Idle, RunningOK
<1>12. TypeOK'
    BY <1>1, <1>3, <1>6, <1>11 DEF IInv, TypeOK
<1>13. RulesAreIndependent'
    BY <1>11 DEF RulesAreIndependent
<1> QED BY <1>1, <1>6, <1>9, <1>11, <1>12, <1>13 DEF IInv

-----------------------------------------------------------------------------
(* The steps of a call in progress *)

\* A call has run its next statement and goes on with what is left.
LEMMA AfterRunning ==
    ASSUME IInv, NEW stmt, Left(running, stmt.sid), NEW f, NEW r2,
           Used(f) \subseteq Used(engine) \cup {stmt.sid},
           \A s : Left(r2, s) => Left(running, s) /\ s # stmt.sid
    PROVE  /\ Order(f, r2, pending, built)
           /\ ReportOK(report, f, r2, pending, built)
<1>1. /\ Order(f, r2, pending, built)
      /\ \A s : Retired(engine, running, pending, built, s)
                    => Retired(f, r2, pending, built, s)
    BY OrderAfterStatement DEF IInv
<1>2. ReportOK(report, f, r2, pending, built)
    BY <1>1, ReportStays DEF IInv
<1> QED BY <1>1, <1>2

LEMMA NextOfBatch ==
    ASSUME IInv, running.kind = "batch"
    PROVE  LET stmt == Head(running.rest)
               r2 == [running EXCEPT !.rest = Tail(@)]
           IN  /\ stmt \in Statement
               /\ Left(running, stmt.sid)
               /\ Len(running.rest) # 1 =>
                      /\ r2 \in Batch
                      /\ RunningOK(r2)
                      /\ \A s : Left(r2, s) => Left(running, s) /\ s # stmt.sid
<1> DEFINE rest == running.rest
           r2 == [running EXCEPT !.rest = Tail(@)]
<1>1. running \in Batch /\ running.kind = "batch"
    BY RunningType DEF IInv
<1>2. rest \in Seq(Statement) /\ rest # <<>>
    BY <1>1 DEF Batch
<1>3. DistinctSids(rest)
    BY DEF IInv, RunningOK, BatchOK
<1>4. r2 = [kind |-> "batch", rest |-> Tail(rest)]
    BY <1>1 DEF Batch
<1>5. r2.kind = "batch" /\ r2.rest = Tail(rest)
    BY <1>4
<1> HIDE DEF rest, r2
<1>6. /\ Len(rest) \in Nat \ {0}
      /\ DOMAIN rest = 1..Len(rest)
      /\ Head(rest) = rest[1]
      /\ Head(rest) \in Statement
      /\ Tail(rest) \in Seq(Statement)
      /\ Len(Tail(rest)) = Len(rest) - 1
      /\ \A i \in 1..Len(Tail(rest)) : Tail(rest)[i] = rest[i + 1]
    BY <1>2, EmptySeq, LenProperties, HeadTailProperties
<1>7. Left(running, Head(rest).sid)
    <2>1. 1 \in DOMAIN rest
        BY <1>6
    <2> QED BY <1>1, <1>6, <2>1 DEF Left, rest
<1>8. ASSUME Len(rest) # 1
      PROVE  /\ r2 \in Batch
             /\ RunningOK(r2)
             /\ \A s : Left(r2, s) => Left(running, s) /\ s # Head(rest).sid
    <2>1. DOMAIN Tail(rest) = 1..Len(Tail(rest)) /\ Tail(rest) # <<>>
        BY <1>6, <1>8, EmptySeq, LenProperties
    <2>2. ASSUME NEW i \in DOMAIN Tail(rest)
          PROVE  /\ i \in Nat /\ i + 1 # 1 /\ i + 1 \in DOMAIN rest /\ 1 \in DOMAIN rest
                 /\ Tail(rest)[i] = rest[i + 1]
        <3>1. i \in 1..Len(Tail(rest))
            BY <2>1
        <3>2. i \in Nat /\ i + 1 # 1 /\ i + 1 \in 1..Len(rest) /\ 1 \in 1..Len(rest)
            BY <1>6, <3>1
        <3> QED BY <1>6, <3>1, <3>2
    <2>3. r2 \in Batch
        BY <1>4, <1>6, <2>1 DEF Batch
    <2>4. DistinctSids(Tail(rest))
        <3> SUFFICES ASSUME NEW i \in DOMAIN Tail(rest), NEW j \in DOMAIN Tail(rest),
                            Tail(rest)[i].sid = Tail(rest)[j].sid
                     PROVE  i = j
            BY DEF DistinctSids
        <3>1. i + 1 = j + 1
            BY <1>3, <2>2 DEF DistinctSids
        <3> QED BY <2>2, <3>1
    <2>5. RunningOK(r2)
        BY <1>5, <2>4 DEF RunningOK, BatchOK
    <2>6. ASSUME NEW s, Left(r2, s) PROVE Left(running, s) /\ s # Head(rest).sid
        <3>1. PICK i \in DOMAIN Tail(rest) : Tail(rest)[i].sid = s
            BY <1>5, <2>6 DEF Left
        <3>2. rest[i + 1].sid = s /\ i + 1 \in DOMAIN rest
            BY <2>2, <3>1
        <3>3. Left(running, s)
            BY <1>1, <3>2 DEF Left, rest
        <3>4. s # rest[1].sid
            BY <1>3, <2>2, <3>2 DEF DistinctSids
        <3> QED BY <1>6, <3>3, <3>4
    <2> QED BY <2>3, <2>5, <2>6
<1> QED BY <1>6, <1>7, <1>8 DEF rest, r2

LEMMA ExecuteNextKeepsIInv ==
    ASSUME IInv, ExecuteNext
    PROVE  IInv'
<1> DEFINE stmt == Head(running.rest)
           r2 == [running EXCEPT !.rest = Tail(@)]
<1>1. running.kind = "batch" /\ UNCHANGED <<policy, pending, report, built>>
    BY DEF ExecuteNext
<1>2. PICK out \in ExecuteStatement(engine, policy, stmt) :
          /\ engine' = out.engine
          /\ running' = IF out.thrown # "none" \/ Len(running.rest) = 1 THEN Idle ELSE r2
    BY DEF ExecuteNext
<1>3. /\ stmt \in Statement
      /\ Left(running, stmt.sid)
      /\ Len(running.rest) # 1 =>
             /\ r2 \in Batch
             /\ RunningOK(r2)
             /\ \A s : Left(r2, s) => Left(running, s) /\ s # stmt.sid
    BY <1>1, NextOfBatch
<1> HIDE DEF stmt, r2
<1>4. Kept(engine, policy, stmt, out)
    BY <1>3, StatementRuns
<1>5. /\ running' \in {Idle} \cup Batch
      /\ RunningOK(running')
      /\ \A s : Left(running', s) => Left(running, s) /\ s # stmt.sid
    BY <1>2, <1>3, IdleLeavesNothing DEF RunningOK, Idle
<1>6. /\ Order(engine', running', pending, built)
      /\ ReportOK(report, engine', running', pending, built)
    BY <1>2, <1>3, <1>4, <1>5, AfterRunning DEF Kept
<1>7. TypeOK'
    BY <1>1, <1>2, <1>4, <1>5 DEF IInv, TypeOK, Kept
<1>8. RulesAreIndependent'
    BY <1>5 DEF RulesAreIndependent, Idle, Batch
<1>9. EngineInv(engine', policy')
    BY <1>1, <1>2, <1>4 DEF Kept
<1> QED BY <1>1, <1>5, <1>6, <1>7, <1>8, <1>9 DEF IInv

LEMMA NextOfImport ==
    ASSUME IInv, running.kind = "import", running.instruction <= Len(running.ruleset)
    PROVE  LET ruleset == running.ruleset
               stmt == ruleset[running.instruction][running.statement]
           IN  /\ running \in Import
               /\ GroupsOK(ruleset)
               /\ running.instruction \in 1..Len(ruleset)
               /\ running.statement \in 1..Len(ruleset[running.instruction])
               /\ stmt \in Statement
               /\ Left(running, stmt.sid)
<1> DEFINE ruleset == running.ruleset
           g == running.instruction
           i == running.statement
<1>1. running \in Import /\ ImportOK(running)
    BY RunningType DEF IInv, RunningOK
<1>2. GroupsOK(ruleset) /\ g \in 1..Len(ruleset) + 1 /\ g <= Len(ruleset)
    BY <1>1 DEF ImportOK
<1>3. Len(ruleset) \in Nat
    BY <1>2, GroupFacts
<1>4. g \in 1..Len(ruleset) /\ i \in 1..Len(ruleset[g])
    <2> HIDE DEF ruleset, g, i
    <2>1. g \in 1..Len(ruleset)
        BY <1>2, <1>3
    <2> QED BY <1>1, <1>2, <2>1 DEF ImportOK, ruleset, g, i
<1>5. ruleset[g][i] \in Statement
    BY <1>2, <1>4, GroupFacts
<1>6. Left(running, ruleset[g][i].sid)
    <2>1. Behind(ruleset, g, i, ruleset[g][i].sid)
        BY <1>2, <1>4, AdvanceBehind
    <2> QED BY <2>1 DEF Left
<1> QED BY <1>1, <1>2, <1>4, <1>5, <1>6

LEMMA ImportStatementKeepsIInv ==
    ASSUME IInv, ImportStatement
    PROVE  IInv'
<1> DEFINE ruleset == running.ruleset
           g == running.instruction
           i == running.statement
           stmt == ruleset[g][i]
           r2 == IF i < Len(ruleset[g])
                 THEN [running EXCEPT !.statement = @ + 1]
                 ELSE [running EXCEPT !.instruction = @ + 1, !.statement = 1,
                                      !.results = Append(@, "succeeded")]
<1>1. /\ running.kind = "import" /\ g <= Len(ruleset)
      /\ UNCHANGED <<policy, pending, report, built>>
    BY DEF ImportStatement
<1>2. PICK out \in ExecuteStatement(engine, policy, stmt) :
          engine' = out.engine /\ running' = r2
    BY DEF ImportStatement
<1>3. /\ running \in Import
      /\ GroupsOK(ruleset)
      /\ g \in 1..Len(ruleset)
      /\ i \in 1..Len(ruleset[g])
      /\ stmt \in Statement
      /\ Left(running, stmt.sid)
    BY <1>1, NextOfImport
<1>4. ImportOK(running)
    BY <1>1 DEF IInv, RunningOK
<1>5. \/ /\ i < Len(ruleset[g])
         /\ r2 = [kind |-> "import", ruleset |-> ruleset, instruction |-> g,
                  statement |-> i + 1, results |-> running.results]
      \/ /\ ~ (i < Len(ruleset[g]))
         /\ r2 = [kind |-> "import", ruleset |-> ruleset, instruction |-> g + 1,
                  statement |-> 1, results |-> Append(running.results, "succeeded")]
    BY <1>3 DEF Import
<1>6. /\ running.results \in Seq(Status)
      /\ Len(running.results) = g - 1
      /\ \A k \in 1..Len(running.results) : running.results[k] = "succeeded"
    BY <1>4 DEF ImportOK
<1>7. \A s : Left(running, s) <=> Behind(ruleset, g, i, s)
    BY <1>1 DEF Left
<1>8. /\ \A s : Behind(ruleset, g, i + 1, s) => Behind(ruleset, g, i, s) /\ s # stmt.sid
      /\ \A s : Behind(ruleset, g + 1, 1, s) => Behind(ruleset, g, i, s) /\ s # stmt.sid
    BY <1>3, AdvanceBehind
<1>9. /\ Len(ruleset) \in Nat
      /\ \A h \in 1..Len(ruleset) : Len(ruleset[h]) \in Nat \ {0}
      /\ ruleset \in Seq(Seq(Statement))
    BY <1>3, GroupFacts DEF GroupsOK
<1> HIDE DEF r2, stmt, ruleset, g, i
<1>10. Kept(engine, policy, stmt, out)
    BY <1>3, StatementRuns
<1> DEFINE moves == /\ r2 \in Import
                    /\ r2.kind = "import"
                    /\ RunningOK(r2)
                    /\ \A s : Left(r2, s) => Left(running, s) /\ s # stmt.sid
<1>11. ASSUME r2 = [kind |-> "import", ruleset |-> ruleset, instruction |-> g,
                    statement |-> i + 1, results |-> running.results],
              i < Len(ruleset[g])
       PROVE  moves
    <2>1. /\ r2.kind = "import" /\ r2.ruleset = ruleset /\ r2.instruction = g
          /\ r2.statement = i + 1 /\ r2.results = running.results
        BY <1>11
    <2>2. g \in Nat /\ i + 1 \in Nat /\ g \in 1..Len(ruleset) + 1
        BY <1>3, <1>9
    <2>3. i + 1 \in 1..Len(ruleset[g])
        BY <1>3, <1>9, <1>11
    <2>4. r2 \in Import
        BY <1>6, <1>9, <1>11, <2>2 DEF Import
    <2>5. RunningOK(r2)
        BY <1>3, <1>6, <2>1, <2>2, <2>3 DEF RunningOK, ImportOK
    <2>6. \A s : Left(r2, s) => Left(running, s) /\ s # stmt.sid
        BY <1>7, <1>8, <2>1 DEF Left
    <2> QED BY <2>1, <2>4, <2>5, <2>6
<1>12. ASSUME r2 = [kind |-> "import", ruleset |-> ruleset, instruction |-> g + 1,
                    statement |-> 1, results |-> Append(running.results, "succeeded")]
       PROVE  moves
    <2> DEFINE results == Append(running.results, "succeeded")
    <2>1. /\ r2.kind = "import" /\ r2.ruleset = ruleset /\ r2.instruction = g + 1
          /\ r2.statement = 1 /\ r2.results = results
        BY <1>12
    <2>2. g + 1 \in Nat /\ g + 1 \in 1..Len(ruleset) + 1
        BY <1>3, <1>9
    <2>3. g + 1 <= Len(ruleset) => g + 1 \in 1..Len(ruleset) /\ 1 \in 1..Len(ruleset[g + 1])
        BY <1>9, <2>2
    <2>4. /\ results \in Seq(Status)
          /\ Len(results) = Len(running.results) + 1
          /\ \A k \in 1..Len(running.results) : results[k] = running.results[k]
          /\ results[Len(running.results) + 1] = "succeeded"
        <3>1. "succeeded" \in Status
            BY DEF Status
        <3> QED BY <1>6, <3>1, AppendProperties
    <2> HIDE DEF results
    <2>5. r2 \in Import
        BY <1>9, <1>12, <2>2, <2>4 DEF Import, results
    <2>6. Len(results) = (g + 1) - 1 /\ \A k \in 1..Len(results) : results[k] = "succeeded"
        <3>1. g \in Nat /\ Len(running.results) \in Nat
            BY <1>3, <1>6, <1>9
        <3> QED BY <1>6, <2>4, <3>1
    <2>7. RunningOK(r2)
        BY <1>3, <2>1, <2>2, <2>3, <2>4, <2>6 DEF RunningOK, ImportOK
    <2>8. \A s : Left(r2, s) => Left(running, s) /\ s # stmt.sid
        BY <1>7, <1>8, <2>1 DEF Left
    <2> QED BY <2>1, <2>5, <2>7, <2>8
<1>13. /\ running' \in Import
       /\ running'.kind = "import"
       /\ RunningOK(running')
       /\ \A s : Left(running', s) => Left(running, s) /\ s # stmt.sid
    <2>1. moves
        BY <1>5, <1>11, <1>12
    <2> QED BY <1>2, <2>1
<1>14. /\ Order(engine', running', pending, built)
       /\ ReportOK(report, engine', running', pending, built)
    BY <1>2, <1>3, <1>10, <1>13, AfterRunning DEF Kept
<1>15. TypeOK'
    BY <1>1, <1>2, <1>10, <1>13 DEF IInv, TypeOK, Kept
<1>16. RulesAreIndependent'
    BY <1>13 DEF RulesAreIndependent
<1>17. EngineInv(engine', policy')
    BY <1>1, <1>2, <1>10 DEF Kept
<1> QED BY <1>1, <1>13, <1>14, <1>15, <1>16, <1>17 DEF IInv

LEMMA FailImportKeepsIInv ==
    ASSUME IInv, FailImport
    PROVE  IInv'
<1> DEFINE ruleset == running.ruleset
           g == running.instruction
           i == running.statement
           stmt == ruleset[g][i]
           results == [k \in DOMAIN ruleset |->
                          IF k < g THEN running.results[k]
                          ELSE IF k = g THEN "failed" ELSE "notExecuted"]
<1>1. /\ running.kind = "import" /\ g <= Len(ruleset)
      /\ running' = Idle
      /\ UNCHANGED <<policy, pending, built>>
      /\ report' = [ruleset |-> ruleset, results |-> results,
                    failedStatement |-> i, committed |-> FALSE]
    BY DEF FailImport
<1>2. PICK out \in ExecuteStatement(engine, policy, stmt) :
          engine' = RollbackTx(out.engine)
    BY DEF FailImport
<1>3. /\ GroupsOK(ruleset)
      /\ g \in 1..Len(ruleset)
      /\ i \in 1..Len(ruleset[g])
      /\ stmt \in Statement
      /\ Left(running, stmt.sid)
    BY <1>1, NextOfImport
<1>4. /\ running.results \in Seq(Status)
      /\ Len(running.results) = g - 1
      /\ \A k \in 1..Len(running.results) : running.results[k] = "succeeded"
    BY <1>1 DEF IInv, RunningOK, ImportOK
<1>5. /\ Len(ruleset) \in Nat
      /\ DOMAIN ruleset = 1..Len(ruleset)
      /\ \A h \in 1..Len(ruleset) :
             Len(ruleset[h]) \in Nat /\ DOMAIN ruleset[h] = 1..Len(ruleset[h])
      /\ ruleset \in Seq(Seq(Statement))
    BY <1>3, GroupFacts DEF GroupsOK
<1>6. /\ \A s : Left(running, s) <=> Behind(ruleset, g, i, s)
      /\ \A s : Behind(ruleset, g, i + 1, s) => Behind(ruleset, g, i, s) /\ s # stmt.sid
    BY <1>1, <1>3, AdvanceBehind DEF Left
<1>7. /\ \A k \in 1..Len(ruleset) :
             results[k] = (IF k < g THEN "succeeded" ELSE IF k = g THEN "failed" ELSE "notExecuted")
      /\ DOMAIN results = 1..Len(ruleset)
    <2>1. DOMAIN results = 1..Len(ruleset)
        BY <1>5
    <2>2. ASSUME NEW k \in 1..Len(ruleset)
          PROVE  results[k] = (IF k < g THEN "succeeded"
                               ELSE IF k = g THEN "failed" ELSE "notExecuted")
        <3>1. k < g => k \in 1..Len(running.results)
            BY <1>3, <1>4, <1>5
        <3> QED BY <1>4, <1>5, <3>1
    <2> QED BY <2>1, <2>2
<1> HIDE DEF results
<1>8. results \in Seq(Status) /\ Len(results) = Len(ruleset)
    <2>1. results \in [1..Len(ruleset) -> Status]
        <3>1. \A k \in 1..Len(ruleset) : results[k] \in Status
            BY <1>7 DEF Status
        <3>2. results = [k \in 1..Len(ruleset) |-> results[k]]
            BY <1>5 DEF results
        <3> QED BY <3>1, <3>2
    <2> DEFINE n == Len(ruleset)
    <2> HIDE DEF n
    <2>2. results \in Seq(Status)
        <3>1. n \in Nat /\ results \in [1..n -> Status]
            BY <1>5, <2>1 DEF n
        <3> QED BY <3>1, SeqDef
    <2>3. DOMAIN results = 1..Len(results) /\ Len(results) \in Nat
        BY <2>2, LenProperties
    <2> QED BY <1>5, <1>7, <2>2, <2>3
<1> HIDE DEF ruleset, g, i, stmt
<1>9. /\ report'.ruleset = ruleset /\ report'.results = results
      /\ report'.failedStatement = i /\ report'.committed = FALSE
      /\ report' \in Report
    <2>1. i \in Nat
        BY <1>3
    <2> QED BY <1>1, <1>5, <1>8, <2>1 DEF Report
<1>10. Kept(engine, policy, stmt, out)
    BY <1>3, StatementRuns
<1>11. /\ engine' \in EngineState
       /\ EngineInv(engine', policy)
       /\ Used(engine') \subseteq Used(engine) \cup {stmt.sid}
    <2>1. policy \in Policy
        BY DEF IInv, TypeOK
    <2> QED BY <1>2, <1>10, <2>1, RollbackTxType, RollbackTxKeeps DEF Kept
<1>12. Order(engine', running', pending, built)
    BY <1>1, <1>3, <1>11, IdleLeavesNothing, AfterRunning
<1>13. ASSUME NEW s, Behind(ruleset, g, i + 1, s)
       PROVE  Retired(engine', running', pending, built, s)
    <2>1. Left(running, s) /\ s # stmt.sid
        BY <1>6, <1>13
    <2>2. s \in 1..built /\ s \notin Used(engine) /\ ~ Queued(pending, s)
        BY <2>1 DEF IInv, Order, Waits
    <2> QED BY <1>1, <1>11, <2>1, <2>2, IdleLeavesNothing DEF Retired, Waits
<1>14. ReportedAt(report', g, engine', running', pending, built)
    <2>1. ASSUME NEW h \in g..Len(ruleset), NEW j \in DOMAIN ruleset[h], h = g => j > i
          PROVE  Retired(engine', running', pending, built, ruleset[h][j].sid)
        <3>1. h \in 1..Len(ruleset) /\ g \in Nat /\ i \in Nat
            BY <1>3, <1>5
        <3>2. j \in Nat
            BY <1>5, <3>1
        <3>3. h > g \/ (h = g /\ j >= i + 1)
            BY <2>1, <3>1, <3>2
        <3> QED BY <1>5, <1>13, <3>1, <3>3 DEF Behind
    <2>2. g \in 1..Len(ruleset) + 1 /\ ~ (g > Len(ruleset))
        BY <1>3, <1>5
    <2> HIDE DEF Retired
    <2>3. \A h \in g..Len(ruleset) : \A j \in DOMAIN ruleset[h] :
              (h = g => j > i) => Retired(engine', running', pending, built, ruleset[h][j].sid)
        BY <2>1
    <2> QED BY <1>7, <1>8, <1>9, <2>2, <2>3 DEF ReportedAt
<1>15. ReportOK(report', engine', running', pending, built)
    <2>1. g \in 1..Len(report'.ruleset) + 1
        BY <1>3, <1>5, <1>9
    <2> QED BY <1>14, <2>1 DEF ReportOK
<1>16. RunningOK(running') /\ RulesAreIndependent'
    BY <1>1 DEF RunningOK, RulesAreIndependent, Idle
<1>17. TypeOK'
    BY <1>1, <1>9, <1>11 DEF IInv, TypeOK
<1> QED BY <1>1, <1>11, <1>12, <1>15, <1>16, <1>17 DEF IInv

LEMMA CommitImportKeepsIInv ==
    ASSUME IInv, CommitImport
    PROVE  IInv'
<1>1. /\ running.kind = "import" /\ running.instruction > Len(running.ruleset)
      /\ running' = Idle
      /\ UNCHANGED <<policy, pending, built>>
      /\ \/ UNCHANGED <<engine, report>>
         \/ /\ InTransaction(engine)
            /\ engine' = CommitTx(engine, policy)
            /\ report' = [ruleset |-> running.ruleset, results |-> running.results,
                          failedStatement |-> 0, committed |-> TRUE]
    BY DEF CommitImport
<1>2. running \in Import /\ ImportOK(running)
    BY <1>1, RunningType DEF IInv, RunningOK
<1>3. /\ engine \in EngineState /\ policy \in Policy /\ EngineInv(engine, policy)
      /\ report \in {NoReport} \cup Report
    BY DEF IInv, TypeOK
<1>4. /\ engine' \in EngineState
      /\ EngineInv(engine', policy)
      /\ Used(engine') \subseteq Used(engine)
    BY <1>1, <1>3, CommitTxType, CommitTxKeeps
<1>5. /\ Order(engine', running', pending, built)
      /\ ReportOK(report, engine', running', pending, built)
    <2>1. /\ Order(engine', running', pending, built)
          /\ \A s : Retired(engine, running, pending, built, s)
                        => Retired(engine', running', pending, built, s)
        BY <1>1, <1>4, IdleLeavesNothing, OrderAfterOther DEF IInv
    <2> QED BY <2>1, ReportStays DEF IInv
<1> DEFINE ruleset == running.ruleset
           results == running.results
           at == Len(ruleset) + 1
<1>6. /\ running.instruction \in 1..Len(ruleset) + 1
      /\ running.instruction > Len(ruleset)
      /\ Len(ruleset) \in Nat
      /\ Len(results) = running.instruction - 1
      /\ \A k \in 1..Len(results) : results[k] = "succeeded"
      /\ ruleset \in Seq(Seq(Statement)) /\ results \in Seq(Status)
    BY <1>1, <1>2, GroupFacts DEF ImportOK, GroupsOK
<1> HIDE DEF ruleset, results
<1>7. Len(results) = Len(ruleset)
    BY <1>6
<1>8. ASSUME report' = [ruleset |-> ruleset, results |-> results,
                        failedStatement |-> 0, committed |-> TRUE]
      PROVE  report' \in Report /\ ReportOK(report', engine', running', pending, built)
    <2>1. report' \in Report
        BY <1>6, <1>8 DEF Report
    <2>2. /\ report'.ruleset = ruleset /\ report'.results = results
          /\ report'.failedStatement = 0 /\ report'.committed = TRUE
        BY <1>8
    <2>3. /\ at \in 1..Len(ruleset) + 1 /\ at > Len(ruleset)
          /\ at..Len(ruleset) = {}
          /\ \A k \in 1..Len(ruleset) : k < at
        BY <1>6
    <2>4. ReportedAt(report', at, engine', running', pending, built)
        BY <1>6, <1>7, <2>2, <2>3 DEF ReportedAt
    <2> HIDE DEF at
    <2> QED BY <2>1, <2>2, <2>3, <2>4 DEF ReportOK
<1>9. report' \in {NoReport} \cup Report /\ ReportOK(report', engine', running', pending, built)
    BY <1>1, <1>3, <1>5, <1>8 DEF ruleset, results
<1>10. RunningOK(running') /\ RulesAreIndependent'
    BY <1>1 DEF RunningOK, RulesAreIndependent, Idle
<1>11. TypeOK'
    BY <1>1, <1>4, <1>9 DEF IInv, TypeOK
<1> QED BY <1>1, <1>4, <1>5, <1>9, <1>10, <1>11 DEF IInv

LEMMA BeginRuleKeepsIInv ==
    ASSUME IInv, BeginRule
    PROVE  IInv'
<1> DEFINE selected == [engine EXCEPT !.currentDb = running.database]
           begun == [running EXCEPT !.statement = 1]
<1>1. /\ running.kind = "validation" /\ running.statement = 0
      /\ UNCHANGED <<policy, pending, report, built>>
      /\ \/ running' = Idle /\ engine' = engine
         \/ running' = Idle /\ engine' = selected
         \/ ~ InTransaction(engine) /\ engine' = BeginTx(selected) /\ running' = begun
    BY DEF BeginRule
<1>2. running \in Validation /\ ValidationOK(running)
    BY <1>1, RunningType DEF IInv, RunningOK
<1>3. /\ engine \in EngineState /\ policy \in Policy /\ EngineInv(engine, policy)
      /\ running.database \in Names
    BY <1>2 DEF IInv, TypeOK, Validation
<1>4. /\ selected \in EngineState
      /\ selected.databases = engine.databases
      /\ InTransaction(selected) <=> InTransaction(engine)
      /\ EngineInv(selected, policy)
      /\ Used(selected) = Used(engine)
    BY <1>3, UseDatabaseKeeps
<1>5. begun = [kind |-> "validation", database |-> running.database,
               rules |-> running.rules, statement |-> 1]
    BY <1>2 DEF Validation
<1>6. /\ begun.kind = "validation" /\ begun.rules = running.rules /\ begun.statement = 1
      /\ begun \in Validation
    BY <1>2, <1>5 DEF Validation
<1> HIDE DEF selected, begun
<1>7. engine' \in EngineState /\ EngineInv(engine', policy) /\ Used(engine') = Used(engine)
    BY <1>1, <1>3, <1>4, BeginTxType, BeginTxKeeps
<1>8. RunningOK(begun)
    <2>1. Len(running.rules) \in Nat \ {0} /\ Len(running.rules[1]) \in Nat \ {0}
        BY <1>2, GroupFacts DEF ValidationOK
    <2> QED BY <1>2, <1>6, <2>1 DEF RunningOK, ValidationOK
<1>9. \A s : Left(begun, s) => Left(running, s)
    <2>1. \A h \in DOMAIN running.rules : DOMAIN running.rules[h] \subseteq Nat
        BY <1>2, GroupFacts DEF ValidationOK
    <2>2. \A s : Behind(running.rules, 1, 1, s) => Behind(running.rules, 1, 0, s)
        BY <2>1 DEF Behind
    <2> QED BY <1>1, <1>6, <2>2 DEF Left
<1>10. \A s : Left(running', s) => Left(running, s)
    BY <1>1, <1>9, IdleLeavesNothing
<1>11. /\ Order(engine', running', pending, built)
       /\ ReportOK(report, engine', running', pending, built)
    <2>1. /\ Order(engine', running', pending, built)
          /\ \A s : Retired(engine, running, pending, built, s)
                        => Retired(engine', running', pending, built, s)
        BY <1>7, <1>10, OrderAfterOther DEF IInv
    <2> QED BY <2>1, ReportStays DEF IInv
<1>12. RunningOK(running') /\ running' \in {Idle} \cup Validation
    BY <1>1, <1>6, <1>8 DEF RunningOK, Idle
<1>13. RulesAreIndependent'
    <2>1. CASE running' = Idle
        BY <2>1 DEF RulesAreIndependent, Idle
    <2>2. CASE ~ InTransaction(engine) /\ engine' = BeginTx(selected)
        BY <1>4, <2>2, BeginTxType DEF RulesAreIndependent
    <2> QED BY <1>1, <2>1, <2>2
<1>14. TypeOK'
    BY <1>1, <1>7, <1>12 DEF IInv, TypeOK
<1> QED BY <1>1, <1>7, <1>11, <1>12, <1>13, <1>14 DEF IInv

\* The statement a rule runs next.
LEMMA NextOfRule ==
    ASSUME IInv, running.kind = "validation", running.statement # 0
    PROVE  LET stmt == Head(running.rules)[running.statement]
           IN  /\ running \in Validation
               /\ GroupsOK(running.rules)
               /\ Head(running.rules) = running.rules[1]
               /\ 1 \in 1..Len(running.rules)
               /\ running.statement \in 1..Len(running.rules[1])
               /\ stmt \in Statement
               /\ stmt.kind = "sql"
               /\ stmt \in Elements(Head(running.rules))
               /\ Left(running, stmt.sid)
               /\ InTransaction(engine)
<1> DEFINE rules == running.rules
           i == running.statement
<1>1. running \in Validation /\ ValidationOK(running)
    BY RunningType DEF IInv, RunningOK
<1>2. GroupsOK(rules)
    BY <1>1 DEF ValidationOK
<1>3. /\ Len(rules) \in Nat \ {0}
      /\ DOMAIN rules = 1..Len(rules)
      /\ 1 \in 1..Len(rules)
      /\ Len(rules[1]) \in Nat
      /\ DOMAIN rules[1] = 1..Len(rules[1])
    BY <1>2, GroupFacts
<1>4. Head(rules) = rules[1]
    BY <1>2, HeadTailProperties DEF GroupsOK
<1>5. i \in 1..Len(rules[1])
    BY <1>1, <1>3 DEF ValidationOK
<1>6. rules[1][i] \in Statement
    BY <1>2, <1>3, <1>5, GroupFacts
<1>7. rules[1][i].kind = "sql"
    BY <1>1, <1>3, <1>5 DEF ValidationOK
<1>8. rules[1][i] \in Elements(rules[1])
    BY <1>3, <1>5 DEF Elements
<1>9. Left(running, rules[1][i].sid)
    <2>1. Behind(rules, 1, i, rules[1][i].sid)
        BY <1>2, <1>3, <1>5, AdvanceBehind
    <2> QED BY <2>1 DEF Left
<1>10. InTransaction(engine)
    BY DEF IInv, RulesAreIndependent
<1> QED BY <1>1, <1>2, <1>3, <1>4, <1>5, <1>6, <1>7, <1>8, <1>9, <1>10

LEMMA EvaluateStatementKeepsIInv ==
    ASSUME IInv, EvaluateStatement
    PROVE  IInv'
<1> DEFINE rules == running.rules
           rule == Head(running.rules)
           i == running.statement
           stmt == rule[i]
           further == [running EXCEPT !.statement = @ + 1]
           onward == [running EXCEPT !.rules = Tail(@), !.statement = 0]
<1>1. /\ running.kind = "validation" /\ i # 0
      /\ UNCHANGED <<policy, pending, report, built>>
    BY DEF EvaluateStatement
<1>2. PICK out \in ExecuteStatement(engine, policy, stmt) :
          \/ /\ out.thrown = "none" /\ i < Len(rule)
             /\ engine' = out.engine
             /\ running' = further
          \/ /\ engine' = RollbackTx(out.engine)
             /\ \/ running' = Idle
                \/ Len(rules) # 1 /\ running' = onward
    BY DEF EvaluateStatement, NextRule
<1>3. /\ running \in Validation
      /\ GroupsOK(rules)
      /\ rule = rules[1]
      /\ 1 \in 1..Len(rules)
      /\ i \in 1..Len(rules[1])
      /\ stmt \in Statement
      /\ stmt.kind = "sql"
      /\ stmt \in Elements(rule)
      /\ Left(running, stmt.sid)
      /\ InTransaction(engine)
    BY <1>1, NextOfRule
<1>4. /\ ValidationOK(running)
      /\ \A g \in DOMAIN rules : \A k \in DOMAIN rules[g] : rules[g][k].kind = "sql"
      /\ policy \in Policy /\ engine \in EngineState /\ EngineInv(engine, policy)
    BY <1>1 DEF IInv, TypeOK, RunningOK, ValidationOK
<1>5. /\ further.kind = "validation" /\ further.rules = rules /\ further.statement = i + 1
      /\ i + 1 \in Nat => further \in Validation
    BY <1>3 DEF Validation
<1>6. /\ onward.kind = "validation" /\ onward.rules = Tail(rules) /\ onward.statement = 0
      /\ Tail(rules) \in Seq(Seq(Statement)) => onward \in Validation
    <2> DEFINE after(t) == [running EXCEPT !.rules = t, !.statement = 0]
    <2>1. ASSUME NEW t
          PROVE  /\ after(t).kind = "validation" /\ after(t).rules = t
                 /\ after(t).statement = 0
                 /\ t \in Seq(Seq(Statement)) => after(t) \in Validation
        BY <1>3 DEF Validation
    <2>2. onward = after(Tail(rules))
        OBVIOUS
    <2> HIDE DEF after, onward
    <2> QED BY <2>1, <2>2
<1>7. \A s : Left(running, s) <=> Behind(rules, 1, i, s)
    BY <1>1 DEF Left
<1>8. Kept(engine, policy, stmt, out) /\ stmt.sid \notin Used(engine)
    BY <1>3, StatementRuns
<1> HIDE DEF rules, rule, i, stmt, further, onward
<1>9. /\ engine' \in EngineState
      /\ EngineInv(engine', policy)
      /\ Used(engine') \subseteq Used(engine) \cup {stmt.sid}
    <2>1. CASE engine' = out.engine
        BY <1>8, <2>1 DEF Kept
    <2>2. CASE engine' = RollbackTx(out.engine)
        BY <1>4, <1>8, <2>2, RollbackTxType, RollbackTxKeeps DEF Kept
    <2> QED BY <1>2, <2>1, <2>2
<1> DEFINE moves(r) == /\ r \in {Idle} \cup Validation
                       /\ RunningOK(r)
                       /\ \A s : Left(r, s) => Left(running, s) /\ s # stmt.sid
<1>10. moves(Idle)
    BY IdleLeavesNothing DEF RunningOK, Idle
<1>11. i < Len(rule) => moves(further)
    <2> SUFFICES ASSUME i < Len(rule) PROVE moves(further)
        OBVIOUS
    <2>1. Len(rules[1]) \in Nat
        BY <1>3, GroupFacts
    <2>2. i + 1 \in Nat /\ i + 1 \in 0..Len(rules[1])
        BY <1>3, <2>1
    <2>3. further \in Validation
        BY <1>5, <2>2
    <2>4. RunningOK(further)
        BY <1>3, <1>4, <1>5, <2>2 DEF RunningOK, ValidationOK
    <2>5. \A s : Behind(rules, 1, i + 1, s) => Behind(rules, 1, i, s) /\ s # stmt.sid
        BY <1>3, AdvanceBehind DEF stmt
    <2>6. \A s : Left(further, s) => Left(running, s) /\ s # stmt.sid
        BY <1>5, <1>7, <2>5 DEF Left
    <2> QED BY <2>3, <2>4, <2>6
<1>12. Len(rules) # 1 => moves(onward)
    <2> SUFFICES ASSUME Len(rules) # 1 PROVE moves(onward)
        OBVIOUS
    <2>1. /\ GroupsOK(Tail(rules))
          /\ \A g \in DOMAIN Tail(rules) :
                 g + 1 \in DOMAIN rules /\ Tail(rules)[g] = rules[g + 1]
          /\ \A s : Behind(Tail(rules), 1, 0, s)
                        => Behind(rules, 1, i, s) /\ s # rules[1][i].sid
        BY <1>3, TailOfGroups
    <2>2. Len(Tail(rules)[1]) \in Nat
        BY <2>1, GroupFacts
    <2>3. Tail(rules) \in Seq(Seq(Statement))
        BY <2>1 DEF GroupsOK
    <2>4. onward \in Validation
        BY <1>6, <2>3
    <2>5. \A g \in DOMAIN Tail(rules) : \A k \in DOMAIN Tail(rules)[g] :
              Tail(rules)[g][k].kind = "sql"
        BY <1>4, <2>1
    <2>6. RunningOK(onward)
        BY <1>6, <2>1, <2>2, <2>5 DEF RunningOK, ValidationOK
    <2>7. \A s : Left(onward, s) => Left(running, s) /\ s # stmt.sid
        BY <1>3, <1>6, <1>7, <2>1 DEF Left, stmt
    <2> QED BY <2>4, <2>6, <2>7
<1>13. moves(running')
    BY <1>2, <1>10, <1>11, <1>12
<1>14. /\ Order(engine', running', pending, built)
       /\ ReportOK(report, engine', running', pending, built)
    BY <1>3, <1>9, <1>13, AfterRunning
<1>15. RulesAreIndependent'
    <2>1. CASE running' = Idle \/ running' = onward
        BY <1>6, <2>1 DEF RulesAreIndependent, Idle
    <2>2. CASE engine' = out.engine /\ running' = further
        <3>1. out \in BindAndExecute(engine, stmt)
            BY <1>3, SqlIsBound DEF SessionKinds
        <3>2. RanTo(engine, out.engine, stmt)
            BY <1>3, <1>4, <3>1, RunOne DEF SessionKinds
        <3>3. \A effect \in engine.currentTransaction.databases.effects
                                \ engine.databases.effects :
                  \E other \in Elements(rule) : effect[2] = other.sid
            BY <1>1 DEF IInv, RulesAreIndependent, rule, i
        <3>4. Head(running'.rules) = rule
            BY <1>5, <2>2 DEF rule, rules
        <3> QED BY <1>3, <2>2, <3>2, <3>3, <3>4 DEF RanTo, RulesAreIndependent
    <2> QED BY <1>2, <2>1, <2>2
<1>16. TypeOK'
    BY <1>1, <1>9, <1>13 DEF IInv, TypeOK
<1> QED BY <1>1, <1>9, <1>13, <1>14, <1>15, <1>16 DEF IInv

-----------------------------------------------------------------------------

LEMMA StutterKeepsIInv ==
    ASSUME IInv, UNCHANGED vars
    PROVE  IInv'
BY DEF vars, IInv, TypeOK, RulesAreIndependent

LEMMA NextKeepsIInv == IInv /\ [Next]_vars => IInv'
<1> SUFFICES ASSUME IInv, [Next]_vars PROVE IInv'
    OBVIOUS
<1>1. CASE \E shape \in Shapes : AddStatement(shape)
    BY <1>1, AddStatementKeepsIInv
<1>2. CASE Execute
    BY <1>2, ExecuteKeepsIInv
<1>3. CASE UpdatePolicy
    BY <1>3, UpdatePolicyKeepsIInv
<1>4. CASE \E n \in Names : EnsureDatabase(n)
    BY <1>4, EnsureDatabaseKeepsIInv
<1>5. CASE \E n \in Names : \E shapes \in Rulesets(ImportShapes) : BeginImport(shapes, n)
    BY <1>5, BeginImportKeepsIInv
<1>6. CASE \E n \in Names : \E shapes \in Rulesets(RuleShapes) : Validate(n, shapes)
    BY <1>6, ValidateKeepsIInv
<1>7. CASE ExecuteNext
    BY <1>7, ExecuteNextKeepsIInv
<1>8. CASE ImportStatement
    BY <1>8, ImportStatementKeepsIInv
<1>9. CASE FailImport
    BY <1>9, FailImportKeepsIInv
<1>10. CASE CommitImport
    BY <1>10, CommitImportKeepsIInv
<1>11. CASE BeginRule
    BY <1>11, BeginRuleKeepsIInv
<1>12. CASE EvaluateStatement
    BY <1>12, EvaluateStatementKeepsIInv
<1>13. CASE UNCHANGED vars
    BY <1>13, StutterKeepsIInv
<1> QED BY <1>1, <1>2, <1>3, <1>4, <1>5, <1>6, <1>7, <1>8, <1>9, <1>10, <1>11, <1>12, <1>13
        DEF Next, UserStep, CallStep

\* The inductive invariant of an engine and its callers: the engine is in order, no
\* two statements that wait have one number, and none that waits has been run.
THEOREM CallersKeepOrder == Spec => []IInv
<1>1. Init => IInv
    BY InitHasIInv
<1>2. IInv /\ [Next]_vars => IInv'
    BY NextKeepsIInv
<1> QED BY <1>1, <1>2, PTL DEF Spec

\* An engine, its policy, its queue, its calls and its reports have their types, in
\* whatever order the methods of Engine, InputBatch, ImportEngine and ValidationEngine
\* are called and whichever statements throw.
THEOREM TypeIsCorrect == Spec => []TypeOK
<1>1. IInv => TypeOK
    BY DEF IInv
<1> QED BY <1>1, CallersKeepOrder, PTL

\* ValidationEngine evaluates each rule in a transaction that shows what is committed
\* and what the rule itself has done.
THEOREM EachRuleSeesTheCommitted == Spec => []RulesAreIndependent
<1>1. IInv => RulesAreIndependent
    BY DEF IInv
<1> QED BY <1>1, CallersKeepOrder, PTL

\* With trackStatementHistory, Engine.commitTx leaves no committed action without a
\* transaction in the history that recorded its statement.
THEOREM HistoryIsComplete == Spec => []HistoryExplainsCommitted
<1>1. IInv => HistoryExplainsCommitted
    BY DEF IInv, EngineInv, Explained, InHistory, HistoryExplainsCommitted
<1> QED BY <1>1, CallersKeepOrder, PTL

\* InputBatch.execute empties its queue before it runs it, and a call drops what it has
\* run: no statement is recorded by two transactions or twice by one.
THEOREM EachStatementRunsOnce == Spec => []NoStatementRunsTwice
<1>1. IInv => NoStatementRunsTwice
    <2> SUFFICES ASSUME IInv PROVE NoStatementRunsTwice
        OBVIOUS
    <2>1. NoneTwice(Runs(engine))
        BY DEF IInv, EngineInv
    <2> QED BY <2>1 DEF NoneTwice, Runs, NoStatementRunsTwice
<1> QED BY <1>1, CallersKeepOrder, PTL

-----------------------------------------------------------------------------
(* Reports *)

LEMMA UnusedLeavesNoAction ==
    ASSUME NEW e, NEW s, s \notin Used(e)
    PROVE  s \notin Recorded(e) /\ ActionsOf(e.databases, s) = {}
<1>1. s \notin Recorded(e) /\ s \notin SidsOf(e.databases.effects)
    BY DEF Used
<1>2. ASSUME NEW n, NEW k PROVE <<n, s, k>> \notin e.databases.effects
    <2>1. <<n, s, k>>[2] = s
        OBVIOUS
    <2> QED BY <1>1, <2>1 DEF SidsOf
<1> QED BY <1>1, <1>2 DEF ActionsOf

LEMMA ReportAccounts == IInv => ReportAccountsForEveryInstruction
<1> SUFFICES ASSUME IInv, report # NoReport PROVE ReportAccountsForEveryInstruction
    BY DEF ReportAccountsForEveryInstruction
<1> DEFINE ruleset == report.ruleset
           results == report.results
           splits(i) == \A j \in 1..Len(results) : (results[j] = "succeeded") <=> (j < i)
           at == CHOOSE i \in 1..Len(ruleset) + 1 : splits(i)
           behind(g) == {ruleset[g][i].sid :
                            i \in {k \in DOMAIN ruleset[g] :
                                       g = at => k > report.failedStatement}}
           unrun == UNION {behind(g) : g \in at..Len(ruleset)}
<1>1. PICK p \in 1..Len(ruleset) + 1 :
          ReportedAt(report, p, engine, running, pending, built)
    BY DEF IInv, ReportOK
<1>2. report \in Report
    BY DEF IInv, TypeOK
<1>3. /\ Len(ruleset) \in Nat
      /\ Len(results) = Len(ruleset)
      /\ results \in Seq(Status)
      /\ DOMAIN results = 1..Len(results)
    <2>1. ruleset \in Seq(Seq(Statement)) /\ results \in Seq(Status)
        BY <1>2 DEF Report
    <2>2. Len(results) = Len(ruleset)
        BY <1>1 DEF ReportedAt
    <2> HIDE DEF ruleset, results
    <2> QED BY <2>1, <2>2, LenProperties
<1>4. \A i \in 1..Len(results) :
          results[i] = (IF i < p THEN "succeeded" ELSE IF i = p THEN "failed" ELSE "notExecuted")
    BY <1>1 DEF ReportedAt
<1>5. /\ \A g \in p..Len(ruleset) : \A i \in DOMAIN ruleset[g] :
             (g = p => i > report.failedStatement)
                 => Retired(engine, running, pending, built, ruleset[g][i].sid)
      /\ report.committed <=> p > Len(ruleset)
    BY <1>1 DEF ReportedAt
<1> HIDE DEF ruleset, results
<1>6. splits(p)
    BY <1>3, <1>4
<1>7. \A i \in 1..Len(ruleset) + 1 : splits(i) => i = p
    <2> SUFFICES ASSUME NEW i \in 1..Len(ruleset) + 1, splits(i) PROVE i = p
        OBVIOUS
    <2>1. CASE i < p
        <3>1. i \in 1..Len(results) /\ ~ (i < i)
            BY <1>3, <2>1
        <3> QED BY <1>4, <2>1, <3>1
    <2>2. CASE p < i
        <3>1. p \in 1..Len(results) /\ ~ (p < p)
            BY <1>3, <2>2
        <3>2. results[p] = "failed"
            BY <1>4, <3>1
        <3> QED BY <2>2, <3>1, <3>2
    <2> QED BY <1>3, <2>1, <2>2
<1> HIDE DEF splits
<1>8. at = p
    BY <1>6, <1>7
<1> HIDE DEF at
<1>9. ASSUME NEW s \in unrun
      PROVE  s \notin Recorded(engine) /\ ActionsOf(engine.databases, s) = {}
    <2>1. PICK g \in at..Len(ruleset) : s \in behind(g)
        OBVIOUS
    <2>2. PICK i \in DOMAIN ruleset[g] :
              (g = at => i > report.failedStatement) /\ s = ruleset[g][i].sid
        BY <2>1
    <2>3. Retired(engine, running, pending, built, s)
        BY <1>5, <1>8, <2>1, <2>2
    <2> QED BY <2>3, UnusedLeavesNoAction DEF Retired
<1> HIDE DEF unrun
<1>10. /\ Len(results) = Len(ruleset)
       /\ report.committed <=> at > Len(ruleset)
       /\ \A i \in DOMAIN results :
              results[i] = (IF i < at THEN "succeeded"
                            ELSE IF i = at THEN "failed" ELSE "notExecuted")
       /\ unrun \cap Recorded(engine) = {}
       /\ \A s \in unrun : ActionsOf(engine.databases, s) = {}
    BY <1>3, <1>4, <1>5, <1>8, <1>9
<1> QED BY <1>10 DEF ReportAccountsForEveryInstruction, unrun, at, splits, ruleset, results

\* The report of ImportEngine.import has the result of every instruction, and nothing it
\* calls not executed has run or ever will.
THEOREM ReportsAreTrue == Spec => []ReportAccountsForEveryInstruction
BY CallersKeepOrder, ReportAccounts, PTL

-----------------------------------------------------------------------------
(* What a step may do to the committed databases *)

LEMMA RunsAndRollsBack ==
    ASSUME IInv, NEW stmt \in Statement, Left(running, stmt.sid), stmt.kind = "sql",
           InTransaction(engine), NEW out \in ExecuteStatement(engine, policy, stmt)
    PROVE  /\ out.engine \in EngineState
           /\ out.engine.databases = engine.databases
           /\ InTransaction(out.engine)
           /\ RanTo(engine, out.engine, stmt)
           /\ out.thrown = "none" => Done(out.engine.currentTransaction.databases, stmt)
           /\ RollbackTx(out.engine).databases = engine.databases
           /\ RollbackTx(out.engine).currentTransaction = NoTransaction
           /\ ~ InTransaction(RollbackTx(out.engine))
<1>1. /\ stmt.sid \notin Used(engine)
      /\ engine \in EngineState /\ policy \in Policy /\ EngineInv(engine, policy)
      /\ stmt.kind \notin SessionKinds
    BY DEF IInv, TypeOK, Order, Waits, SessionKinds
<1>2. out \in BindAndExecute(engine, stmt)
    BY <1>1, SqlIsBound
<1>3. /\ Kept(engine, policy, stmt, out)
      /\ InTransaction(out.engine)
      /\ out.engine.databases = engine.databases
      /\ out.thrown = "none" => Done(out.engine.currentTransaction.databases, stmt)
    BY <1>1, <1>2, RunOneKeeps
<1>4. RanTo(engine, out.engine, stmt)
    BY <1>1, <1>2, RunOne
<1>5. out.engine \in EngineState
    BY <1>3 DEF Kept
<1>6. /\ RollbackTx(out.engine).databases = out.engine.databases
      /\ ~ InTransaction(RollbackTx(out.engine))
      /\ RollbackTx(out.engine).currentTransaction = NoTransaction
    BY <1>5, RollbackTxType DEF InTransaction
<1> QED BY <1>3, <1>4, <1>5, <1>6

LEMMA StepKeepsCommitted ==
    ASSUME IInv, [Next]_vars
    PROVE  engine.databases.effects \subseteq engine'.databases.effects
<1>1. engine \in EngineState /\ policy \in Policy /\ EngineInv(engine, policy)
    BY DEF IInv, TypeOK
<1>2. ASSUME NEW stmt \in Statement, Left(running, stmt.sid),
             NEW out \in ExecuteStatement(engine, policy, stmt)
      PROVE  /\ engine.databases.effects \subseteq out.engine.databases.effects
             /\ engine.databases.effects \subseteq RollbackTx(out.engine).databases.effects
    <2>1. /\ out.engine \in EngineState
          /\ engine.databases.effects \subseteq out.engine.databases.effects
        BY <1>2, StatementRuns DEF Kept
    <2> QED BY <2>1, RollbackTxType
<1>3. ASSUME NEW n \in Names
      PROVE  LET selected == [engine EXCEPT !.currentDb = n]
             IN  /\ selected.databases = engine.databases
                 /\ BeginTx(selected).databases = engine.databases
    <2> DEFINE selected == [engine EXCEPT !.currentDb = n]
    <2>1. selected \in EngineState /\ selected.databases = engine.databases
        BY <1>1, UseDatabaseKeeps
    <2>2. \A e \in EngineState : BeginTx(e).databases = e.databases
        BY BeginTxType
    <2> HIDE DEF selected
    <2>3. BeginTx(selected).databases = engine.databases
        BY <2>1, <2>2
    <2> QED BY <2>1, <2>3 DEF selected
<1>4. CASE UNCHANGED engine
    BY <1>4
<1>5. CASE \E n \in Names : EnsureDatabase(n)
    <2>1. PICK n \in Names : EnsureDatabase(n)
        BY <1>5
    <2>2. engine'.databases = WithDatabase(engine.databases, n)
        BY <1>1, <2>1 DEF EnsureDatabase, EngineState
    <2>3. WithDatabase(engine.databases, n).effects = engine.databases.effects
        BY <1>1, EngineFields DEF WithDatabase, Databases
    <2> QED BY <2>2, <2>3
<1>6. CASE \E n \in Names : \E shapes \in Rulesets(ImportShapes) : BeginImport(shapes, n)
    BY <1>3, <1>6 DEF BeginImport
<1>7. CASE ExecuteNext
    <2>1. running.kind = "batch"
        BY <1>7 DEF ExecuteNext
    <2> QED BY <1>2, <1>7, <2>1, NextOfBatch DEF ExecuteNext
<1>8. CASE ImportStatement
    <2>1. running.kind = "import" /\ running.instruction <= Len(running.ruleset)
        BY <1>8 DEF ImportStatement
    <2> QED BY <1>2, <1>8, <2>1, NextOfImport DEF ImportStatement
<1>9. CASE FailImport
    <2>1. running.kind = "import" /\ running.instruction <= Len(running.ruleset)
        BY <1>9 DEF FailImport
    <2> QED BY <1>2, <1>9, <2>1, NextOfImport DEF FailImport
<1>10. CASE CommitImport
    <2>1. InTransaction(engine) => CommitTx(engine, policy).databases
                                       = engine.currentTransaction.databases
        BY <1>1, CommitTxType
    <2> QED BY <1>1, <1>10, <2>1 DEF CommitImport, EngineInv, KeepsCommitted
<1>11. CASE BeginRule
    <2>1. running.kind = "validation" /\ running.database \in Names
        BY <1>11, RunningType DEF BeginRule, IInv, Validation
    <2> QED BY <1>3, <1>11, <2>1 DEF BeginRule
<1>12. CASE EvaluateStatement
    <2>1. running.kind = "validation" /\ running.statement # 0
        BY <1>12 DEF EvaluateStatement
    <2> QED BY <1>2, <1>12, <2>1, NextOfRule DEF EvaluateStatement
<1> QED BY <1>4, <1>5, <1>6, <1>7, <1>8, <1>9, <1>10, <1>11, <1>12
        DEF Next, UserStep, CallStep, AddStatement, Execute, UpdatePolicy, Validate, vars

\* Engine.commitTx publishes the snapshot of its transaction over the committed databases;
\* as only one transaction is open at a time, that never undoes an action.
THEOREM CommittedActionsStay == Spec => NoCommittedActionIsLost
<1>1. IInv /\ [Next]_vars => [engine.databases.effects \subseteq engine'.databases.effects]_vars
    BY StepKeepsCommitted
<1> QED BY <1>1, CallersKeepOrder, PTL DEF Spec, NoCommittedActionIsLost

LEMMA DoneIsWhole ==
    ASSUME NEW stmt \in Statement, NEW dbs, Done(dbs, stmt)
    PROVE  IsWhole(dbs, stmt)
<1>1. stmt.actions \in 0..MaxActions /\ MaxActions \in Nat
    BY MaxActionsAssumption DEF Statement
<1>2. ASSUME NEW k \in ActionsOf(dbs, stmt.sid) PROVE k \in 1..stmt.actions
    <2>1. PICK n \in dbs.names : <<n, stmt.sid, k>> \in dbs.effects
        BY DEF ActionsOf
    <2>2. <<n, stmt.sid, k>>[2] = stmt.sid /\ <<n, stmt.sid, k>>[3] = k
        OBVIOUS
    <2> QED BY <2>1, <2>2 DEF Done
<1>3. ASSUME NEW k \in 1..stmt.actions PROVE k \in ActionsOf(dbs, stmt.sid)
    <2>1. k \in 1..MaxActions
        BY <1>1
    <2> QED BY <2>1 DEF ActionsOf, Done
<1>4. ActionsOf(dbs, stmt.sid) = 1..stmt.actions
    BY <1>2, <1>3
<1> QED BY <1>4 DEF IsWhole

LEMMA BatchStep ==
    ASSUME IInv, [Next]_vars, running.kind = "batch", ~ InTransaction(engine)
    PROVE  \/ engine'.databases = engine.databases
           \/ IsWhole(engine'.databases, Head(running.rest))
<1> DEFINE stmt == Head(running.rest)
<1>1. engine \in EngineState /\ policy \in Policy /\ EngineInv(engine, policy)
    BY DEF IInv, TypeOK
<1>2. stmt \in Statement /\ Left(running, stmt.sid)
    BY NextOfBatch
<1>3. stmt.sid \notin Used(engine)
    BY <1>2 DEF IInv, Order, Waits
<1>4. UNCHANGED engine \/ \E out \in ExecuteStatement(engine, policy, stmt) : engine' = out.engine
    <2>1. running # Idle
        BY DEF Idle
    <2> QED BY <2>1 DEF Next, UserStep, CallStep, vars, AddStatement, Execute, UpdatePolicy,
                EnsureDatabase, BeginImport, Validate, ExecuteNext, ImportStatement,
                FailImport, CommitImport, BeginRule, EvaluateStatement
<1> HIDE DEF stmt
<1>5. ASSUME NEW out \in ExecuteStatement(engine, policy, stmt), engine' = out.engine
      PROVE  engine'.databases = engine.databases \/ IsWhole(engine'.databases, stmt)
    <2>1. CASE stmt.kind = "begin"
        <3>1. out = Returns(BeginTx(engine))
            BY <1>5, <2>1 DEF ExecuteStatement
        <3> QED BY <1>1, <1>5, <3>1, BeginTxType DEF Returns
    <2>2. CASE stmt.kind = "commit"
        <3>1. out = Throws(engine, "error")
            BY <1>5, <2>2 DEF ExecuteStatement
        <3> QED BY <1>5, <3>1 DEF Throws
    <2>3. CASE stmt.kind = "rollback"
        <3>1. out = Returns(RollbackTx(engine))
            BY <1>5, <2>3 DEF ExecuteStatement
        <3> QED BY <1>1, <1>5, <3>1, RollbackTxType DEF Returns
    <2>4. CASE stmt.kind = "use_database"
        <3>1. out = Returns([engine EXCEPT !.currentDb = stmt.db])
            BY <1>5, <2>4 DEF ExecuteStatement
        <3>2. stmt.db \in Names \cup {NoName}
            BY <1>2 DEF Statement
        <3> QED BY <1>1, <1>5, <3>1, <3>2, UseDatabaseKeeps DEF Returns
    <2>5. CASE stmt.kind \notin SessionKinds
        <3>1. out \in TryExecuteAutoCommit(engine, policy, stmt)
            BY <1>5, <2>5, SqlIsBound
        <3>2. \/ out.engine.databases = engine.databases
              \/ stmt.kind = "sql" => Done(out.engine.databases, stmt)
            BY <1>1, <1>2, <1>3, <2>5, <3>1, AutoCommitKeeps
        <3>3. CASE stmt.kind = "sql"
            BY <1>2, <1>5, <3>2, <3>3, DoneIsWhole
        <3>4. CASE stmt.kind # "sql"
            BY <3>4 DEF IsWhole
        <3> QED BY <3>3, <3>4
    <2> QED BY <2>1, <2>2, <2>3, <2>4, <2>5 DEF SessionKinds
<1> QED BY <1>4, <1>5 DEF stmt

\* Engine.tryExecuteAutoCommit publishes all the actions of a statement or none.
THEOREM AutoCommitIsAllOrNothing == Spec => AutoCommitIsAtomic
<1>1. IInv /\ [Next]_vars =>
          [running.kind = "batch" /\ ~ InTransaction(engine) =>
              \/ engine'.databases = engine.databases
              \/ IsWhole(engine'.databases, Head(running.rest))]_vars
    BY BatchStep
<1> QED BY <1>1, CallersKeepOrder, PTL DEF Spec, AutoCommitIsAtomic

LEMMA ValidationStep ==
    ASSUME IInv, [Next]_vars, running.kind = "validation"
    PROVE  /\ engine'.databases = engine.databases
           /\ running'.kind # "validation" =>
                 engine'.currentTransaction =
                     IF running.statement = 0 THEN engine.currentTransaction
                     ELSE NoTransaction
<1>1. BeginRule \/ EvaluateStatement \/ UNCHANGED <<engine, running>>
    <2>1. running # Idle
        BY DEF Idle
    <2> QED BY <2>1 DEF Next, UserStep, CallStep, vars, AddStatement, Execute, UpdatePolicy,
                EnsureDatabase, BeginImport, Validate, ExecuteNext, ImportStatement,
                FailImport, CommitImport
<1>2. running \in Validation /\ engine \in EngineState /\ policy \in Policy
      /\ EngineInv(engine, policy)
    BY RunningType DEF IInv, TypeOK
<1>3. CASE BeginRule
    <2> DEFINE selected == [engine EXCEPT !.currentDb = running.database]
    <2>1. running.database \in Names
        BY <1>2 DEF Validation
    <2>2. /\ selected \in EngineState
          /\ selected.databases = engine.databases
          /\ selected.currentTransaction = engine.currentTransaction
        BY <1>2, <2>1, UseDatabaseKeeps
    <2>3. [running EXCEPT !.statement = 1].kind = "validation"
        BY <1>2 DEF Validation
    <2>4. /\ running.statement = 0
          /\ \/ engine' = engine
             \/ engine' = selected
             \/ engine' = BeginTx(selected) /\ running'.kind = "validation"
        BY <1>3, <2>3 DEF BeginRule
    <2> HIDE DEF selected
    <2> QED BY <2>2, <2>4, BeginTxType
<1>4. CASE EvaluateStatement
    <2> DEFINE stmt == Head(running.rules)[running.statement]
    <2>1. running.statement # 0
        BY <1>4 DEF EvaluateStatement
    <2>2. /\ stmt \in Statement /\ stmt.kind = "sql" /\ Left(running, stmt.sid)
          /\ InTransaction(engine)
        BY <2>1, NextOfRule
    <2>3. [running EXCEPT !.statement = @ + 1].kind = "validation"
        BY <1>2 DEF Validation
    <2>4. PICK out \in ExecuteStatement(engine, policy, stmt) :
              \/ engine' = out.engine /\ running'.kind = "validation"
              \/ engine' = RollbackTx(out.engine)
        BY <1>4, <2>3 DEF EvaluateStatement
    <2> HIDE DEF stmt
    <2> QED BY <2>1, <2>2, <2>4, RunsAndRollsBack
<1> QED BY <1>1, <1>3, <1>4

\* ValidationEngine rolls back whatever its rules did, whether they hold, are violated or
\* throw anything else, and leaves alone the transaction of a caller that has one.
THEOREM ValidationIsInvisible == Spec => ValidationLeavesNoTrace
<1>1. IInv /\ [Next]_vars =>
          [running.kind = "validation" =>
              /\ engine'.databases = engine.databases
              /\ running'.kind # "validation" =>
                    engine'.currentTransaction =
                        IF running.statement = 0 THEN engine.currentTransaction
                        ELSE NoTransaction]_vars
    BY ValidationStep
<1> QED BY <1>1, CallersKeepOrder, PTL DEF Spec, ValidationLeavesNoTrace

-----------------------------------------------------------------------------
(* Imports of statements only *)

\* The statements an import has run, with all of their actions in its transaction.
ImportHasDone ==
    running.kind = "import" =>
        /\ InTransaction(engine)
        /\ \A g \in DOMAIN running.ruleset : \A i \in DOMAIN running.ruleset[g] :
              /\ running.ruleset[g][i].kind = "sql"
              /\ g < running.instruction \/ (g = running.instruction /\ i < running.statement)
                    => Done(engine.currentTransaction.databases, running.ruleset[g][i])

LEMMA DoneStays ==
    ASSUME NEW e, NEW f, NEW stmt, NEW other, RanTo(e, f, stmt), other.sid # stmt.sid,
           Done(e.currentTransaction.databases, other)
    PROVE  Done(f.currentTransaction.databases, other)
BY DEF Done, RanTo

LEMMA ImportStatementHasDone ==
    ASSUME IInv, ImportHasDone, ImportStatement
    PROVE  ImportHasDone' /\ engine'.databases = engine.databases /\ running'.kind = "import"
<1> DEFINE ruleset == running.ruleset
           g == running.instruction
           i == running.statement
           stmt == ruleset[g][i]
<1>1. running.kind = "import" /\ g <= Len(ruleset)
    BY DEF ImportStatement
<1>2. /\ running \in Import
      /\ GroupsOK(ruleset)
      /\ g \in 1..Len(ruleset)
      /\ i \in 1..Len(ruleset[g])
      /\ stmt \in Statement
      /\ Left(running, stmt.sid)
    BY <1>1, NextOfImport
<1>3. /\ DOMAIN ruleset = 1..Len(ruleset) /\ Len(ruleset) \in Nat
      /\ \A h \in 1..Len(ruleset) :
             Len(ruleset[h]) \in Nat /\ DOMAIN ruleset[h] = 1..Len(ruleset[h])
    BY <1>2, GroupFacts
<1>4. PICK out \in ExecuteStatement(engine, policy, stmt) :
          /\ out.thrown = "none"
          /\ engine' = out.engine
          /\ \/ /\ i < Len(ruleset[g])
                /\ running' = [running EXCEPT !.statement = @ + 1]
             \/ /\ ~ (i < Len(ruleset[g]))
                /\ running' = [running EXCEPT !.instruction = @ + 1, !.statement = 1,
                                              !.results = Append(@, "succeeded")]
    BY DEF ImportStatement
<1>5. /\ running'.kind = "import" /\ running'.ruleset = ruleset
      /\ \/ i < Len(ruleset[g]) /\ running'.instruction = g /\ running'.statement = i + 1
         \/ /\ ~ (i < Len(ruleset[g]))
            /\ running'.instruction = g + 1 /\ running'.statement = 1
    BY <1>2, <1>4 DEF Import
<1>6. /\ InTransaction(engine)
      /\ \A h \in DOMAIN ruleset : \A j \in DOMAIN ruleset[h] :
            /\ ruleset[h][j].kind = "sql"
            /\ h < g \/ (h = g /\ j < i)
                  => Done(engine.currentTransaction.databases, ruleset[h][j])
    BY <1>1 DEF ImportHasDone
<1>7. stmt.kind = "sql"
    BY <1>2, <1>3, <1>6
<1>8. /\ InTransaction(out.engine)
      /\ out.engine.databases = engine.databases
      /\ RanTo(engine, out.engine, stmt)
      /\ Done(out.engine.currentTransaction.databases, stmt)
    BY <1>2, <1>4, <1>6, <1>7, RunsAndRollsBack
<1>9. ASSUME NEW h \in DOMAIN ruleset, NEW j \in DOMAIN ruleset[h],
             h < running'.instruction
                 \/ (h = running'.instruction /\ j < running'.statement)
      PROVE  Done(out.engine.currentTransaction.databases, ruleset[h][j])
    <2>1. /\ h \in Nat /\ j \in Nat /\ g \in Nat /\ i \in Nat
          /\ h \in 1..Len(ruleset) /\ j \in 1..Len(ruleset[h])
        <3>1. h \in 1..Len(ruleset) /\ j \in 1..Len(ruleset[h])
            BY <1>3
        <3> QED BY <1>2, <1>3, <3>1
    <2>2. (h = g /\ j = i) \/ h < g \/ (h = g /\ j < i)
        <3> HIDE DEF ruleset, g, i
        <3>1. CASE i < Len(ruleset[g]) /\ running'.instruction = g
                   /\ running'.statement = i + 1
            BY <1>9, <2>1, <3>1
        <3>2. CASE ~ (i < Len(ruleset[g])) /\ running'.instruction = g + 1
                   /\ running'.statement = 1
            BY <1>2, <1>3, <1>9, <2>1, <3>2
        <3> QED BY <1>5, <3>1, <3>2
    <2>3. CASE h = g /\ j = i
        BY <1>8, <2>3
    <2>4. CASE h < g \/ (h = g /\ j < i)
        <3>1. Done(engine.currentTransaction.databases, ruleset[h][j])
            BY <1>6, <2>4
        <3>2. ruleset[h][j].sid # stmt.sid
            <4>1. ~ (h = g /\ j = i)
                BY <2>1, <2>4
            <4>2. g \in DOMAIN ruleset /\ i \in DOMAIN ruleset[g]
                BY <1>2, <1>3
            <4> QED BY <1>2, <4>1, <4>2 DEF GroupsOK, DistinctIn
        <3> QED BY <1>8, <3>1, <3>2, DoneStays
    <2> QED BY <2>2, <2>3, <2>4
<1> HIDE DEF ruleset, g, i, stmt
<1>10. ImportHasDone'
    BY <1>4, <1>5, <1>6, <1>8, <1>9 DEF ImportHasDone
<1> QED BY <1>4, <1>5, <1>8, <1>10

LEMMA NextKeepsImportHasDone ==
    ASSUME \A shape \in ImportShapes : shape.kind = "sql", IInv, ImportHasDone, [Next]_vars
    PROVE  ImportHasDone'
<1>1. CASE UNCHANGED vars
    BY <1>1 DEF vars, ImportHasDone
<1>2. CASE ImportStatement
    BY <1>2, ImportStatementHasDone
<1>3. CASE \E n \in Names : \E shapes \in Rulesets(ImportShapes) : BeginImport(shapes, n)
    <2>1. PICK n \in Names, shapes \in Rulesets(ImportShapes) : BeginImport(shapes, n)
        BY <1>3
    <2> DEFINE groups == Groups(shapes, built)
               selected == [engine EXCEPT !.currentDb = n]
    <2>2. ImportShapes \in SUBSET Shape /\ built \in Nat
        BY ShapesAssumption DEF IInv, TypeOK
    <2>3. /\ GroupsOK(groups)
          /\ \A g \in DOMAIN groups : \A i \in DOMAIN groups[g] :
                 \E s \in ImportShapes : groups[g][i].kind = s.kind
        BY <2>2, GroupsAre
    <2>4. selected \in EngineState
        BY UseDatabaseKeeps DEF IInv, TypeOK
    <2>5. InTransaction(BeginTx(selected))
        BY <2>4, BeginTxType
    <2>6. \/ running' = Idle
          \/ /\ engine' = BeginTx(selected)
             /\ running' = [kind |-> "import", ruleset |-> groups,
                            instruction |-> 1, statement |-> 1, results |-> <<>>]
        BY <2>1 DEF BeginImport
    <2>7. ASSUME NEW g \in DOMAIN groups, NEW i \in DOMAIN groups[g]
          PROVE  ~ (g < 1 \/ (g = 1 /\ i < 1))
        <3> HIDE DEF groups
        <3>1. g \in 1..Len(groups)
            BY <2>3, GroupFacts
        <3>2. i \in 1..Len(groups[g])
            BY <2>3, <3>1, GroupFacts
        <3> QED BY <3>1, <3>2
    <2> HIDE DEF groups, selected
    <2>8. CASE running' = Idle
        BY <2>8 DEF ImportHasDone, Idle
    <2>9. CASE /\ engine' = BeginTx(selected)
               /\ running' = [kind |-> "import", ruleset |-> groups,
                              instruction |-> 1, statement |-> 1, results |-> <<>>]
        BY <2>3, <2>5, <2>7, <2>9 DEF ImportHasDone
    <2> QED BY <2>6, <2>8, <2>9
<1>4. CASE running' = Idle \/ (running' = running /\ running = Idle)
    BY <1>4 DEF ImportHasDone, Idle
<1>5. CASE Execute \/ \E n \in Names : \E shapes \in Rulesets(RuleShapes) : Validate(n, shapes)
    <2>1. running'.kind # "import"
        BY <1>5 DEF Execute, Validate
    <2> QED BY <2>1 DEF ImportHasDone
<1>6. CASE ExecuteNext
    <2>1. running.kind = "batch" /\ running \in Batch
        BY <1>6, RunningType DEF ExecuteNext, IInv
    <2>2. [running EXCEPT !.rest = Tail(@)].kind = "batch"
        BY <2>1 DEF Batch
    <2>3. running'.kind # "import"
        BY <1>6, <2>2 DEF ExecuteNext, Idle
    <2> QED BY <2>3 DEF ImportHasDone
<1>7. CASE BeginRule \/ EvaluateStatement
    <2>1. running.kind = "validation" /\ running \in Validation
        BY <1>7, RunningType DEF BeginRule, EvaluateStatement, IInv
    <2>2. /\ [running EXCEPT !.statement = 1].kind = "validation"
          /\ [running EXCEPT !.statement = @ + 1].kind = "validation"
          /\ [running EXCEPT !.rules = Tail(@), !.statement = 0].kind = "validation"
        BY <2>1 DEF Validation
    <2>3. Idle.kind # "import" /\ NextRule.kind # "import"
        BY <2>2 DEF Idle, NextRule
    <2>4. CASE BeginRule
        <3>1. running' = Idle \/ running' = [running EXCEPT !.statement = 1]
            BY <2>4 DEF BeginRule
        <3>2. running'.kind # "import"
            BY <2>2, <2>3, <3>1
        <3> QED BY <3>2 DEF ImportHasDone
    <2>5. CASE EvaluateStatement
        <3>1. \/ running' = Idle \/ running' = NextRule
              \/ running' = [running EXCEPT !.statement = @ + 1]
            BY <2>5 DEF EvaluateStatement
        <3>2. running'.kind # "import"
            BY <2>2, <2>3, <3>1
        <3> QED BY <3>2 DEF ImportHasDone
    <2> QED BY <1>7, <2>4, <2>5
<1>8. ASSUME \/ \E shape \in Shapes : AddStatement(shape)
             \/ UpdatePolicy
             \/ \E n \in Names : EnsureDatabase(n)
             \/ FailImport
             \/ CommitImport
      PROVE  running' = Idle \/ (running' = running /\ running = Idle)
    BY <1>8 DEF AddStatement, UpdatePolicy, EnsureDatabase, FailImport, CommitImport
<1> QED BY <1>1, <1>2, <1>3, <1>4, <1>5, <1>6, <1>7, <1>8 DEF Next, UserStep, CallStep

LEMMA ImportStep ==
    ASSUME IInv, ImportHasDone, [Next]_vars, running.kind = "import"
    PROVE  /\ \/ engine'.databases = engine.databases
              \/ /\ running' = Idle /\ report'.committed
                 /\ \A stmt \in StatementsOf(running.ruleset) : IsWhole(engine'.databases, stmt)
           /\ running' = Idle => ~ InTransaction(engine')
<1>1. \/ ImportStatement \/ FailImport \/ CommitImport
      \/ UNCHANGED <<engine, running>>
    <2>1. running # Idle
        BY DEF Idle
    <2> QED BY <2>1 DEF Next, UserStep, CallStep, vars, AddStatement, Execute, UpdatePolicy,
                EnsureDatabase, BeginImport, Validate, ExecuteNext, BeginRule,
                EvaluateStatement
<1>2. CASE UNCHANGED <<engine, running>>
    BY <1>2 DEF Idle
<1>3. CASE ImportStatement
    BY <1>3, ImportStatementHasDone DEF Idle
<1>4. CASE FailImport
    <2> DEFINE stmt == running.ruleset[running.instruction][running.statement]
    <2>1. running.instruction <= Len(running.ruleset)
        BY <1>4 DEF FailImport
    <2>2. /\ stmt \in Statement /\ Left(running, stmt.sid)
          /\ GroupsOK(running.ruleset)
          /\ running.instruction \in 1..Len(running.ruleset)
          /\ running.statement \in 1..Len(running.ruleset[running.instruction])
        BY <2>1, NextOfImport
    <2>3. /\ running.instruction \in DOMAIN running.ruleset
          /\ running.statement \in DOMAIN running.ruleset[running.instruction]
        BY <2>2, GroupFacts
    <2>4. stmt.kind = "sql" /\ InTransaction(engine)
        BY <2>3 DEF ImportHasDone
    <2>5. PICK out \in ExecuteStatement(engine, policy, stmt) : engine' = RollbackTx(out.engine)
        BY <1>4 DEF FailImport
    <2> HIDE DEF stmt
    <2> QED BY <2>2, <2>4, <2>5, RunsAndRollsBack
<1>5. CASE CommitImport
    <2>1. /\ running' = Idle /\ running.instruction > Len(running.ruleset)
          /\ InTransaction(engine)
          /\ engine' = CommitTx(engine, policy)
          /\ report' = [ruleset |-> running.ruleset, results |-> running.results,
                        failedStatement |-> 0, committed |-> TRUE]
        BY <1>5 DEF CommitImport, ImportHasDone
    <2>2. engine \in EngineState /\ policy \in Policy
        BY DEF IInv, TypeOK
    <2>3. /\ engine'.databases = engine.currentTransaction.databases
          /\ ~ InTransaction(engine')
        BY <2>1, <2>2, CommitTxType
    <2>4. report'.committed
        BY <2>1
    <2>5. ImportOK(running)
        BY DEF IInv, RunningOK
    <2>6. ASSUME NEW stmt \in StatementsOf(running.ruleset)
          PROVE  IsWhole(engine'.databases, stmt)
        <3> DEFINE ruleset == running.ruleset
        <3>1. PICK group \in Elements(ruleset) : stmt \in Elements(group)
            BY DEF StatementsOf
        <3>2. PICK g \in DOMAIN ruleset : group = ruleset[g]
            BY DEF Elements
        <3>3. PICK i \in DOMAIN ruleset[g] : stmt = ruleset[g][i]
            BY <3>1, <3>2 DEF Elements
        <3>4. GroupsOK(ruleset) /\ running.instruction \in 1..Len(ruleset) + 1
            BY <2>5 DEF ImportOK
        <3> HIDE DEF ruleset
        <3>5. g \in 1..Len(ruleset) /\ Len(ruleset) \in Nat
            BY <3>4, GroupFacts
        <3>6. i \in 1..Len(ruleset[g])
            BY <3>4, <3>5, GroupFacts
        <3>7. stmt \in Statement
            BY <3>3, <3>4, <3>5, <3>6, GroupFacts
        <3>8. g < running.instruction
            BY <2>1, <3>4, <3>5 DEF ruleset
        <3>9. Done(engine.currentTransaction.databases, stmt)
            BY <3>3, <3>8 DEF ImportHasDone, ruleset
        <3> QED BY <2>3, <3>7, <3>9, DoneIsWhole
    <2> QED BY <2>1, <2>3, <2>4, <2>6
<1> QED BY <1>1, <1>2, <1>3, <1>4, <1>5

\* ImportEngine.import publishes every action of every instruction, in the step that
\* reports it, or nothing, and closes its transaction, when its instructions hold no
\* statement that begins, commits or rolls back one.
THEOREM ImportsAreAtomic ==
    ASSUME \A shape \in ImportShapes : shape.kind = "sql"
    PROVE  Spec => ImportIsAllOrNothing
<1>1. Init => ImportHasDone
    BY DEF Init, Idle, ImportHasDone
<1>2. IInv /\ ImportHasDone /\ [Next]_vars => ImportHasDone'
    BY NextKeepsImportHasDone
<1>3. IInv /\ ImportHasDone /\ [Next]_vars =>
          [running.kind = "import" =>
              /\ \/ engine'.databases = engine.databases
                 \/ /\ running' = Idle /\ report'.committed
                    /\ \A stmt \in StatementsOf(running.ruleset) :
                           IsWhole(engine'.databases, stmt)
              /\ running' = Idle => ~ InTransaction(engine')]_vars
    BY ImportStep
<1> QED BY <1>1, <1>2, <1>3, CallersKeepOrder, PTL DEF Spec, ImportIsAllOrNothing
=============================================================================
