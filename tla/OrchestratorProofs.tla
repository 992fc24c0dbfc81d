-------------------------- MODULE OrchestratorProofs --------------------------
(***************************************************************************)
(* Proofs about Orchestrator: for any databases, discoveries and rulesets, *)
(* any statements of the user, and whatever is built from the documents.   *)
(***************************************************************************)
EXTENDS Orchestrator, EngineClientsProofs


-----------------------------------------------------------------------------
(* The inductive invariant *)

\* The databases an engine holds: the committed ones, and those of its transaction.
Snapshots(e) ==
    {e.databases} \cup IF InTransaction(e) THEN {e.currentTransaction.databases} ELSE {}

\* Every effect is on a database that is there, by a statement that has been built.
SnapshotOK(dbs, b) ==
    \A effect \in dbs.effects : effect[1] \in dbs.names /\ effect[2] \in 1..b

EngineOK(e, b) ==
    /\ KeepsCommitted(e)
    /\ \A dbs \in Snapshots(e) : SnapshotOK(dbs, b)

\* Of the b statements built, those that are not of any staging.
UserSids(b, o) == (1..b) \ DOMAIN o

ResultsOK(res) ==
    \/ res = NoResults
    \/ res.number \in Nat \ {0} /\ res.docs \in Discoveries

\* The staged effects on database n.
StagedOn(o, dbs, n) == {effect \in dbs.effects : effect[1] = n /\ effect[2] \in DOMAIN o}

\* Database n holds the results, all of them and of no others.
HoldsResults(res, o, dbs, n) ==
    /\ n \in dbs.names
    /\ \A effect \in StagedOn(o, dbs, n) : o[effect[2]] = res.number
    /\ Cardinality(StagedOn(o, dbs, n)) = Writes(res.docs)

\* Whatever becomes of the transaction that is open, n keeps the results.
IsStaged(e, res, o, n) ==
    /\ n \in StagingNames
    /\ res # NoResults
    /\ \A dbs \in Snapshots(e) : HoldsResults(res, o, dbs, n)

Importing ==
    [kind : {"importing"}, shapes : ImportRulesets, business : BusinessNames,
     source : StagingNames \cup {NoName}]

DirectedImport ==
    [kind : {"import"}, ruleset : Seq(Seq(Statement)), instruction : Nat, statement : Nat,
     results : Seq(Status), business : BusinessNames, source : StagingNames]

\* The statements of an import are its own, and none of them selects a database,
\* creates one or commits.
RulesetOK(ruleset, b, o) ==
    \A g \in DOMAIN ruleset : \A i \in DOMAIN ruleset[g] :
        ruleset[g][i].sid \in UserSids(b, o) /\ ruleset[g][i].kind \notin Forbidden

\* The target is the database selected, and in every snapshot.
TargetOK(e, n) ==
    /\ e.currentDb = n
    /\ \A dbs \in Snapshots(e) : n \in dbs.names

Staging ==
    [kind : {"staging"}, phase : {"begin", "body"}, name : StagingNames,
     rest : Seq(Statement) \ {<<>>}, body : Seq(Statement) \ {<<>>},
     import : {NoImport} \cup Importing]

\* The statements of a staging are those of the latest results.
BodyOK(body, n, res, o) ==
    /\ \E b \in Nat : body = StagingBody(res.docs, n, b)
    /\ \A s \in SidsIn(body) : s \in DOMAIN o /\ o[s] = res.number

\* The effects of a staging's statements.
OwnEffects(dbs, body) == {effect \in dbs.effects : effect[2] \in SidsIn(body)}

\* What is left of the user's queue, then BEGIN; nothing has been staged.
BeforeBegin(rest, body, e, o, b) ==
    /\ SidsIn(rest) \subseteq UserSids(b, o)
    /\ rest[Len(rest)].kind = "begin"
    /\ \A dbs \in Snapshots(e) : OwnEffects(dbs, body) = {}

\* Statement j of the body is the next: the transaction has run those before it, and
\* nothing else.
StagedUpTo(rest, body, n, j, e) ==
    LET tx == e.currentTransaction
    IN  /\ Len(rest) = Len(body) - j + 1
        /\ \A i \in 1..Len(rest) : rest[i] = body[j + i - 1]
        /\ InTransaction(e)
        /\ Elements(tx.stmts) \subseteq SidsIn(body)
        /\ OwnEffects(tx.databases, body) = {<<n, body[i].sid, 1>> : i \in 3..(j - 1)}
        /\ j > 1 => /\ n \in tx.databases.names
                    /\ \A effect \in tx.databases.effects :
                           effect[1] = n => effect[2] \in SidsIn(body)
        /\ j > 2 => e.currentDb = n

StagingOK(r, e, res, o, b, c) ==
    /\ res # NoResults
    /\ r.name # c
    /\ BodyOK(r.body, r.name, res, o)
    /\ r.phase = "begin" => BeforeBegin(r.rest, r.body, e, o, b)
    /\ r.phase = "body" => \E j \in 1..Len(r.body) : StagedUpTo(r.rest, r.body, r.name, j, e)

CallOK(r, e, res, o, b, c) ==
    \/ r = Idle
    \/ r \in Batch /\ SidsIn(r.rest) \subseteq UserSids(b, o)
    \/ r \in Importing /\ IsStaged(e, res, o, r.source)
    \/ /\ r \in DirectedImport /\ ImportOK(r)
       /\ RulesetOK(r.ruleset, b, o) /\ TargetOK(e, r.business)
       /\ IsStaged(e, res, o, r.source)
    \/ r \in Staging /\ StagingOK(r, e, res, o, b, c)

OrchestratorInv ==
    /\ PipelineTypeOK
    /\ built \in Nat /\ policy \in Policy /\ ResultsOK(results)
    /\ EngineOK(engine, built)
    /\ SidsIn(pending) \subseteq UserSids(built, origin)
    /\ draft # NoDraft => draft.stmt.sid \in UserSids(built, origin)
    /\ cached # NoName => IsStaged(engine, results, origin, cached)
    /\ CallOK(running, engine, results, origin, built, cached)

-----------------------------------------------------------------------------
(* What a statement does to the databases *)

TargetOf(e, stmt) == IF stmt.db = NoName THEN e.currentDb ELSE stmt.db

\* The effects of stmt on database n have been added, and perhaps a database.
Grows(dbs, dbs2, n, stmt) ==
    /\ dbs.names \subseteq dbs2.names
    /\ dbs.effects \subseteq dbs2.effects
    /\ \A effect \in dbs2.effects \ dbs.effects :
           /\ effect = <<n, stmt.sid, effect[3]>>
           /\ effect[3] \in 1..stmt.actions
           /\ n \in dbs2.names

LEMMA SnapshotsAre ==
    ASSUME NEW e
    PROVE  /\ e.databases \in Snapshots(e)
           /\ InTransaction(e) => e.currentTransaction.databases \in Snapshots(e)
           /\ \A dbs \in Snapshots(e) :
                  \/ dbs = e.databases
                  \/ InTransaction(e) /\ dbs = e.currentTransaction.databases
<1>1. CASE InTransaction(e)
    BY <1>1 DEF Snapshots
<1>2. CASE ~ InTransaction(e)
    BY <1>2 DEF Snapshots
<1> QED BY <1>1, <1>2

LEMMA SameGrows ==
    ASSUME NEW dbs, NEW n, NEW stmt
    PROVE  Grows(dbs, dbs, n, stmt)
BY DEF Grows

\* A statement bound in a transaction.
BoundTo(e, f, stmt) ==
    /\ f \in EngineState
    /\ f.databases = e.databases
    /\ f.currentDb = e.currentDb
    /\ InTransaction(f)
    /\ f.currentTransaction.id = e.currentTransaction.id
    /\ f.currentTransaction.stmts = Append(e.currentTransaction.stmts, stmt.sid)
    /\ Grows(e.currentTransaction.databases, f.currentTransaction.databases,
             TargetOf(e, stmt), stmt)

LEMMA RanIsBound ==
    ASSUME NEW e \in EngineState, InTransaction(e), NEW stmt \in Statement,
           NEW dbs \in Databases,
           Grows(e.currentTransaction.databases, dbs, TargetOf(e, stmt), stmt)
    PROVE  /\ BoundTo(e, Ran(e, stmt.sid, dbs), stmt)
           /\ Ran(e, stmt.sid, dbs).currentTransaction.databases = dbs
<1>1. RanTo(e, Ran(e, stmt.sid, dbs), stmt)
    <2>1. \A effect \in dbs.effects :
              \/ effect \in e.currentTransaction.databases.effects
              \/ effect[2] = stmt.sid /\ effect[3] \in 1..stmt.actions
        BY DEF Grows
    <2> QED BY <2>1, RanType DEF Grows
<1>2. /\ Ran(e, stmt.sid, dbs).currentTransaction.databases = dbs
      /\ Ran(e, stmt.sid, dbs).currentDb = e.currentDb
    BY DEF Ran, EngineState
<1> QED BY <1>1, <1>2 DEF BoundTo, RanTo

LEMMA BindGrows ==
    ASSUME NEW e \in EngineState, InTransaction(e), NEW stmt \in Statement,
           stmt.kind \notin SessionKinds, NEW out \in BindAndExecute(e, stmt)
    PROVE  LET dbs  == e.currentTransaction.databases
               dbs2 == out.engine.currentTransaction.databases
           IN  /\ BoundTo(e, out.engine, stmt)
               /\ out.thrown \in {"none"} \cup Errors
               /\ out.thrown = "none" /\ stmt.kind = "create_database" =>
                      /\ stmt.db \notin dbs.names /\ stmt.db \in dbs2.names
                      /\ dbs2.effects = dbs.effects
               /\ out.thrown = "none" /\ stmt.kind # "create_database" =>
                      \A k \in 1..stmt.actions : <<TargetOf(e, stmt), stmt.sid, k>> \in dbs2.effects
<1> DEFINE sid == stmt.sid
           dbs == e.currentTransaction.databases
           begun == [e EXCEPT !.currentTransaction.stmts = Append(@, sid)]
           n == TargetOf(e, stmt)
<1>1. /\ sid \in Nat
      /\ stmt.db \in Names \cup {NoName}
      /\ stmt.actions \in 0..MaxActions
      /\ stmt.kind = "create_database" => stmt.db # NoName
    BY DEF Statement, NamesWhatItCreates
<1>2. /\ dbs \in Databases
      /\ dbs.names \subseteq Names
      /\ dbs.effects \subseteq Names \X Nat \X (1..MaxActions)
    BY EngineFields
<1>3. /\ begun = Ran(e, sid, dbs)
      /\ begun.currentTransaction.databases = dbs
      /\ \A d : [begun EXCEPT !.currentTransaction.databases = d] = Ran(e, sid, d)
    BY <1>1, RecordedIsRan
<1>4. BoundTo(e, begun, stmt)
    <2>1. BoundTo(e, Ran(e, sid, dbs), stmt)
        BY <1>2, SameGrows, RanIsBound
    <2> HIDE DEF begun
    <2> QED BY <1>3, <2>1
<1>5. CASE stmt.kind = "create_database"
    <2> DEFINE d == WithDatabase(dbs, stmt.db)
    <2>1. d \in Databases /\ d.names = dbs.names \cup {stmt.db} /\ d.effects = dbs.effects
        BY <1>1, <1>2, <1>5 DEF WithDatabase, Databases
    <2> HIDE DEF d
    <2>2. /\ BoundTo(e, Ran(e, sid, d), stmt)
          /\ Ran(e, sid, d).currentTransaction.databases = d
        <3>1. Grows(dbs, d, n, stmt)
            BY <2>1 DEF Grows
        <3> QED BY <2>1, <3>1, RanIsBound
    <2>3. \/ out = Throws(begun, "error")
          \/ out = Returns(Ran(e, sid, d)) /\ stmt.db \notin dbs.names
        <3>1. out \in {IF stmt.db \in dbs.names
                       THEN Throws(begun, "error")
                       ELSE Returns([begun EXCEPT !.currentTransaction.databases = d])}
            BY <1>3, <1>5 DEF BindAndExecute, d
        <3> HIDE DEF begun
        <3> QED BY <1>3, <3>1
    <2> HIDE DEF begun
    <2> QED BY <1>4, <1>5, <2>1, <2>2, <2>3 DEF Throws, Returns, Errors
<1>6. CASE stmt.kind # "create_database"
    <2>1. CASE n \notin dbs.names
        <3>1. out = Throws(begun, "error")
            BY <1>6, <2>1 DEF BindAndExecute, TargetOf
        <3> HIDE DEF begun
        <3> QED BY <1>4, <3>1 DEF Throws, Errors
    <2>2. CASE n \in dbs.names
        <3> DEFINE d(k) == WithActions(dbs, n, sid, k)
        <3>1. out \in AddActions(begun, n, stmt)
            BY <1>6, <2>2 DEF BindAndExecute, TargetOf
        <3> HIDE DEF begun, n
        <3>2. PICK k \in 0..stmt.actions :
                  /\ out.engine = Ran(e, sid, d(k))
                  /\ out.thrown \in {"none"} \cup Errors
                  /\ out.thrown = "none" => k = stmt.actions
            <4>1. \A k : [begun EXCEPT !.currentTransaction.databases = WithActions(@, n, sid, k)]
                             = Ran(e, sid, d(k))
                <5> SUFFICES ASSUME NEW k
                             PROVE  [begun EXCEPT !.currentTransaction.databases =
                                         WithActions(begun.currentTransaction.databases,
                                                     n, sid, k)]
                                        = Ran(e, sid, d(k))
                    OBVIOUS
                <5> QED BY <1>3
            <4> HIDE DEF d
            <4>2. \/ out = Returns(Ran(e, sid, d(stmt.actions)))
                  \/ \E k \in {0} \cup 0..(stmt.actions - 1), error \in Errors :
                         out = Throws(Ran(e, sid, d(k)), error)
                <5> DEFINE after(k) == [begun EXCEPT !.currentTransaction.databases =
                                            WithActions(@, n, sid, k)]
                <5>1. \/ out = Returns(after(stmt.actions))
                      \/ \E k \in {0} \cup 0..(stmt.actions - 1), error \in Errors :
                             out = Throws(after(k), error)
                    BY <3>1, AddActionsIs
                <5>2. \A k : after(k) = Ran(e, sid, d(k))
                    BY <4>1
                <5> HIDE DEF after
                <5> QED BY <5>1, <5>2
            <4>3. {0} \cup 0..(stmt.actions - 1) \subseteq 0..stmt.actions
                BY <1>1, MaxActionsAssumption
            <4>4. CASE out = Returns(Ran(e, sid, d(stmt.actions)))
                BY <1>1, <4>4, MaxActionsAssumption DEF Returns
            <4>5. CASE \E k \in {0} \cup 0..(stmt.actions - 1), error \in Errors :
                           out = Throws(Ran(e, sid, d(k)), error)
                BY <4>3, <4>5 DEF Throws, Errors
            <4> QED BY <4>2, <4>4, <4>5
        <3>3. /\ d(k) \in Databases
              /\ d(k).names = dbs.names
              /\ d(k).effects = dbs.effects \cup ({n} \X {sid} \X (1..k))
            <4>1. 1..k \subseteq 1..MaxActions /\ n \in Names
                BY <1>1, <1>2, <2>2, <3>2, MaxActionsAssumption
            <4>2. {n} \X {sid} \X (1..k) \subseteq Names \X Nat \X (1..MaxActions)
                BY <1>1, <4>1
            <4> QED BY <1>2, <4>2 DEF WithActions, Databases
        <3> HIDE DEF d
        <3>4. 1..k \subseteq 1..stmt.actions
            BY <1>1, <3>2, MaxActionsAssumption
        <3>5. Grows(dbs, d(k), n, stmt)
            BY <2>2, <3>3, <3>4 DEF Grows
        <3>6. /\ BoundTo(e, Ran(e, sid, d(k)), stmt)
              /\ Ran(e, sid, d(k)).currentTransaction.databases = d(k)
            BY <3>3, <3>5, RanIsBound DEF n
        <3> QED BY <1>6, <3>2, <3>3, <3>6 DEF n
    <2> QED BY <2>1, <2>2
<1> QED BY <1>5, <1>6

LEMMA AutoCommitGrows ==
    ASSUME NEW e \in EngineState, NEW p \in Policy, NEW stmt \in Statement,
           ~ InTransaction(e), stmt.kind \notin SessionKinds,
           NEW out \in TryExecuteAutoCommit(e, p, stmt)
    PROVE  /\ out.engine \in EngineState
           /\ out.thrown \in {"none"} \cup Errors
           /\ ~ InTransaction(out.engine)
           /\ out.engine.currentDb = e.currentDb
           /\ Grows(e.databases, out.engine.databases, TargetOf(e, stmt), stmt)
<1>1. CASE ~ p.autoCommit
    <2>1. out = Throws(e, "error")
        BY <1>1 DEF TryExecuteAutoCommit
    <2> QED BY <2>1, SameGrows DEF Throws, Errors
<1>2. CASE p.autoCommit
    <2> DEFINE begun == BeginTx(e)
    <2>1. /\ begun \in EngineState
          /\ InTransaction(begun)
          /\ begun.databases = e.databases
          /\ begun.currentTransaction.databases = e.databases
        BY BeginTxType
    <2>2. begun.currentDb = e.currentDb
        BY DEF BeginTx, EngineState
    <2>3. PICK run \in BindAndExecute(begun, stmt) :
              out = IF run.thrown = "none" THEN Returns(CommitTx(run.engine, p))
                    ELSE Throws(RollbackTx(run.engine), run.thrown)
        BY <1>2 DEF TryExecuteAutoCommit
    <2> HIDE DEF begun
    <2>4. BoundTo(begun, run.engine, stmt) /\ run.thrown \in {"none"} \cup Errors
        BY <2>1, BindGrows
    <2>5. run.engine \in EngineState /\ InTransaction(run.engine)
        BY <2>4 DEF BoundTo
    <2>6. TargetOf(begun, stmt) = TargetOf(e, stmt)
        BY <2>2 DEF TargetOf
    <2>7. CASE run.thrown = "none"
        <3> DEFINE f == CommitTx(run.engine, p)
        <3>1. out.engine = f /\ out.thrown = "none"
            BY <2>3, <2>7 DEF Returns
        <3>2. /\ f \in EngineState
              /\ ~ InTransaction(f)
              /\ f.databases = run.engine.currentTransaction.databases
            BY <2>5, CommitTxType
        <3>3. f.currentDb = run.engine.currentDb
            BY <2>5 DEF CommitTx, EngineState
        <3> HIDE DEF f
        <3> QED BY <2>1, <2>2, <2>4, <2>6, <3>1, <3>2, <3>3 DEF BoundTo
    <2>8. CASE run.thrown # "none"
        <3> DEFINE f == RollbackTx(run.engine)
        <3>1. out.engine = f /\ out.thrown = run.thrown
            BY <2>3, <2>8 DEF Throws
        <3>2. /\ f \in EngineState
              /\ ~ InTransaction(f)
              /\ f.databases = run.engine.databases
            BY <2>5, RollbackTxType
        <3>3. f.currentDb = run.engine.currentDb
            BY <2>5 DEF RollbackTx, EngineState
        <3> HIDE DEF f
        <3>4. f.databases = e.databases /\ f.currentDb = e.currentDb
            BY <2>1, <2>2, <2>4, <3>2, <3>3 DEF BoundTo
        <3> QED BY <2>4, <3>1, <3>2, <3>4, SameGrows
    <2> QED BY <2>7, <2>8
<1> QED BY <1>1, <1>2

\* What a statement comes to, whatever it is.
Executed(e, out, stmt) ==
    LET f == out.engine
    IN  /\ f \in EngineState
        /\ out.thrown \in {"none"} \cup Errors
        /\ \A dbs2 \in Snapshots(f) : \E dbs \in Snapshots(e) :
               Grows(dbs, dbs2, TargetOf(e, stmt), stmt)
        /\ \/ Grows(e.databases, f.databases, TargetOf(e, stmt), stmt)
           \/ /\ stmt.kind = "commit" /\ InTransaction(e)
              /\ f.databases = e.currentTransaction.databases
        /\ KeepsCommitted(e) => KeepsCommitted(f)
        /\ stmt.kind # "use_database" => f.currentDb = e.currentDb
        /\ InTransaction(e) /\ stmt.kind \notin {"commit", "rollback"} =>
               InTransaction(f) /\ f.currentTransaction.id = e.currentTransaction.id
        /\ stmt.kind = "begin" /\ out.thrown = "none" =>
               ~ InTransaction(e) /\ f = BeginTx(e)

LEMMA ExecutedBound ==
    ASSUME NEW e \in EngineState, InTransaction(e), NEW stmt, NEW out,
           BoundTo(e, out.engine, stmt), out.thrown \in {"none"} \cup Errors,
           stmt.kind \notin SessionKinds
    PROVE  Executed(e, out, stmt)
<1> DEFINE f == out.engine
<1>1. \A dbs2 \in Snapshots(f) : \E dbs \in Snapshots(e) :
          Grows(dbs, dbs2, TargetOf(e, stmt), stmt)
    BY SnapshotsAre, SameGrows DEF BoundTo
<1>2. KeepsCommitted(e) => KeepsCommitted(f)
    BY DEF BoundTo, Grows, KeepsCommitted
<1> QED BY <1>1, <1>2, SameGrows DEF Executed, BoundTo, SessionKinds

LEMMA ExecutedUnchanged ==
    ASSUME NEW e \in EngineState, NEW stmt, NEW out,
           out.engine \in EngineState, out.thrown \in {"none"} \cup Errors,
           out.engine.databases = e.databases,
           out.engine.currentTransaction = e.currentTransaction,
           stmt.kind # "use_database" => out.engine.currentDb = e.currentDb,
           stmt.kind = "begin" => out.thrown # "none"
    PROVE  Executed(e, out, stmt)
<1> DEFINE f == out.engine
<1>1. InTransaction(f) <=> InTransaction(e)
    BY DEF InTransaction
<1>2. \A dbs2 \in Snapshots(f) : \E dbs \in Snapshots(e) :
          Grows(dbs, dbs2, TargetOf(e, stmt), stmt)
    BY <1>1, SnapshotsAre, SameGrows
<1> QED BY <1>1, <1>2, SameGrows DEF Executed, KeepsCommitted

LEMMA ExecuteGrows ==
    ASSUME NEW e \in EngineState, NEW p \in Policy, NEW stmt \in Statement,
           NEW out \in ExecuteStatement(e, p, stmt)
    PROVE  Executed(e, out, stmt)
<1>1. out = Throws(e, "error") => Executed(e, out, stmt)
    <2> SUFFICES ASSUME out = Throws(e, "error") PROVE Executed(e, out, stmt)
        OBVIOUS
    <2>1. out.engine = e /\ out.thrown = "error"
        BY DEF Throws
    <2> QED BY <2>1, ExecutedUnchanged DEF Errors
<1>2. CASE stmt.kind = "begin"
    <2>1. CASE InTransaction(e)
        BY <1>1, <1>2, <2>1 DEF ExecuteStatement
    <2>2. CASE ~ InTransaction(e)
        <3> DEFINE f == BeginTx(e)
        <3>1. out.engine = f /\ out.thrown = "none"
            BY <1>2, <2>2 DEF ExecuteStatement, Returns
        <3>2. /\ f \in EngineState
              /\ InTransaction(f)
              /\ f.databases = e.databases
              /\ f.currentTransaction.databases = e.databases
            BY BeginTxType
        <3>3. f.currentDb = e.currentDb
            BY DEF BeginTx, EngineState
        <3> HIDE DEF f
        <3>4. \A dbs2 \in Snapshots(f) : \E dbs \in Snapshots(e) :
                  Grows(dbs, dbs2, TargetOf(e, stmt), stmt)
            BY <3>2, SnapshotsAre, SameGrows
        <3> QED BY <1>2, <2>2, <3>1, <3>2, <3>3, <3>4, SameGrows
                DEF Executed, KeepsCommitted, f
    <2> QED BY <2>1, <2>2
<1>3. CASE stmt.kind = "commit"
    <2>1. CASE ~ InTransaction(e)
        BY <1>1, <1>3, <2>1 DEF ExecuteStatement
    <2>2. CASE InTransaction(e)
        <3> DEFINE f == CommitTx(e, p)
        <3>1. out.engine = f /\ out.thrown = "none"
            BY <1>3, <2>2 DEF ExecuteStatement, Returns
        <3>2. /\ f \in EngineState
              /\ ~ InTransaction(f)
              /\ f.databases = e.currentTransaction.databases
            BY <2>2, CommitTxType
        <3>3. f.currentDb = e.currentDb
            BY DEF CommitTx, EngineState
        <3> HIDE DEF f
        <3>4. \A dbs2 \in Snapshots(f) : \E dbs \in Snapshots(e) :
                  Grows(dbs, dbs2, TargetOf(e, stmt), stmt)
            BY <2>2, <3>2, SnapshotsAre, SameGrows
        <3> QED BY <1>3, <2>2, <3>1, <3>2, <3>3, <3>4 DEF Executed, KeepsCommitted
    <2> QED BY <2>1, <2>2
<1>4. CASE stmt.kind = "rollback"
    <2> DEFINE f == RollbackTx(e)
    <2>1. out.engine = f /\ out.thrown = "none"
        BY <1>4 DEF ExecuteStatement, Returns
    <2>2. /\ f \in EngineState
          /\ ~ InTransaction(f)
          /\ f.databases = e.databases
        BY RollbackTxType
    <2>3. f.currentDb = e.currentDb
        BY DEF RollbackTx, EngineState
    <2> HIDE DEF f
    <2>4. \A dbs2 \in Snapshots(f) : \E dbs \in Snapshots(e) :
              Grows(dbs, dbs2, TargetOf(e, stmt), stmt)
        BY <2>2, SnapshotsAre, SameGrows
    <2> QED BY <1>4, <2>1, <2>2, <2>3, <2>4, SameGrows DEF Executed, KeepsCommitted
<1>5. CASE stmt.kind = "use_database"
    <2> DEFINE f == [e EXCEPT !.currentDb = stmt.db]
    <2>1. out.engine = f /\ out.thrown = "none"
        BY <1>5 DEF ExecuteStatement, Returns
    <2>2. stmt.db \in Names \cup {NoName}
        BY DEF Statement
    <2>3. /\ f \in EngineState
          /\ f.databases = e.databases
          /\ f.currentTransaction = e.currentTransaction
        BY <2>2 DEF EngineState
    <2> HIDE DEF f
    <2> QED BY <1>5, <2>1, <2>3, ExecutedUnchanged
<1>6. CASE stmt.kind \notin SessionKinds
    <2>1. CASE InTransaction(e)
        <3>1. out \in BindAndExecute(e, stmt)
            BY <1>6, <2>1, SqlIsBound
        <3>2. BoundTo(e, out.engine, stmt) /\ out.thrown \in {"none"} \cup Errors
            BY <1>6, <2>1, <3>1, BindGrows
        <3> QED BY <1>6, <2>1, <3>2, ExecutedBound
    <2>2. CASE ~ InTransaction(e)
        <3> DEFINE f == out.engine
        <3>1. /\ f \in EngineState
              /\ out.thrown \in {"none"} \cup Errors
              /\ ~ InTransaction(f)
              /\ f.currentDb = e.currentDb
              /\ Grows(e.databases, f.databases, TargetOf(e, stmt), stmt)
            BY <1>6, <2>2, SqlIsBound, AutoCommitGrows
        <3>2. \A dbs2 \in Snapshots(f) : \E dbs \in Snapshots(e) :
                  Grows(dbs, dbs2, TargetOf(e, stmt), stmt)
            BY <3>1, SnapshotsAre
        <3> QED BY <1>6, <2>2, <3>1, <3>2 DEF Executed, KeepsCommitted, SessionKinds
    <2> QED BY <2>1, <2>2
<1> QED BY <1>2, <1>3, <1>4, <1>5, <1>6 DEF SessionKinds

\* The engine stays in order, and every snapshot extends an earlier one.
LEMMA EngineStaysOK ==
    ASSUME NEW e \in EngineState, NEW b \in Nat, EngineOK(e, b), NEW stmt, NEW out,
           stmt.sid \in 1..b, Executed(e, out, stmt)
    PROVE  EngineOK(out.engine, b)
<1>1. ASSUME NEW dbs2 \in Snapshots(out.engine) PROVE SnapshotOK(dbs2, b)
    <2>1. PICK dbs \in Snapshots(e) : Grows(dbs, dbs2, TargetOf(e, stmt), stmt)
        BY DEF Executed
    <2>2. SnapshotOK(dbs, b)
        BY DEF EngineOK
    <2> QED BY <2>1, <2>2 DEF Grows, SnapshotOK
<1> QED BY <1>1 DEF EngineOK, Executed

LEMMA RollbackStaysOK ==
    ASSUME NEW e \in EngineState
    PROVE  /\ RollbackTx(e) \in EngineState
           /\ ~ InTransaction(RollbackTx(e))
           /\ RollbackTx(e).databases = e.databases
           /\ RollbackTx(e).currentDb = e.currentDb
           /\ Snapshots(RollbackTx(e)) = {e.databases}
           /\ Snapshots(RollbackTx(e)) \subseteq Snapshots(e)
           /\ \A b : EngineOK(e, b) => EngineOK(RollbackTx(e), b)
<1> DEFINE f == RollbackTx(e)
<1>1. /\ f \in EngineState
      /\ ~ InTransaction(f)
      /\ f.databases = e.databases
    BY RollbackTxType
<1>2. f.currentDb = e.currentDb
    BY DEF RollbackTx, EngineState
<1> HIDE DEF f
<1>3. Snapshots(f) = {e.databases}
    BY <1>1 DEF Snapshots
<1>4. Snapshots(f) \subseteq Snapshots(e)
    BY <1>3, SnapshotsAre
<1>5. \A b : EngineOK(e, b) => EngineOK(f, b)
    BY <1>1, <1>4 DEF EngineOK, KeepsCommitted
<1> QED BY <1>1, <1>2, <1>3, <1>4, <1>5 DEF f

LEMMA CommitStaysOK ==
    ASSUME NEW e \in EngineState, NEW p \in Policy, InTransaction(e)
    PROVE  /\ CommitTx(e, p) \in EngineState
           /\ ~ InTransaction(CommitTx(e, p))
           /\ CommitTx(e, p).databases = e.currentTransaction.databases
           /\ Snapshots(CommitTx(e, p)) \subseteq Snapshots(e)
           /\ \A b : EngineOK(e, b) => EngineOK(CommitTx(e, p), b)
<1> DEFINE f == CommitTx(e, p)
<1>1. /\ f \in EngineState
      /\ ~ InTransaction(f)
      /\ f.databases = e.currentTransaction.databases
    BY CommitTxType
<1> HIDE DEF f
<1>2. Snapshots(f) \subseteq Snapshots(e)
    BY <1>1, SnapshotsAre
<1>3. \A b : EngineOK(e, b) => EngineOK(f, b)
    BY <1>1, <1>2 DEF EngineOK, KeepsCommitted
<1> QED BY <1>1, <1>2, <1>3 DEF f

-----------------------------------------------------------------------------
(* Queues of statements *)

LEMMA EmptyQueue == <<>> \in Seq(Statement) /\ SidsIn(<<>>) = {}
<1>1. DOMAIN <<>> = {}
    BY EmptyHasNoElements DEF Elements
<1> QED BY <1>1, EmptySeq DEF SidsIn

LEMMA AppendQueue ==
    ASSUME NEW q \in Seq(Statement), NEW stmt \in Statement
    PROVE  LET r == Append(q, stmt) IN
           /\ r \in Seq(Statement) \ {<<>>}
           /\ SidsIn(r) = SidsIn(q) \cup {stmt.sid}
           /\ r[Len(r)] = stmt
<1> DEFINE r == Append(q, stmt)
<1>1. /\ r \in Seq(Statement)
      /\ Len(r) = Len(q) + 1
      /\ \A i \in 1..Len(q) : r[i] = q[i]
      /\ r[Len(q) + 1] = stmt
    BY AppendProperties
<1>2. Len(q) \in Nat /\ DOMAIN q = 1..Len(q) /\ DOMAIN r = 1..Len(q) + 1
    BY <1>1, LenProperties
<1>3. r # <<>>
    BY <1>1, <1>2, EmptySeq
<1> HIDE DEF r
<1>4. SidsIn(r) = SidsIn(q) \cup {stmt.sid}
    BY <1>1, <1>2 DEF SidsIn
<1> QED BY <1>1, <1>3, <1>4 DEF r

LEMMA HeadOfQueue ==
    ASSUME NEW q \in Seq(Statement) \ {<<>>}
    PROVE  /\ Len(q) \in Nat \ {0}
           /\ Len(q) # 1 <=> Len(q) > 1
           /\ DOMAIN q = 1..Len(q)
           /\ Head(q) = q[1]
           /\ Head(q) \in Statement
           /\ Head(q).sid \in SidsIn(q)
           /\ q[Len(q)] \in Statement
<1>1. Len(q) \in Nat \ {0} /\ DOMAIN q = 1..Len(q)
    BY EmptySeq, LenProperties
<1>2. Head(q) = q[1]
    BY HeadTailProperties
<1>3. q[1] \in Statement /\ q[Len(q)] \in Statement
    BY <1>1, ElementOfSeq
<1>4. Len(q) # 1 <=> Len(q) > 1
    <2> DEFINE k == Len(q)
    <2>1. k \in Nat /\ k # 0
        BY <1>1
    <2> HIDE DEF k
    <2>2. k # 1 <=> k > 1
        BY <2>1
    <2> QED BY <2>2 DEF k
<1> QED BY <1>1, <1>2, <1>3, <1>4 DEF SidsIn

LEMMA TailOfQueue ==
    ASSUME NEW q \in Seq(Statement) \ {<<>>}, Len(q) > 1
    PROVE  /\ Tail(q) \in Seq(Statement) \ {<<>>}
           /\ Len(Tail(q)) = Len(q) - 1
           /\ \A i \in 1..(Len(q) - 1) : Tail(q)[i] = q[i + 1]
           /\ SidsIn(Tail(q)) \subseteq SidsIn(q)
<1>1. Len(q) \in Nat \ {0} /\ DOMAIN q = 1..Len(q)
    BY HeadOfQueue
<1>2. /\ Tail(q) \in Seq(Statement)
      /\ Len(Tail(q)) = Len(q) - 1
      /\ \A i \in 1..Len(Tail(q)) : Tail(q)[i] = q[i + 1]
    BY HeadTailProperties
<1>3. Tail(q) # <<>>
    <2>1. Len(Tail(q)) # 0
        BY <1>1, <1>2
    <2> DEFINE r == Tail(q)
    <2>2. r \in Seq(Statement) /\ Len(r) # 0
        BY <1>2, <2>1
    <2> HIDE DEF r
    <2>3. r # <<>>
        BY <2>2, EmptySeq
    <2> QED BY <2>3 DEF r
<1>4. DOMAIN Tail(q) = 1..(Len(q) - 1)
    BY <1>2, LenProperties
<1>5. SidsIn(Tail(q)) \subseteq SidsIn(q)
    <2> SUFFICES ASSUME NEW i \in 1..(Len(q) - 1) PROVE Tail(q)[i].sid \in SidsIn(q)
        BY <1>4 DEF SidsIn
    <2>1. Tail(q)[i] = q[i + 1] /\ i + 1 \in DOMAIN q
        BY <1>1, <1>2
    <2> QED BY <2>1 DEF SidsIn
<1> QED BY <1>2, <1>3, <1>5

-----------------------------------------------------------------------------
(* The statements of a staging *)

LEMMA WritesType ==
    ASSUME NEW docs \in Discoveries
    PROVE  Writes(docs) \in Nat
<1>1. IsFiniteSet(DOMAIN docs)
    BY PipelineAssumption
<1>2. IsFiniteSet(NodeTypes(docs))
    <2> DEFINE f == [i \in DOMAIN docs |-> docs[i].nodeType]
    <2>1. f \in Surjection(DOMAIN docs, NodeTypes(docs))
        BY DEF Surjection, NodeTypes
    <2> QED BY <1>1, <2>1, FS_Surjection
<1>3. Cardinality(NodeTypes(docs)) \in Nat
    BY <1>2, FS_CardinalityType
<1> QED BY <1>3 DEF Writes

\* The statements of a staging of w tables and INSERTs in database n.
BodyShape(body, n, w) ==
    /\ w \in Nat
    /\ body \in Seq(Statement) \ {<<>>}
    /\ Len(body) = w + 3 /\ DOMAIN body = 1..(w + 3)
    /\ \A i \in 1..(w + 3) : body[i] \in Statement /\ body[i].sid \in SidsIn(body)
    /\ \A i, k \in 1..(w + 3) : body[i].sid = body[k].sid => i = k
    /\ body[1].kind = "create_database" /\ body[1].db = n
    /\ body[2].kind = "use_database" /\ body[2].db = n
    /\ \A i \in 3..(w + 2) : body[i].kind = "sql" /\ body[i].db = NoName /\ body[i].actions = 1
    /\ body[w + 3].kind = "commit"
    /\ body[w + 3].db = NoName

LEMMA BodyIs ==
    ASSUME NEW docs \in Discoveries, NEW n \in StagingNames, NEW b \in Nat
    PROVE  /\ BodyShape(StagingBody(docs, n, b), n, Writes(docs))
           /\ SidsIn(StagingBody(docs, n, b)) = (b + 1)..(b + Writes(docs) + 3)
<1> DEFINE w == Writes(docs)
           body == StagingBody(docs, n, b)
           shape(i) == StagingShape(docs, n, i)
<1>1. w \in Nat
    BY WritesType
<1>2. /\ n \in Names /\ n # NoName
      /\ MaxActions \in Nat /\ 1 \in 0..MaxActions /\ 0 \in 0..MaxActions
    BY PipelineAssumption, NoNameAssumption, MaxActionsAssumption
<1>3. /\ shape(1) = [kind |-> "create_database", db |-> n, actions |-> 0]
      /\ shape(2) = [kind |-> "use_database", db |-> n, actions |-> 0]
      /\ \A i \in 3..(w + 2) : shape(i) = [kind |-> "sql", db |-> NoName, actions |-> 1]
      /\ shape(w + 3) = [kind |-> "commit", db |-> NoName, actions |-> 0]
    BY <1>1 DEF StagingShape
<1> HIDE DEF shape
<1>4. \A i \in 1..(w + 3) : i = 1 \/ i = 2 \/ i \in 3..(w + 2) \/ i = w + 3
    BY <1>1
<1>5. \A i \in 1..(w + 3) : shape(i) \in Shape
    BY <1>2, <1>3, <1>4 DEF Shape, StatementKinds, SessionKinds, NamesWhatItCreates
<1>6. \A i \in 1..(w + 3) : body[i] = NewStatement(shape(i), b + i)
    BY DEF StagingBody, shape
<1>7. DOMAIN body = 1..(w + 3)
    BY DEF StagingBody
<1>8. body = [i \in 1..(w + 3) |-> body[i]]
    BY DEF StagingBody
<1> HIDE DEF body, w
<1>9. \A i \in 1..(w + 3) : body[i] \in Statement /\ body[i].sid = b + i
    <2> SUFFICES ASSUME NEW i \in 1..(w + 3)
                 PROVE  body[i] \in Statement /\ body[i].sid = b + i
        OBVIOUS
    <2>1. b + i \in Nat
        BY <1>1
    <2>2. body[i] = NewStatement(shape(i), b + i) /\ shape(i) \in Shape
        BY <1>5, <1>6
    <2>3. body[i] \in Statement
        BY <2>1, <2>2, NewStatementType
    <2>4. NewStatement(shape(i), b + i).sid = b + i
        BY DEF NewStatement
    <2> QED BY <2>2, <2>3, <2>4
<1>10. body \in Seq(Statement)
    <2>1. body \in [1..(w + 3) -> Statement] /\ w + 3 \in Nat
        BY <1>1, <1>8, <1>9
    <2> QED BY <2>1, SeqDef
<1>11. Len(body) = w + 3
    BY <1>1, <1>7, <1>10, LenProperties
<1>12. body # <<>>
    BY <1>1, <1>10, <1>11, EmptySeq
<1>13. SidsIn(body) = (b + 1)..(b + w + 3)
    <2>1. SidsIn(body) = {b + i : i \in 1..(w + 3)}
        BY <1>7, <1>9 DEF SidsIn
    <2>2. ASSUME NEW s \in (b + 1)..(b + w + 3) PROVE s \in SidsIn(body)
        <3>1. s - b \in 1..(w + 3) /\ s = b + (s - b)
            BY <1>1
        <3> QED BY <2>1, <3>1
    <2>3. ASSUME NEW s \in SidsIn(body) PROVE s \in (b + 1)..(b + w + 3)
        BY <1>1, <2>1
    <2> QED BY <2>2, <2>3
<1>14. \A i \in 1..(w + 3) : /\ body[i].kind = shape(i).kind
                             /\ body[i].db = shape(i).db
                             /\ body[i].actions = shape(i).actions
    <2>1. \A sh, s : /\ NewStatement(sh, s).kind = sh.kind
                     /\ NewStatement(sh, s).db = sh.db
                     /\ NewStatement(sh, s).actions = sh.actions
        BY DEF NewStatement
    <2> QED BY <1>6, <2>1
<1>15. 1 \in 1..(w + 3) /\ 2 \in 1..(w + 3) /\ w + 3 \in 1..(w + 3) /\ 3..(w + 2) \subseteq 1..(w + 3)
    BY <1>1
<1>16. /\ body[1].kind = "create_database" /\ body[1].db = n
       /\ body[2].kind = "use_database" /\ body[2].db = n
       /\ \A i \in 3..(w + 2) :
              body[i].kind = "sql" /\ body[i].db = NoName /\ body[i].actions = 1
       /\ body[w + 3].kind = "commit" /\ body[w + 3].db = NoName
    BY <1>3, <1>14, <1>15
<1>17. \A i, k \in 1..(w + 3) : body[i].sid = body[k].sid => i = k
    BY <1>1, <1>9
<1>18. \A i \in 1..(w + 3) : body[i].sid \in SidsIn(body)
    BY <1>7 DEF SidsIn
<1>19. BodyShape(body, n, w)
    BY <1>1, <1>7, <1>9, <1>10, <1>11, <1>12, <1>16, <1>17, <1>18 DEF BodyShape
<1> QED BY <1>13, <1>19 DEF body, w

-----------------------------------------------------------------------------
(* What keeps a database staged *)

LEMMA StaysStaged ==
    ASSUME NEW e, NEW f, NEW res, NEW o, NEW n, IsStaged(e, res, o, n),
           \A dbs2 \in Snapshots(f) : \E dbs \in Snapshots(e) :
               dbs.names \subseteq dbs2.names /\ StagedOn(o, dbs2, n) = StagedOn(o, dbs, n)
    PROVE  IsStaged(f, res, o, n)
<1>1. ASSUME NEW dbs2 \in Snapshots(f) PROVE HoldsResults(res, o, dbs2, n)
    <2>1. PICK dbs \in Snapshots(e) :
              dbs.names \subseteq dbs2.names /\ StagedOn(o, dbs2, n) = StagedOn(o, dbs, n)
        OBVIOUS
    <2>2. HoldsResults(res, o, dbs, n)
        BY DEF IsStaged
    <2> QED BY <2>1, <2>2 DEF HoldsResults
<1> QED BY <1>1 DEF IsStaged

LEMMA GrowsStaged ==
    ASSUME NEW dbs, NEW dbs2, NEW m, NEW stmt, Grows(dbs, dbs2, m, stmt), NEW o, NEW n,
           m # n \/ stmt.sid \notin DOMAIN o
    PROVE  StagedOn(o, dbs2, n) = StagedOn(o, dbs, n)
<1>1. \A effect \in dbs2.effects \ dbs.effects : effect[1] = m /\ effect[2] = stmt.sid
    BY DEF Grows
<1>2. dbs.effects \subseteq dbs2.effects
    BY DEF Grows
<1> QED BY <1>1, <1>2 DEF StagedOn

\* A statement that is of no staging, or is aimed at another database.
LEMMA StatementKeepsStaged ==
    ASSUME NEW e \in EngineState, NEW out, NEW stmt, Executed(e, out, stmt), NEW o, NEW n,
           TargetOf(e, stmt) # n \/ stmt.sid \notin DOMAIN o,
           NEW res, IsStaged(e, res, o, n)
    PROVE  IsStaged(out.engine, res, o, n) /\ IsStaged(RollbackTx(out.engine), res, o, n)
<1>1. ASSUME NEW dbs2 \in Snapshots(out.engine)
      PROVE  \E dbs \in Snapshots(e) :
                 dbs.names \subseteq dbs2.names /\ StagedOn(o, dbs2, n) = StagedOn(o, dbs, n)
    <2>1. PICK dbs \in Snapshots(e) : Grows(dbs, dbs2, TargetOf(e, stmt), stmt)
        BY DEF Executed
    <2> DEFINE m == TargetOf(e, stmt)
    <2> HIDE DEF m
    <2>2. StagedOn(o, dbs2, n) = StagedOn(o, dbs, n)
        BY <2>1, GrowsStaged DEF m
    <2> QED BY <2>1, <2>2 DEF Grows
<1>2. Snapshots(RollbackTx(out.engine)) \subseteq Snapshots(out.engine)
    BY RollbackStaysOK DEF Executed
<1> QED BY <1>1, <1>2, StaysStaged

\* Building statements, of a staging or not.
LEMMA BuildingKeepsStaged ==
    ASSUME NEW e, NEW b \in Nat, EngineOK(e, b), NEW o, NEW o2,
           DOMAIN o \subseteq DOMAIN o2,
           \A s \in DOMAIN o : o2[s] = o[s],
           \A s \in DOMAIN o2 \ DOMAIN o : s \notin 1..b,
           NEW res, NEW n, IsStaged(e, res, o, n)
    PROVE  IsStaged(e, res, o2, n)
<1>1. ASSUME NEW dbs \in Snapshots(e) PROVE HoldsResults(res, o2, dbs, n)
    <2>1. HoldsResults(res, o, dbs, n) /\ SnapshotOK(dbs, b)
        BY DEF IsStaged, EngineOK
    <2>2. StagedOn(o2, dbs, n) = StagedOn(o, dbs, n)
        BY <2>1 DEF StagedOn, SnapshotOK
    <2>3. \A effect \in StagedOn(o, dbs, n) : o2[effect[2]] = o[effect[2]]
        BY DEF StagedOn
    <2> QED BY <2>1, <2>2, <2>3 DEF HoldsResults
<1> QED BY <1>1 DEF IsStaged

LEMMA MoreBuilt ==
    ASSUME NEW e, NEW b \in Nat, NEW k \in Nat
    PROVE  /\ EngineOK(e, b) => EngineOK(e, b + k)
           /\ \A o : UserSids(b, o) \subseteq UserSids(b + k, o)
           /\ \A o : DOMAIN o \subseteq 1..b => (b + 1)..(b + k) \subseteq UserSids(b + k, o)
<1>1. 1..b \subseteq 1..(b + k) /\ (b + 1)..(b + k) \subseteq 1..(b + k)
    OBVIOUS
<1>2. (b + 1)..(b + k) \cap 1..b = {}
    OBVIOUS
<1>3. EngineOK(e, b) => EngineOK(e, b + k)
    BY <1>1 DEF EngineOK, SnapshotOK
<1> QED BY <1>1, <1>2, <1>3 DEF UserSids

\* A statement of the user, or of an import.
LEMMA UserStatementRuns ==
    ASSUME NEW e \in EngineState, NEW p \in Policy, NEW stmt \in Statement, NEW b \in Nat,
           NEW o, EngineOK(e, b), stmt.sid \in UserSids(b, o),
           NEW out \in ExecuteStatement(e, p, stmt),
           NEW f \in {out.engine, RollbackTx(out.engine)}
    PROVE  /\ f \in EngineState
           /\ EngineOK(f, b)
           /\ \A res, n : IsStaged(e, res, o, n) => IsStaged(f, res, o, n)
<1>1. Executed(e, out, stmt)
    BY ExecuteGrows
<1>2. stmt.sid \in 1..b /\ stmt.sid \notin DOMAIN o
    BY DEF UserSids
<1>3. out.engine \in EngineState /\ EngineOK(out.engine, b)
    BY <1>1, <1>2, EngineStaysOK DEF Executed
<1>4. f \in EngineState /\ EngineOK(f, b)
    BY <1>3, RollbackStaysOK
<1>5. \A res, n : IsStaged(e, res, o, n) => IsStaged(f, res, o, n)
    BY <1>1, <1>2, StatementKeepsStaged
<1> QED BY <1>4, <1>5

\* A database that is created, outside any transaction.
LEMMA EnsuredStaysOK ==
    ASSUME NEW e \in EngineState, NEW n \in Names
    PROVE  LET f == [e EXCEPT !.databases = WithDatabase(@, n)] IN
           /\ f \in EngineState
           /\ f.currentTransaction = e.currentTransaction
           /\ f.currentDb = e.currentDb
           /\ f.databases.names = e.databases.names \cup {n}
           /\ f.databases.effects = e.databases.effects
           /\ \A b : EngineOK(e, b) => EngineOK(f, b)
           /\ \A res, o, m : IsStaged(e, res, o, m) => IsStaged(f, res, o, m)
<1> DEFINE d == WithDatabase(e.databases, n)
           f == [e EXCEPT !.databases = d]
<1>1. d \in Databases /\ d.names = e.databases.names \cup {n} /\ d.effects = e.databases.effects
    BY EngineFields DEF WithDatabase, Databases
<1> HIDE DEF d
<1>2. /\ f \in EngineState
      /\ f.currentTransaction = e.currentTransaction
      /\ f.currentDb = e.currentDb
      /\ f.databases = d
    BY <1>1 DEF EngineState
<1> HIDE DEF f
<1>3. \A dbs2 \in Snapshots(f) : \E dbs \in Snapshots(e) :
          dbs.names \subseteq dbs2.names /\ dbs2.effects = dbs.effects
    BY <1>1, <1>2 DEF Snapshots, InTransaction
<1>4. ASSUME NEW b, EngineOK(e, b) PROVE EngineOK(f, b)
    <2>1. KeepsCommitted(f)
        BY <1>1, <1>2, <1>4 DEF EngineOK, KeepsCommitted, InTransaction
    <2> QED BY <1>3, <1>4, <2>1 DEF EngineOK, SnapshotOK
<1>5. \A res, o, m : IsStaged(e, res, o, m) => IsStaged(f, res, o, m)
    <2>1. \A dbs, dbs2, o, m : dbs2.effects = dbs.effects => StagedOn(o, dbs2, m) = StagedOn(o, dbs, m)
        BY DEF StagedOn
    <2> QED BY <1>3, <2>1, StaysStaged
<1> QED BY <1>1, <1>2, <1>4, <1>5 DEF d, f

LEMMA SelectedStaysOK ==
    ASSUME NEW e \in EngineState, NEW n \in Names
    PROVE  LET f == [e EXCEPT !.currentDb = n] IN
           /\ f \in EngineState
           /\ f.currentDb = n
           /\ f.currentTransaction = e.currentTransaction
           /\ f.databases = e.databases
           /\ Snapshots(f) = Snapshots(e)
           /\ \A b : EngineOK(e, b) => EngineOK(f, b)
           /\ \A res, o, m : IsStaged(e, res, o, m) => IsStaged(f, res, o, m)
<1> DEFINE f == [e EXCEPT !.currentDb = n]
<1>1. /\ f \in EngineState
      /\ f.currentDb = n
      /\ f.currentTransaction = e.currentTransaction
      /\ f.databases = e.databases
    BY DEF EngineState
<1> HIDE DEF f
<1>2. Snapshots(f) = Snapshots(e)
    BY <1>1 DEF Snapshots, InTransaction
<1>3. \A b : EngineOK(e, b) => EngineOK(f, b)
    BY <1>1, <1>2 DEF EngineOK, KeepsCommitted, InTransaction
<1> QED BY <1>1, <1>2, <1>3 DEF IsStaged, f

LEMMA BegunStaysOK ==
    ASSUME NEW e \in EngineState
    PROVE  LET f == BeginTx(e) IN
           /\ f \in EngineState
           /\ InTransaction(f)
           /\ f.databases = e.databases
           /\ f.currentDb = e.currentDb
           /\ f.currentTransaction.databases = e.databases
           /\ f.currentTransaction.stmts = <<>>
           /\ Snapshots(f) = {e.databases}
           /\ Snapshots(f) \subseteq Snapshots(e)
           /\ \A b : EngineOK(e, b) => EngineOK(f, b)
           /\ \A res, o, m : IsStaged(e, res, o, m) => IsStaged(f, res, o, m)
<1> DEFINE f == BeginTx(e)
<1>1. /\ f \in EngineState
      /\ InTransaction(f)
      /\ f.databases = e.databases
      /\ f.currentTransaction.databases = e.databases
      /\ f.currentTransaction.stmts = <<>>
    BY BeginTxType
<1>2. f.currentDb = e.currentDb
    BY DEF BeginTx, EngineState
<1> HIDE DEF f
<1>3. Snapshots(f) = {e.databases}
    BY <1>1 DEF Snapshots
<1>4. Snapshots(f) \subseteq Snapshots(e)
    BY <1>3, SnapshotsAre
<1>5. \A b : EngineOK(e, b) => EngineOK(f, b)
    BY <1>1, <1>4 DEF EngineOK, KeepsCommitted
<1> QED BY <1>1, <1>2, <1>3, <1>4, <1>5 DEF f, IsStaged

-----------------------------------------------------------------------------
(* The calls of the user *)

LEMMA InvFacts ==
    ASSUME OrchestratorInv
    PROVE  /\ engine \in EngineState /\ policy \in Policy /\ EngineOK(engine, built)
           /\ built \in Nat
           /\ pending \in Seq(Statement) /\ SidsIn(pending) \subseteq UserSids(built, origin)
           /\ DOMAIN origin \subseteq 1..built
           /\ results.number \in Nat
           /\ results # NoResults => results.docs \in Discoveries /\ results.number > 0
           /\ calls \in 0..MaxCalls /\ MaxCalls \in Nat
<1>1. results.number \in Nat /\ (results # NoResults => results.docs \in Discoveries /\ results.number > 0)
    BY DEF OrchestratorInv, ResultsOK, NoResults
<1>2. MaxCalls \in Nat
    BY PipelineAssumption
<1> QED BY <1>1, <1>2 DEF OrchestratorInv, PipelineTypeOK

LEMMA IdleIsIdle ==
    /\ Idle.kind = "idle"
    /\ \A e, res, o, b, c : CallOK(Idle, e, res, o, b, c)
BY DEF Idle, CallOK

LEMMA CallFacts ==
    ASSUME OrchestratorInv, Call
    PROVE  running = Idle /\ running.kind = "idle" /\ calls' \in 0..MaxCalls
<1>1. running = Idle /\ calls < MaxCalls /\ calls' = calls + 1
    BY DEF Call
<1> QED BY <1>1, InvFacts, IdleIsIdle

\* The queue after finalizeStatement.
LEMMA FinalizedFacts ==
    ASSUME OrchestratorInv
    PROVE  Finalized \in Seq(Statement) /\ SidsIn(Finalized) \subseteq UserSids(built, origin)
<1>1. pending \in Seq(Statement) /\ SidsIn(pending) \subseteq UserSids(built, origin)
    BY InvFacts
<1>2. CASE draft = NoDraft
    BY <1>1, <1>2 DEF Finalized
<1>3. CASE draft # NoDraft
    <2>1. draft.stmt \in Statement /\ draft.stmt.sid \in UserSids(built, origin)
        BY <1>3 DEF OrchestratorInv, PipelineTypeOK
    <2>2. Finalized = Append(pending, draft.stmt)
        BY <1>3 DEF Finalized
    <2> QED BY <1>1, <2>1, <2>2, AppendQueue
<1> QED BY <1>2, <1>3

\* A statement the user builds.
LEMMA NextStatement ==
    ASSUME OrchestratorInv, NEW shape \in Shape
    PROVE  LET stmt == NewStatement(shape, built + 1) IN
           /\ stmt \in Statement
           /\ stmt.sid = built + 1
           /\ stmt.sid \in UserSids(built + 1, origin)
           /\ built + 1 \in Nat
           /\ EngineOK(engine, built + 1)
           /\ UserSids(built, origin) \subseteq UserSids(built + 1, origin)
<1>1. built \in Nat /\ EngineOK(engine, built) /\ DOMAIN origin \subseteq 1..built
    BY InvFacts
<1>2. built + 1 \in Nat /\ built + 1 \in (built + 1)..(built + 1)
    BY <1>1
<1>3. /\ EngineOK(engine, built + 1)
      /\ UserSids(built, origin) \subseteq UserSids(built + 1, origin)
      /\ built + 1 \in UserSids(built + 1, origin)
    BY <1>1, <1>2, MoreBuilt
<1>4. NewStatement(shape, built + 1) \in Statement
    BY <1>2, NewStatementType
<1>5. NewStatement(shape, built + 1).sid = built + 1
    BY DEF NewStatement
<1> QED BY <1>2, <1>3, <1>4, <1>5

LEMMA UserStatementKeepsInv ==
    ASSUME OrchestratorInv, NEW shape \in Shapes, UserStatement(shape)
    PROVE  OrchestratorInv'
<1> DEFINE stmt == NewStatement(shape, built + 1)
<1>1. /\ Call /\ draft = NoDraft
      /\ pending' = Append(pending, stmt)
      /\ built' = built + 1
      /\ UNCHANGED <<engine, policy, running, report, draft, results, cached, business, origin>>
    BY DEF UserStatement, orchestrator
<1>2. shape \in Shape
    BY ShapesAssumption
<1>3. /\ stmt \in Statement
      /\ stmt.sid \in UserSids(built', origin)
      /\ built' \in Nat
      /\ EngineOK(engine, built')
      /\ UserSids(built, origin) \subseteq UserSids(built', origin)
    BY <1>1, <1>2, NextStatement
<1> HIDE DEF stmt
<1>4. pending' \in Seq(Statement) /\ SidsIn(pending') \subseteq UserSids(built', origin)
    <2>1. pending' \in Seq(Statement) /\ SidsIn(pending') = SidsIn(pending) \cup {stmt.sid}
        BY <1>1, <1>3, InvFacts, AppendQueue
    <2> QED BY <1>3, <2>1, InvFacts
<1>5. running = Idle /\ running.kind = "idle" /\ calls' \in 0..MaxCalls
    BY <1>1, CallFacts
<1>6. \A s \in 1..built : s \in 1..built'
    BY <1>1, InvFacts
<1>7. PipelineTypeOK'
    BY <1>1, <1>4, <1>5, <1>6 DEF OrchestratorInv, PipelineTypeOK
<1> QED BY <1>1, <1>3, <1>4, <1>5, <1>7, IdleIsIdle DEF OrchestratorInv

LEMMA UserDraftKeepsInv ==
    ASSUME OrchestratorInv, NEW shape \in Shapes, NEW whole, UserDraft(shape, whole)
    PROVE  OrchestratorInv'
<1> DEFINE stmt == NewStatement(shape, built + 1)
<1>1. /\ Call
      /\ pending' = Finalized
      /\ draft' = [kind |-> "insert", whole |-> whole, stmt |-> stmt]
      /\ built' = built + 1
      /\ UNCHANGED <<engine, policy, running, report, results, cached, business, origin>>
    BY DEF UserDraft, orchestrator
<1>2. shape \in Shape
    BY ShapesAssumption
<1>3. /\ stmt \in Statement
      /\ stmt.sid \in UserSids(built', origin)
      /\ built' \in Nat
      /\ EngineOK(engine, built')
      /\ UserSids(built, origin) \subseteq UserSids(built', origin)
    BY <1>1, <1>2, NextStatement
<1> HIDE DEF stmt
<1>4. pending' \in Seq(Statement) /\ SidsIn(pending') \subseteq UserSids(built', origin)
    BY <1>1, <1>3, FinalizedFacts
<1>5. running = Idle /\ running.kind = "idle" /\ calls' \in 0..MaxCalls
    BY <1>1, CallFacts
<1>6. \A s \in 1..built : s \in 1..built'
    BY <1>1, InvFacts
<1>7. draft'.stmt = stmt
    BY <1>1
<1>8. PipelineTypeOK'
    BY <1>1, <1>3, <1>4, <1>5, <1>6, <1>7 DEF OrchestratorInv, PipelineTypeOK
<1> QED BY <1>1, <1>3, <1>4, <1>5, <1>7, <1>8, IdleIsIdle DEF OrchestratorInv

LEMMA UserExecuteKeepsInv ==
    ASSUME OrchestratorInv, UserExecute
    PROVE  OrchestratorInv'
<1>1. /\ Finalized # <<>>
      /\ running' = [kind |-> "batch", rest |-> Finalized]
      /\ pending' = <<>>
      /\ draft' = NoDraft
      /\ UNCHANGED <<engine, policy, report, built, results, cached, business, origin, calls>>
    BY DEF UserExecute, orchestrator
<1>2. Finalized \in Seq(Statement) /\ SidsIn(Finalized) \subseteq UserSids(built, origin)
    BY FinalizedFacts
<1>3. running' \in Batch /\ running'.rest = Finalized /\ running'.kind = "batch"
    BY <1>1, <1>2 DEF Batch
<1>4. CallOK(running', engine', results', origin', built', cached')
    BY <1>1, <1>2, <1>3 DEF CallOK
<1>5. pending' \in Seq(Statement) /\ SidsIn(pending') \subseteq UserSids(built', origin')
    BY <1>1, EmptyQueue
<1>6. PipelineTypeOK'
    BY <1>1, <1>3, <1>5 DEF OrchestratorInv, PipelineTypeOK
<1> QED BY <1>1, <1>4, <1>5, <1>6 DEF OrchestratorInv

LEMMA DiscoverKeepsInv ==
    ASSUME OrchestratorInv, NEW docs \in Discoveries, Discover(docs)
    PROVE  OrchestratorInv'
<1>1. /\ Call
      /\ results' = [number |-> results.number + 1, docs |-> docs]
      /\ cached' = NoName
      /\ report' = NoReport
      /\ UNCHANGED <<engine, policy, pending, running, built, draft, business, origin>>
    BY DEF Discover
<1>2. running = Idle /\ running.kind = "idle" /\ calls' \in 0..MaxCalls
    BY <1>1, CallFacts
<1>3. results.number \in Nat /\ results'.number = results.number + 1 /\ results'.docs = docs
    BY <1>1, InvFacts
<1>4. ResultsOK(results')
    BY <1>3 DEF ResultsOK
<1>5. \A s \in DOMAIN origin : origin[s] \in 1..results'.number
    BY <1>3 DEF OrchestratorInv, PipelineTypeOK
<1>6. PipelineTypeOK'
    BY <1>1, <1>2, <1>5 DEF OrchestratorInv, PipelineTypeOK
<1> QED BY <1>1, <1>2, <1>4, <1>6, IdleIsIdle DEF OrchestratorInv

LEMMA BuildBusinessDatabaseKeepsInv ==
    ASSUME OrchestratorInv, NEW n \in BusinessNames, BuildBusinessDatabase(n)
    PROVE  OrchestratorInv'
<1>1. /\ Call
      /\ \/ UNCHANGED <<engine, report, business>>
         \/ /\ engine' = [engine EXCEPT !.databases = WithDatabase(@, n)]
            /\ business' = WithBusiness(n, Build(results.docs, RootNodeType))
            /\ report' = NoReport
      /\ UNCHANGED <<policy, pending, running, built, draft, results, cached, origin>>
    BY DEF BuildBusinessDatabase
<1>2. running = Idle /\ running.kind = "idle" /\ calls' \in 0..MaxCalls
    BY <1>1, CallFacts
<1>3. n \in Names
    BY PipelineAssumption
<1>4. /\ engine' \in EngineState
      /\ EngineOK(engine', built)
      /\ \A res, o, m : IsStaged(engine, res, o, m) => IsStaged(engine', res, o, m)
    BY <1>1, <1>3, InvFacts, EnsuredStaysOK
<1>5. DOMAIN business' \subseteq BusinessNames /\ report' \in {NoReport} \cup Report
    BY <1>1 DEF OrchestratorInv, PipelineTypeOK, WithBusiness
<1>6. PipelineTypeOK'
    BY <1>1, <1>2, <1>4, <1>5 DEF OrchestratorInv, PipelineTypeOK
<1> QED BY <1>1, <1>2, <1>4, <1>6, IdleIsIdle DEF OrchestratorInv

-----------------------------------------------------------------------------
(* A staging *)

LEMMA NoNameIsNoDatabase == NoName \notin StagingNames
BY PipelineAssumption, NoNameAssumption

\* The call that asked for the staging: the user's, or an import that comes next.
LEMMA StartStagingKeepsInv ==
    ASSUME OrchestratorInv, Call, results # NoResults, NEW n \in StagingNames, NEW next,
           next \in {NoImport} \cup Importing,
           StartStaging(n, next),
           UNCHANGED <<engine, policy, report, draft, results, cached, business>>
    PROVE  OrchestratorInv'
<1>1. running = Idle /\ running.kind = "idle" /\ calls' \in 0..MaxCalls
    BY CallFacts
<1>2. CASE UNCHANGED <<pending, running, built, origin>>
    <2>1. PipelineTypeOK'
        BY <1>1, <1>2 DEF OrchestratorInv, PipelineTypeOK
    <2> QED BY <1>1, <1>2, <2>1 DEF OrchestratorInv
<1>3. CASE ~ UNCHANGED <<pending, running, built, origin>>
    <2> DEFINE docs == results.docs
               body == StagingBody(docs, n, built + 1)
               begin == NewStatement(Begin, built + 1)
               rest == Append(pending, begin)
               w == Writes(docs)
    <2>1. /\ n \notin engine.databases.names /\ draft = NoDraft
          /\ running' = [kind |-> "staging", phase |-> "begin", name |-> n,
                         rest |-> rest, body |-> body, import |-> next]
          /\ pending' = <<>>
          /\ built' = built + 1 + Len(body)
          /\ origin' = [s \in DOMAIN origin \cup SidsIn(body) |->
                           IF s \in SidsIn(body) THEN results.number ELSE origin[s]]
        BY <1>3 DEF StartStaging
    <2>2. docs \in Discoveries /\ built \in Nat /\ built + 1 \in Nat
        BY InvFacts
    <2>3. /\ body \in Seq(Statement) \ {<<>>}
          /\ Len(body) = w + 3
          /\ SidsIn(body) = (built + 1 + 1)..(built + 1 + w + 3)
          /\ w \in Nat
        <3>1. BodyShape(body, n, w) /\ SidsIn(body) = (built + 1 + 1)..(built + 1 + w + 3)
            BY <2>2, BodyIs
        <3> HIDE DEF body, w
        <3> QED BY <3>1 DEF BodyShape
    <2>4. BodyOK(body, n, results, origin')
        <3>1. \E b \in Nat : body = StagingBody(results.docs, n, b)
            BY <2>2
        <3> HIDE DEF body
        <3> QED BY <2>1, <3>1 DEF BodyOK
    <2>5. /\ rest \in Seq(Statement) \ {<<>>}
          /\ SidsIn(rest) = SidsIn(pending) \cup {built + 1}
          /\ rest[Len(rest)].kind = "begin"
        <3>1. Begin \in Shape
            BY MaxActionsAssumption DEF Begin, Shape, StatementKinds, SessionKinds, NamesWhatItCreates
        <3>2. begin \in Statement
            BY <2>2, <3>1, NewStatementType
        <3>3. begin.sid = built + 1 /\ begin.kind = "begin"
            BY DEF NewStatement, Begin
        <3> HIDE DEF begin
        <3> QED BY <3>2, <3>3, InvFacts, AppendQueue
    <2> HIDE DEF body, rest, w
    <2>6. /\ built' = built + (w + 4)
          /\ DOMAIN origin' = DOMAIN origin \cup SidsIn(body)
          /\ \A s \in SidsIn(body) : s \in 1..built' /\ s \notin 1..(built + 1)
          /\ w + 4 \in Nat /\ built' \in Nat
        BY <2>1, <2>2, <2>3
    <2>7. /\ 1..built \subseteq 1..built' /\ built + 1 \in 1..built' /\ 1..built \subseteq 1..(built + 1)
          /\ built + 1 \notin 1..built
        BY <2>2, <2>3, <2>6
    <2>8. /\ SidsIn(pending) \subseteq UserSids(built', origin')
          /\ built + 1 \in UserSids(built', origin')
        BY <2>6, <2>7, InvFacts DEF UserSids
    <2>9. EngineOK(engine, built')
        BY <2>2, <2>6, InvFacts, MoreBuilt
    <2>10. \A s \in DOMAIN origin : origin'[s] = origin[s]
        BY <2>1, <2>6, <2>7, InvFacts
    <2>11. cached # NoName => IsStaged(engine, results, origin', cached)
        <3>1. \A s \in DOMAIN origin' \ DOMAIN origin : s \notin 1..built
            BY <2>6, <2>7
        <3> QED BY <2>2, <2>6, <2>10, <3>1, BuildingKeepsStaged, InvFacts DEF OrchestratorInv
    <2>12. n # cached
        <3>1. CASE cached = NoName
            BY <3>1, NoNameIsNoDatabase
        <3>2. CASE cached # NoName
            BY <2>1, <3>2, SnapshotsAre DEF OrchestratorInv, IsStaged, HoldsResults
        <3> QED BY <3>1, <3>2
    <2>13. BeforeBegin(rest, body, engine, origin', built')
        <3>1. \A dbs \in Snapshots(engine) : OwnEffects(dbs, body) = {}
            <4>1. \A s \in SidsIn(body) : s \notin 1..built
                BY <2>6, <2>7
            <4> QED BY <4>1, InvFacts DEF EngineOK, SnapshotOK, OwnEffects
        <3> QED BY <2>5, <2>8, <3>1 DEF BeforeBegin
    <2>14. /\ running' \in Staging
           /\ running'.kind = "staging" /\ running'.phase = "begin" /\ running'.name = n
           /\ running'.rest = rest /\ running'.body = body
        BY <2>1, <2>3, <2>5 DEF Staging
    <2>15. CallOK(running', engine', results', origin', built', cached')
        BY <2>4, <2>12, <2>13, <2>14 DEF CallOK, StagingOK
    <2>16. pending' \in Seq(Statement) /\ SidsIn(pending') \subseteq UserSids(built', origin')
        BY <2>1, EmptyQueue
    <2>17. \A s \in DOMAIN origin' : s \in 1..built' /\ origin'[s] \in 1..results.number
        <3>1. \A s \in DOMAIN origin : s \in 1..built /\ origin[s] \in 1..results.number
            BY DEF OrchestratorInv, PipelineTypeOK
        <3>2. results.number \in 1..results.number
            BY InvFacts
        <3> QED BY <2>1, <2>6, <2>7, <2>10, <3>1, <3>2
    <2>18. PipelineTypeOK'
        BY <1>1, <2>1, <2>3, <2>5, <2>14, <2>16, <2>17 DEF OrchestratorInv, PipelineTypeOK
    <2> QED BY <2>1, <2>6, <2>9, <2>11, <2>15, <2>16, <2>18 DEF OrchestratorInv
<1> QED BY <1>2, <1>3

LEMMA BuildDiscoveryDatabaseKeepsInv ==
    ASSUME OrchestratorInv, NEW n \in StagingNames, BuildDiscoveryDatabase(n)
    PROVE  OrchestratorInv'
BY StartStagingKeepsInv DEF BuildDiscoveryDatabase

LEMMA ImportFromDiscoveryKeepsInv ==
    ASSUME OrchestratorInv, NEW shapes \in ImportRulesets, NEW staging \in StagingNames,
           NEW n \in BusinessNames, ImportFromDiscovery(shapes, staging, n)
    PROVE  OrchestratorInv'
<1> DEFINE next == [kind |-> "importing", shapes |-> shapes, business |-> n, source |-> cached]
<1>1. /\ Call
      /\ UNCHANGED <<engine, policy, report, draft, results, cached, business>>
    BY DEF ImportFromDiscovery
<1>2. next \in Importing /\ next.kind = "importing" /\ next.source = cached
    BY DEF OrchestratorInv, PipelineTypeOK, Importing
<1>3. CASE cached # NoName
    <2>1. running' = next /\ UNCHANGED <<pending, built, origin>>
        BY <1>3 DEF ImportFromDiscovery
    <2> HIDE DEF next
    <2>2. running = Idle /\ running.kind = "idle" /\ calls' \in 0..MaxCalls
        BY <1>1, CallFacts
    <2>3. CallOK(running', engine', results', origin', built', cached')
        BY <1>1, <1>2, <1>3, <2>1 DEF CallOK, OrchestratorInv
    <2>4. PipelineTypeOK'
        BY <1>1, <1>2, <2>1, <2>2 DEF OrchestratorInv, PipelineTypeOK
    <2> QED BY <1>1, <2>1, <2>3, <2>4 DEF OrchestratorInv
<1>4. CASE cached = NoName
    <2>1. results # NoResults /\ StartStaging(staging, next)
        BY <1>4 DEF ImportFromDiscovery
    <2> HIDE DEF next
    <2> QED BY <1>1, <1>2, <2>1, StartStagingKeepsInv
<1> QED BY <1>3, <1>4

LEMMA StagingFacts ==
    ASSUME OrchestratorInv, running.kind = "staging"
    PROVE  running \in Staging /\ StagingOK(running, engine, results, origin, built, cached)
BY DEF OrchestratorInv, CallOK, Idle, Batch, Importing, DirectedImport

WithRest(r, q) == [r EXCEPT !.rest = q]

Begun(r, q) == [r EXCEPT !.phase = "body", !.rest = q]

LEMMA NextOfStaging ==
    ASSUME NEW r \in Staging, NEW q \in Seq(Statement) \ {<<>>}
    PROVE  /\ WithRest(r, q) \in Staging /\ WithRest(r, q).kind = "staging"
           /\ WithRest(r, q).phase = r.phase /\ WithRest(r, q).name = r.name
           /\ WithRest(r, q).body = r.body /\ WithRest(r, q).rest = q
           /\ Begun(r, q) \in Staging /\ Begun(r, q).kind = "staging"
           /\ Begun(r, q).phase = "body" /\ Begun(r, q).name = r.name
           /\ Begun(r, q).body = r.body /\ Begun(r, q).rest = q
BY DEF Staging, WithRest, Begun

LEMMA BodyHasShape ==
    ASSUME NEW n \in StagingNames, NEW res, res.docs \in Discoveries, NEW o, NEW body,
           BodyOK(body, n, res, o)
    PROVE  BodyShape(body, n, Writes(res.docs))
<1>1. PICK b \in Nat : body = StagingBody(res.docs, n, b)
    BY DEF BodyOK
<1> QED BY <1>1, BodyIs

\* Statement j is the head of the queue, and its target is the database staged.
LEMMA BodyStatement ==
    ASSUME NEW e, NEW n \in StagingNames, NEW body, NEW w, BodyShape(body, n, w),
           NEW rest \in Seq(Statement) \ {<<>>}, NEW j \in 1..(w + 3),
           StagedUpTo(rest, body, n, j, e)
    PROVE  /\ Head(rest) = body[j]
           /\ body[j] \in Statement
           /\ body[j].sid \in SidsIn(body)
           /\ TargetOf(e, body[j]) = n
<1>1. w \in Nat /\ body[j] \in Statement /\ body[j].sid \in SidsIn(body)
    BY DEF BodyShape
<1>2. Head(rest) = rest[1] /\ Len(rest) \in Nat \ {0}
    BY HeadOfQueue
<1>3. 1 \in 1..Len(rest) /\ j + 1 - 1 = j
    BY <1>1, <1>2
<1>4. rest[1] = body[j]
    BY <1>3 DEF StagedUpTo
<1>5. n # NoName
    BY NoNameIsNoDatabase
<1>6. TargetOf(e, body[j]) = n
    <2>1. CASE j = 1
        BY <1>5, <2>1 DEF TargetOf, BodyShape
    <2>2. CASE j = 2
        BY <1>5, <2>2 DEF TargetOf, BodyShape
    <2>3. CASE j > 2
        <3>1. j \in 3..(w + 2) \/ j = w + 3
            BY <1>1, <2>3
        <3>2. body[j].db = NoName
            BY <3>1 DEF BodyShape
        <3> QED BY <2>3, <3>2 DEF TargetOf, StagedUpTo
    <2> QED BY <1>1, <2>1, <2>2, <2>3
<1> QED BY <1>1, <1>2, <1>4, <1>6

\* Before its COMMIT a staging publishes nothing; its COMMIT does not throw.
LEMMA BodyStatementPublishes ==
    ASSUME NEW e \in EngineState, NEW p \in Policy, InTransaction(e), NEW n, NEW body, NEW w,
           BodyShape(body, n, w), NEW j \in 1..(w + 3),
           NEW out \in ExecuteStatement(e, p, body[j])
    PROVE  /\ j # w + 3 => out.engine.databases = e.databases
           /\ j = w + 3 => out = Returns(CommitTx(e, p))
<1> DEFINE stmt == body[j]
<1>1. w \in Nat /\ stmt \in Statement
    BY DEF BodyShape
<1>2. CASE j = 2
    <2>1. stmt.kind = "use_database"
        BY <1>2 DEF BodyShape
    <2> HIDE DEF stmt
    <2>2. out.engine = [e EXCEPT !.currentDb = stmt.db]
        BY <2>1 DEF ExecuteStatement, Returns, stmt
    <2>3. out.engine.databases = e.databases
        BY <2>2 DEF EngineState
    <2>4. j # w + 3
        BY <1>1, <1>2
    <2> QED BY <2>3, <2>4
<1>3. CASE j = w + 3
    <2>1. stmt.kind = "commit"
        BY <1>3 DEF BodyShape
    <2> QED BY <1>3, <2>1 DEF ExecuteStatement
<1>4. CASE j # 2 /\ j # w + 3
    <2>1. j = 1 \/ j \in 3..(w + 2)
        BY <1>1, <1>4
    <2>2. stmt.kind \notin SessionKinds
        BY <2>1 DEF BodyShape, SessionKinds
    <2> HIDE DEF stmt
    <2>3. out \in BindAndExecute(e, stmt)
        BY <1>1, <2>2, SqlIsBound DEF stmt
    <2>4. BoundTo(e, out.engine, stmt)
        BY <1>1, <2>2, <2>3, BindGrows
    <2> QED BY <1>4, <2>4 DEF BoundTo
<1> QED BY <1>2, <1>3, <1>4

\* A statement of the body that returns leaves the next one to run.
LEMMA StagedOneMore ==
    ASSUME NEW e \in EngineState, NEW p \in Policy, NEW b, EngineOK(e, b),
           NEW n \in StagingNames, NEW body, NEW w, BodyShape(body, n, w),
           NEW rest \in Seq(Statement) \ {<<>>}, NEW j \in 1..(w + 2),
           StagedUpTo(rest, body, n, j, e),
           NEW out \in ExecuteStatement(e, p, body[j]), out.thrown = "none"
    PROVE  /\ Len(rest) > 1
           /\ StagedUpTo(Tail(rest), body, n, j + 1, out.engine)
<1> DEFINE stmt == body[j]
           f == out.engine
           tx == e.currentTransaction
           tx2 == f.currentTransaction
           own(k) == {<<n, body[i].sid, 1>> : i \in 3..k}
<1>1. /\ w \in Nat /\ Len(body) = w + 3 /\ j \in 1..(w + 3) /\ j \in Nat
      /\ \A i \in 1..(w + 3) : body[i] \in Statement /\ body[i].sid \in SidsIn(body)
    BY DEF BodyShape
<1>2. stmt \in Statement /\ stmt.sid \in SidsIn(body) /\ stmt.sid \in Nat
    BY <1>1 DEF Statement
<1>3. /\ Len(rest) = w + 3 - j + 1
      /\ \A i \in 1..Len(rest) : rest[i] = body[j + i - 1]
      /\ InTransaction(e)
      /\ Elements(tx.stmts) \subseteq SidsIn(body)
      /\ OwnEffects(tx.databases, body) = own(j - 1)
      /\ j > 1 => /\ n \in tx.databases.names
                  /\ \A effect \in tx.databases.effects :
                         effect[1] = n => effect[2] \in SidsIn(body)
      /\ j > 2 => e.currentDb = n
    BY <1>1 DEF StagedUpTo
<1>4. TargetOf(e, stmt) = n
    BY <1>1, BodyStatement
<1>5. Len(rest) > 1
    BY <1>1, <1>3
<1>6. /\ Len(Tail(rest)) = Len(body) - (j + 1) + 1
      /\ \A i \in 1..Len(Tail(rest)) : Tail(rest)[i] = body[(j + 1) + i - 1]
    <2>1. /\ Len(Tail(rest)) = Len(rest) - 1
          /\ \A i \in 1..(Len(rest) - 1) : Tail(rest)[i] = rest[i + 1]
        BY <1>5, TailOfQueue
    <2>2. \A i \in 1..(Len(rest) - 1) : i + 1 \in 1..Len(rest) /\ j + (i + 1) - 1 = (j + 1) + i - 1
        BY <1>1, <1>3
    <2> QED BY <1>1, <1>3, <2>1, <2>2
<1> HIDE DEF stmt, own
\* What remains to show of the engine.
<1> DEFINE advances ==
               /\ InTransaction(f)
               /\ Elements(tx2.stmts) \subseteq SidsIn(body)
               /\ OwnEffects(tx2.databases, body) = own(j)
               /\ n \in tx2.databases.names
               /\ \A effect \in tx2.databases.effects : effect[1] = n => effect[2] \in SidsIn(body)
               /\ j + 1 > 2 => f.currentDb = n
<1>7. j < 3 => own(j) = own(j - 1)
    <2>1. j < 3 => 3..j = {} /\ 3..(j - 1) = {}
        BY <1>1
    <2> QED BY <2>1 DEF own
<1>8. ASSUME j = 2 PROVE advances
    <2>1. stmt.kind = "use_database" /\ stmt.db = n
        BY <1>8 DEF BodyShape, stmt
    <2>2. f = [e EXCEPT !.currentDb = n]
        BY <2>1 DEF ExecuteStatement, Returns, stmt
    <2>3. f.currentDb = n /\ tx2 = tx
        BY <2>2 DEF EngineState
    <2> HIDE DEF f
    <2>4. InTransaction(f)
        BY <1>3, <2>3 DEF InTransaction
    <2> QED BY <1>3, <1>7, <1>8, <2>3, <2>4
<1>9. ASSUME j # 2
      PROVE  /\ stmt.kind \notin SessionKinds
             /\ out \in BindAndExecute(e, stmt)
             /\ BoundTo(e, f, stmt)
             /\ Elements(tx2.stmts) \subseteq SidsIn(body)
             /\ InTransaction(f)
    <2>1. j = 1 \/ j \in 3..(w + 2)
        BY <1>1, <1>9
    <2>2. stmt.kind \notin SessionKinds
        BY <2>1 DEF BodyShape, SessionKinds, stmt
    <2>3. out \in BindAndExecute(e, stmt)
        BY <1>2, <1>3, <2>2, SqlIsBound DEF stmt
    <2>4. BoundTo(e, f, stmt)
        BY <1>2, <1>3, <2>2, <2>3, BindGrows
    <2>5. tx2.stmts = Append(tx.stmts, stmt.sid) /\ tx.stmts \in Seq(Nat)
        BY <1>3, <2>4, EngineFields DEF BoundTo
    <2>6. Elements(tx2.stmts) = Elements(tx.stmts) \cup {stmt.sid}
        BY <1>2, <2>5, AppendElements
    <2> QED BY <1>2, <1>3, <2>2, <2>3, <2>4, <2>6 DEF BoundTo
<1>10. ASSUME j = 1 PROVE advances
    <2>1. stmt.kind = "create_database" /\ stmt.db = n
        BY <1>10 DEF BodyShape, stmt
    <2>2. /\ stmt.db \notin tx.databases.names /\ stmt.db \in tx2.databases.names
          /\ tx2.databases.effects = tx.databases.effects
        BY <1>2, <1>3, <1>9, <1>10, <2>1, BindGrows
    <2>3. SnapshotOK(tx.databases, b)
        BY <1>3, SnapshotsAre DEF EngineOK
    <2>4. \A effect \in tx2.databases.effects : effect[1] # n
        BY <2>1, <2>2, <2>3 DEF SnapshotOK
    <2>5. OwnEffects(tx2.databases, body) = own(j)
        BY <1>3, <1>7, <1>10, <2>2 DEF OwnEffects
    <2> QED BY <1>9, <1>10, <2>1, <2>2, <2>4, <2>5
<1>11. ASSUME j > 2 PROVE advances
    <2>1. j \in 3..(w + 2)
        BY <1>1, <1>11
    <2>2. stmt.kind = "sql" /\ stmt.actions = 1
        BY <2>1 DEF BodyShape, stmt
    <2>3. /\ Grows(tx.databases, tx2.databases, n, stmt)
          /\ f.currentDb = e.currentDb
        BY <1>4, <1>9, <1>11 DEF BoundTo
    <2>4. <<n, stmt.sid, 1>> \in tx2.databases.effects
        <3>1. \A k \in 1..stmt.actions : <<n, stmt.sid, k>> \in tx2.databases.effects
            BY <1>2, <1>3, <1>4, <1>9, <1>11, <2>2, BindGrows
        <3>2. 1 \in 1..stmt.actions
            BY <2>2
        <3> QED BY <3>1, <3>2
    <2>5. tx2.databases.effects = tx.databases.effects \cup {<<n, stmt.sid, 1>>}
        <3>1. \A effect \in tx2.databases.effects \ tx.databases.effects :
                  effect = <<n, stmt.sid, effect[3]>> /\ effect[3] = 1
            BY <2>2, <2>3 DEF Grows
        <3>2. tx.databases.effects \subseteq tx2.databases.effects
            BY <2>3 DEF Grows
        <3> QED BY <2>4, <3>1, <3>2
    <2>6. OwnEffects(tx2.databases, body) = OwnEffects(tx.databases, body) \cup {<<n, stmt.sid, 1>>}
        BY <1>2, <2>5 DEF OwnEffects
    <2>7. own(j) = own(j - 1) \cup {<<n, stmt.sid, 1>>}
        <3>1. 3..j = (3..(j - 1)) \cup {j}
            BY <1>1, <1>11
        <3> QED BY <3>1 DEF own, stmt
    <2>8. n \in tx2.databases.names
        BY <1>3, <1>11, <2>3 DEF Grows
    <2>9. \A effect \in tx2.databases.effects : effect[1] = n => effect[2] \in SidsIn(body)
        <3>1. \A effect \in tx.databases.effects : effect[1] = n => effect[2] \in SidsIn(body)
            BY <1>1, <1>3, <1>11
        <3> QED BY <1>2, <2>5, <3>1
    <2> QED BY <1>3, <1>9, <1>11, <2>3, <2>6, <2>7, <2>8, <2>9
<1>12. advances
    BY <1>1, <1>8, <1>10, <1>11
<1>13. j + 1 - 1 = j
    BY <1>1
<1> QED BY <1>5, <1>6, <1>12, <1>13 DEF StagedUpTo, own

\* The transaction that a staging commits holds the results and nothing else.
LEMMA StagedAll ==
    ASSUME NEW n \in StagingNames, NEW res, res # NoResults, res.docs \in Discoveries,
           NEW o, NEW body, BodyOK(body, n, res, o), NEW rest, NEW e,
           StagedUpTo(rest, body, n, Writes(res.docs) + 3, e)
    PROVE  LET dbs == e.currentTransaction.databases IN
           /\ HoldsResults(res, o, dbs, n)
           /\ n \in dbs.names
           /\ \A i \in DOMAIN body : IsWhole(dbs, body[i])
<1> DEFINE w == Writes(res.docs)
           dbs == e.currentTransaction.databases
           sid(i) == body[i].sid
           own == {<<n, sid(i), 1>> : i \in 3..(w + 2)}
<1>1. BodyShape(body, n, w)
    BY BodyHasShape
<1>2. w \in Nat /\ w + 3 > 1 /\ (w + 3) - 1 = w + 2
    BY <1>1 DEF BodyShape
<1>3. /\ n \in dbs.names
      /\ \A effect \in dbs.effects : effect[1] = n => effect[2] \in SidsIn(body)
      /\ OwnEffects(dbs, body) = own
    BY <1>2 DEF StagedUpTo
<1>4. \A s \in SidsIn(body) : s \in DOMAIN o /\ o[s] = res.number
    BY DEF BodyOK
<1>5. \A i, k \in 3..(w + 2) : sid(i) = sid(k) => i = k
    BY <1>1, <1>2 DEF BodyShape
<1> HIDE DEF w, dbs, sid
<1>6. StagedOn(o, dbs, n) = own
    <2>1. ASSUME NEW effect \in StagedOn(o, dbs, n) PROVE effect \in own
        BY <1>3 DEF StagedOn, OwnEffects
    <2>2. ASSUME NEW effect \in own PROVE effect \in StagedOn(o, dbs, n)
        <3>1. effect \in dbs.effects /\ effect[2] \in SidsIn(body) /\ effect[1] = n
            BY <1>3 DEF OwnEffects
        <3> QED BY <1>4, <3>1 DEF StagedOn
    <2> QED BY <2>1, <2>2
<1>7. Cardinality(own) = w
    <2> DEFINE g == [i \in 3..(w + 2) |-> <<n, sid(i), 1>>]
    <2>1. g \in Bijection(3..(w + 2), own)
        <3>1. g \in [3..(w + 2) -> own]
            OBVIOUS
        <3>2. \A i, k \in 3..(w + 2) : g[i] = g[k] => i = k
            BY <1>5
        <3>3. \A x \in own : \E i \in 3..(w + 2) : g[i] = x
            OBVIOUS
        <3> HIDE DEF g, own
        <3> QED BY <3>1, <3>2, <3>3 DEF Bijection, Injection, Surjection, IsInjective
    <2> HIDE DEF g, own
    <2>2. ExistsBijection(3..(w + 2), own)
        BY <2>1 DEF ExistsBijection
    <2>3. IsFiniteSet(3..(w + 2)) /\ Cardinality(3..(w + 2)) = IF 3 > w + 2 THEN 0 ELSE w + 2 - 3 + 1
        BY <1>2, FS_Interval
    <2>4. Cardinality(3..(w + 2)) = w
        BY <1>2, <2>3
    <2> QED BY <2>2, <2>3, <2>4, FS_Bijection
<1>8. \A effect \in own : effect[2] \in SidsIn(body)
    BY <1>3 DEF OwnEffects
<1>9. HoldsResults(res, o, dbs, n)
    BY <1>3, <1>4, <1>6, <1>7, <1>8 DEF HoldsResults, w
<1>10. ASSUME NEW i \in DOMAIN body PROVE IsWhole(dbs, body[i])
    <2>1. CASE i \in 3..(w + 2)
        <3>1. body[i].actions = 1 /\ sid(i) \in SidsIn(body)
            BY <1>1, <2>1 DEF BodyShape, sid
        <3>2. <<n, sid(i), 1>> \in dbs.effects
            BY <1>3, <2>1 DEF OwnEffects
        <3>3. ASSUME NEW m, NEW k, <<m, sid(i), k>> \in dbs.effects PROVE k = 1
            <4>1. <<m, sid(i), k>> \in own
                BY <1>3, <3>1, <3>3 DEF OwnEffects
            <4> QED BY <4>1
        <3>4. 1 \in 1..MaxActions /\ 1..1 = {1}
            BY PipelineAssumption, MaxActionsAssumption
        <3>5. ActionsOf(dbs, sid(i)) = 1..1
            BY <1>3, <3>2, <3>3, <3>4 DEF ActionsOf
        <3> QED BY <3>1, <3>5 DEF IsWhole, sid
    <2>2. CASE i \notin 3..(w + 2)
        <3>1. i = 1 \/ i = 2 \/ i = w + 3
            BY <1>1, <1>2, <2>2 DEF BodyShape
        <3>2. body[i].kind # "sql"
            BY <1>1, <3>1 DEF BodyShape
        <3> QED BY <3>2 DEF IsWhole
    <2> QED BY <2>1, <2>2
<1> QED BY <1>3, <1>9, <1>10 DEF dbs

LEMMA StageBeginKeepsInv ==
    ASSUME OrchestratorInv, StageBegin
    PROVE  OrchestratorInv'
<1> DEFINE rest == running.rest
           body == running.body
           n == running.name
           stmt == Head(rest)
<1>1. /\ running.kind = "staging" /\ running.phase = "begin"
      /\ UNCHANGED <<policy, pending, report, built, draft, results, cached, business, origin, calls>>
    BY DEF StageBegin, orchestrator
<1>2. PICK out \in ExecuteStatement(engine, policy, stmt) :
          /\ engine' = out.engine
          /\ running' = IF out.thrown # "none" THEN Idle
                        ELSE IF Len(rest) > 1 THEN WithRest(running, Tail(rest))
                        ELSE Begun(running, body)
    <2>1. [running EXCEPT !.rest = Tail(@)] = WithRest(running, Tail(rest))
        BY DEF WithRest
    <2>2. [running EXCEPT !.phase = "body", !.rest = running.body] = Begun(running, body)
        BY DEF Begun
    <2> QED BY <2>1, <2>2 DEF StageBegin
<1>3. running \in Staging /\ StagingOK(running, engine, results, origin, built, cached)
    BY <1>1, StagingFacts
<1>4. /\ results # NoResults /\ n # cached /\ BodyOK(body, n, results, origin)
      /\ BeforeBegin(rest, body, engine, origin, built)
    BY <1>1, <1>3 DEF StagingOK
<1>5. /\ rest \in Seq(Statement) \ {<<>>} /\ body \in Seq(Statement) \ {<<>>}
      /\ n \in StagingNames
    BY <1>3 DEF Staging
<1>6. /\ SidsIn(rest) \subseteq UserSids(built, origin)
      /\ rest[Len(rest)].kind = "begin"
      /\ \A dbs \in Snapshots(engine) : OwnEffects(dbs, body) = {}
    BY <1>4 DEF BeforeBegin
<1>7. Len(rest) \in Nat \ {0} /\ stmt = rest[1] /\ stmt \in Statement /\ stmt.sid \in SidsIn(rest)
    BY <1>5, HeadOfQueue
<1> HIDE DEF rest, body, n, stmt
<1>8. /\ engine \in EngineState /\ policy \in Policy /\ built \in Nat /\ EngineOK(engine, built)
      /\ stmt.sid \in UserSids(built, origin)
    BY <1>6, <1>7, InvFacts
<1>9. /\ engine' \in EngineState
      /\ EngineOK(engine', built)
      /\ \A res, m : IsStaged(engine, res, origin, m) => IsStaged(engine', res, origin, m)
    BY <1>2, <1>7, <1>8, UserStatementRuns
<1>10. Executed(engine, out, stmt)
    BY <1>7, <1>8, ExecuteGrows
<1>11. CASE out.thrown # "none"
    <2>1. running' = Idle
        BY <1>2, <1>11
    <2>2. PipelineTypeOK'
        BY <1>1, <1>9, <2>1, IdleIsIdle DEF OrchestratorInv, PipelineTypeOK
    <2> QED BY <1>1, <1>9, <2>1, <2>2, IdleIsIdle DEF OrchestratorInv
<1>12. CASE out.thrown = "none" /\ Len(rest) > 1
    <2>1. /\ Tail(rest) \in Seq(Statement) \ {<<>>}
          /\ Len(Tail(rest)) = Len(rest) - 1
          /\ \A i \in 1..(Len(rest) - 1) : Tail(rest)[i] = rest[i + 1]
          /\ SidsIn(Tail(rest)) \subseteq SidsIn(rest)
        BY <1>5, <1>12, TailOfQueue
    <2> DEFINE tail == Tail(rest)
    <2>2. tail[Len(tail)] = rest[Len(rest)]
        <3>1. Len(rest) - 1 \in 1..(Len(rest) - 1) /\ (Len(rest) - 1) + 1 = Len(rest)
            BY <1>7, <1>12
        <3> QED BY <2>1, <3>1
    <2> HIDE DEF tail
    <2>3. running' = WithRest(running, tail)
        BY <1>2, <1>12 DEF tail
    <2>4. tail \in Seq(Statement) \ {<<>>}
        BY <2>1 DEF tail
    <2>5. /\ running' \in Staging /\ running'.kind = "staging" /\ running'.phase = "begin"
          /\ running'.name = n /\ running'.body = body /\ running'.rest = tail
        BY <1>1, <1>3, <2>3, <2>4, NextOfStaging DEF n, body
    <2>6. ASSUME NEW dbs2 \in Snapshots(engine') PROVE OwnEffects(dbs2, body) = {}
        <3>1. PICK dbs \in Snapshots(engine) : Grows(dbs, dbs2, TargetOf(engine, stmt), stmt)
            BY <1>2, <1>10 DEF Executed
        <3>2. \A effect \in dbs2.effects : effect \in dbs.effects \/ effect[2] = stmt.sid
            BY <3>1 DEF Grows
        <3>3. stmt.sid \notin SidsIn(body)
            BY <1>4, <1>8 DEF BodyOK, UserSids
        <3> QED BY <1>6, <3>2, <3>3 DEF OwnEffects
    <2>7. BeforeBegin(tail, body, engine', origin, built)
        BY <1>6, <2>1, <2>2, <2>6 DEF BeforeBegin, tail
    <2>8. CallOK(running', engine', results', origin', built', cached')
        BY <1>1, <1>4, <2>5, <2>7 DEF CallOK, StagingOK
    <2>9. PipelineTypeOK'
        BY <1>1, <1>5, <1>9, <2>4, <2>5 DEF OrchestratorInv, PipelineTypeOK
    <2> QED BY <1>1, <1>9, <2>8, <2>9 DEF OrchestratorInv
<1>13. CASE out.thrown = "none" /\ ~ (Len(rest) > 1)
    <2>1. running' = Begun(running, body)
        BY <1>2, <1>13
    <2>2. /\ running' \in Staging /\ running'.kind = "staging" /\ running'.phase = "body"
          /\ running'.name = n /\ running'.body = body /\ running'.rest = body
        <3>1. /\ Begun(running, body) \in Staging
              /\ Begun(running, body).kind = "staging" /\ Begun(running, body).phase = "body"
              /\ Begun(running, body).name = running.name
              /\ Begun(running, body).body = running.body
              /\ Begun(running, body).rest = body
            BY <1>3, <1>5, NextOfStaging
        <3> QED BY <2>1, <3>1 DEF n, body
    <2>3. stmt.kind = "begin"
        <3>1. Len(rest) = 1
            BY <1>5, <1>13, HeadOfQueue
        <3> QED BY <1>6, <1>7, <3>1
    <2>4. engine' = BeginTx(engine)
        BY <1>2, <1>10, <1>13, <2>3 DEF Executed
    <2>5. /\ InTransaction(engine')
          /\ engine'.currentTransaction.databases = engine.databases
          /\ engine'.currentTransaction.stmts = <<>>
        BY <1>8, <2>4, BegunStaysOK
    <2>6. StagedUpTo(body, body, n, 1, engine')
        <3>1. Len(body) \in Nat /\ Len(body) = Len(body) - 1 + 1
            BY <1>5, HeadOfQueue
        <3>2. \A i \in 1..Len(body) : 1 + i - 1 = i
            BY <3>1
        <3>3. {<<n, body[i].sid, 1>> : i \in 3..(1 - 1)} = {}
            OBVIOUS
        <3>4. OwnEffects(engine.databases, body) = {}
            BY <1>6, SnapshotsAre
        <3> QED BY <2>5, <3>1, <3>2, <3>3, <3>4, EmptyHasNoElements DEF StagedUpTo
    <2>7. 1 \in 1..Len(body)
        BY <1>5, HeadOfQueue
    <2>8. CallOK(running', engine', results', origin', built', cached')
        BY <1>1, <1>4, <2>2, <2>6, <2>7 DEF CallOK, StagingOK
    <2>9. PipelineTypeOK'
        BY <1>1, <1>5, <1>9, <2>2 DEF OrchestratorInv, PipelineTypeOK
    <2> QED BY <1>1, <1>9, <2>8, <2>9 DEF OrchestratorInv
<1> QED BY <1>11, <1>12, <1>13

\* What a step inside the try starts from.
LEMMA BodyFacts ==
    ASSUME OrchestratorInv, running.kind = "staging", running.phase = "body"
    PROVE  LET rest == running.rest
               body == running.body
               n == running.name
               w == Writes(results.docs)
           IN  /\ running \in Staging
               /\ results # NoResults /\ results.docs \in Discoveries
               /\ n # cached /\ n \in StagingNames
               /\ rest \in Seq(Statement) \ {<<>>}
               /\ BodyOK(body, n, results, origin)
               /\ BodyShape(body, n, w)
               /\ SidsIn(body) \subseteq 1..built
               /\ InTransaction(engine)
               /\ Elements(engine.currentTransaction.stmts) \subseteq SidsIn(body)
               /\ \E j \in 1..(w + 3) :
                      /\ StagedUpTo(rest, body, n, j, engine)
                      /\ Head(rest) = body[j]
                      /\ body[j] \in Statement
                      /\ body[j].sid \in SidsIn(body)
                      /\ TargetOf(engine, body[j]) = n
<1> DEFINE rest == running.rest
           body == running.body
           n == running.name
           w == Writes(results.docs)
<1>1. running \in Staging /\ StagingOK(running, engine, results, origin, built, cached)
    BY StagingFacts
<1>2. rest \in Seq(Statement) \ {<<>>} /\ n \in StagingNames
    BY <1>1 DEF Staging
<1>3. /\ results # NoResults /\ results.docs \in Discoveries
      /\ n # cached /\ BodyOK(body, n, results, origin)
    BY <1>1, InvFacts DEF StagingOK
<1>4. PICK j \in 1..Len(body) : StagedUpTo(rest, body, n, j, engine)
    BY <1>1 DEF StagingOK
<1>5. BodyShape(body, n, w)
    BY <1>2, <1>3, BodyHasShape
<1>6. Len(body) = w + 3
    BY <1>5 DEF BodyShape
<1>7. SidsIn(body) \subseteq 1..built
    BY <1>3, InvFacts DEF BodyOK
<1> HIDE DEF rest, body, n, w
<1>8. /\ Head(rest) = body[j]
      /\ body[j] \in Statement
      /\ body[j].sid \in SidsIn(body)
      /\ TargetOf(engine, body[j]) = n
    BY <1>2, <1>4, <1>5, <1>6, BodyStatement
<1>9. InTransaction(engine) /\ Elements(engine.currentTransaction.stmts) \subseteq SidsIn(body)
    BY <1>4 DEF StagedUpTo
<1> QED BY <1>1, <1>2, <1>3, <1>4, <1>5, <1>6, <1>7, <1>8, <1>9 DEF rest, body, n, w

LEMMA StageStatementKeepsInv ==
    ASSUME OrchestratorInv, StageStatement
    PROVE  OrchestratorInv'
<1> DEFINE rest == running.rest
           body == running.body
           n == running.name
           w == Writes(results.docs)
<1>1. /\ running.kind = "staging" /\ running.phase = "body"
      /\ cached' = IF running'.kind = "importing" THEN n ELSE cached
      /\ UNCHANGED <<policy, pending, report, built, draft, results, business, origin, calls>>
    BY DEF StageStatement
<1>2. PICK out \in ExecuteStatement(engine, policy, Head(rest)) :
          IF out.thrown = "none"
          THEN /\ engine' = out.engine
               /\ running' = IF Len(rest) > 1 THEN WithRest(running, Tail(rest))
                             ELSE Staged
          ELSE engine' = RollbackTx(out.engine) /\ running' = Idle
    <2>1. [running EXCEPT !.rest = Tail(@)] = WithRest(running, Tail(rest))
        BY DEF WithRest
    <2> QED BY <2>1 DEF StageStatement
<1>3. /\ running \in Staging
      /\ results # NoResults /\ results.docs \in Discoveries
      /\ n # cached /\ n \in StagingNames
      /\ rest \in Seq(Statement) \ {<<>>}
      /\ BodyOK(body, n, results, origin)
      /\ BodyShape(body, n, w)
      /\ SidsIn(body) \subseteq 1..built
      /\ InTransaction(engine)
    BY <1>1, BodyFacts
<1>4. PICK j \in 1..(w + 3) :
          /\ StagedUpTo(rest, body, n, j, engine)
          /\ Head(rest) = body[j]
          /\ body[j] \in Statement
          /\ body[j].sid \in SidsIn(body)
          /\ TargetOf(engine, body[j]) = n
    BY <1>1, BodyFacts
<1>5. body \in Seq(Statement) \ {<<>>} /\ Len(body) = w + 3 /\ w \in Nat
    BY <1>3 DEF BodyShape
<1> HIDE DEF rest, body, n, w
<1> DEFINE stmt == body[j]
<1>6. /\ engine \in EngineState /\ policy \in Policy /\ built \in Nat /\ EngineOK(engine, built)
    BY InvFacts
<1>7. out \in ExecuteStatement(engine, policy, stmt) /\ stmt.sid \in 1..built
    BY <1>2, <1>3, <1>4
<1>8. Executed(engine, out, stmt)
    BY <1>4, <1>6, <1>7, ExecuteGrows
<1>9. /\ out.engine \in EngineState /\ EngineOK(out.engine, built)
      /\ RollbackTx(out.engine) \in EngineState /\ EngineOK(RollbackTx(out.engine), built)
    BY <1>6, <1>7, <1>8, EngineStaysOK, RollbackStaysOK DEF Executed
<1>10. \A res, m : m # n /\ IsStaged(engine, res, origin, m) =>
              IsStaged(out.engine, res, origin, m) /\ IsStaged(RollbackTx(out.engine), res, origin, m)
    BY <1>4, <1>6, <1>8, StatementKeepsStaged
<1>11. engine' \in EngineState /\ EngineOK(engine', built)
    BY <1>2, <1>9
<1>12. cached # NoName => IsStaged(engine', results, origin, cached)
    BY <1>2, <1>3, <1>10 DEF OrchestratorInv
<1>13. CASE out.thrown # "none"
    <2>1. running' = Idle /\ running'.kind # "importing"
        BY <1>2, <1>13, IdleIsIdle
    <2>2. PipelineTypeOK'
        BY <1>1, <1>11, <2>1, IdleIsIdle DEF OrchestratorInv, PipelineTypeOK
    <2> QED BY <1>1, <1>11, <1>12, <2>1, <2>2, IdleIsIdle DEF OrchestratorInv
<1>14. CASE out.thrown = "none" /\ j # w + 3
    <2>1. j \in 1..(w + 2)
        BY <1>5, <1>14
    <2>2. Len(rest) > 1 /\ StagedUpTo(Tail(rest), body, n, j + 1, out.engine)
        BY <1>3, <1>4, <1>6, <1>7, <1>14, <2>1, StagedOneMore
    <2> DEFINE tail == Tail(rest)
    <2>3. tail \in Seq(Statement) \ {<<>>}
        BY <1>3, <2>2, TailOfQueue
    <2> HIDE DEF tail
    <2>4. engine' = out.engine /\ running' = WithRest(running, tail)
        BY <1>2, <1>14, <2>2 DEF tail
    <2>5. /\ running' \in Staging /\ running'.kind = "staging" /\ running'.phase = "body"
          /\ running'.name = n /\ running'.body = body /\ running'.rest = tail
        BY <1>1, <1>3, <2>3, <2>4, NextOfStaging DEF n, body
    <2>6. cached' = cached
        BY <1>1, <2>5
    <2>7. j + 1 \in 1..Len(body)
        BY <1>5, <2>1
    <2>8. CallOK(running', engine', results', origin', built', cached')
        BY <1>1, <1>3, <2>2, <2>4, <2>5, <2>6, <2>7 DEF CallOK, StagingOK, tail
    <2>9. PipelineTypeOK'
        BY <1>1, <1>3, <1>5, <1>11, <2>3, <2>5, <2>6 DEF OrchestratorInv, PipelineTypeOK
    <2> QED BY <1>1, <1>11, <1>12, <2>6, <2>8, <2>9 DEF OrchestratorInv
<1>15. CASE out.thrown = "none" /\ j = w + 3
    <2>1. StagedUpTo(rest, body, n, w + 3, engine)
        BY <1>4, <1>15
    <2>2. Len(rest) = 1
        BY <1>5, <2>1 DEF StagedUpTo
    <2>3. engine' = out.engine /\ running' = Staged
        BY <1>2, <1>15, <2>2
    <2>4. engine' = CommitTx(engine, policy)
        <3>1. out = Returns(CommitTx(engine, policy))
            BY <1>3, <1>6, <1>7, <1>15, BodyStatementPublishes
        <3> QED BY <2>3, <3>1 DEF Returns
    <2>5. Snapshots(engine') = {engine.currentTransaction.databases}
        <3>1. ~ InTransaction(engine') /\ engine'.databases = engine.currentTransaction.databases
            BY <1>3, <1>6, <2>4, CommitStaysOK
        <3> QED BY <3>1 DEF Snapshots
    <2>6. IsStaged(engine', results, origin, n)
        <3>1. HoldsResults(results, origin, engine.currentTransaction.databases, n)
            BY <1>3, <2>1, StagedAll DEF w
        <3> QED BY <1>3, <2>5, <3>1 DEF IsStaged
    <2>7. CASE running.import = NoImport
        <3>1. running' = Idle /\ running'.kind # "importing"
            BY <2>3, <2>7, IdleIsIdle DEF Staged
        <3>2. PipelineTypeOK'
            BY <1>1, <1>11, <3>1, IdleIsIdle DEF OrchestratorInv, PipelineTypeOK
        <3> QED BY <1>1, <1>11, <1>12, <3>1, <3>2, IdleIsIdle DEF OrchestratorInv
    <2>8. CASE running.import # NoImport
        <3>1. running' = [running.import EXCEPT !.source = n] /\ running.import \in Importing
            BY <1>3, <2>3, <2>8 DEF Staged, Staging, n
        <3>2. running' \in Importing /\ running'.kind = "importing" /\ running'.source = n
            BY <1>3, <3>1 DEF Importing
        <3>3. cached' = n
            BY <1>1, <3>2
        <3>4. CallOK(running', engine', results', origin', built', cached')
            BY <1>1, <2>6, <3>2 DEF CallOK
        <3>5. PipelineTypeOK'
            BY <1>1, <1>3, <1>11, <3>2, <3>3 DEF OrchestratorInv, PipelineTypeOK
        <3> QED BY <1>1, <1>11, <2>6, <3>3, <3>4, <3>5 DEF OrchestratorInv
    <2> QED BY <2>7, <2>8
<1> QED BY <1>13, <1>14, <1>15

-----------------------------------------------------------------------------
(* The batch and the import *)

LEMMA ExecuteNextKeepsInv ==
    ASSUME OrchestratorInv, ExecuteNext, UNCHANGED <<draft, orchestrator, calls>>
    PROVE  OrchestratorInv'
<1> DEFINE rest == running.rest
           stmt == Head(rest)
           tail == [running EXCEPT !.rest = Tail(rest)]
<1>1. /\ running.kind = "batch"
      /\ UNCHANGED <<policy, pending, report, built, draft, results, cached, business, origin, calls>>
    BY DEF ExecuteNext, orchestrator
<1>2. PICK out \in ExecuteStatement(engine, policy, stmt) :
          engine' = out.engine
          /\ (running' = Idle \/ (Len(rest) # 1 /\ running' = tail))
    BY DEF ExecuteNext
<1>3. running \in Batch /\ SidsIn(rest) \subseteq UserSids(built, origin)
    BY <1>1 DEF OrchestratorInv, CallOK, Idle, Importing, DirectedImport, Staging
<1>4. rest \in Seq(Statement) \ {<<>>}
    BY <1>3 DEF Batch
<1>5. Len(rest) \in Nat \ {0} /\ stmt \in Statement /\ stmt.sid \in UserSids(built, origin)
    BY <1>3, <1>4, HeadOfQueue
<1>6. ASSUME Len(rest) # 1
      PROVE  /\ tail \in Batch /\ tail.kind = "batch"
             /\ SidsIn(tail.rest) \subseteq UserSids(built, origin)
    <2>1. Len(rest) > 1
        BY <1>4, <1>6, HeadOfQueue
    <2>2. Tail(rest) \in Seq(Statement) \ {<<>>} /\ SidsIn(Tail(rest)) \subseteq SidsIn(rest)
        BY <1>4, <2>1, TailOfQueue
    <2> DEFINE q == Tail(rest)
    <2>3. q \in Seq(Statement) \ {<<>>} /\ SidsIn(q) \subseteq UserSids(built, origin)
        BY <1>3, <2>2
    <2> HIDE DEF q
    <2>4. [running EXCEPT !.rest = q] = [kind |-> "batch", rest |-> q]
        BY <1>3 DEF Batch
    <2>5. tail = [kind |-> "batch", rest |-> q]
        BY <2>4 DEF q
    <2> HIDE DEF tail
    <2> QED BY <2>3, <2>5 DEF Batch
<1> HIDE DEF rest, stmt, tail
<1>7. /\ engine' \in EngineState
      /\ EngineOK(engine', built)
      /\ \A res, m : IsStaged(engine, res, origin, m) => IsStaged(engine', res, origin, m)
    BY <1>2, <1>5, InvFacts, UserStatementRuns
<1>8. /\ CallOK(running', engine', results', origin', built', cached')
      /\ running'.kind \in {"idle", "batch"}
    BY <1>1, <1>2, <1>6, IdleIsIdle DEF CallOK
<1>9. draft = NoDraft
    BY <1>1 DEF OrchestratorInv, PipelineTypeOK
<1>10. PipelineTypeOK'
    BY <1>1, <1>7, <1>8, <1>9 DEF OrchestratorInv, PipelineTypeOK
<1> QED BY <1>1, <1>7, <1>8, <1>10 DEF OrchestratorInv

\* The import as it begins, after the target has been ensured and selected.
LEMMA ImportBegins ==
    ASSUME NEW groups, GroupsOK(groups), NEW n \in BusinessNames, NEW src \in StagingNames
    PROVE  LET call == [kind |-> "import", ruleset |-> groups, instruction |-> 1,
                        statement |-> 1, results |-> <<>>, business |-> n, source |-> src]
           IN  /\ call \in DirectedImport /\ ImportOK(call)
               /\ call.kind = "import" /\ call.ruleset = groups
               /\ call.business = n /\ call.source = src
<1> DEFINE call == [kind |-> "import", ruleset |-> groups, instruction |-> 1,
                    statement |-> 1, results |-> <<>>, business |-> n, source |-> src]
<1>1. <<>> \in Seq(Status) /\ Len(<<>>) = 0
    BY EmptySeq
<1>2. Len(groups) \in Nat \ {0} /\ Len(groups[1]) \in Nat \ {0}
    BY GroupFacts
<1>3. groups \in Seq(Seq(Statement))
    BY DEF GroupsOK
<1>4. /\ call.kind = "import" /\ call.ruleset = groups /\ call.instruction = 1
      /\ call.statement = 1 /\ call.results = <<>>
      /\ call.business = n /\ call.source = src
    OBVIOUS
<1>5. call \in DirectedImport
    BY <1>1, <1>3 DEF DirectedImport
<1> HIDE DEF call
<1>6. ImportOK(call)
    BY <1>1, <1>2, <1>4 DEF ImportOK
<1> QED BY <1>4, <1>5, <1>6 DEF call

LEMMA PrepareImportKeepsInv ==
    ASSUME OrchestratorInv, PrepareImport
    PROVE  OrchestratorInv'
<1> DEFINE shapes == running.shapes
           n == running.business
           src == running.source
           groups == Groups(shapes, built)
           ensured == [engine EXCEPT !.databases = WithDatabase(@, n)]
           selected == [ensured EXCEPT !.currentDb = n]
           refused == \E g \in Elements(groups) : \E s \in Elements(g) : s.kind \in Forbidden
           call == [kind |-> "import", ruleset |-> groups, instruction |-> 1,
                    statement |-> 1, results |-> <<>>, business |-> n, source |-> src]
<1>1. /\ running.kind = "importing"
      /\ built' = built + SizeOf(shapes)
      /\ UNCHANGED <<policy, report, results, cached, business, origin, calls>>
      /\ \/ pending' = pending /\ draft' = draft
         \/ pending' = Finalized /\ draft' = NoDraft
      /\ \/ engine' \in {ensured, selected} /\ running' = Idle
         \/ /\ draft' = NoDraft /\ ~ refused /\ ~ InTransaction(engine)
            /\ engine' = BeginTx(selected) /\ running' = call
    BY DEF PrepareImport, orchestrator
<1>2. running \in Importing /\ IsStaged(engine, results, origin, src)
    BY <1>1 DEF OrchestratorInv, CallOK, Idle, Batch, DirectedImport, Staging
<1>3. n \in BusinessNames /\ n \in Names /\ shapes \in Rulesets(Shape) /\ src \in StagingNames
    BY <1>2, PipelineAssumption DEF Importing, IsStaged
<1>4. Shape \in SUBSET Shape
    OBVIOUS
<1>5. /\ engine \in EngineState /\ policy \in Policy /\ built \in Nat /\ EngineOK(engine, built)
      /\ DOMAIN origin \subseteq 1..built
    BY InvFacts
<1> HIDE DEF shapes, n, src, groups
<1>6. SizeOf(shapes) \in Nat /\ built' \in Nat
    <2>1. SizeOf(shapes) \in Nat
        BY <1>3, <1>4, Numbering
    <2> QED BY <1>1, <1>5, <2>1
<1>7. /\ GroupsOK(groups)
      /\ \A g \in DOMAIN groups : \A i \in DOMAIN groups[g] :
             groups[g][i].sid \in (built + 1)..(built + SizeOf(shapes))
    BY <1>3, <1>4, <1>5, GroupsAre DEF groups
<1>8. /\ UserSids(built, origin) \subseteq UserSids(built', origin)
      /\ (built + 1)..(built + SizeOf(shapes)) \subseteq UserSids(built', origin)
      /\ \A e : EngineOK(e, built) => EngineOK(e, built')
    BY <1>1, <1>5, <1>6, MoreBuilt
<1>9. /\ ensured \in EngineState /\ EngineOK(ensured, built)
      /\ ensured.currentTransaction = engine.currentTransaction
      /\ ensured.databases.names = engine.databases.names \cup {n}
      /\ \A res, o, m : IsStaged(engine, res, o, m) => IsStaged(ensured, res, o, m)
    BY <1>3, <1>5, EnsuredStaysOK
<1> HIDE DEF ensured
<1>10. /\ selected \in EngineState /\ EngineOK(selected, built)
       /\ selected.currentDb = n
       /\ selected.databases = ensured.databases
       /\ \A res, o, m : IsStaged(ensured, res, o, m) => IsStaged(selected, res, o, m)
    BY <1>3, <1>9, SelectedStaysOK
<1> HIDE DEF selected
<1>11. /\ BeginTx(selected) \in EngineState /\ EngineOK(BeginTx(selected), built)
       /\ BeginTx(selected).currentDb = n
       /\ Snapshots(BeginTx(selected)) = {ensured.databases}
       /\ \A res, o, m : IsStaged(selected, res, o, m) => IsStaged(BeginTx(selected), res, o, m)
    BY <1>10, BegunStaysOK
<1>12. /\ engine' \in EngineState /\ EngineOK(engine', built')
       /\ \A res, o, m : IsStaged(engine, res, o, m) => IsStaged(engine', res, o, m)
    BY <1>1, <1>8, <1>9, <1>10, <1>11
<1>13. /\ pending' \in Seq(Statement) /\ SidsIn(pending') \subseteq UserSids(built', origin)
       /\ draft' # NoDraft => draft'.stmt \in Statement /\ draft'.stmt.sid \in UserSids(built', origin)
    BY <1>1, <1>8, InvFacts, FinalizedFacts DEF OrchestratorInv, PipelineTypeOK
<1>14. \A s \in DOMAIN origin : s \in 1..built'
    BY <1>5, <1>6, <1>1
<1>15. CASE running' = Idle
    <2>1. PipelineTypeOK'
        BY <1>1, <1>12, <1>13, <1>14, <1>15, IdleIsIdle DEF OrchestratorInv, PipelineTypeOK
    <2> QED BY <1>1, <1>6, <1>12, <1>13, <1>15, <2>1, IdleIsIdle DEF OrchestratorInv
<1>16. CASE running' # Idle
    <2>1. /\ draft' = NoDraft /\ ~ refused
          /\ engine' = BeginTx(selected) /\ running' = call
        BY <1>1, <1>16
    <2>2. /\ call \in DirectedImport /\ ImportOK(call)
          /\ call.kind = "import" /\ call.ruleset = groups
          /\ call.business = n /\ call.source = src
        BY <1>3, <1>7, ImportBegins
    <2>3. RulesetOK(groups, built', origin)
        <3>1. \A g \in DOMAIN groups : \A i \in DOMAIN groups[g] : groups[g][i].kind \notin Forbidden
            BY <2>1 DEF Elements
        <3> QED BY <1>7, <1>8, <3>1 DEF RulesetOK
    <2>4. TargetOK(engine', n)
        BY <1>9, <1>11, <2>1 DEF TargetOK
    <2> HIDE DEF call, refused
    <2>5. CallOK(running', engine', results', origin', built', cached')
        BY <1>1, <1>2, <1>12, <2>1, <2>2, <2>3, <2>4 DEF CallOK
    <2>6. PipelineTypeOK'
        BY <1>1, <1>12, <1>13, <1>14, <2>1, <2>2 DEF OrchestratorInv, PipelineTypeOK
    <2> QED BY <1>1, <1>6, <1>12, <1>13, <2>5, <2>6 DEF OrchestratorInv
<1> QED BY <1>15, <1>16

LEMMA ImportFacts ==
    ASSUME OrchestratorInv, running.kind = "import"
    PROVE  /\ running \in DirectedImport /\ ImportOK(running)
           /\ RulesetOK(running.ruleset, built, origin)
           /\ TargetOK(engine, running.business)
           /\ IsStaged(engine, results, origin, running.source)
           /\ draft = NoDraft
<1>1. draft = NoDraft
    BY DEF OrchestratorInv, PipelineTypeOK
<1> QED BY <1>1 DEF OrchestratorInv, CallOK, Idle, Batch, Importing, Staging

\* The statement that an import runs next.
LEMMA NextStatementOfImport ==
    ASSUME OrchestratorInv, running.kind = "import",
           running.instruction <= Len(running.ruleset)
    PROVE  LET ruleset == running.ruleset
               g == running.instruction
               i == running.statement
               stmt == ruleset[g][i]
           IN  /\ GroupsOK(ruleset)
               /\ g \in 1..Len(ruleset) /\ i \in 1..Len(ruleset[g])
               /\ stmt \in Statement
               /\ stmt.sid \in UserSids(built, origin)
               /\ stmt.kind \notin Forbidden
<1> DEFINE ruleset == running.ruleset
           g == running.instruction
           i == running.statement
<1>1. ImportOK(running) /\ RulesetOK(ruleset, built, origin)
    BY ImportFacts
<1>2. GroupsOK(ruleset) /\ g \in 1..Len(ruleset) + 1 /\ g <= Len(ruleset)
    BY <1>1 DEF ImportOK
<1>3. Len(ruleset) \in Nat
    BY <1>2, GroupFacts
<1>4. g \in 1..Len(ruleset) /\ i \in 1..Len(ruleset[g])
    <2> HIDE DEF ruleset, g, i
    <2>1. g \in 1..Len(ruleset)
        BY <1>2, <1>3
    <2> QED BY <1>1, <1>2, <2>1 DEF ImportOK, ruleset, g, i
<1> HIDE DEF ruleset, g, i
<1>5. /\ g \in DOMAIN ruleset /\ i \in DOMAIN ruleset[g]
      /\ ruleset[g][i] \in Statement
    BY <1>2, <1>4, GroupFacts
<1>6. ruleset[g][i].sid \in UserSids(built, origin) /\ ruleset[g][i].kind \notin Forbidden
    BY <1>1, <1>5 DEF RulesetOK
<1> QED BY <1>2, <1>4, <1>5, <1>6 DEF ruleset, g, i

\* The engine after it, and after the rollback that follows a throw.
LEMMA ImportStatementRuns ==
    ASSUME OrchestratorInv, running.kind = "import",
           running.instruction <= Len(running.ruleset),
           NEW out \in ExecuteStatement(engine, policy,
                           running.ruleset[running.instruction][running.statement])
    PROVE  /\ \A f \in {out.engine, RollbackTx(out.engine)} :
                  /\ f \in EngineState /\ EngineOK(f, built)
                  /\ \A res, m : IsStaged(engine, res, origin, m) => IsStaged(f, res, origin, m)
           /\ TargetOK(out.engine, running.business)
<1> DEFINE stmt == running.ruleset[running.instruction][running.statement]
<1>1. /\ stmt \in Statement
      /\ stmt.sid \in UserSids(built, origin)
      /\ stmt.kind \notin Forbidden
    BY NextStatementOfImport
<1>2. TargetOK(engine, running.business)
    BY ImportFacts
<1> HIDE DEF stmt
<1>3. out \in ExecuteStatement(engine, policy, stmt)
    BY DEF stmt
<1>4. \A f \in {out.engine, RollbackTx(out.engine)} :
          /\ f \in EngineState /\ EngineOK(f, built)
          /\ \A res, m : IsStaged(engine, res, origin, m) => IsStaged(f, res, origin, m)
    BY <1>1, <1>3, InvFacts, UserStatementRuns
<1>5. Executed(engine, out, stmt)
    BY <1>1, <1>3, InvFacts, ExecuteGrows
<1>6. out.engine.currentDb = engine.currentDb
    BY <1>1, <1>5 DEF Executed, Forbidden
<1>7. ASSUME NEW dbs2 \in Snapshots(out.engine) PROVE running.business \in dbs2.names
    <2>1. PICK dbs \in Snapshots(engine) : Grows(dbs, dbs2, TargetOf(engine, stmt), stmt)
        BY <1>5 DEF Executed
    <2>2. dbs.names \subseteq dbs2.names
        BY <2>1 DEF Grows
    <2> QED BY <1>2, <2>2 DEF TargetOK
<1> QED BY <1>2, <1>4, <1>6, <1>7 DEF TargetOK

LEMMA ImportStatementKeepsInv ==
    ASSUME OrchestratorInv, ImportStatement, UNCHANGED <<draft, orchestrator, calls>>
    PROVE  OrchestratorInv'
<1> DEFINE ruleset == running.ruleset
           g == running.instruction
           i == running.statement
           done == running.results
           n == running.business
           src == running.source
           at(h, k, sts) ==
               [kind |-> "import", ruleset |-> ruleset, instruction |-> h, statement |-> k,
                results |-> sts, business |-> n, source |-> src]
<1>1. /\ running.kind = "import" /\ g <= Len(ruleset)
      /\ UNCHANGED <<policy, pending, report, built, draft, results, cached, business, origin, calls>>
    BY DEF ImportStatement, orchestrator
<1>2. /\ running \in DirectedImport /\ ImportOK(running)
      /\ RulesetOK(ruleset, built, origin)
      /\ IsStaged(engine, results, origin, src)
      /\ draft = NoDraft
    BY <1>1, ImportFacts
<1>3. PICK out \in ExecuteStatement(engine, policy, ruleset[g][i]) :
          /\ engine' = out.engine
          /\ \/ i < Len(ruleset[g]) /\ running' = at(g, i + 1, done)
             \/ running' = at(g + 1, 1, Append(done, "succeeded"))
    BY <1>2 DEF ImportStatement, DirectedImport
<1>4. /\ engine' \in EngineState /\ EngineOK(engine', built)
      /\ \A res, m : IsStaged(engine, res, origin, m) => IsStaged(engine', res, origin, m)
      /\ TargetOK(engine', n)
    BY <1>1, <1>3, ImportStatementRuns
<1>5. /\ GroupsOK(ruleset) /\ g \in 1..Len(ruleset) /\ i \in 1..Len(ruleset[g])
    BY <1>1, NextStatementOfImport
<1>6. /\ done \in Seq(Status) /\ Len(done) = g - 1
      /\ \A k \in 1..Len(done) : done[k] = "succeeded"
      /\ n \in BusinessNames /\ src \in StagingNames
    BY <1>2 DEF ImportOK, DirectedImport
<1>7. /\ Len(ruleset) \in Nat
      /\ \A h \in 1..Len(ruleset) : Len(ruleset[h]) \in Nat \ {0}
      /\ ruleset \in Seq(Seq(Statement))
    BY <1>5, GroupFacts DEF GroupsOK
<1> HIDE DEF ruleset, g, i, done, n, src
<1> DEFINE moves(r) == /\ r \in DirectedImport /\ ImportOK(r) /\ r.kind = "import"
                       /\ r.ruleset = ruleset /\ r.business = n /\ r.source = src
<1>8. ASSUME i < Len(ruleset[g])
      PROVE  moves(at(g, i + 1, done))
    <2> DEFINE r == at(g, i + 1, done)
    <2>1. /\ r.kind = "import" /\ r.ruleset = ruleset /\ r.instruction = g
          /\ r.statement = i + 1 /\ r.results = done /\ r.business = n /\ r.source = src
        OBVIOUS
    <2>2. /\ g \in Nat /\ i + 1 \in Nat /\ g \in 1..Len(ruleset) + 1
          /\ i + 1 \in 1..Len(ruleset[g])
        BY <1>5, <1>7, <1>8
    <2>3. r \in DirectedImport
        BY <1>6, <1>7, <2>2 DEF DirectedImport
    <2> HIDE DEF r
    <2>4. ImportOK(r)
        BY <1>5, <1>6, <2>1, <2>2 DEF ImportOK
    <2> QED BY <2>1, <2>3, <2>4 DEF r
<1>9. moves(at(g + 1, 1, Append(done, "succeeded")))
    <2> DEFINE done2 == Append(done, "succeeded")
               r == at(g + 1, 1, done2)
    <2>1. /\ r.kind = "import" /\ r.ruleset = ruleset /\ r.instruction = g + 1
          /\ r.statement = 1 /\ r.results = done2 /\ r.business = n /\ r.source = src
        OBVIOUS
    <2>2. g + 1 \in Nat /\ g + 1 \in 1..Len(ruleset) + 1
        BY <1>5, <1>7
    <2>3. g + 1 <= Len(ruleset) => g + 1 \in 1..Len(ruleset) /\ 1 \in 1..Len(ruleset[g + 1])
        BY <1>7, <2>2
    <2>4. /\ done2 \in Seq(Status)
          /\ Len(done2) = Len(done) + 1
          /\ \A k \in 1..Len(done) : done2[k] = done[k]
          /\ done2[Len(done) + 1] = "succeeded"
        <3>1. "succeeded" \in Status
            BY DEF Status
        <3> QED BY <1>6, <3>1, AppendProperties
    <2> HIDE DEF done2
    <2>5. r \in DirectedImport
        BY <1>6, <1>7, <2>2, <2>4 DEF DirectedImport
    <2>6. Len(done2) = (g + 1) - 1 /\ \A k \in 1..Len(done2) : done2[k] = "succeeded"
        <3>1. g \in Nat /\ Len(done) \in Nat
            BY <1>5, <1>6, <1>7
        <3> QED BY <1>6, <2>4, <3>1
    <2> HIDE DEF r
    <2>7. ImportOK(r)
        BY <1>5, <2>1, <2>2, <2>3, <2>4, <2>6 DEF ImportOK
    <2> QED BY <2>1, <2>5, <2>7 DEF r, done2
<1> HIDE DEF at
<1>10. moves(running')
    BY <1>3, <1>8, <1>9
<1>11. CallOK(running', engine', results', origin', built', cached')
    BY <1>1, <1>2, <1>4, <1>10 DEF CallOK
<1>12. PipelineTypeOK'
    BY <1>1, <1>2, <1>4, <1>10 DEF OrchestratorInv, PipelineTypeOK
<1> QED BY <1>1, <1>4, <1>11, <1>12 DEF OrchestratorInv

LEMMA FailImportKeepsInv ==
    ASSUME OrchestratorInv, FailImport, UNCHANGED <<draft, orchestrator, calls>>
    PROVE  OrchestratorInv'
<1> DEFINE ruleset == running.ruleset
           g == running.instruction
           i == running.statement
           done == running.results
           outcome == [k \in DOMAIN ruleset |->
                          IF k < g THEN done[k] ELSE IF k = g THEN "failed" ELSE "notExecuted"]
<1>1. /\ running.kind = "import" /\ g <= Len(ruleset)
      /\ running' = Idle
      /\ report' = [ruleset |-> ruleset, results |-> outcome,
                    failedStatement |-> i, committed |-> FALSE]
      /\ UNCHANGED <<policy, pending, built, draft, results, cached, business, origin, calls>>
    BY DEF FailImport, orchestrator
<1>2. PICK out \in ExecuteStatement(engine, policy, ruleset[g][i]) :
          engine' = RollbackTx(out.engine)
    BY DEF FailImport
<1>3. /\ engine' \in EngineState /\ EngineOK(engine', built)
      /\ \A res, m : IsStaged(engine, res, origin, m) => IsStaged(engine', res, origin, m)
    BY <1>1, <1>2, ImportStatementRuns
<1>4. GroupsOK(ruleset) /\ g \in 1..Len(ruleset) /\ i \in 1..Len(ruleset[g])
    BY <1>1, NextStatementOfImport
<1>5. /\ Len(done) = g - 1 /\ \A k \in 1..Len(done) : done[k] = "succeeded"
    BY <1>1, ImportFacts DEF ImportOK
<1>6. /\ Len(ruleset) \in Nat /\ DOMAIN ruleset = 1..Len(ruleset)
      /\ Len(ruleset[g]) \in Nat
      /\ ruleset \in Seq(Seq(Statement))
    BY <1>4, GroupFacts DEF GroupsOK
<1> HIDE DEF ruleset, g, i, done
<1>7. outcome \in Seq(Status)
    <2>1. ASSUME NEW k \in 1..Len(ruleset) PROVE outcome[k] \in Status
        <3>1. k < g => k \in 1..Len(done)
            BY <1>4, <1>5, <1>6
        <3> QED BY <1>5, <1>6, <3>1 DEF Status
    <2>2. outcome = [k \in 1..Len(ruleset) |-> outcome[k]]
        BY <1>6
    <2> HIDE DEF outcome
    <2>3. outcome \in [1..Len(ruleset) -> Status]
        BY <2>1, <2>2
    <2> QED BY <1>6, <2>3, SeqDef
<1> HIDE DEF outcome
<1>8. report' \in Report
    <2>1. i \in Nat
        BY <1>4, <1>6
    <2> QED BY <1>1, <1>6, <1>7, <2>1 DEF Report
<1>9. PipelineTypeOK'
    BY <1>1, <1>3, <1>8, IdleIsIdle DEF OrchestratorInv, PipelineTypeOK
<1> QED BY <1>1, <1>3, <1>9, IdleIsIdle DEF OrchestratorInv

LEMMA CommitImportKeepsInv ==
    ASSUME OrchestratorInv, CommitImport, UNCHANGED <<draft, orchestrator, calls>>
    PROVE  OrchestratorInv'
<1>1. /\ running.kind = "import" /\ running' = Idle
      /\ UNCHANGED <<policy, pending, built, draft, results, cached, business, origin, calls>>
      /\ \/ UNCHANGED <<engine, report>>
         \/ /\ InTransaction(engine)
            /\ engine' = CommitTx(engine, policy)
            /\ report' = [ruleset |-> running.ruleset, results |-> running.results,
                          failedStatement |-> 0, committed |-> TRUE]
    BY DEF CommitImport, orchestrator
<1>2. running \in DirectedImport
    BY <1>1, ImportFacts
<1>3. report' \in {NoReport} \cup Report
    <2> DEFINE ruleset == running.ruleset
               done == running.results
    <2>1. ruleset \in Seq(Seq(Statement)) /\ done \in Seq(Status)
        BY <1>2 DEF DirectedImport
    <2> HIDE DEF ruleset, done
    <2>2. [ruleset |-> ruleset, results |-> done, failedStatement |-> 0, committed |-> TRUE]
              \in Report
        BY <2>1 DEF Report
    <2>3. report \in {NoReport} \cup Report
        BY DEF OrchestratorInv, PipelineTypeOK
    <2> QED BY <1>1, <2>2, <2>3 DEF ruleset, done
<1>4. /\ engine' \in EngineState /\ EngineOK(engine', built)
      /\ Snapshots(engine') \subseteq Snapshots(engine)
    BY <1>1, InvFacts, CommitStaysOK
<1>5. cached # NoName => IsStaged(engine', results, origin, cached)
    BY <1>4 DEF OrchestratorInv, IsStaged
<1>6. PipelineTypeOK'
    BY <1>1, <1>3, <1>4, IdleIsIdle DEF OrchestratorInv, PipelineTypeOK
<1> QED BY <1>1, <1>4, <1>5, <1>6, IdleIsIdle DEF OrchestratorInv

-----------------------------------------------------------------------------
(* The theorems *)

LEMMA InitHasInv == PipelineInit => OrchestratorInv
<1> SUFFICES ASSUME PipelineInit PROVE OrchestratorInv
    OBVIOUS
<1>1. /\ engine = NewEngine
      /\ policy = [autoCommit |-> TRUE, trackStatementHistory |-> FALSE]
      /\ pending = <<>> /\ running = Idle /\ report = NoReport /\ built = 0
      /\ draft = NoDraft /\ results = NoResults /\ cached = NoName
      /\ business = [n \in {} |-> 0] /\ origin = [s \in {} |-> 0] /\ calls = 0
    BY DEF PipelineInit
<1>2. NewEngine \in EngineState
    BY DEF NewEngine, EngineState, Databases
<1>3. /\ NewEngine.databases.effects = {}
      /\ NewEngine.currentTransaction = NoTransaction
    BY DEF NewEngine
<1>4. ~ InTransaction(NewEngine)
    BY <1>3 DEF InTransaction
<1>5. EngineOK(NewEngine, 0)
    BY <1>3, <1>4, SnapshotsAre DEF EngineOK, KeepsCommitted, SnapshotOK
<1>6. <<>> \in Seq(Statement) /\ SidsIn(<<>>) = {}
    BY EmptyQueue
<1>7. DOMAIN origin = {} /\ DOMAIN business = {}
    BY <1>1
<1>8. policy \in Policy /\ MaxCalls \in Nat
    BY <1>1, PipelineAssumption DEF Policy
<1>9. PipelineTypeOK
    BY <1>1, <1>2, <1>6, <1>7, <1>8, IdleIsIdle DEF PipelineTypeOK
<1> QED BY <1>1, <1>5, <1>6, <1>8, <1>9, IdleIsIdle DEF OrchestratorInv, ResultsOK

LEMMA NextKeepsInv == OrchestratorInv /\ [PipelineNext]_pipelineVars => OrchestratorInv'
<1> SUFFICES ASSUME OrchestratorInv, [PipelineNext]_pipelineVars PROVE OrchestratorInv'
    OBVIOUS
<1>1. CASE UNCHANGED pipelineVars
    BY <1>1 DEF pipelineVars, OrchestratorInv, PipelineTypeOK
<1>2. CASE PipelineUserStep
    <2>1. ASSUME NEW shape \in Shapes, UserStatement(shape) PROVE OrchestratorInv'
        BY <2>1, UserStatementKeepsInv
    <2>2. ASSUME NEW shape \in Shapes, NEW whole \in BOOLEAN, UserDraft(shape, whole)
          PROVE  OrchestratorInv'
        BY <2>2, UserDraftKeepsInv
    <2>3. ASSUME UserExecute PROVE OrchestratorInv'
        BY <2>3, UserExecuteKeepsInv
    <2>4. ASSUME NEW docs \in Discoveries, Discover(docs) PROVE OrchestratorInv'
        BY <2>4, DiscoverKeepsInv
    <2>5. ASSUME NEW n \in BusinessNames, BuildBusinessDatabase(n) PROVE OrchestratorInv'
        BY <2>5, BuildBusinessDatabaseKeepsInv
    <2>6. ASSUME NEW n \in StagingNames, BuildDiscoveryDatabase(n) PROVE OrchestratorInv'
        BY <2>6, BuildDiscoveryDatabaseKeepsInv
    <2>7. ASSUME NEW shapes \in ImportRulesets, NEW s \in StagingNames, NEW n \in BusinessNames,
                 ImportFromDiscovery(shapes, s, n)
          PROVE  OrchestratorInv'
        BY <2>7, ImportFromDiscoveryKeepsInv
    <2> QED BY <1>2, <2>1, <2>2, <2>3, <2>4, <2>5, <2>6, <2>7 DEF PipelineUserStep
<1>3. CASE PipelineCallStep
    <2>1. ASSUME ExecuteNext \/ ImportStatement \/ FailImport \/ CommitImport,
                 UNCHANGED <<draft, orchestrator, calls>>
          PROVE  OrchestratorInv'
        BY <2>1, ExecuteNextKeepsInv, ImportStatementKeepsInv, FailImportKeepsInv,
           CommitImportKeepsInv
    <2> QED BY <1>3, <2>1, StageBeginKeepsInv, StageStatementKeepsInv, PrepareImportKeepsInv
            DEF PipelineCallStep
<1> QED BY <1>1, <1>2, <1>3 DEF PipelineNext

\* What every call of the user leaves, and every step of one: the engine, the queue and
\* the cached name fit together (MappingOrchestrator).
THEOREM OrchestratorStaysInOrder == PipelineSpec => []OrchestratorInv
<1>1. PipelineInit => OrchestratorInv
    BY InitHasInv
<1>2. OrchestratorInv /\ [PipelineNext]_pipelineVars => OrchestratorInv'
    BY NextKeepsInv
<1> QED BY <1>1, <1>2, PTL DEF PipelineSpec

\* The variables have their types, and a pending builder waits only between calls
\* (MappingOrchestrator, InputBatch.finalizeStatement).
THEOREM PipelineTypeIsCorrect == PipelineSpec => []PipelineTypeOK
<1>1. OrchestratorInv => PipelineTypeOK
    BY DEF OrchestratorInv
<1> QED BY <1>1, OrchestratorStaysInOrder, PTL

\* An import reads the latest discovery, all of it and nothing else, whatever its own
\* statements write and wherever (MappingOrchestrator.discovery, import).
THEOREM ImportsReadTheLatestDiscovery == PipelineSpec => []ImportReadsLatestDiscovery
<1>1. ASSUME OrchestratorInv, running.kind = "import"
      PROVE  LET latest == {s \in DOMAIN origin : origin[s] = results.number}
                 writes(sids) == StagedEffects(running.source, sids)
             IN  /\ running.source \in engine.databases.names
                 /\ writes(DOMAIN origin) = writes(latest)
                 /\ Cardinality(writes(latest)) = Writes(results.docs)
    <2> DEFINE src == running.source
               latest == {s \in DOMAIN origin : origin[s] = results.number}
               dbs == engine.databases
    <2>1. HoldsResults(results, origin, dbs, src)
        BY <1>1, ImportFacts, SnapshotsAre DEF IsStaged
    <2> HIDE DEF src
    <2>2. StagedEffects(src, DOMAIN origin) = StagedOn(origin, dbs, src)
        BY DEF StagedEffects, StagedOn
    <2>3. StagedEffects(src, latest) = StagedOn(origin, dbs, src)
        BY <2>1 DEF StagedEffects, StagedOn, HoldsResults
    <2> QED BY <2>1, <2>2, <2>3 DEF HoldsResults, src
<1>2. OrchestratorInv => ImportReadsLatestDiscovery
    BY <1>1 DEF ImportReadsLatestDiscovery
<1> QED BY <1>2, OrchestratorStaysInOrder, PTL

\* The target database exists and is selected from an import's first statement to its
\* last (MappingOrchestrator.import, Engine.ensureDatabase).
THEOREM ImportsKeepTheirTarget == PipelineSpec => []TargetExistsDuringImport
<1>1. ASSUME OrchestratorInv, running.kind = "import"
      PROVE  /\ engine.currentDb = running.business
             /\ running.business \in engine.databases.names
             /\ InTransaction(engine) =>
                   running.business \in engine.currentTransaction.databases.names
    BY <1>1, ImportFacts, SnapshotsAre DEF TargetOK
<1>2. OrchestratorInv => TargetExistsDuringImport
    BY <1>1 DEF TargetExistsDuringImport
<1> QED BY <1>2, OrchestratorStaysInOrder, PTL

-----------------------------------------------------------------------------
(* What a step may never do *)

LEMMA StagingStep ==
    ASSUME OrchestratorInv, PipelineNext, running.kind = "staging"
    PROVE  StageBegin \/ StageStatement
<1>1. running # Idle /\ running.kind \notin {"idle", "batch", "import", "importing"}
    BY IdleIsIdle
<1>2. ~ PipelineUserStep
    BY <1>1 DEF PipelineUserStep, Call, UserStatement, UserDraft, UserExecute, Discover,
       BuildBusinessDatabase, BuildDiscoveryDatabase, ImportFromDiscovery
<1>3. ~ PrepareImport /\ ~ ExecuteNext /\ ~ ImportStatement /\ ~ FailImport /\ ~ CommitImport
    BY <1>1 DEF PrepareImport, ExecuteNext, ImportStatement, FailImport, CommitImport
<1> QED BY <1>2, <1>3 DEF PipelineNext, PipelineCallStep

LEMMA StagePublishes ==
    ASSUME OrchestratorInv, StageStatement
    PROVE  /\ \/ engine'.databases = engine.databases
              \/ /\ running'.kind \in {"idle", "importing"}
                 /\ running.name \in engine'.databases.names
                 /\ \A stmt \in Elements(running.body) : IsWhole(engine'.databases, stmt)
           /\ running'.kind # "staging" => ~ InTransaction(engine')
<1> DEFINE rest == running.rest
           body == running.body
           n == running.name
           w == Writes(results.docs)
<1>1. running.kind = "staging" /\ running.phase = "body"
    BY DEF StageStatement
<1>2. PICK out \in ExecuteStatement(engine, policy, Head(rest)) :
          IF out.thrown = "none"
          THEN /\ engine' = out.engine
               /\ running' = IF Len(rest) > 1 THEN WithRest(running, Tail(rest))
                             ELSE Staged
          ELSE engine' = RollbackTx(out.engine) /\ running' = Idle
    <2>1. [running EXCEPT !.rest = Tail(@)] = WithRest(running, Tail(rest))
        BY DEF WithRest
    <2> QED BY <2>1 DEF StageStatement
<1>3. /\ running \in Staging
      /\ results # NoResults /\ results.docs \in Discoveries
      /\ n \in StagingNames
      /\ rest \in Seq(Statement) \ {<<>>}
      /\ BodyOK(body, n, results, origin)
      /\ BodyShape(body, n, w)
      /\ InTransaction(engine)
    BY <1>1, BodyFacts
<1>4. PICK j \in 1..(w + 3) :
          /\ StagedUpTo(rest, body, n, j, engine)
          /\ Head(rest) = body[j]
          /\ body[j] \in Statement
    BY <1>1, BodyFacts
<1>5. Len(body) = w + 3 /\ w \in Nat /\ DOMAIN body = 1..(w + 3)
    BY <1>3 DEF BodyShape
<1> HIDE DEF rest, body, n, w
<1>6. engine \in EngineState /\ policy \in Policy /\ EngineOK(engine, built)
    BY InvFacts
<1>7. out \in ExecuteStatement(engine, policy, body[j])
    BY <1>2, <1>4
<1>8. /\ j # w + 3 => out.engine.databases = engine.databases
      /\ j = w + 3 => out = Returns(CommitTx(engine, policy))
    BY <1>3, <1>6, <1>7, BodyStatementPublishes
<1>9. out.engine \in EngineState
    BY <1>4, <1>6, <1>7, ExecuteGrows DEF Executed
<1>10. CASE j = w + 3
    <2>1. out.thrown = "none" /\ out.engine = CommitTx(engine, policy)
        BY <1>8, <1>10 DEF Returns
    <2>2. StagedUpTo(rest, body, n, w + 3, engine)
        BY <1>4, <1>10
    <2>3. Len(rest) = 1
        BY <1>5, <2>2 DEF StagedUpTo
    <2>4. engine' = CommitTx(engine, policy) /\ running' = Staged
        BY <1>2, <2>1, <2>3
    <2>5. ~ InTransaction(engine') /\ engine'.databases = engine.currentTransaction.databases
        BY <1>3, <1>6, <2>4, CommitStaysOK
    <2>6. /\ n \in engine'.databases.names
          /\ \A i \in DOMAIN body : IsWhole(engine'.databases, body[i])
        BY <1>3, <2>2, <2>5, StagedAll DEF w
    <2>7. Staged.kind \in {"idle", "importing"}
        <3>1. CASE running.import = NoImport
            BY <3>1, IdleIsIdle DEF Staged
        <3>2. CASE running.import # NoImport
            <4>1. running.import \in Importing
                BY <1>3, <3>2 DEF Staging
            <4>2. Staged = [running.import EXCEPT !.source = running.name]
                BY <3>2 DEF Staged
            <4> QED BY <4>1, <4>2 DEF Importing
        <3> QED BY <3>1, <3>2
    <2> QED BY <2>4, <2>5, <2>6, <2>7 DEF Elements, body, n
<1>11. CASE j # w + 3
    <2>1. out.engine.databases = engine.databases
        BY <1>8, <1>11
    <2>2. CASE out.thrown # "none"
        <3>1. engine' = RollbackTx(out.engine)
            BY <1>2, <2>2
        <3> QED BY <1>9, <2>1, <3>1, RollbackStaysOK
    <2>3. CASE out.thrown = "none"
        <3>1. j \in 1..(w + 2)
            BY <1>5, <1>11
        <3>2. Len(rest) > 1
            BY <1>3, <1>4, <1>6, <1>7, <2>3, <3>1, StagedOneMore
        <3>3. engine' = out.engine /\ running' = WithRest(running, Tail(rest))
            BY <1>2, <2>3, <3>2
        <3>4. running'.kind = "staging"
            <4>1. WithRest(running, Tail(rest)).kind = running.kind
                BY <1>3 DEF WithRest, Staging
            <4> QED BY <1>1, <3>3, <4>1
        <3> QED BY <2>1, <3>3, <3>4
    <2> QED BY <2>2, <2>3
<1> QED BY <1>10, <1>11

\* Staging publishes the discovery database whole, in the step that commits it, or not
\* at all, for any results (DiscoveryDatabaseBuilder.build).
THEOREM StagingPublishesAllOrNothing == PipelineSpec => StagingIsAllOrNothing
<1>1. OrchestratorInv /\ [PipelineNext]_pipelineVars =>
          [running.kind = "staging" /\ running.phase = "body" =>
              /\ \/ engine'.databases = engine.databases
                 \/ /\ running'.kind \in {"idle", "importing"}
                    /\ running.name \in engine'.databases.names
                    /\ \A stmt \in Elements(running.body) : IsWhole(engine'.databases, stmt)
              /\ running'.kind # "staging" => ~ InTransaction(engine')]_pipelineVars
    <2> SUFFICES ASSUME OrchestratorInv, PipelineNext,
                        running.kind = "staging", running.phase = "body"
                 PROVE  /\ \/ engine'.databases = engine.databases
                           \/ /\ running'.kind \in {"idle", "importing"}
                              /\ running.name \in engine'.databases.names
                              /\ \A stmt \in Elements(running.body) :
                                     IsWhole(engine'.databases, stmt)
                        /\ running'.kind # "staging" => ~ InTransaction(engine')
        OBVIOUS
    <2>1. StageStatement
        <3>1. ~ StageBegin
            BY DEF StageBegin
        <3> QED BY <3>1, StagingStep
    <2> QED BY <2>1, StagePublishes
<1> QED BY <1>1, OrchestratorStaysInOrder, PTL DEF PipelineSpec, StagingIsAllOrNothing

LEMMA StageSpares ==
    ASSUME OrchestratorInv, running.kind = "staging", StageBegin \/ StageStatement
    PROVE  /\ running.phase = "body" =>
                  /\ InTransaction(engine)
                  /\ Elements(engine.currentTransaction.stmts) \subseteq OwnSids
                  /\ engine.databases.effects \subseteq engine.currentTransaction.databases.effects
           /\ running.phase = "begin" /\ InTransaction(engine)
                  /\ Head(running.rest).kind \notin {"commit", "rollback"} =>
                  engine'.currentTransaction # NoTransaction
                  /\ engine'.currentTransaction.id = engine.currentTransaction.id
<1>1. /\ engine \in EngineState /\ policy \in Policy /\ EngineOK(engine, built)
    BY InvFacts
<1>2. ASSUME running.phase = "body"
      PROVE  /\ InTransaction(engine)
             /\ Elements(engine.currentTransaction.stmts) \subseteq OwnSids
             /\ engine.databases.effects \subseteq engine.currentTransaction.databases.effects
    <2>1. /\ InTransaction(engine)
          /\ Elements(engine.currentTransaction.stmts) \subseteq SidsIn(running.body)
        BY <1>2, BodyFacts
    <2> QED BY <1>1, <2>1 DEF EngineOK, KeepsCommitted, OwnSids
<1>3. ASSUME running.phase = "begin", InTransaction(engine),
             Head(running.rest).kind \notin {"commit", "rollback"}
      PROVE  /\ engine'.currentTransaction # NoTransaction
             /\ engine'.currentTransaction.id = engine.currentTransaction.id
    <2> DEFINE stmt == Head(running.rest)
    <2>1. StageBegin
        BY <1>3 DEF StageStatement
    <2>2. PICK out \in ExecuteStatement(engine, policy, stmt) : engine' = out.engine
        BY <2>1 DEF StageBegin
    <2>3. stmt \in Statement
        <3>1. running.rest \in Seq(Statement) \ {<<>>}
            BY StagingFacts DEF Staging
        <3> QED BY <3>1, HeadOfQueue
    <2> HIDE DEF stmt
    <2>4. Executed(engine, out, stmt)
        BY <1>1, <2>3, ExecuteGrows
    <2>5. stmt.kind \notin {"commit", "rollback"}
        BY <1>3 DEF stmt
    <2> QED BY <1>3, <2>2, <2>4, <2>5 DEF Executed, InTransaction
<1> QED BY <1>2, <1>3

\* The transaction that a staging may roll back holds nothing of the user's, and a
\* transaction of the user's stays open through a staging that it makes impossible
\* (DiscoveryDatabaseBuilder.build).
THEOREM StagingLeavesTheUserAlone == PipelineSpec => StagingSparesTheUser
<1>1. OrchestratorInv /\ [PipelineNext]_pipelineVars =>
          [running.kind = "staging" =>
              /\ running.phase = "body" =>
                    /\ InTransaction(engine)
                    /\ Elements(engine.currentTransaction.stmts) \subseteq OwnSids
                    /\ engine.databases.effects
                          \subseteq engine.currentTransaction.databases.effects
              /\ running.phase = "begin" /\ InTransaction(engine)
                    /\ Head(running.rest).kind \notin {"commit", "rollback"} =>
                    engine'.currentTransaction # NoTransaction
                    /\ engine'.currentTransaction.id
                          = engine.currentTransaction.id]_pipelineVars
    BY StagingStep, StageSpares
<1> QED BY <1>1, OrchestratorStaysInOrder, PTL DEF PipelineSpec, StagingSparesTheUser

-----------------------------------------------------------------------------
(* What a committed database is lost to *)

\* What an open transaction began from, or what is committed, is among dbs.
KeepsKnown(e, dbs) ==
    LET known == IF InTransaction(e) THEN e.currentTransaction.databases ELSE e.databases
    IN  /\ e.databases.names \cap known.names \subseteq dbs.names
        /\ e.databases.effects \cap known.effects \subseteq dbs.effects

LEMMA KnownIsKept ==
    ASSUME NEW e, NEW dbs,
           \/ e.databases.names \subseteq dbs.names /\ e.databases.effects \subseteq dbs.effects
           \/ InTransaction(e) /\ dbs = e.currentTransaction.databases
    PROVE  KeepsKnown(e, dbs)
BY DEF KeepsKnown

LEMMA ExecutedKeepsKnown ==
    ASSUME NEW e \in EngineState, NEW p \in Policy, NEW stmt \in Statement,
           NEW out \in ExecuteStatement(e, p, stmt)
    PROVE  /\ KeepsKnown(e, out.engine.databases)
           /\ KeepsKnown(e, RollbackTx(out.engine).databases)
<1>1. Executed(e, out, stmt)
    BY ExecuteGrows
<1>2. RollbackTx(out.engine).databases = out.engine.databases
    BY <1>1, RollbackStaysOK DEF Executed
<1>3. KeepsKnown(e, out.engine.databases)
    BY <1>1, KnownIsKept DEF Executed, Grows
<1> QED BY <1>2, <1>3

\* The steps that execute a statement, of whatever call.
LEMMA StatementStepKeepsKnown ==
    ASSUME OrchestratorInv,
           StageBegin \/ StageStatement \/ ExecuteNext \/ ImportStatement \/ FailImport
    PROVE  KeepsKnown(engine, engine'.databases)
<1>1. engine \in EngineState /\ policy \in Policy
    BY InvFacts
<1>2. ASSUME NEW stmt \in Statement, NEW out \in ExecuteStatement(engine, policy, stmt),
             engine' \in {out.engine, RollbackTx(out.engine)}
      PROVE  KeepsKnown(engine, engine'.databases)
    BY <1>1, <1>2, ExecutedKeepsKnown
<1>3. ASSUME running.kind = "staging" PROVE Head(running.rest) \in Statement
    <2>1. running.rest \in Seq(Statement) \ {<<>>}
        BY <1>3, StagingFacts DEF Staging
    <2> QED BY <2>1, HeadOfQueue
<1>4. ASSUME StageBegin PROVE KeepsKnown(engine, engine'.databases)
    <2>1. running.kind = "staging"
          /\ \E out \in ExecuteStatement(engine, policy, Head(running.rest)) :
                 engine' = out.engine
        BY <1>4 DEF StageBegin
    <2> QED BY <1>2, <1>3, <2>1
<1>5. ASSUME StageStatement PROVE KeepsKnown(engine, engine'.databases)
    <2>1. running.kind = "staging"
          /\ \E out \in ExecuteStatement(engine, policy, Head(running.rest)) :
                 engine' \in {out.engine, RollbackTx(out.engine)}
        BY <1>5 DEF StageStatement
    <2> QED BY <1>2, <1>3, <2>1
<1>6. ASSUME ExecuteNext PROVE KeepsKnown(engine, engine'.databases)
    <2>1. running.kind = "batch"
          /\ \E out \in ExecuteStatement(engine, policy, Head(running.rest)) :
                 engine' = out.engine
        BY <1>6 DEF ExecuteNext
    <2>2. running \in Batch
        BY <2>1 DEF OrchestratorInv, CallOK, Idle, Importing, DirectedImport, Staging
    <2>3. Head(running.rest) \in Statement
        BY <2>2, HeadOfQueue DEF Batch
    <2> QED BY <1>2, <2>1, <2>3
<1>7. ASSUME ImportStatement \/ FailImport PROVE KeepsKnown(engine, engine'.databases)
    <2> DEFINE stmt == running.ruleset[running.instruction][running.statement]
    <2>1. /\ running.kind = "import" /\ running.instruction <= Len(running.ruleset)
          /\ \E out \in ExecuteStatement(engine, policy, stmt) :
                 engine' \in {out.engine, RollbackTx(out.engine)}
        BY <1>7 DEF ImportStatement, FailImport
    <2>2. stmt \in Statement
        BY <2>1, NextStatementOfImport
    <2> QED BY <1>2, <2>1, <2>2
<1> QED BY <1>4, <1>5, <1>6, <1>7

LEMMA PrepareImportKeepsKnown ==
    ASSUME OrchestratorInv, PrepareImport
    PROVE  KeepsKnown(engine, engine'.databases)
<1> DEFINE n == running.business
           ensured == [engine EXCEPT !.databases = WithDatabase(@, n)]
           selected == [ensured EXCEPT !.currentDb = n]
<1>1. running.kind = "importing" /\ engine' \in {ensured, selected, BeginTx(selected)}
    BY DEF PrepareImport
<1>2. running \in Importing
    BY <1>1 DEF OrchestratorInv, CallOK, Idle, Batch, DirectedImport, Staging
<1>3. n \in Names
    BY <1>2, PipelineAssumption DEF Importing
<1>4. engine \in EngineState
    BY InvFacts
<1> HIDE DEF n
<1>5. /\ ensured \in EngineState
      /\ engine.databases.names \subseteq ensured.databases.names
      /\ ensured.databases.effects = engine.databases.effects
    BY <1>3, <1>4, EnsuredStaysOK
<1> HIDE DEF ensured
<1>6. selected \in EngineState /\ selected.databases = ensured.databases
    BY <1>3, <1>5, SelectedStaysOK
<1> HIDE DEF selected
<1>7. BeginTx(selected).databases = ensured.databases
    BY <1>6, BegunStaysOK
<1>8. engine'.databases = ensured.databases
    BY <1>1, <1>6, <1>7
<1> QED BY <1>5, <1>8, KnownIsKept

LEMMA UserStepKeepsKnown ==
    ASSUME OrchestratorInv, PipelineUserStep
    PROVE  KeepsKnown(engine, engine'.databases)
<1>1. engine' = engine => KeepsKnown(engine, engine'.databases)
    BY KnownIsKept
<1>2. ASSUME NEW n \in BusinessNames, BuildBusinessDatabase(n)
      PROVE  KeepsKnown(engine, engine'.databases)
    <2>1. engine' = engine \/ engine' = [engine EXCEPT !.databases = WithDatabase(@, n)]
        BY <1>2 DEF BuildBusinessDatabase
    <2>2. n \in Names /\ engine \in EngineState
        BY InvFacts, PipelineAssumption
    <2> DEFINE f == [engine EXCEPT !.databases = WithDatabase(@, n)]
    <2>3. /\ f.databases.names = engine.databases.names \cup {n}
          /\ f.databases.effects = engine.databases.effects
        BY <2>2, EnsuredStaysOK
    <2> HIDE DEF f
    <2>4. engine' = f => KeepsKnown(engine, engine'.databases)
        BY <2>3, KnownIsKept
    <2> QED BY <1>1, <2>1, <2>4 DEF f
<1> QED BY <1>1, <1>2 DEF PipelineUserStep, UserStatement, UserDraft, UserExecute, Discover,
           BuildDiscoveryDatabase, ImportFromDiscovery

LEMMA StepKeepsKnown ==
    ASSUME OrchestratorInv, PipelineNext
    PROVE  KeepsKnown(engine, engine'.databases)
<1>1. CASE PipelineUserStep
    BY <1>1, UserStepKeepsKnown
<1>2. CASE PrepareImport
    BY <1>2, PrepareImportKeepsKnown
<1>3. CASE StageBegin \/ StageStatement \/ ExecuteNext \/ ImportStatement \/ FailImport
    BY <1>3, StatementStepKeepsKnown
<1>4. CASE CommitImport
    <2>1. engine \in EngineState /\ policy \in Policy
        BY InvFacts
    <2>2. \/ engine' = engine
          \/ InTransaction(engine) /\ engine' = CommitTx(engine, policy)
        BY <1>4 DEF CommitImport
    <2>3. \/ engine'.databases = engine.databases
          \/ InTransaction(engine) /\ engine'.databases = engine.currentTransaction.databases
        BY <2>1, <2>2, CommitStaysOK
    <2> QED BY <2>3, KnownIsKept
<1> QED BY <1>1, <1>2, <1>3, <1>4 DEF PipelineNext, PipelineCallStep

\* A committed database, with its contents, is lost only to the commit of a transaction
\* begun before it (Engine.install, ensureDatabase, commitTx).
THEOREM CommittedDatabasesStay == PipelineSpec => OnlyOlderTransactionsOverwrite
<1>1. OrchestratorInv /\ [PipelineNext]_pipelineVars =>
          [LET known == IF InTransaction(engine) THEN engine.currentTransaction.databases
                        ELSE engine.databases
           IN  /\ engine.databases.names \cap known.names \subseteq engine'.databases.names
               /\ engine.databases.effects \cap known.effects
                     \subseteq engine'.databases.effects]_pipelineVars
    BY StepKeepsKnown DEF KeepsKnown
<1> QED BY <1>1, OrchestratorStaysInOrder, PTL DEF PipelineSpec, OnlyOlderTransactionsOverwrite
=============================================================================
