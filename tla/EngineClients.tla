---------------------------- MODULE EngineClients ----------------------------
(***************************************************************************)
(* One Engine and its callers: the input batch a user queues statements in *)
(* and executes, ImportEngine, ValidationEngine, and the orchestrator's    *)
(* ensureDatabase.  A step is one statement, because a statement may throw *)
(* and what the callers do about it is the point.  The program is          *)
(* single-threaded: while a caller runs its statements nobody else moves.  *)
(***************************************************************************)
EXTENDS EngineModel

CONSTANTS
    Shapes,          \* the statements a user queues, as [kind, db, actions]
    ImportShapes,    \* the statements an import instruction holds
    RuleShapes,      \* the constraint statements a validation rule holds
    MaxStatements,   \* bound: statements built in a behaviour
    MaxInstructions, \* bound: instructions of a ruleset, rules of a validation
    MaxPerGroup      \* bound: statements of one instruction or rule

Shape ==
    {s \in [kind : StatementKinds, db : Names \cup {NoName}, actions : 0..MaxActions] :
        NamesWhatItCreates(s)}

ASSUME ShapesAssumption ==
    /\ Shapes \subseteq Shape
    /\ ImportShapes \subseteq {s \in Shape : s.kind \in {"sql", "rollback"}}
    /\ RuleShapes \subseteq {s \in Shape : s.kind = "sql"}
    /\ MaxStatements \in Nat /\ MaxInstructions \in Nat /\ MaxPerGroup \in Nat

VARIABLES
    engine,    \* the Engine
    policy,    \* the transaction rules its RuleResolver resolves
    pending,   \* the statements of the engine's input batch
    running,   \* the call in progress, or Idle
    report,    \* the last ImportReport, or NoReport
    built      \* how many statements have been built; statements are numbered

vars == <<engine, policy, pending, running, report, built>>

-----------------------------------------------------------------------------
(* Calls in progress and reports *)

Idle == [kind |-> "idle"]

Batch == [kind : {"batch"}, rest : Seq(Statement) \ {<<>>}]

Status == {"succeeded", "failed", "notExecuted"}

\* instruction and statement are the positions of the statement to run next.
Import ==
    [kind : {"import"}, ruleset : Seq(Seq(Statement)),
     instruction : Nat, statement : Nat, results : Seq(Status)]

\* The rules left, the current one first; statement = 0 while it has not begun.
Validation ==
    [kind : {"validation"}, database : Names, rules : Seq(Seq(Statement)), statement : Nat]

NoReport == [committed |-> FALSE]

Report ==
    [ruleset : Seq(Seq(Statement)), results : Seq(Status),
     failedStatement : Nat, committed : BOOLEAN]

NewStatement(shape, sid) ==
    [sid |-> sid, kind |-> shape.kind, db |-> shape.db, actions |-> shape.actions]

\* The positions of the statements of a ruleset, given as the shapes of its groups, and
\* those up to one of them: the statements are built in that order.
Places(shapes) == UNION {{g} \X DOMAIN shapes[g] : g \in DOMAIN shapes}

UpTo(shapes, g, i) == {p \in Places(shapes) : p[1] < g \/ (p[1] = g /\ p[2] <= i)}

SizeOf(shapes) == Cardinality(Places(shapes))

\* The statements of a ruleset, built after the first b.
Groups(shapes, b) ==
    [g \in DOMAIN shapes |->
        [i \in DOMAIN shapes[g] |->
            NewStatement(shapes[g][i], b + Cardinality(UpTo(shapes, g, i)))]]

NonEmptyUpTo(S, n) == UNION {[1..k -> S] : k \in 1..n}

Rulesets(shapes) == NonEmptyUpTo(NonEmptyUpTo(shapes, MaxPerGroup), MaxInstructions)

-----------------------------------------------------------------------------
(* The user and the input batch *)

Init ==
    /\ engine = NewEngine
    /\ policy \in Policy
    /\ pending = <<>>
    /\ running = Idle
    /\ report = NoReport
    /\ built = 0

\* InputBatch.addStatement
AddStatement(shape) ==
    /\ running = Idle
    /\ built < MaxStatements
    /\ pending' = Append(pending, NewStatement(shape, built + 1))
    /\ built' = built + 1
    /\ UNCHANGED <<engine, policy, running, report>>

\* Mutant: the queue is not emptied.
ExecuteAndKeep ==
    /\ running = Idle
    /\ pending # <<>>
    /\ running' = [kind |-> "batch", rest |-> pending]
    /\ UNCHANGED <<engine, policy, pending, report, built>>

\* Engine.execute and InputBatch.execute: the queue is emptied before the first
\* statement runs, whatever becomes of the statements.
Execute ==
    /\ running = Idle
    /\ pending # <<>>
    /\ pending' = <<>>
    /\ running' = [kind |-> "batch", rest |-> pending]
    /\ UNCHANGED <<engine, policy, report, built>>

\* Mutant: the loop runs one statement too many.
ExecuteNextAndOver ==
    /\ running.kind = "batch"
    /\ \E out \in ExecuteStatement(engine, policy, Head(running.rest)) :
          /\ engine' = out.engine
          /\ running' = IF out.thrown # "none" THEN Idle
                        ELSE [running EXCEPT !.rest = Tail(@)]
    /\ UNCHANGED <<policy, pending, report, built>>

\* The next statement of the batch; a throw drops the rest of it.
ExecuteNext ==
    /\ running.kind = "batch"
    /\ \E out \in ExecuteStatement(engine, policy, Head(running.rest)) :
          /\ engine' = out.engine
          /\ running' = IF out.thrown # "none" \/ Len(running.rest) = 1
                        THEN Idle
                        ELSE [running EXCEPT !.rest = Tail(@)]
    /\ UNCHANGED <<policy, pending, report, built>>

\* Engine.updatePolicy: the RuleResolver drops its cache with the old rules.
UpdatePolicy ==
    /\ running = Idle
    /\ policy' = [policy EXCEPT !.autoCommit = ~ @]
    /\ UNCHANGED <<engine, pending, running, report, built>>

\* Engine.ensureDatabase, outside any transaction.
EnsureDatabase(n) ==
    /\ running = Idle
    /\ n \notin engine.databases.names
    /\ engine' = [engine EXCEPT !.databases = WithDatabase(@, n)]
    /\ UNCHANGED <<policy, pending, running, report, built>>

-----------------------------------------------------------------------------
(* ImportEngine.import *)

\* The target database is selected before the transaction is asked for.  With a
\* transaction already open beginTx throws.
BeginImport(shapes, n) ==
    LET selected == [engine EXCEPT !.currentDb = n]
    IN  /\ running = Idle
        /\ built + SizeOf(shapes) <= MaxStatements
        /\ built' = built + SizeOf(shapes)
        /\ IF InTransaction(engine)
           THEN engine' = selected /\ UNCHANGED running
           ELSE /\ engine' = BeginTx(selected)
                /\ running' = [kind |-> "import", ruleset |-> Groups(shapes, built),
                               instruction |-> 1, statement |-> 1, results |-> <<>>]
        /\ UNCHANGED <<policy, pending, report>>

\* One statement that returns, and the result of an instruction with its last one.
ImportStatement ==
    /\ running.kind = "import"
    /\ running.instruction <= Len(running.ruleset)
    /\ LET statements == running.ruleset[running.instruction]
       IN  \E out \in ExecuteStatement(engine, policy, statements[running.statement]) :
              /\ out.thrown = "none"
              /\ engine' = out.engine
              /\ running' =
                    IF running.statement < Len(statements)
                    THEN [running EXCEPT !.statement = @ + 1]
                    ELSE [running EXCEPT !.instruction = @ + 1, !.statement = 1,
                                         !.results = Append(@, "succeeded")]
    /\ UNCHANGED <<policy, pending, report, built>>

\* Mutant: a failed instruction does not end the import.
FailInstructionAndGoOn ==
    /\ running.kind = "import"
    /\ running.instruction <= Len(running.ruleset)
    /\ \E out \in ExecuteStatement(engine, policy,
                     running.ruleset[running.instruction][running.statement]) :
          /\ out.thrown # "none"
          /\ engine' = out.engine
    /\ running' = [running EXCEPT !.instruction = @ + 1, !.statement = 1,
                                  !.results = Append(@, "failed")]
    /\ UNCHANGED <<policy, pending, report, built>>

\* Mutant: the failed import commits what it has.
FailImportAndCommit ==
    /\ running.kind = "import"
    /\ running.instruction <= Len(running.ruleset)
    /\ \E out \in ExecuteStatement(engine, policy,
                     running.ruleset[running.instruction][running.statement]) :
          /\ out.thrown # "none"
          /\ engine' = CommitTx(out.engine, policy)
    /\ running' = Idle
    /\ UNCHANGED <<policy, pending, report, built>>

\* One statement that throws: the instruction failed, the later ones were not
\* executed, the transaction is rolled back and the import reports.
FailImport ==
    /\ running.kind = "import"
    /\ running.instruction <= Len(running.ruleset)
    /\ \E out \in ExecuteStatement(engine, policy,
                     running.ruleset[running.instruction][running.statement]) :
          /\ out.thrown # "none"
          /\ engine' = RollbackTx(out.engine)
    /\ report' =
          [ruleset |-> running.ruleset,
           results |-> [i \in DOMAIN running.ruleset |->
                           IF i < running.instruction THEN running.results[i]
                           ELSE IF i = running.instruction THEN "failed"
                           ELSE "notExecuted"],
           failedStatement |-> running.statement,
           committed |-> FALSE]
    /\ running' = Idle
    /\ UNCHANGED <<policy, pending, built>>

\* commitTx, which throws past the report if the transaction is gone.
CommitImport ==
    /\ running.kind = "import"
    /\ running.instruction > Len(running.ruleset)
    /\ IF InTransaction(engine)
       THEN /\ engine' = CommitTx(engine, policy)
            /\ report' = [ruleset |-> running.ruleset, results |-> running.results,
                          failedStatement |-> 0, committed |-> TRUE]
       ELSE UNCHANGED <<engine, report>>
    /\ running' = Idle
    /\ UNCHANGED <<policy, pending, built>>

-----------------------------------------------------------------------------
(* ValidationEngine.validate *)

Validate(n, shapes) ==
    /\ running = Idle
    /\ built + SizeOf(shapes) <= MaxStatements
    /\ built' = built + SizeOf(shapes)
    /\ running' = [kind |-> "validation", database |-> n,
                   rules |-> Groups(shapes, built), statement |-> 0]
    /\ UNCHANGED <<engine, policy, pending, report>>

\* Mutant: a rule joins the transaction that is open.
BeginRuleInOpenTx ==
    LET selected == [engine EXCEPT !.currentDb = running.database]
    IN  /\ running.kind = "validation"
        /\ running.statement = 0
        /\ IF running.database \notin engine.databases.names
           THEN running' = Idle /\ UNCHANGED engine
           ELSE /\ engine' = IF InTransaction(engine) THEN selected ELSE BeginTx(selected)
                /\ running' = [running EXCEPT !.statement = 1]
        /\ UNCHANGED <<policy, pending, report, built>>

\* evaluateRule up to its try: an unknown database throws, and so does beginTx when
\* a transaction is open, with the database already selected.
BeginRule ==
    LET selected == [engine EXCEPT !.currentDb = running.database]
    IN  /\ running.kind = "validation"
        /\ running.statement = 0
        /\ IF running.database \notin engine.databases.names
           THEN running' = Idle /\ UNCHANGED engine
           ELSE IF InTransaction(engine)
           THEN running' = Idle /\ engine' = selected
           ELSE engine' = BeginTx(selected) /\ running' = [running EXCEPT !.statement = 1]
        /\ UNCHANGED <<policy, pending, report, built>>

NextRule ==
    IF Len(running.rules) = 1 THEN Idle
    ELSE [running EXCEPT !.rules = Tail(@), !.statement = 0]

\* Mutant: no finally, so an unexpected error leaves the transaction open.
EvaluateStatementNoFinally ==
    LET rule == Head(running.rules)
    IN  /\ running.kind = "validation"
        /\ running.statement # 0
        /\ \E out \in ExecuteStatement(engine, policy, rule[running.statement]) :
              IF out.thrown = "none" /\ running.statement < Len(rule)
              THEN /\ engine' = out.engine
                   /\ running' = [running EXCEPT !.statement = @ + 1]
              ELSE IF out.thrown = "error"
              THEN engine' = out.engine /\ running' = Idle
              ELSE engine' = RollbackTx(out.engine) /\ running' = NextRule
        /\ UNCHANGED <<policy, pending, report, built>>

\* One constraint statement.  After a violation or the last statement the rule has
\* its result; any other error propagates.  All three go through the finally.
EvaluateStatement ==
    LET rule == Head(running.rules)
    IN  /\ running.kind = "validation"
        /\ running.statement # 0
        /\ \E out \in ExecuteStatement(engine, policy, rule[running.statement]) :
              IF out.thrown = "none" /\ running.statement < Len(rule)
              THEN /\ engine' = out.engine
                   /\ running' = [running EXCEPT !.statement = @ + 1]
              ELSE /\ engine' = RollbackTx(out.engine)
                   /\ running' = IF out.thrown = "error" THEN Idle ELSE NextRule
        /\ UNCHANGED <<policy, pending, report, built>>

-----------------------------------------------------------------------------

UserStep ==
    \/ \E shape \in Shapes : AddStatement(shape)
    \/ Execute
    \/ UpdatePolicy
    \/ \E n \in Names : EnsureDatabase(n)
    \/ \E n \in Names : \E shapes \in Rulesets(ImportShapes) : BeginImport(shapes, n)
    \/ \E n \in Names : \E shapes \in Rulesets(RuleShapes) : Validate(n, shapes)

CallStep ==
    \/ ExecuteNext
    \/ ImportStatement
    \/ FailImport
    \/ CommitImport
    \/ BeginRule
    \/ EvaluateStatement

Next == UserStep \/ CallStep

Spec == Init /\ [][Next]_vars

-----------------------------------------------------------------------------
(* Properties *)

TypeOK ==
    /\ engine \in EngineState
    /\ policy \in Policy
    /\ pending \in Seq(Statement)
    /\ running \in {Idle} \cup Batch \cup Import \cup Validation
    /\ report \in {NoReport} \cup Report
    /\ built \in 0..MaxStatements

\* The actions of statement s that a set of databases holds.
ActionsOf(dbs, s) == {k \in 1..MaxActions : \E n \in dbs.names : <<n, s, k>> \in dbs.effects}

IsWhole(dbs, stmt) == stmt.kind = "sql" => ActionsOf(dbs, stmt.sid) = 1..stmt.actions

Elements(seq) == {seq[i] : i \in DOMAIN seq}

StatementsOf(ruleset) == UNION {Elements(group) : group \in Elements(ruleset)}

\* Outside a transaction a statement that compiles to several actions is published
\* with all of them or not at all, whichever of them throws.
AutoCommitIsAtomic ==
    [][running.kind = "batch" /\ ~ InTransaction(engine) =>
          \/ engine'.databases = engine.databases
          \/ IsWhole(engine'.databases, Head(running.rest))]_vars

\* An import changes the committed databases at most once, in the step that
\* reports them committed, and then with every action of every instruction; it
\* leaves no transaction behind.
ImportIsAllOrNothing ==
    [][running.kind = "import" =>
          /\ \/ engine'.databases = engine.databases
             \/ /\ running' = Idle /\ report'.committed
                /\ \A stmt \in StatementsOf(running.ruleset) : IsWhole(engine'.databases, stmt)
          /\ running' = Idle => ~ InTransaction(engine')]_vars

\* The statements some transaction has recorded, this one included.
Recorded(e) ==
    (UNION {Elements(h.stmts) : h \in e.txHistory})
        \cup IF InTransaction(e) THEN Elements(e.currentTransaction.stmts) ELSE {}

\* A report has one result per instruction, in order, and what it calls not
\* executed was not executed: no transaction has recorded a statement behind the
\* failed one, then or later, and no database shows one.
ReportAccountsForEveryInstruction ==
    report # NoReport =>
        LET at == CHOOSE i \in 1..Len(report.ruleset) + 1 :
                      \A j \in 1..Len(report.results) :
                          (report.results[j] = "succeeded") <=> (j < i)
            unrun == UNION {{report.ruleset[g][i].sid :
                                i \in {k \in DOMAIN report.ruleset[g] :
                                           g = at => k > report.failedStatement}} :
                            g \in at..Len(report.ruleset)}
        IN  /\ Len(report.results) = Len(report.ruleset)
            /\ report.committed <=> at > Len(report.ruleset)
            /\ \A i \in DOMAIN report.results :
                   report.results[i] = (IF i < at THEN "succeeded"
                                        ELSE IF i = at THEN "failed" ELSE "notExecuted")
            /\ unrun \cap Recorded(engine) = {}
            /\ \A s \in unrun : ActionsOf(engine.databases, s) = {}

\* Validation never changes the committed databases, and leaves a transaction open
\* only if it was refused because its caller had one.
ValidationLeavesNoTrace ==
    [][running.kind = "validation" =>
          /\ engine'.databases = engine.databases
          /\ running'.kind # "validation" =>
                engine'.currentTransaction =
                    IF running.statement = 0 THEN engine.currentTransaction
                    ELSE NoTransaction]_vars

\* A rule is evaluated against the committed databases: its transaction shows no
\* action of an earlier rule or of anybody else.
RulesAreIndependent ==
    running.kind = "validation" /\ running.statement # 0 =>
        /\ InTransaction(engine)
        /\ \A effect \in engine.currentTransaction.databases.effects \ engine.databases.effects :
              \E stmt \in Elements(Head(running.rules)) : effect[2] = stmt.sid

\* With history tracking on, every committed action belongs to a statement in the
\* history, also one whose statement threw half-way in a transaction committed since.
HistoryExplainsCommitted ==
    policy.trackStatementHistory =>
        \A effect \in engine.databases.effects :
            \E h \in engine.txHistory : effect[2] \in Elements(h.stmts)

\* No statement runs twice, however often the batch it was queued in is executed.
NoStatementRunsTwice ==
    LET runs == engine.txHistory \cup
                (IF InTransaction(engine)
                 THEN {[id |-> engine.currentTransaction.id,
                        stmts |-> engine.currentTransaction.stmts]}
                 ELSE {})
    IN  \A a, b \in runs : \A i \in DOMAIN a.stmts, j \in DOMAIN b.stmts :
            a.stmts[i] = b.stmts[j] => a = b /\ i = j

\* No later commit undoes a committed action: a snapshot published over the
\* committed databases always contains what they hold.
NoCommittedActionIsLost ==
    [][engine.databases.effects \subseteq engine'.databases.effects]_vars
=============================================================================
