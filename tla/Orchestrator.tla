----------------------------- MODULE Orchestrator -----------------------------
(***************************************************************************)
(* MappingOrchestrator over one Engine: discovery, staging the results in  *)
(* a discovery database, building the business database from them, and     *)
(* importing from the one into the other, between calls of a user who      *)
(* shares the engine's input batch.  The engine, the import loop and the   *)
(* user's batch are those of EngineClients.  What is built from the        *)
(* results is a parameter; MappingPipeline supplies it.                    *)
(***************************************************************************)
EXTENDS EngineClients

CONSTANTS
    StagingNames,    \* names a user stages discovery databases under
    BusinessNames,   \* names of business databases
    ImportRulesets,  \* what a user imports: the shapes of each instruction
    Discoveries,     \* what a discovery may find: sequences of documents
    RootNodeType,    \* the node type the business database is built from
    Build(_, _),     \* what is built from documents of a node type, or a throw
    MaxCalls         \* bound: calls of the user in a behaviour

ASSUME PipelineAssumption ==
    /\ StagingNames \cup BusinessNames \subseteq Names
    /\ ImportRulesets \subseteq Rulesets(Shape)
    /\ \A docs \in Discoveries : IsFiniteSet(DOMAIN docs)
    /\ MaxCalls \in Nat /\ MaxActions >= 1

VARIABLES
    draft,         \* the statement the user's pending builder holds, or NoDraft
    results,       \* the orchestrator's discovery results, or NoResults
    cached,        \* its name of the staged discovery database, or NoName
    business,      \* history: the business databases built, by name
    origin,        \* history: the discovery each staged statement came from
    calls          \* how many calls the user has made

pipelineVars ==
    <<engine, policy, pending, running, report, built,
      draft, results, cached, business, origin, calls>>

NoDraft == [kind |-> "none", whole |-> TRUE]

NoResults == [number |-> 0]

\* A call of the user, while no other call runs.
Call == running = Idle /\ calls < MaxCalls /\ calls' = calls + 1

PipelineInit ==
    /\ engine = NewEngine
    /\ policy = [autoCommit |-> TRUE, trackStatementHistory |-> FALSE]
    /\ pending = <<>>
    /\ running = Idle
    /\ report = NoReport
    /\ built = 0
    /\ draft = NoDraft
    /\ results = NoResults
    /\ cached = NoName
    /\ business = [n \in {} |-> 0]
    /\ origin = [s \in {} |-> 0]
    /\ calls = 0

orchestrator == <<results, cached, business, origin>>

-----------------------------------------------------------------------------
(* The user's own statements *)

\* A statement that is whole at once; a pending builder refuses it.
UserStatement(shape) ==
    /\ Call
    /\ draft = NoDraft
    /\ pending' = Append(pending, NewStatement(shape, built + 1))
    /\ built' = built + 1
    /\ UNCHANGED <<engine, policy, running, report, draft, orchestrator>>

\* What finalizeStatement leaves in the queue, where it does not throw.
Finalized == IF draft = NoDraft THEN pending ELSE Append(pending, draft.stmt)

CanFinalize == draft.whole

\* insertInto, which finalizes the pending builder before it looks at it and
\* leaves its own pending, whole once values was called.
UserDraft(shape, whole) ==
    /\ Call
    /\ CanFinalize
    /\ pending' = Finalized
    /\ draft' = [kind |-> "insert", whole |-> whole, stmt |-> NewStatement(shape, built + 1)]
    /\ built' = built + 1
    /\ UNCHANGED <<engine, policy, running, report, orchestrator>>

\* Mutant: the pending builder is queued and kept.
UserExecuteKeepingDraft ==
    /\ running = Idle
    /\ CanFinalize
    /\ Finalized # <<>>
    /\ running' = [kind |-> "batch", rest |-> Finalized]
    /\ pending' = <<>>
    /\ UNCHANGED <<engine, policy, report, built, draft, orchestrator, calls>>

\* InputBatch.execute.  Not counted as a call: it takes a queue.
UserExecute ==
    /\ running = Idle
    /\ CanFinalize
    /\ Finalized # <<>>
    /\ running' = [kind |-> "batch", rest |-> Finalized]
    /\ pending' = <<>>
    /\ draft' = NoDraft
    /\ UNCHANGED <<engine, policy, report, built, orchestrator, calls>>

-----------------------------------------------------------------------------
(* Discovery and the business database *)

\* Mutant: the name of the staged database outlives the results in it.
DiscoverKeepingName(docs) ==
    /\ Call
    /\ results' = [number |-> results.number + 1, docs |-> docs]
    /\ report' = NoReport
    /\ UNCHANGED <<engine, policy, pending, running, built, draft, cached, business, origin>>

\* discovery(), which touches no engine.
Discover(docs) ==
    /\ Call
    /\ results' = [number |-> results.number + 1, docs |-> docs]
    /\ cached' = NoName
    /\ report' = NoReport
    /\ UNCHANGED <<engine, policy, pending, running, built, draft, business, origin>>

\* The databases built, the latest under each name.
WithBusiness(n, database) ==
    [m \in DOMAIN business \cup {n} |-> IF m = n THEN database ELSE business[m]]

\* Mutant: the databases are built from what the engine was created with.
BuildBusinessDatabaseAnew(n) ==
    /\ Call
    /\ results # NoResults
    /\ LET database == Build(results.docs, RootNodeType)
       IN  IF n \in engine.databases.names \/ database.thrown
           THEN UNCHANGED <<engine, report, business>>
           ELSE /\ engine' = [engine EXCEPT !.databases = WithDatabase(NewEngine.databases, n)]
                /\ business' = WithBusiness(n, database)
                /\ report' = NoReport
    /\ UNCHANGED <<policy, pending, running, built, draft, results, cached, origin>>

\* buildBusinessDatabase(): the committed databases are replaced only after the
\* build has succeeded; an open transaction is not asked for.
BuildBusinessDatabase(n) ==
    /\ Call
    /\ results # NoResults
    /\ LET database == Build(results.docs, RootNodeType)
       IN  IF n \in engine.databases.names \/ database.thrown
           THEN UNCHANGED <<engine, report, business>>
           ELSE /\ engine' = [engine EXCEPT !.databases = WithDatabase(@, n)]
                /\ business' = WithBusiness(n, database)
                /\ report' = NoReport
    /\ UNCHANGED <<policy, pending, running, built, draft, results, cached, origin>>

-----------------------------------------------------------------------------
(* DiscoveryDatabaseBuilder.build *)

NoImport == [kind |-> "none"]

NodeTypes(docs) == {docs[i].nodeType : i \in DOMAIN docs}

\* One table for each node type, then one INSERT of its results.
Writes(docs) == 2 * Cardinality(NodeTypes(docs))

StagingShape(docs, n, i) ==
    CASE i = 1 -> [kind |-> "create_database", db |-> n, actions |-> 0]
      [] i = 2 -> [kind |-> "use_database", db |-> n, actions |-> 0]
      [] i = Writes(docs) + 3 -> [kind |-> "commit", db |-> NoName, actions |-> 0]
      [] OTHER -> [kind |-> "sql", db |-> NoName, actions |-> 1]

\* The statements of the try, built after the first b.
StagingBody(docs, n, b) ==
    [i \in 1..(Writes(docs) + 3) |-> NewStatement(StagingShape(docs, n, i), b + i)]

SidsIn(stmts) == {stmts[i].sid : i \in DOMAIN stmts}

Begin == [kind |-> "begin", db |-> NoName, actions |-> 0]

\* The call begins: unless the name is taken or a builder is pending, in which case
\* begin() throws, BEGIN joins the queue and the whole queue is executed.
StartStaging(n, next) ==
    IF n \in engine.databases.names \/ draft # NoDraft
    THEN UNCHANGED <<pending, running, built, origin>>
    ELSE LET body == StagingBody(results.docs, n, built + 1)
         IN  /\ running' = [kind |-> "staging", phase |-> "begin", name |-> n,
                            rest |-> Append(pending, NewStatement(Begin, built + 1)),
                            body |-> body, import |-> next]
             /\ pending' = <<>>
             /\ built' = built + 1 + Len(body)
             /\ origin' = [s \in DOMAIN origin \cup SidsIn(body) |->
                              IF s \in SidsIn(body) THEN results.number ELSE origin[s]]

\* buildDiscoveryDatabase(), called by the user: the name is not kept.
BuildDiscoveryDatabase(n) ==
    /\ Call
    /\ results # NoResults
    /\ StartStaging(n, NoImport)
    /\ UNCHANGED <<engine, policy, report, draft, results, cached, business>>

Staged ==
    IF running.import = NoImport THEN Idle
    ELSE [running.import EXCEPT !.source = running.name]

\* Mutant: BEGIN is inside the try, so a BEGIN that throws is rolled back too.
StageBeginInTry ==
    /\ running.kind = "staging"
    /\ running.phase = "begin"
    /\ \E out \in ExecuteStatement(engine, policy, Head(running.rest)) :
          /\ engine' = IF out.thrown = "none" THEN out.engine ELSE RollbackTx(out.engine)
          /\ running' = IF out.thrown # "none" THEN Idle
                        ELSE IF Len(running.rest) > 1 THEN [running EXCEPT !.rest = Tail(@)]
                        ELSE [running EXCEPT !.phase = "body", !.rest = running.body]
    /\ UNCHANGED <<policy, pending, report, built, draft, orchestrator, calls>>

\* A statement of the queue up to BEGIN, which the try does not cover: a throw is
\* the caller's, and drops the rest of the queue.
StageBegin ==
    /\ running.kind = "staging"
    /\ running.phase = "begin"
    /\ \E out \in ExecuteStatement(engine, policy, Head(running.rest)) :
          /\ engine' = out.engine
          /\ running' = IF out.thrown # "none" THEN Idle
                        ELSE IF Len(running.rest) > 1 THEN [running EXCEPT !.rest = Tail(@)]
                        ELSE [running EXCEPT !.phase = "body", !.rest = running.body]
    /\ UNCHANGED <<policy, pending, report, built, draft, orchestrator, calls>>

\* Mutant: what has been staged when a statement throws is committed.
StageStatementCommitting ==
    /\ running.kind = "staging"
    /\ running.phase = "body"
    /\ \E out \in ExecuteStatement(engine, policy, Head(running.rest)) :
          IF out.thrown = "none"
          THEN /\ engine' = out.engine
               /\ running' = IF Len(running.rest) > 1 THEN [running EXCEPT !.rest = Tail(@)]
                             ELSE Staged
          ELSE engine' = CommitTx(out.engine, policy) /\ running' = Idle
    /\ cached' = IF running'.kind = "importing" THEN running.name ELSE cached
    /\ UNCHANGED <<policy, pending, report, built, draft, results, business, origin, calls>>

\* A statement inside the try: after a throw ROLLBACK, and the throw goes on.  Once
\* the last, COMMIT, has run, the import that asked for the staging keeps the name.
StageStatement ==
    /\ running.kind = "staging"
    /\ running.phase = "body"
    /\ \E out \in ExecuteStatement(engine, policy, Head(running.rest)) :
          IF out.thrown = "none"
          THEN /\ engine' = out.engine
               /\ running' = IF Len(running.rest) > 1 THEN [running EXCEPT !.rest = Tail(@)]
                             ELSE Staged
          ELSE engine' = RollbackTx(out.engine) /\ running' = Idle
    /\ cached' = IF running'.kind = "importing" THEN running.name ELSE cached
    /\ UNCHANGED <<policy, pending, report, built, draft, results, business, origin, calls>>

-----------------------------------------------------------------------------
(* import() *)

\* Results are staged first, unless they have been for an earlier import.
ImportFromDiscovery(shapes, staging, n) ==
    LET next == [kind |-> "importing", shapes |-> shapes, business |-> n, source |-> cached]
    IN  /\ Call
        /\ IF cached # NoName
           THEN running' = next /\ UNCHANGED <<pending, built, origin>>
           ELSE results # NoResults /\ StartStaging(staging, next)
        /\ UNCHANGED <<engine, policy, report, draft, results, cached, business>>

Forbidden == {"begin", "commit", "use_database", "create_database"}

\* Mutant: the target database is ensured inside the transaction's committed view.
PrepareEnsuringLate ==
    /\ running.kind = "importing"
    /\ LET groups   == Groups(running.shapes, built)
           selected == [engine EXCEPT !.currentDb = running.business]
           refused  == \E g \in Elements(groups) : \E s \in Elements(g) : s.kind \in Forbidden
           ensured(e) == [e EXCEPT !.databases = WithDatabase(@, running.business)]
       IN  /\ built' = built + SizeOf(running.shapes)
           /\ IF refused \/ InTransaction(engine) \/ draft # NoDraft
              THEN running' = Idle /\ UNCHANGED engine
              ELSE /\ engine' = ensured(BeginTx(selected))
                   /\ running' = [kind |-> "import", ruleset |-> groups, instruction |-> 1,
                                  statement |-> 1, results |-> <<>>,
                                  business |-> running.business, source |-> running.source]
           /\ UNCHANGED <<policy, pending, report, draft, orchestrator, calls>>

\* From ensureDatabase to beginTx.  The ruleset is written in the user's batch: its
\* first statement finalizes a pending builder into the queue, if it is an
\* INSERT and the builder's is whole, and throws otherwise.
PrepareImport ==
    LET groups   == Groups(running.shapes, built)
        ensured  == [engine EXCEPT !.databases = WithDatabase(@, running.business)]
        selected == [ensured EXCEPT !.currentDb = running.business]
        refused  == \E g \in Elements(groups) : \E s \in Elements(g) : s.kind \in Forbidden
    IN  /\ running.kind = "importing"
        /\ built' = built + SizeOf(running.shapes)
        /\ \/ /\ draft # NoDraft
              /\ engine' = ensured
              /\ running' = Idle
              /\ UNCHANGED <<pending, draft>>
           \/ /\ CanFinalize
              /\ pending' = Finalized
              /\ draft' = NoDraft
              /\ IF refused THEN engine' = ensured /\ running' = Idle
                 ELSE IF InTransaction(engine) THEN engine' = selected /\ running' = Idle
                 ELSE /\ engine' = BeginTx(selected)
                      /\ running' = [kind |-> "import", ruleset |-> groups, instruction |-> 1,
                                     statement |-> 1, results |-> <<>>,
                                     business |-> running.business,
                                     source |-> running.source]
        /\ UNCHANGED <<policy, report, orchestrator, calls>>

-----------------------------------------------------------------------------

PipelineUserStep ==
    \/ \E shape \in Shapes : UserStatement(shape)
    \/ \E shape \in Shapes, whole \in BOOLEAN : shape.kind = "sql" /\ UserDraft(shape, whole)
    \/ UserExecute
    \/ \E docs \in Discoveries : Discover(docs)
    \/ \E n \in BusinessNames : BuildBusinessDatabase(n)
    \/ \E n \in StagingNames : BuildDiscoveryDatabase(n)
    \/ \E shapes \in ImportRulesets, s \in StagingNames, n \in BusinessNames :
          ImportFromDiscovery(shapes, s, n)

PipelineCallStep ==
    \/ StageBegin
    \/ StageStatement
    \/ PrepareImport
    \/ /\ ExecuteNext \/ ImportStatement \/ FailImport \/ CommitImport
       /\ UNCHANGED <<draft, orchestrator, calls>>

PipelineNext == PipelineUserStep \/ PipelineCallStep

PipelineSpec == PipelineInit /\ [][PipelineNext]_pipelineVars

-----------------------------------------------------------------------------
(* Properties *)

\* The statements of a call that stages, and the actions they make.
OwnSids == SidsIn(running.body)

StagedEffects(n, sids) == {effect \in engine.databases.effects : effect[1] = n /\ effect[2] \in sids}

PipelineTypeOK ==
    /\ engine \in EngineState
    /\ pending \in Seq(Statement)
    /\ running.kind \in {"idle", "batch", "import", "importing", "staging"}
    /\ running.kind = "staging" =>
          /\ running.rest \in Seq(Statement) \ {<<>>}
          /\ running.body \in Seq(Statement) \ {<<>>}
          /\ running.name \in StagingNames
    /\ draft # NoDraft => draft.stmt \in Statement /\ running.kind \in {"idle", "importing"}
    /\ report \in {NoReport} \cup Report
    /\ cached \in StagingNames \cup {NoName}
    /\ DOMAIN business \subseteq BusinessNames
    /\ \A s \in DOMAIN origin : s \in 1..built /\ origin[s] \in 1..results.number
    /\ calls \in 0..MaxCalls

\* Staging publishes the discovery database whole, in the step that commits it, or
\* not at all; a failed staging leaves no transaction of its own behind
\* (DiscoveryDatabaseBuilder.build).
StagingIsAllOrNothing ==
    [][running.kind = "staging" /\ running.phase = "body" =>
          /\ \/ engine'.databases = engine.databases
             \/ /\ running'.kind \in {"idle", "importing"}
                /\ running.name \in engine'.databases.names
                /\ \A stmt \in Elements(running.body) : IsWhole(engine'.databases, stmt)
          /\ running'.kind # "staging" => ~ InTransaction(engine')]_pipelineVars

\* The transaction that staging rolls back holds nothing of the user's: the queue the
\* user left behind has run before it, and a transaction of the user's stays open
\* through a staging that it makes impossible (DiscoveryDatabaseBuilder.build).
StagingSparesTheUser ==
    [][running.kind = "staging" =>
          /\ running.phase = "body" =>
                /\ InTransaction(engine)
                /\ Elements(engine.currentTransaction.stmts) \subseteq OwnSids
                /\ engine.databases.effects \subseteq engine.currentTransaction.databases.effects
          /\ running.phase = "begin" /\ InTransaction(engine)
                /\ Head(running.rest).kind \notin {"commit", "rollback"} =>
                engine'.currentTransaction # NoTransaction
                /\ engine'.currentTransaction.id = engine.currentTransaction.id]_pipelineVars

\* What an import reads is the latest discovery, all of it and nothing of an earlier
\* one (MappingOrchestrator.discovery, import).
ImportReadsLatestDiscovery ==
    running.kind = "import" =>
        LET latest == {s \in DOMAIN origin : origin[s] = results.number}
            writes(sids) == StagedEffects(running.source, sids)
        IN  /\ running.source \in engine.databases.names
            /\ writes(DOMAIN origin) = writes(latest)
            /\ Cardinality(writes(latest))
                  = Writes(results.docs)

\* The target database exists, and is the one selected, from the import's first
\* statement to its last: in its transaction and, should an instruction roll that
\* back, among the committed databases.
TargetExistsDuringImport ==
    running.kind = "import" =>
        /\ engine.currentDb = running.business
        /\ running.business \in engine.databases.names
        /\ InTransaction(engine) =>
              running.business \in engine.currentTransaction.databases.names

\* A committed database, with its contents, is lost only to the commit of a
\* transaction begun before it (Engine.install, ensureDatabase, commitTx).
OnlyOlderTransactionsOverwrite ==
    [][LET known == IF InTransaction(engine) THEN engine.currentTransaction.databases
                    ELSE engine.databases
       IN  /\ engine.databases.names \cap known.names \subseteq engine'.databases.names
           /\ engine.databases.effects \cap known.effects
                 \subseteq engine'.databases.effects]_pipelineVars
=============================================================================
