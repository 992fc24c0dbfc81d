----------------------------- MODULE EngineModel -----------------------------
(***************************************************************************)
(* The state of an Engine and what its methods do to it.  Operators only:  *)
(* EngineClients supplies the callers.                                     *)
(*                                                                         *)
(* The contents of a Databases snapshot are its database names and the     *)
(* effects it has seen, where effect <<n, s, k>> is the k-th action of     *)
(* statement s, applied to database n.  What an action does is left out:   *)
(* it applies or throws.                                                   *)
(***************************************************************************)
EXTENDS Integers, Sequences, FiniteSets

CONSTANTS
    Names,       \* database names
    NoName,      \* no database selected, or named by a statement
    MaxActions   \* bound: actions one statement compiles to

ASSUME NoNameAssumption == NoName \notin Names

ASSUME MaxActionsAssumption == MaxActions \in Nat

SessionKinds == {"begin", "commit", "rollback", "use_database"}

\* "sql" stands for every statement SemanticAnalyzer binds to actions or to a
\* query plan, which has no actions; `db' is the database it names.
StatementKinds == SessionKinds \cup {"create_database", "sql"}

NamesWhatItCreates(s) == s.kind = "create_database" => s.db # NoName

Statement ==
    {s \in [sid : Nat, kind : StatementKinds, db : Names \cup {NoName},
            actions : 0..MaxActions] : NamesWhatItCreates(s)}

Databases == [names : SUBSET Names, effects : SUBSET (Names \X Nat \X (1..MaxActions))]

Transaction == [id : Nat \ {0}, databases : Databases, stmts : Seq(Nat)]

NoTransaction == [id |-> 0]

Policy == [autoCommit : BOOLEAN, trackStatementHistory : BOOLEAN]

EngineState ==
    [databases : Databases, currentDb : Names \cup {NoName},
     currentTransaction : Transaction \cup {NoTransaction},
     latestTxId : Nat, txHistory : SUBSET [id : Nat, stmts : Seq(Nat)]]

NewEngine ==
    [databases |-> [names |-> {}, effects |-> {}], currentDb |-> NoName,
     currentTransaction |-> NoTransaction, latestTxId |-> 0, txHistory |-> {}]

InTransaction(e) == e.currentTransaction # NoTransaction

-----------------------------------------------------------------------------
(* Databases *)

\* Databases.create
WithDatabase(dbs, n) == [dbs EXCEPT !.names = @ \cup {n}]

\* The first k actions of a statement applied to database n.
WithActions(dbs, n, sid, k) == [dbs EXCEPT !.effects = @ \cup ({n} \X {sid} \X (1..k))]

-----------------------------------------------------------------------------
(* Transactions *)

\* Engine.beginTx when no transaction is open.
BeginTx(e) ==
    [e EXCEPT !.latestTxId = @ + 1,
              !.currentTransaction =
                  [id |-> e.latestTxId + 1, databases |-> e.databases, stmts |-> <<>>]]

\* Engine.commitTx when one is open.
CommitTx(e, policy) ==
    [e EXCEPT !.databases = e.currentTransaction.databases,
              !.txHistory =
                  IF policy.trackStatementHistory
                  THEN @ \cup {[id |-> e.currentTransaction.id,
                                stmts |-> e.currentTransaction.stmts]}
                  ELSE @,
              !.currentTransaction = NoTransaction]

\* Engine.rollbackTx, which does not ask whether a transaction is open.
RollbackTx(e) == [e EXCEPT !.currentTransaction = NoTransaction]

-----------------------------------------------------------------------------
(* Statements: each operator is the set of ways a call can end *)

Returns(e) == [engine |-> e, thrown |-> "none"]

Throws(e, error) == [engine |-> e, thrown |-> error]

\* Whether a ConstraintViolationError or any other error.
Errors == {"violation", "error"}

\* Transaction.addActions: an action that throws leaves the earlier ones applied.
AddActions(e, n, stmt) ==
    LET after(k) == [e EXCEPT !.currentTransaction.databases =
                                  WithActions(@, n, stmt.sid, k)]
    IN  {Returns(after(stmt.actions))}
            \cup {Throws(after(k), error) :
                     k \in {0} \cup 0..(stmt.actions - 1), error \in Errors}

\* Mutant: the statement is recorded once it has returned.
BindAndExecuteRecordLate(e, stmt) ==
    LET dbs == e.currentTransaction.databases
        n   == IF stmt.db = NoName THEN e.currentDb ELSE stmt.db
        outs == IF stmt.kind = "create_database"
                THEN {IF stmt.db \in dbs.names
                      THEN Throws(e, "error")
                      ELSE Returns([e EXCEPT !.currentTransaction.databases =
                                                 WithDatabase(@, stmt.db)])}
                ELSE IF n \in dbs.names THEN AddActions(e, n, stmt)
                ELSE {Throws(e, "error")}
    IN  {IF out.thrown = "none"
         THEN Returns([out.engine EXCEPT !.currentTransaction.stmts = Append(@, stmt.sid)])
         ELSE out : out \in outs}

\* Engine.bindAndExecute: the statement is recorded before it is bound.
BindAndExecute(e, stmt) ==
    LET begun == [e EXCEPT !.currentTransaction.stmts = Append(@, stmt.sid)]
        dbs   == e.currentTransaction.databases
        n     == IF stmt.db = NoName THEN e.currentDb ELSE stmt.db
    IN  IF stmt.kind = "create_database"
        THEN {IF stmt.db \in dbs.names
              THEN Throws(begun, "error")
              ELSE Returns([begun EXCEPT !.currentTransaction.databases =
                                             WithDatabase(@, stmt.db)])}
        ELSE IF n \in dbs.names THEN AddActions(begun, n, stmt)
        ELSE {Throws(begun, "error")}

\* Mutant: the transaction is committed whether or not the statement threw.
AutoCommitInFinally(e, policy, stmt) ==
    IF ~ policy.autoCommit THEN {Throws(e, "error")}
    ELSE {[engine |-> CommitTx(out.engine, policy), thrown |-> out.thrown] :
             out \in BindAndExecute(BeginTx(e), stmt)}

\* Engine.tryExecuteAutoCommit
TryExecuteAutoCommit(e, policy, stmt) ==
    IF ~ policy.autoCommit THEN {Throws(e, "error")}
    ELSE {IF out.thrown = "none"
          THEN Returns(CommitTx(out.engine, policy))
          ELSE Throws(RollbackTx(out.engine), out.thrown) :
             out \in BindAndExecute(BeginTx(e), stmt)}

\* Mutant: a statement always auto-commits, and the open transaction survives it.
ExecuteBesideTransaction(e, policy, stmt) ==
    CASE stmt.kind = "begin" ->
             {IF InTransaction(e) THEN Throws(e, "error") ELSE Returns(BeginTx(e))}
      [] stmt.kind = "commit" ->
             {IF InTransaction(e) THEN Returns(CommitTx(e, policy)) ELSE Throws(e, "error")}
      [] stmt.kind = "rollback" -> {Returns(RollbackTx(e))}
      [] stmt.kind = "use_database" -> {Returns([e EXCEPT !.currentDb = stmt.db])}
      [] OTHER ->
             {[out EXCEPT !.engine.currentTransaction = e.currentTransaction] :
                 out \in TryExecuteAutoCommit(RollbackTx(e), policy, stmt)}

\* Engine.executeStatement
ExecuteStatement(e, policy, stmt) ==
    CASE stmt.kind = "begin" ->
             {IF InTransaction(e) THEN Throws(e, "error") ELSE Returns(BeginTx(e))}
      [] stmt.kind = "commit" ->
             {IF InTransaction(e) THEN Returns(CommitTx(e, policy)) ELSE Throws(e, "error")}
      [] stmt.kind = "rollback" -> {Returns(RollbackTx(e))}
      [] stmt.kind = "use_database" -> {Returns([e EXCEPT !.currentDb = stmt.db])}
      [] OTHER ->
             IF InTransaction(e) THEN BindAndExecute(e, stmt)
             ELSE TryExecuteAutoCommit(e, policy, stmt)
=============================================================================
