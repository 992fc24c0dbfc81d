----------------------------- MODULE InputBatch -----------------------------
(***************************************************************************)
(* The PostgresInputBatch of an engine, with one nested query under        *)
(* construction beside it.  Each batch has a queue of statements and at    *)
(* most one builder; a method call starts, extends or finishes the         *)
(* builder, or throws and changes nothing but what it did before.  What    *)
(* the statements do is left to the other modules: here they return or     *)
(* throw.                                                                  *)
(***************************************************************************)
EXTENDS StatementBuilders, Sequences, SequencesExt

CONSTANTS
    Methods,      \* the calls that extend a builder and that the dialect makes public
    SessionKinds, \* the statements that are complete at once, a subset of InstantKinds
    MaxCalls      \* bounds the number of method calls

ASSUME InputBatchAssumption ==
    Methods \subseteq CallNames /\ SessionKinds \subseteq InstantKinds /\ MaxCalls \in Nat

VARIABLES
    queue,     \* the finished statements of each batch
    builder,   \* the current builder of each batch
    executing, \* the statements of the execute() in progress
    written,   \* how many statements have been begun
    calls      \* how many calls have been made

batchVars == <<queue, builder, executing, written, calls>>

Batches == {"main", "inner"}

BatchInit ==
    /\ queue = [b \in Batches |-> <<>>]
    /\ builder = [b \in Batches |-> NoBuilder]
    /\ executing = <<>>
    /\ written = 0
    /\ calls = 0

\* Statements are executed within the call of execute().
MayCall ==
    /\ executing = <<>> /\ calls < MaxCalls
    /\ calls' = calls + 1

CanFinalize(b) == builder[b] # NoBuilder => Creates(builder[b])

\* The queue after finalizeStatement.
Finalized(b) ==
    IF builder[b] = NoBuilder THEN queue[b] ELSE Append(queue[b], Created(builder[b]))

\* The inner batch is followed while it holds a statement.
InUse(b) == b = "main" \/ builder[b] # NoBuilder \/ queue[b] # <<>>

\* BEGIN, COMMIT, ROLLBACK, USE and CREATE DATABASE: no builder offers them.
Session(b, kind) ==
    /\ MayCall /\ InUse(b) /\ builder[b] = NoBuilder
    /\ written' = written + 1
    /\ queue' = [queue EXCEPT ![b] = Append(@, Created(NewBuilder(kind, written + 1)))]
    /\ UNCHANGED <<builder, executing>>

\* createTable, alterTable, update and deleteFrom; no builder offers them either.
Start(b, kind) ==
    /\ MayCall /\ InUse(b) /\ builder[b] = NoBuilder
    /\ written' = written + 1
    /\ builder' = [builder EXCEPT ![b] = NewBuilder(kind, written + 1)]
    /\ UNCHANGED <<queue, executing>>

\* Mutant: insertInto forgets the statement in progress.
StartInsertForgets(b) ==
    /\ MayCall /\ InUse(b) /\ CanFinalize(b)
    /\ written' = written + 1
    /\ builder' = [builder EXCEPT ![b] = NewBuilder("insert_into", written + 1)]
    /\ UNCHANGED <<queue, executing>>

\* insertInto alone finishes the statement in progress first.
StartInsert(b) ==
    /\ MayCall /\ InUse(b) /\ CanFinalize(b)
    /\ written' = written + 1
    /\ queue' = [queue EXCEPT ![b] = Finalized(b)]
    /\ builder' = [builder EXCEPT ![b] = NewBuilder("insert_into", written + 1)]
    /\ UNCHANGED executing

\* A SELECT begun while another statement is in progress is begun in an inner batch;
\* one inner batch at a time is followed, and none inside of it.
StartSelect ==
    LET b == IF builder["main"] = NoBuilder THEN "main" ELSE "inner" IN
    /\ MayCall /\ builder[b] = NoBuilder
    /\ b = "inner" => queue["inner"] = <<>>
    /\ written' = written + 1
    /\ builder' = [builder EXCEPT ![b] = NewBuilder("select", written + 1)]
    /\ UNCHANGED <<queue, executing>>

\* The rest of the methods, called with a name, a predicate or values.
Call(b, call) ==
    /\ MayCall /\ builder[b] # NoBuilder
    /\ Offers(builder[b], call) /\ builder[b].kind \in WorksOn(call)
    /\ HasLeftSource(builder[b], call)
    /\ builder' = [builder EXCEPT ![b] = Called(@, call)]
    /\ UNCHANGED <<queue, executing, written>>

\* Mutant: the query is left in its batch.
PoppedLeaves(statements) == statements

Popped(statements) == Front(statements)

\* A method called with the inner batch: asQueryStatement finishes its statement and
\* takes the last one out, which is lost when it is no query, or when there is nothing
\* to join it to.
CallWithQuery(call) ==
    /\ MayCall /\ builder["main"] # NoBuilder
    /\ Offers(builder["main"], call) /\ builder["main"].kind \in TakesQuery(call)
    /\ CanFinalize("inner") /\ Finalized("inner") # <<>>
    /\ queue' = [queue EXCEPT !["inner"] = Popped(Finalized("inner"))]
    /\ LET query == Last(Finalized("inner"))
           extended == [Called(builder["main"], call)
                            EXCEPT !.nested = @ \cup {query.id} \cup query.nested]
       IN  builder' = [builder EXCEPT
               !["inner"] = NoBuilder,
               !["main"] = IF query.kind \in QueryKinds /\ HasLeftSource(@, call)
                           THEN extended ELSE @]
    /\ UNCHANGED <<executing, written>>

\* asStatement and asConstraintStatement: the last statement is given away, whether it
\* was just finished or had long been queued; the latter loses it when it is no
\* constraint.
AsStatement ==
    /\ MayCall /\ CanFinalize("main") /\ Finalized("main") # <<>>
    /\ queue' = [queue EXCEPT !["main"] = Front(Finalized("main"))]
    /\ builder' = [builder EXCEPT !["main"] = NoBuilder]
    /\ UNCHANGED <<executing, written>>

\* The queue is emptied before the first of its statements runs.
Execute(b) ==
    /\ MayCall /\ InUse(b) /\ CanFinalize(b)
    /\ executing' = Finalized(b)
    /\ queue' = [queue EXCEPT ![b] = <<>>]
    /\ builder' = [builder EXCEPT ![b] = NoBuilder]
    /\ UNCHANGED written

\* A statement that throws ends the execution.
Run ==
    /\ executing # <<>>
    /\ executing' \in {Tail(executing), <<>>}
    /\ UNCHANGED <<queue, builder, written, calls>>

BatchCall ==
    \/ \E b \in Batches :
        \/ \E kind \in SessionKinds : Session(b, kind)
        \/ \E kind \in SimpleKinds \ {"insert_into"} : Start(b, kind)
        \/ StartInsert(b)
        \/ \E call \in Methods \ {"select", "unionAll"} : Call(b, call)
        \/ Execute(b)
    \/ StartSelect
    \/ \E call \in Methods : CallWithQuery(call)
    \/ AsStatement

BatchNext == BatchCall \/ Run

BatchSpec == BatchInit /\ [][BatchNext]_batchVars

-----------------------------------------------------------------------------
(* Properties *)

Builder == [kind : SimpleKinds \cup QueryKinds, id : Nat, calls : SUBSET CallNames,
            nested : SUBSET Nat]

JoinBuilder == [kind : {"innerJoin"}, id : Nat, calls : {{}}, nested : SUBSET Nat,
                outer : Builder]

\* A join builder remembers the select it was called on: ON gives that select the join
\* for a source, which only a select can have (TabularExpressionReferencer.innerJoin).
BatchTypeOK ==
    /\ queue \in [Batches -> Seq(Statement)]
    /\ executing \in Seq(Statement)
    /\ builder \in [Batches -> {NoBuilder} \cup Builder \cup JoinBuilder]
    /\ \A b \in Batches : builder[b].kind = "innerJoin" =>
           builder[b].outer.kind = "select" /\ builder[b].outer.id = builder[b].id
    /\ written \in Nat /\ calls \in 0 .. MaxCalls

Numbers(statements) == [i \in DOMAIN statements |-> statements[i].id]

Pending(b) == IF builder[b] = NoBuilder THEN <<>> ELSE <<builder[b].id>>

Waiting(b) == Numbers(queue[b]) \o Pending(b)

\* Refinement: whatever builders, nested batches and refused calls there are, a batch
\* is a queue.  Statements come out in the order they were begun, none is lost but by
\* being taken out or behind one that throws, and none is executed twice.
Queue == INSTANCE StatementQueue WITH
    queue <- [b \in Batches |-> Waiting(b)],
    executing <- Numbers(executing)

ImplementsQueue == Queue!Spec

Complete(s) ==
    CASE s.kind = "select" -> "from" \in s.calls
      [] s.kind = "insert_into" -> s.calls \cap Sources # {}
      [] s.kind = "update_set" -> "set" \in s.calls
      [] s.kind = "alter_table" ->
             /\ s.calls # {}
             /\ "addConstraint" \in s.calls => s.calls \cap ConstraintCalls # {}
             /\ "foreignKey" \in s.calls => "references" \in s.calls
      [] OTHER -> s.kind # "innerJoin"

\* No statement is queued, executed or made part of another before it says all that the
\* engine reads of it: a foreign key its parent, a select its source, an insert its
\* rows (the createStatement of every builder).
UnfinishedNeverRuns ==
    \A b \in Batches :
        /\ \A i \in DOMAIN queue[b] : Complete(queue[b][i])
        /\ \A i \in DOMAIN executing : Complete(executing[i])

\* A batch is never stuck: there is no call that drops a statement in progress, and
\* begin(), execute() and the rest throw while it lacks a part, so some method the
\* dialect has must always be able to supply what the builder asks for.
PendingCanBeFinished ==
    \A b \in Batches : builder[b] # NoBuilder =>
        \/ Creates(builder[b])
        \/ \E call \in Methods :
            /\ call \in NextCalls(builder[b]).required
            /\ builder[b].kind \in WorksOn(call) \cup TakesQuery(call)

\* What a dialect has to make public for that: for each part a statement may lack, one
\* call that supplies it, and for each call that leaves a new part open, one that closes it.
SuppliesEveryPart(methods) ==
    /\ {"from", "set"} \subseteq methods
    /\ methods \cap {"values", "select"} # {}
    /\ methods \cap Alterations # {}
    /\ "addConstraint" \in methods => methods \cap ConstraintCalls # {}
    /\ "foreignKey" \in methods => "references" \in methods
    /\ "innerJoin" \in methods => "on" \in methods

\* What a statement and a builder are made of, nested queries included.
StatementIds(s) == {s.id} \cup s.nested

BuilderIds(x) ==
    IF x.kind = "innerJoin" THEN StatementIds(x.outer) \cup x.nested ELSE StatementIds(x)

IdsOfEach(statements) == [i \in DOMAIN statements |-> StatementIds(statements[i])]

Parts(b) ==
    IdsOfEach(queue[b])
        \o IF builder[b] = NoBuilder THEN <<>> ELSE <<BuilderIds(builder[b])>>

Held == Parts("main") \o Parts("inner") \o IdsOfEach(executing)

\* A query given to a statement is part of that statement only: it is not executed on
\* its own as well, nor used by a second one (asQueryStatement).
NestedUsedOnce ==
    \A i \in DOMAIN Held, j \in DOMAIN Held : i # j => Held[i] \cap Held[j] = {}
=============================================================================
