--------------------------- MODULE StatementQueue ---------------------------
(***************************************************************************)
(* What an input batch promises, whatever its builders do: statements are  *)
(* queued in the order they are begun, the newest one is still being       *)
(* written, each is executed at most once and in order, and a statement    *)
(* that throws takes the ones behind it along.  There is one queue for the *)
(* user's batch and one for the nested query under construction.           *)
(***************************************************************************)
EXTENDS Naturals, Sequences

CONSTANT Batches

VARIABLES
    queue,     \* the statements of each batch, the one being written last
    executing, \* the statements of the execute() in progress
    written    \* how many statements have been begun; they are numbered

queueVars == <<queue, executing, written>>

Init ==
    /\ queue = [b \in Batches |-> <<>>]
    /\ executing = <<>>
    /\ written = 0

Write(b) ==
    /\ executing = <<>>
    /\ written' = written + 1
    /\ queue' = [queue EXCEPT ![b] = Append(@, written + 1)]
    /\ UNCHANGED executing

\* The newest statement is taken out, to be executed elsewhere or to become part of
\* another statement.
Take(b) ==
    /\ executing = <<>>
    /\ queue[b] # <<>>
    /\ queue' = [queue EXCEPT ![b] = SubSeq(@, 1, Len(@) - 1)]
    /\ UNCHANGED <<executing, written>>

Flush(b) ==
    /\ executing = <<>>
    /\ executing' = queue[b]
    /\ queue' = [queue EXCEPT ![b] = <<>>]
    /\ UNCHANGED written

Execute ==
    /\ executing # <<>>
    /\ executing' \in {Tail(executing), <<>>}
    /\ UNCHANGED <<queue, written>>

Next == (\E b \in Batches : Write(b) \/ Take(b) \/ Flush(b)) \/ Execute

Spec == Init /\ [][Next]_queueVars
=============================================================================
