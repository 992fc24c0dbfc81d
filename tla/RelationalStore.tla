-------------------------- MODULE RelationalStore --------------------------
(***************************************************************************)
(* What a relational Database promises its caller, with no work queue: a   *)
(* row statement is one step from a snapshot whose constraints hold to     *)
(* another, row numbers are never reused, a deleted row never comes back,  *)
(* and an UPDATE never makes a row appear or disappear.                    *)
(***************************************************************************)
EXTENDS RelationalModel

VARIABLES schema, active, db

storeVars == <<schema, active, db>>

StoreInit ==
    /\ schema \in Schemas
    /\ active = schema.initial
    /\ db = [t \in Tables |-> <<>>]

\* Every table keeps its row slots, and no slot that was dead is live.
KeepsRowNumbers(before, after) ==
    \A t \in Tables :
        /\ DOMAIN after[t] = DOMAIN before[t]
        /\ Alive(after, t) \subseteq Alive(before, t)

Constrain(f) ==
    /\ f \in DOMAIN schema.fks
    /\ active' = active \cup {f}
    /\ ConstraintsHold(schema, active', db)
    /\ UNCHANGED <<schema, db>>

\* New live rows go behind the existing ones of one table.
Insert(t) ==
    /\ Len(db'[t]) > Len(db[t])
    /\ \A r \in DOMAIN db'[t] :
           IF r \in DOMAIN db[t] THEN db'[t][r] = db[t][r] ELSE db'[t][r].alive
    /\ \A s \in Tables \ {t} : db'[s] = db[s]
    /\ ConstraintsHold(schema, active, db')
    /\ UNCHANGED <<schema, active>>

\* The deleted rows are gone, and nothing that was gone is back.
Delete(t, rows) ==
    /\ rows # {} /\ rows \subseteq Alive(db, t)
    /\ KeepsRowNumbers(db, db')
    /\ rows \cap Alive(db', t) = {}
    /\ ConstraintsHold(schema, active, db')
    /\ UNCHANGED <<schema, active>>

\* Rows change and none dies.
Update ==
    /\ KeepsRowNumbers(db, db')
    /\ \A t \in Tables : Alive(db', t) = Alive(db, t)
    /\ ConstraintsHold(schema, active, db')
    /\ UNCHANGED <<schema, active>>

StoreNext ==
    \/ \E f \in DOMAIN schema.fks : Constrain(f)
    \/ \E t \in Tables : Insert(t)
    \/ \E t \in Tables : \E rows \in SUBSET Alive(db, t) : Delete(t, rows)
    \/ Update

StoreSpec == StoreInit /\ [][StoreNext]_storeVars
=============================================================================
