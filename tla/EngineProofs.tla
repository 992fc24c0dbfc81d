---------------------------- MODULE EngineProofs ----------------------------
(***************************************************************************)
(* What an engine keeps true of itself, whatever statements it is given,   *)
(* as long as it is given none of them twice.                              *)
(***************************************************************************)
EXTENDS EngineClients, TLAPS, SequenceTheorems

SidsOf(effects) == {effect[2] : effect \in effects}

\* The statements an engine has seen, as far as it can tell.
Used(e) ==
    Recorded(e) \cup SidsOf(e.databases.effects)
        \cup IF InTransaction(e) THEN SidsOf(e.currentTransaction.databases.effects) ELSE {}

\* The transactions an engine remembers, the open one included.
Runs(e) ==
    e.txHistory \cup
        IF InTransaction(e)
        THEN {[id |-> e.currentTransaction.id, stmts |-> e.currentTransaction.stmts]}
        ELSE {}

NoneTwice(runs) ==
    \A a, b \in runs : \A i \in DOMAIN a.stmts, j \in DOMAIN b.stmts :
        a.stmts[i] = b.stmts[j] => a = b /\ i = j

\* A snapshot holds what is committed.
KeepsCommitted(e) ==
    InTransaction(e) =>
        e.databases.effects \subseteq e.currentTransaction.databases.effects

InHistory(e, sid) == \E h \in e.txHistory : sid \in Elements(h.stmts)

Explained(e) ==
    /\ \A effect \in e.databases.effects : InHistory(e, effect[2])
    /\ InTransaction(e) =>
           \A effect \in e.currentTransaction.databases.effects :
               InHistory(e, effect[2]) \/ effect[2] \in Elements(e.currentTransaction.stmts)

NumbersTransactions(e) ==
    /\ \A h \in e.txHistory : h.id <= e.latestTxId
    /\ InTransaction(e) => /\ e.currentTransaction.id = e.latestTxId
                           /\ \A h \in e.txHistory : h.id # e.latestTxId

EngineInv(e, p) ==
    /\ KeepsCommitted(e)
    /\ p.trackStatementHistory => Explained(e)
    /\ NumbersTransactions(e)
    /\ NoneTwice(Runs(e))

\* All the actions of a statement are there, and none it has not.
Done(dbs, stmt) ==
    /\ \A effect \in dbs.effects : effect[2] = stmt.sid => effect[3] \in 1..stmt.actions
    /\ \E n \in dbs.names : \A k \in 1..stmt.actions : <<n, stmt.sid, k>> \in dbs.effects

\* What running a statement in the open transaction of e may come to.
RanTo(e, f, stmt) ==
    /\ f \in EngineState
    /\ f.databases = e.databases
    /\ f.latestTxId = e.latestTxId
    /\ f.txHistory = e.txHistory
    /\ InTransaction(f)
    /\ f.currentTransaction.id = e.currentTransaction.id
    /\ f.currentTransaction.stmts = Append(e.currentTransaction.stmts, stmt.sid)
    /\ e.currentTransaction.databases.names \subseteq f.currentTransaction.databases.names
    /\ e.currentTransaction.databases.effects \subseteq f.currentTransaction.databases.effects
    /\ \A effect \in f.currentTransaction.databases.effects :
           \/ effect \in e.currentTransaction.databases.effects
           \/ effect[2] = stmt.sid /\ effect[3] \in 1..stmt.actions

-----------------------------------------------------------------------------
(* Types *)

LEMMA InTransactionType ==
    ASSUME NEW e \in EngineState
    PROVE  InTransaction(e) <=> e.currentTransaction \in Transaction
BY DEF EngineState, InTransaction, Transaction, NoTransaction

LEMMA EngineFields ==
    ASSUME NEW e \in EngineState
    PROVE  /\ e.databases \in Databases
           /\ e.databases.names \subseteq Names
           /\ e.databases.effects \subseteq Names \X Nat \X (1..MaxActions)
           /\ e.currentDb \in Names \cup {NoName}
           /\ e.latestTxId \in Nat
           /\ \A h \in e.txHistory : h \in [id : Nat, stmts : Seq(Nat)]
           /\ InTransaction(e) =>
                 /\ e.currentTransaction.id \in Nat \ {0}
                 /\ e.currentTransaction.stmts \in Seq(Nat)
                 /\ e.currentTransaction.databases \in Databases
                 /\ e.currentTransaction.databases.names \subseteq Names
                 /\ e.currentTransaction.databases.effects
                        \subseteq Names \X Nat \X (1..MaxActions)
<1>1. InTransaction(e) => e.currentTransaction \in Transaction
    BY InTransactionType
<1> QED BY <1>1 DEF EngineState, Transaction, Databases

LEMMA AppendElements ==
    ASSUME NEW s \in Seq(Nat), NEW x \in Nat
    PROVE  Elements(Append(s, x)) = Elements(s) \cup {x}
<1>1. /\ Append(s, x) \in Seq(Nat)
      /\ Len(Append(s, x)) = Len(s) + 1
      /\ \A i \in 1..Len(s) : Append(s, x)[i] = s[i]
      /\ Append(s, x)[Len(s) + 1] = x
    BY AppendProperties
<1>2. /\ Len(s) \in Nat
      /\ DOMAIN s = 1..Len(s)
      /\ DOMAIN Append(s, x) = 1..Len(s) + 1
    BY <1>1, LenProperties
<1> QED BY <1>1, <1>2 DEF Elements

-----------------------------------------------------------------------------
(* Transactions *)

LEMMA BeginTxType ==
    ASSUME NEW e \in EngineState
    PROVE  LET f == BeginTx(e) IN
           /\ f \in EngineState
           /\ InTransaction(f)
           /\ f.databases = e.databases
           /\ f.txHistory = e.txHistory
           /\ f.latestTxId = e.latestTxId + 1
           /\ f.currentTransaction.id = e.latestTxId + 1
           /\ f.currentTransaction.databases = e.databases
           /\ f.currentTransaction.stmts = <<>>
<1> DEFINE tx == [id |-> e.latestTxId + 1, databases |-> e.databases, stmts |-> <<>>]
<1>1. <<>> \in Seq(Nat)
    BY EmptySeq
<1>2. e.databases \in Databases /\ e.latestTxId \in Nat
    BY EngineFields
<1>3. tx \in Transaction
    BY <1>1, <1>2 DEF Transaction
<1>4. tx # NoTransaction
    BY <1>2 DEF NoTransaction
<1>5. BeginTx(e) = [e EXCEPT !.latestTxId = e.latestTxId + 1, !.currentTransaction = tx]
    BY DEF BeginTx, EngineState
<1>6. tx.id = e.latestTxId + 1 /\ tx.databases = e.databases /\ tx.stmts = <<>>
    OBVIOUS
<1> HIDE DEF tx
<1> DEFINE f == BeginTx(e)
<1>7. /\ f.databases = e.databases
      /\ f.txHistory = e.txHistory
      /\ f.latestTxId = e.latestTxId + 1
      /\ f.currentTransaction = tx
    BY <1>5 DEF EngineState
<1>8. f \in EngineState
    <2>1. f = [databases |-> e.databases, currentDb |-> e.currentDb, currentTransaction |-> tx,
               latestTxId |-> e.latestTxId + 1, txHistory |-> e.txHistory]
        BY <1>5 DEF EngineState
    <2>2. /\ e.latestTxId + 1 \in Nat
          /\ e.currentDb \in Names \cup {NoName}
          /\ e.txHistory \in SUBSET [id : Nat, stmts : Seq(Nat)]
        BY <1>2 DEF EngineState
    <2> HIDE DEF f
    <2> QED BY <1>2, <1>3, <2>1, <2>2 DEF EngineState
<1> HIDE DEF f
<1>9. InTransaction(f)
    BY <1>4, <1>7 DEF InTransaction
<1> QED BY <1>6, <1>7, <1>8, <1>9 DEF f

LEMMA CommitTxType ==
    ASSUME NEW e \in EngineState, NEW p \in Policy, InTransaction(e)
    PROVE  LET f == CommitTx(e, p) IN
           /\ f \in EngineState
           /\ ~ InTransaction(f)
           /\ f.databases = e.currentTransaction.databases
           /\ f.latestTxId = e.latestTxId
           /\ f.txHistory = IF p.trackStatementHistory
                            THEN e.txHistory \cup {[id |-> e.currentTransaction.id,
                                                    stmts |-> e.currentTransaction.stmts]}
                            ELSE e.txHistory
<1> DEFINE h == [id |-> e.currentTransaction.id, stmts |-> e.currentTransaction.stmts]
<1>1. h \in [id : Nat, stmts : Seq(Nat)] /\ e.currentTransaction.databases \in Databases
    BY EngineFields
<1> QED BY <1>1 DEF EngineState, CommitTx, InTransaction

LEMMA RollbackTxType ==
    ASSUME NEW e \in EngineState
    PROVE  LET f == RollbackTx(e) IN
           /\ f \in EngineState
           /\ ~ InTransaction(f)
           /\ f.databases = e.databases
           /\ f.latestTxId = e.latestTxId
           /\ f.txHistory = e.txHistory
BY DEF EngineState, RollbackTx, InTransaction

-----------------------------------------------------------------------------
(* What a transaction keeps *)

LEMMA UsedIs ==
    ASSUME NEW e, NEW s
    PROVE  s \in Used(e) <=>
               \/ InHistory(e, s)
               \/ s \in SidsOf(e.databases.effects)
               \/ InTransaction(e) /\ \/ s \in Elements(e.currentTransaction.stmts)
                                      \/ s \in SidsOf(e.currentTransaction.databases.effects)
<1>1. s \in UNION {Elements(h.stmts) : h \in e.txHistory} <=> InHistory(e, s)
    BY DEF InHistory
<1>2. CASE InTransaction(e)
    BY <1>1, <1>2 DEF Used, Recorded
<1>3. CASE ~ InTransaction(e)
    BY <1>1, <1>3 DEF Used, Recorded
<1> QED BY <1>2, <1>3

LEMMA SameEngine ==
    ASSUME NEW e, NEW f, NEW p,
           f.databases.effects = e.databases.effects,
           f.txHistory = e.txHistory,
           f.latestTxId = e.latestTxId,
           f.currentTransaction = e.currentTransaction
    PROVE  /\ EngineInv(e, p) => EngineInv(f, p)
           /\ Used(f) = Used(e)
<1>1. InTransaction(f) <=> InTransaction(e)
    BY DEF InTransaction
<1>2. Used(f) = Used(e)
    BY <1>1 DEF Used, Recorded
<1>3. Runs(f) = Runs(e)
    BY <1>1 DEF Runs
<1>4. KeepsCommitted(e) => KeepsCommitted(f)
    BY <1>1 DEF KeepsCommitted
<1>5. Explained(e) => Explained(f)
    BY <1>1 DEF Explained, InHistory
<1>6. NumbersTransactions(e) => NumbersTransactions(f)
    BY <1>1 DEF NumbersTransactions
<1> QED BY <1>2, <1>3, <1>4, <1>5, <1>6 DEF EngineInv

LEMMA EmptyHasNoElements == Elements(<<>>) = {}
<1>1. <<>> \in Seq(Nat) /\ Len(<<>>) = 0
    BY EmptySeq
<1>2. DOMAIN <<>> = 1..Len(<<>>)
    BY <1>1, LenProperties
<1> QED BY <1>1, <1>2 DEF Elements

LEMMA BeginTxKeeps ==
    ASSUME NEW e \in EngineState, NEW p \in Policy, EngineInv(e, p), ~ InTransaction(e)
    PROVE  EngineInv(BeginTx(e), p) /\ Used(BeginTx(e)) = Used(e)
<1> DEFINE f == BeginTx(e)
<1>1. /\ f \in EngineState
      /\ InTransaction(f)
      /\ f.databases = e.databases
      /\ f.txHistory = e.txHistory
      /\ f.latestTxId = e.latestTxId + 1
      /\ f.currentTransaction.id = e.latestTxId + 1
      /\ f.currentTransaction.databases = e.databases
      /\ f.currentTransaction.stmts = <<>>
    BY BeginTxType
<1>2. e.latestTxId \in Nat /\ \A h \in e.txHistory : h.id \in Nat
    BY EngineFields
<1> HIDE DEF f
<1>3. KeepsCommitted(f)
    BY <1>1 DEF KeepsCommitted
<1>4. p.trackStatementHistory => Explained(f)
    BY <1>1 DEF EngineInv, Explained, InHistory
<1>5. NumbersTransactions(f)
    BY <1>1, <1>2 DEF EngineInv, NumbersTransactions
<1>6. NoneTwice(Runs(f))
    <2>1. NoneTwice(e.txHistory)
        BY DEF EngineInv, Runs
    <2>2. Runs(f) = e.txHistory \cup {[id |-> e.latestTxId + 1, stmts |-> <<>>]}
        BY <1>1 DEF Runs
    <2>3. DOMAIN <<>> = {}
        BY EmptyHasNoElements DEF Elements
    <2> QED BY <2>1, <2>2, <2>3 DEF NoneTwice
<1>7. Used(f) = Used(e)
    <2>1. \A s : s \in Used(f) <=> s \in Used(e)
        BY <1>1, UsedIs, EmptyHasNoElements DEF InHistory
    <2> QED BY <2>1
<1> QED BY <1>3, <1>4, <1>5, <1>6, <1>7 DEF EngineInv, f

LEMMA CommitTxKeeps ==
    ASSUME NEW e \in EngineState, NEW p \in Policy, EngineInv(e, p), InTransaction(e)
    PROVE  EngineInv(CommitTx(e, p), p) /\ Used(CommitTx(e, p)) \subseteq Used(e)
<1> DEFINE f == CommitTx(e, p)
           run == [id |-> e.currentTransaction.id, stmts |-> e.currentTransaction.stmts]
<1>1. /\ f \in EngineState
      /\ ~ InTransaction(f)
      /\ f.databases = e.currentTransaction.databases
      /\ f.latestTxId = e.latestTxId
      /\ f.txHistory = IF p.trackStatementHistory THEN e.txHistory \cup {run} ELSE e.txHistory
    BY CommitTxType
<1>2. /\ run.id = e.currentTransaction.id
      /\ run.stmts = e.currentTransaction.stmts
      /\ run.id \in Nat
    BY EngineFields
<1> HIDE DEF f
<1>3. KeepsCommitted(f)
    BY <1>1 DEF KeepsCommitted
<1>4. Runs(e) = e.txHistory \cup {run}
    BY DEF Runs
<1> HIDE DEF run
<1>5. p.trackStatementHistory => Explained(f)
    BY <1>1, <1>2 DEF EngineInv, Explained, InHistory
<1>6. NumbersTransactions(f)
    BY <1>1, <1>2 DEF EngineInv, NumbersTransactions
<1>7. NoneTwice(Runs(f))
    <2>1. Runs(f) \subseteq Runs(e)
        BY <1>1, <1>4 DEF Runs
    <2> QED BY <2>1 DEF NoneTwice, EngineInv
<1>8. Used(f) \subseteq Used(e)
    <2>1. ASSUME NEW s \in Used(f) PROVE s \in Used(e)
        BY <1>1, <1>2, UsedIs DEF InHistory
    <2> QED BY <2>1
<1> QED BY <1>3, <1>5, <1>6, <1>7, <1>8 DEF EngineInv, f

LEMMA RollbackTxKeeps ==
    ASSUME NEW e \in EngineState, NEW p \in Policy, EngineInv(e, p)
    PROVE  EngineInv(RollbackTx(e), p) /\ Used(RollbackTx(e)) \subseteq Used(e)
<1> DEFINE f == RollbackTx(e)
<1>1. /\ f \in EngineState
      /\ ~ InTransaction(f)
      /\ f.databases = e.databases
      /\ f.latestTxId = e.latestTxId
      /\ f.txHistory = e.txHistory
    BY RollbackTxType
<1> HIDE DEF f
<1>2. KeepsCommitted(f) /\ NumbersTransactions(f)
    BY <1>1 DEF KeepsCommitted, NumbersTransactions, EngineInv
<1>3. p.trackStatementHistory => Explained(f)
    BY <1>1 DEF EngineInv, Explained, InHistory
<1>4. NoneTwice(Runs(f))
    <2>1. Runs(f) \subseteq Runs(e)
        BY <1>1 DEF Runs
    <2> QED BY <2>1 DEF NoneTwice, EngineInv
<1>5. Used(f) \subseteq Used(e)
    <2>1. ASSUME NEW s \in Used(f) PROVE s \in Used(e)
        BY <1>1, UsedIs DEF InHistory
    <2> QED BY <2>1
<1> QED BY <1>2, <1>3, <1>4, <1>5 DEF EngineInv, f

LEMMA RanToKeeps ==
    ASSUME NEW e \in EngineState, NEW f, NEW p \in Policy, NEW stmt \in Statement,
           EngineInv(e, p), InTransaction(e), RanTo(e, f, stmt), stmt.sid \notin Used(e)
    PROVE  EngineInv(f, p) /\ Used(f) \subseteq Used(e) \cup {stmt.sid}
<1> DEFINE s == stmt.sid
           before == e.currentTransaction.stmts
           after == f.currentTransaction.stmts
           old == [id |-> e.currentTransaction.id, stmts |-> before]
           new == [id |-> f.currentTransaction.id, stmts |-> after]
<1>1. s \in Nat
    BY DEF Statement
<1>2. /\ before \in Seq(Nat)
      /\ after = Append(before, s)
      /\ Elements(after) = Elements(before) \cup {s}
    BY <1>1, EngineFields, AppendElements DEF RanTo
<1>3. KeepsCommitted(f)
    BY DEF RanTo, KeepsCommitted, EngineInv
<1>4. p.trackStatementHistory => Explained(f)
    BY <1>2 DEF RanTo, EngineInv, Explained, InHistory
<1>5. NumbersTransactions(f)
    BY DEF RanTo, NumbersTransactions, EngineInv
<1>6. NoneTwice(Runs(f))
    <2>1. NoneTwice(e.txHistory \cup {old})
        BY DEF EngineInv, Runs
    <2>2. Runs(f) = e.txHistory \cup {new}
        BY DEF RanTo, Runs
    <2>3. /\ after \in Seq(Nat)
          /\ DOMAIN before = 1..Len(before)
          /\ DOMAIN after = 1..Len(before) + 1
          /\ Len(before) \in Nat
          /\ \A i \in 1..Len(before) : after[i] = before[i]
          /\ after[Len(before) + 1] = s
        BY <1>1, <1>2, AppendProperties, LenProperties
    <2>4. /\ \A i \in DOMAIN before : before[i] # s
          /\ \A h \in e.txHistory : \A i \in DOMAIN h.stmts : h.stmts[i] # s
        BY UsedIs DEF InHistory, Elements
    <2>5. \A h \in e.txHistory : h.id # old.id
        BY DEF EngineInv, NumbersTransactions
    <2>6. ASSUME NEW a \in e.txHistory, NEW i \in DOMAIN a.stmts, NEW j \in DOMAIN after
          PROVE  a.stmts[i] # after[j]
        <3>1. CASE j = Len(before) + 1
            BY <2>3, <2>4, <3>1
        <3>2. CASE j \in 1..Len(before)
            <4>0. /\ old.stmts = before /\ old \in e.txHistory \cup {old}
                  /\ a \in e.txHistory \cup {old} /\ a # old
                BY <2>5
            <4> HIDE DEF old
            <4>1. a.stmts[i] # before[j]
                BY <2>1, <2>3, <3>2, <4>0 DEF NoneTwice
            <4> QED BY <2>3, <3>2, <4>1
        <3> QED BY <2>3, <3>1, <3>2
    <2>7. ASSUME NEW i \in DOMAIN after, NEW j \in DOMAIN after, after[i] = after[j]
          PROVE  i = j
        <3>0. i \in 1..Len(before) + 1 /\ j \in 1..Len(before) + 1 /\ Len(before) \in Nat
            BY <2>3
        <3>1. CASE i \in 1..Len(before) /\ j \in 1..Len(before)
            <4>1. old.stmts = before /\ old \in e.txHistory \cup {old}
                OBVIOUS
            <4>2. i \in DOMAIN old.stmts /\ j \in DOMAIN old.stmts
                BY <2>3, <3>1, <4>1
            <4> HIDE DEF old
            <4>3. before[i] = before[j] => i = j
                BY <2>1, <4>1, <4>2 DEF NoneTwice
            <4> QED BY <2>3, <2>7, <3>1, <4>3
        <3>2. ASSUME NEW k \in 1..Len(before) PROVE after[k] # after[Len(before) + 1]
            <4>1. before[k] # s
                BY <2>3, <2>4
            <4> QED BY <2>3, <4>1
        <3> HIDE DEF after
        <3>3. CASE i \in 1..Len(before) /\ j = Len(before) + 1
            BY <2>7, <3>2, <3>3
        <3>4. CASE i = Len(before) + 1 /\ j \in 1..Len(before)
            BY <2>7, <3>2, <3>4
        <3>5. CASE i = Len(before) + 1 /\ j = Len(before) + 1
            BY <3>5
        <3> QED BY <3>0, <3>1, <3>3, <3>4, <3>5
    <2>8. NoneTwice(e.txHistory)
        BY <2>1 DEF NoneTwice
    <2>9. new.stmts = after
        OBVIOUS
    <2> HIDE DEF after, before, new, old
    <2> QED BY <2>2, <2>6, <2>7, <2>8, <2>9 DEF NoneTwice
<1>7. Used(f) \subseteq Used(e) \cup {s}
    <2> SUFFICES ASSUME NEW x \in Used(f), x # s PROVE x \in Used(e)
        OBVIOUS
    <2>1. /\ InHistory(f, x) <=> InHistory(e, x)
          /\ SidsOf(f.databases.effects) = SidsOf(e.databases.effects)
        BY DEF RanTo, InHistory
    <2>2. x \in Elements(after) => x \in Elements(before)
        BY <1>2
    <2>3. x \in SidsOf(f.currentTransaction.databases.effects)
              => x \in SidsOf(e.currentTransaction.databases.effects)
        BY DEF RanTo, SidsOf
    <2> QED BY <2>1, <2>2, <2>3, UsedIs
<1> QED BY <1>3, <1>4, <1>5, <1>6, <1>7 DEF EngineInv

-----------------------------------------------------------------------------
(* What running a statement comes to *)

\* The open transaction of e with a statement recorded and these databases.
Ran(e, sid, dbs) ==
    [e EXCEPT !.currentTransaction =
        [id |-> e.currentTransaction.id, databases |-> dbs,
         stmts |-> Append(e.currentTransaction.stmts, sid)]]

LEMMA RanType ==
    ASSUME NEW e \in EngineState, InTransaction(e), NEW stmt \in Statement,
           NEW dbs \in Databases,
           e.currentTransaction.databases.names \subseteq dbs.names,
           e.currentTransaction.databases.effects \subseteq dbs.effects,
           \A effect \in dbs.effects :
               \/ effect \in e.currentTransaction.databases.effects
               \/ effect[2] = stmt.sid /\ effect[3] \in 1..stmt.actions
    PROVE  RanTo(e, Ran(e, stmt.sid, dbs), stmt)
<1> DEFINE after == Append(e.currentTransaction.stmts, stmt.sid)
           tx == [id |-> e.currentTransaction.id, databases |-> dbs, stmts |-> after]
           f == Ran(e, stmt.sid, dbs)
<1>1. stmt.sid \in Nat
    BY DEF Statement
<1>2. after \in Seq(Nat) /\ e.currentTransaction.id \in Nat \ {0}
    BY <1>1, EngineFields, AppendProperties
<1>3. tx \in Transaction /\ tx # NoTransaction
    BY <1>2 DEF Transaction, NoTransaction
<1>4. tx.id = e.currentTransaction.id /\ tx.databases = dbs /\ tx.stmts = after
    OBVIOUS
<1>5. f = [e EXCEPT !.currentTransaction = tx]
    BY DEF Ran
<1> HIDE DEF tx
<1>6. /\ f \in EngineState
      /\ f.databases = e.databases
      /\ f.latestTxId = e.latestTxId
      /\ f.txHistory = e.txHistory
      /\ f.currentTransaction = tx
    BY <1>3, <1>5 DEF EngineState
<1> HIDE DEF f
<1> QED BY <1>3, <1>4, <1>6 DEF RanTo, InTransaction, f

LEMMA TransactionExcept ==
    ASSUME NEW tx \in Transaction, NEW s, NEW dbs
    PROVE  /\ [tx EXCEPT !.stmts = s] = [id |-> tx.id, databases |-> tx.databases, stmts |-> s]
           /\ [[tx EXCEPT !.stmts = s] EXCEPT !.databases = dbs]
                  = [id |-> tx.id, databases |-> dbs, stmts |-> s]
<1>1. PICK i, d, old : tx = [id |-> i, databases |-> d, stmts |-> old]
    BY DEF Transaction
<1>2. [tx EXCEPT !.stmts = s] = [id |-> i, databases |-> d, stmts |-> s]
    BY <1>1
<1>3. [[id |-> i, databases |-> d, stmts |-> s] EXCEPT !.databases = dbs]
          = [id |-> i, databases |-> dbs, stmts |-> s]
    OBVIOUS
<1> QED BY <1>1, <1>2, <1>3

LEMMA RecordedIsRan ==
    ASSUME NEW e \in EngineState, InTransaction(e), NEW sid \in Nat
    PROVE  LET begun == [e EXCEPT !.currentTransaction.stmts = Append(@, sid)] IN
           /\ begun = Ran(e, sid, e.currentTransaction.databases)
           /\ begun.currentTransaction.databases = e.currentTransaction.databases
           /\ \A dbs : [begun EXCEPT !.currentTransaction.databases = dbs] = Ran(e, sid, dbs)
<1> DEFINE tx == e.currentTransaction
           s == Append(tx.stmts, sid)
           after == [tx EXCEPT !.stmts = s]
           begun == [e EXCEPT !.currentTransaction = after]
<1>1. tx \in Transaction
    BY InTransactionType
<1>2. after = [id |-> tx.id, databases |-> tx.databases, stmts |-> s]
    BY <1>1, TransactionExcept
<1>3. begun.currentTransaction = after
    BY DEF EngineState
<1>4. begun = Ran(e, sid, tx.databases)
    BY <1>2 DEF Ran
<1>5. begun.currentTransaction.databases = tx.databases
    BY <1>2, <1>3
<1>6. ASSUME NEW dbs
      PROVE  [begun EXCEPT !.currentTransaction = [@ EXCEPT !.databases = dbs]]
                 = Ran(e, sid, dbs)
    <2> DEFINE other == [id |-> tx.id, databases |-> dbs, stmts |-> s]
    <2>1. [after EXCEPT !.databases = dbs] = other
        BY <1>1, TransactionExcept
    <2>2. [begun EXCEPT !.currentTransaction = [after EXCEPT !.databases = dbs]]
              = [e EXCEPT !.currentTransaction = other]
        <3> HIDE DEF after, other
        <3> QED BY <2>1 DEF EngineState
    <2> HIDE DEF begun, after
    <2> QED BY <1>3, <2>2 DEF Ran
<1> QED BY <1>4, <1>5, <1>6

\* A statement that returned has all its actions in some database.
Finished(dbs, stmt) ==
    stmt.kind # "create_database" =>
        \E n \in dbs.names : \A k \in 1..stmt.actions : <<n, stmt.sid, k>> \in dbs.effects

LEMMA AddActionsIs ==
    ASSUME NEW e, NEW n, NEW stmt, NEW out \in AddActions(e, n, stmt)
    PROVE  LET after(k) == [e EXCEPT !.currentTransaction.databases =
                                         WithActions(@, n, stmt.sid, k)]
           IN  \/ out = Returns(after(stmt.actions))
               \/ \E k \in {0} \cup 0..(stmt.actions - 1), error \in Errors :
                      out = Throws(after(k), error)
<1> DEFINE after(k) == [e EXCEPT !.currentTransaction.databases =
                                     WithActions(@, n, stmt.sid, k)]
<1>1. out \in {Returns(after(stmt.actions))}
                 \cup {Throws(after(k), error) :
                          k \in {0} \cup 0..(stmt.actions - 1), error \in Errors}
    BY DEF AddActions
<1> HIDE DEF after
<1>2. \/ out = Returns(after(stmt.actions))
      \/ \E k \in {0} \cup 0..(stmt.actions - 1), error \in Errors :
             out = Throws(after(k), error)
    BY <1>1
<1> QED BY <1>2 DEF after

LEMMA RunOne ==
    ASSUME NEW e \in EngineState, InTransaction(e), NEW stmt \in Statement,
           stmt.kind \notin SessionKinds, NEW out \in BindAndExecute(e, stmt)
    PROVE  /\ RanTo(e, out.engine, stmt)
           /\ out.thrown \in {"none"} \cup Errors
           /\ out.thrown = "none" => Finished(out.engine.currentTransaction.databases, stmt)
<1> DEFINE sid == stmt.sid
           dbs == e.currentTransaction.databases
           begun == [e EXCEPT !.currentTransaction.stmts = Append(@, sid)]
           n == IF stmt.db = NoName THEN e.currentDb ELSE stmt.db
<1>1. /\ sid \in Nat
      /\ stmt.db \in Names \cup {NoName}
      /\ stmt.actions \in 0..MaxActions
      /\ stmt.kind = "create_database" => stmt.db # NoName
    BY DEF Statement, NamesWhatItCreates
<1>2. /\ dbs \in Databases
      /\ dbs.names \subseteq Names
      /\ dbs.effects \subseteq Names \X Nat \X (1..MaxActions)
    BY EngineFields
<1>3. /\ begun = Ran(e, sid, dbs)
      /\ begun.currentTransaction.databases = dbs
      /\ \A d : [begun EXCEPT !.currentTransaction.databases = d] = Ran(e, sid, d)
    BY <1>1, RecordedIsRan
<1>4. RanTo(e, begun, stmt)
    <2>1. RanTo(e, Ran(e, sid, dbs), stmt)
        BY <1>2, RanType
    <2> HIDE DEF begun
    <2> QED BY <1>3, <2>1
<1>5. CASE stmt.kind = "create_database"
    <2> DEFINE d == WithDatabase(dbs, stmt.db)
    <2>1. d \in Databases /\ d.names = dbs.names \cup {stmt.db} /\ d.effects = dbs.effects
        BY <1>1, <1>2, <1>5 DEF WithDatabase, Databases
    <2> HIDE DEF d
    <2>2. RanTo(e, Ran(e, sid, d), stmt)
        BY <1>2, <2>1, RanType
    <2>3. \/ out = Throws(begun, "error")
          \/ out = Returns(Ran(e, sid, d))
        <3>1. out \in {IF stmt.db \in dbs.names
                       THEN Throws(begun, "error")
                       ELSE Returns([begun EXCEPT !.currentTransaction.databases = d])}
            BY <1>3, <1>5 DEF BindAndExecute, d
        <3> HIDE DEF begun
        <3> QED BY <1>3, <3>1
    <2> HIDE DEF begun
    <2> QED BY <1>4, <1>5, <2>2, <2>3 DEF Throws, Returns, Errors, Finished
<1>6. CASE stmt.kind # "create_database"
    <2>1. CASE n \notin dbs.names
        <3>1. out = Throws(begun, "error")
            BY <1>6, <2>1 DEF BindAndExecute
        <3> HIDE DEF begun
        <3> QED BY <1>4, <3>1 DEF Throws, Errors
    <2>2. CASE n \in dbs.names
        <3> DEFINE d(k) == WithActions(dbs, n, sid, k)
        <3>1. out \in AddActions(begun, n, stmt)
            BY <1>6, <2>2 DEF BindAndExecute
        <3> HIDE DEF begun, n
        <3>2. PICK k \in 0..stmt.actions :
                  /\ out.engine = Ran(e, sid, d(k))
                  /\ out.thrown \in {"none"} \cup Errors
                  /\ out.thrown = "none" => k = stmt.actions
            <4>1. \A k : [begun EXCEPT !.currentTransaction.databases = WithActions(@, n, sid, k)]
                             = Ran(e, sid, d(k))
                <5> SUFFICES ASSUME NEW k
                             PROVE  [begun EXCEPT !.currentTransaction.databases =
                                         WithActions(begun.currentTransaction.databases,
                                                     n, sid, k)]
                                        = Ran(e, sid, d(k))
                    OBVIOUS
                <5> QED BY <1>3
            <4> HIDE DEF d
            <4>2. \/ out = Returns(Ran(e, sid, d(stmt.actions)))
                  \/ \E k \in {0} \cup 0..(stmt.actions - 1), error \in Errors :
                         out = Throws(Ran(e, sid, d(k)), error)
                <5> DEFINE after(k) == [begun EXCEPT !.currentTransaction.databases =
                                            WithActions(@, n, sid, k)]
                <5>1. \/ out = Returns(after(stmt.actions))
                      \/ \E k \in {0} \cup 0..(stmt.actions - 1), error \in Errors :
                             out = Throws(after(k), error)
                    BY <3>1, AddActionsIs
                <5>2. \A k : after(k) = Ran(e, sid, d(k))
                    BY <4>1
                <5> HIDE DEF after
                <5> QED BY <5>1, <5>2
            <4>3. {0} \cup 0..(stmt.actions - 1) \subseteq 0..stmt.actions
                BY <1>1, MaxActionsAssumption
            <4>4. CASE out = Returns(Ran(e, sid, d(stmt.actions)))
                BY <1>1, <4>4, MaxActionsAssumption DEF Returns
            <4>5. CASE \E k \in {0} \cup 0..(stmt.actions - 1), error \in Errors :
                           out = Throws(Ran(e, sid, d(k)), error)
                BY <4>3, <4>5 DEF Throws, Errors
            <4> QED BY <4>2, <4>4, <4>5
        <3>3. /\ d(k) \in Databases
              /\ d(k).names = dbs.names
              /\ d(k).effects = dbs.effects \cup ({n} \X {sid} \X (1..k))
            <4>1. 1..k \subseteq 1..MaxActions /\ n \in Names
                BY <1>1, <1>2, <2>2, <3>2, MaxActionsAssumption
            <4>2. {n} \X {sid} \X (1..k) \subseteq Names \X Nat \X (1..MaxActions)
                BY <1>1, <4>1
            <4> QED BY <1>2, <4>2 DEF WithActions, Databases
        <3> HIDE DEF d
        <3>4. \A effect \in {n} \X {sid} \X (1..k) :
                  effect[2] = sid /\ effect[3] \in 1..stmt.actions
            BY <1>1, <3>2, MaxActionsAssumption
        <3>5. RanTo(e, Ran(e, sid, d(k)), stmt)
            BY <1>2, <3>3, <3>4, RanType
        <3>6. Ran(e, sid, d(k)).currentTransaction.databases = d(k)
            BY DEF Ran, EngineState
        <3>7. out.thrown = "none" => Finished(d(k), stmt)
            BY <2>2, <3>2, <3>3 DEF Finished
        <3> QED BY <3>2, <3>5, <3>6, <3>7
    <2> QED BY <2>1, <2>2
<1> QED BY <1>5, <1>6

\* What a call that keeps the engine in order comes to.
Kept(e, p, stmt, out) ==
    /\ out.engine \in EngineState
    /\ out.thrown \in {"none"} \cup Errors
    /\ EngineInv(out.engine, p)
    /\ Used(out.engine) \subseteq Used(e) \cup {stmt.sid}
    /\ e.databases.effects \subseteq out.engine.databases.effects

LEMMA RunOneKeeps ==
    ASSUME NEW e \in EngineState, NEW p \in Policy, NEW stmt \in Statement,
           EngineInv(e, p), InTransaction(e), stmt.sid \notin Used(e),
           stmt.kind \notin SessionKinds, NEW out \in BindAndExecute(e, stmt)
    PROVE  /\ Kept(e, p, stmt, out)
           /\ InTransaction(out.engine)
           /\ out.engine.databases = e.databases
           /\ out.thrown = "none" /\ stmt.kind = "sql" =>
                  Done(out.engine.currentTransaction.databases, stmt)
<1>1. /\ RanTo(e, out.engine, stmt)
      /\ out.thrown \in {"none"} \cup Errors
      /\ out.thrown = "none" => Finished(out.engine.currentTransaction.databases, stmt)
    BY RunOne
<1>2. EngineInv(out.engine, p) /\ Used(out.engine) \subseteq Used(e) \cup {stmt.sid}
    BY <1>1, RanToKeeps
<1>3. \A effect \in e.currentTransaction.databases.effects : effect[2] # stmt.sid
    BY UsedIs DEF SidsOf
<1>4. out.thrown = "none" /\ stmt.kind = "sql" =>
          Done(out.engine.currentTransaction.databases, stmt)
    BY <1>1, <1>3 DEF Done, Finished, RanTo
<1> QED BY <1>1, <1>2, <1>4 DEF Kept, RanTo

LEMMA AutoCommitKeeps ==
    ASSUME NEW e \in EngineState, NEW p \in Policy, NEW stmt \in Statement,
           EngineInv(e, p), ~ InTransaction(e), stmt.sid \notin Used(e),
           stmt.kind \notin SessionKinds, NEW out \in TryExecuteAutoCommit(e, p, stmt)
    PROVE  /\ Kept(e, p, stmt, out)
           /\ ~ InTransaction(out.engine)
           /\ \/ out.engine.databases = e.databases
              \/ stmt.kind = "sql" => Done(out.engine.databases, stmt)
<1>1. CASE ~ p.autoCommit
    <2>1. out = Throws(e, "error")
        BY <1>1 DEF TryExecuteAutoCommit
    <2> QED BY <2>1 DEF Throws, Kept, Errors
<1>2. CASE p.autoCommit
    <2> DEFINE begun == BeginTx(e)
    <2>1. /\ begun \in EngineState
          /\ InTransaction(begun)
          /\ begun.databases = e.databases
          /\ EngineInv(begun, p)
          /\ Used(begun) = Used(e)
        BY BeginTxType, BeginTxKeeps
    <2>2. PICK run \in BindAndExecute(begun, stmt) :
              out = IF run.thrown = "none" THEN Returns(CommitTx(run.engine, p))
                    ELSE Throws(RollbackTx(run.engine), run.thrown)
        BY <1>2 DEF TryExecuteAutoCommit
    <2> HIDE DEF begun
    <2>3. /\ Kept(begun, p, stmt, run)
          /\ InTransaction(run.engine)
          /\ run.engine.databases = begun.databases
          /\ run.thrown = "none" /\ stmt.kind = "sql" =>
                 Done(run.engine.currentTransaction.databases, stmt)
        BY <2>1, RunOneKeeps
    <2>4. CASE run.thrown = "none"
        <3> DEFINE f == CommitTx(run.engine, p)
        <3>1. out.engine = f /\ out.thrown = "none"
            BY <2>2, <2>4 DEF Returns
        <3>2. /\ f \in EngineState
              /\ ~ InTransaction(f)
              /\ f.databases = run.engine.currentTransaction.databases
              /\ EngineInv(f, p)
              /\ Used(f) \subseteq Used(run.engine)
            BY <2>3, CommitTxType, CommitTxKeeps DEF Kept
        <3> HIDE DEF f
        <3>3. run.engine.databases.effects \subseteq f.databases.effects
            BY <2>3, <3>2 DEF Kept, EngineInv, KeepsCommitted
        <3> QED BY <2>1, <2>3, <2>4, <3>1, <3>2, <3>3 DEF Kept
    <2>5. CASE run.thrown # "none"
        <3> DEFINE f == RollbackTx(run.engine)
        <3>1. out.engine = f /\ out.thrown = run.thrown
            BY <2>2, <2>5 DEF Throws
        <3>2. /\ f \in EngineState
              /\ ~ InTransaction(f)
              /\ f.databases = run.engine.databases
              /\ EngineInv(f, p)
              /\ Used(f) \subseteq Used(run.engine)
            BY <2>3, RollbackTxType, RollbackTxKeeps DEF Kept
        <3> HIDE DEF f
        <3> QED BY <2>1, <2>3, <3>1, <3>2 DEF Kept
    <2> QED BY <2>4, <2>5
<1> QED BY <1>1, <1>2

LEMMA UseDatabaseKeeps ==
    ASSUME NEW e \in EngineState, NEW p \in Policy, NEW n \in Names \cup {NoName},
           EngineInv(e, p)
    PROVE  LET f == [e EXCEPT !.currentDb = n] IN
           /\ f \in EngineState
           /\ f.databases = e.databases
           /\ f.currentTransaction = e.currentTransaction
           /\ InTransaction(f) <=> InTransaction(e)
           /\ EngineInv(f, p)
           /\ Used(f) = Used(e)
<1> DEFINE f == [e EXCEPT !.currentDb = n]
<1>1. /\ f \in EngineState
      /\ f.databases = e.databases
      /\ f.txHistory = e.txHistory
      /\ f.latestTxId = e.latestTxId
      /\ f.currentTransaction = e.currentTransaction
    BY DEF EngineState
<1> HIDE DEF f
<1>2. EngineInv(f, p) /\ Used(f) = Used(e)
    BY <1>1, SameEngine
<1> QED BY <1>1, <1>2 DEF f, InTransaction

\* Whatever a statement does, the engine stays in order.
LEMMA ExecuteKeeps ==
    ASSUME NEW e \in EngineState, NEW p \in Policy, NEW stmt \in Statement,
           EngineInv(e, p), stmt.sid \notin Used(e),
           NEW out \in ExecuteStatement(e, p, stmt)
    PROVE  Kept(e, p, stmt, out)
<1>1. out = Throws(e, "error") => Kept(e, p, stmt, out)
    BY DEF Throws, Kept, Errors
<1>2. CASE stmt.kind = "begin"
    <2>1. CASE InTransaction(e)
        BY <1>1, <1>2, <2>1 DEF ExecuteStatement
    <2>2. CASE ~ InTransaction(e)
        <3>1. out = Returns(BeginTx(e))
            BY <1>2, <2>2 DEF ExecuteStatement
        <3>2. /\ BeginTx(e) \in EngineState
              /\ BeginTx(e).databases = e.databases
              /\ EngineInv(BeginTx(e), p)
              /\ Used(BeginTx(e)) = Used(e)
            BY <2>2, BeginTxType, BeginTxKeeps
        <3> QED BY <3>1, <3>2 DEF Returns, Kept
    <2> QED BY <2>1, <2>2
<1>3. CASE stmt.kind = "commit"
    <2>1. CASE ~ InTransaction(e)
        BY <1>1, <1>3, <2>1 DEF ExecuteStatement
    <2>2. CASE InTransaction(e)
        <3>1. out = Returns(CommitTx(e, p))
            BY <1>3, <2>2 DEF ExecuteStatement
        <3>2. /\ CommitTx(e, p) \in EngineState
              /\ CommitTx(e, p).databases = e.currentTransaction.databases
              /\ EngineInv(CommitTx(e, p), p)
              /\ Used(CommitTx(e, p)) \subseteq Used(e)
            BY <2>2, CommitTxType, CommitTxKeeps
        <3>3. e.databases.effects \subseteq e.currentTransaction.databases.effects
            BY <2>2 DEF EngineInv, KeepsCommitted
        <3> QED BY <3>1, <3>2, <3>3 DEF Returns, Kept
    <2> QED BY <2>1, <2>2
<1>4. CASE stmt.kind = "rollback"
    <2>1. out = Returns(RollbackTx(e))
        BY <1>4 DEF ExecuteStatement
    <2>2. /\ RollbackTx(e) \in EngineState
          /\ RollbackTx(e).databases = e.databases
          /\ EngineInv(RollbackTx(e), p)
          /\ Used(RollbackTx(e)) \subseteq Used(e)
        BY RollbackTxType, RollbackTxKeeps
    <2> QED BY <2>1, <2>2 DEF Returns, Kept
<1>5. CASE stmt.kind = "use_database"
    <2> DEFINE f == [e EXCEPT !.currentDb = stmt.db]
    <2>1. out = Returns(f)
        BY <1>5 DEF ExecuteStatement
    <2>2. stmt.db \in Names \cup {NoName}
        BY DEF Statement
    <2>3. /\ f \in EngineState
          /\ f.databases = e.databases
          /\ EngineInv(f, p)
          /\ Used(f) = Used(e)
        BY <2>2, UseDatabaseKeeps
    <2> HIDE DEF f
    <2> QED BY <2>1, <2>3 DEF Returns, Kept
<1>6. CASE stmt.kind \notin SessionKinds
    <2>1. out \in IF InTransaction(e) THEN BindAndExecute(e, stmt)
                  ELSE TryExecuteAutoCommit(e, p, stmt)
        BY <1>6 DEF ExecuteStatement, SessionKinds
    <2>2. CASE InTransaction(e)
        BY <1>6, <2>1, <2>2, RunOneKeeps
    <2>3. CASE ~ InTransaction(e)
        BY <1>6, <2>1, <2>3, AutoCommitKeeps
    <2> QED BY <2>2, <2>3
<1> QED BY <1>2, <1>3, <1>4, <1>5, <1>6 DEF SessionKinds

LEMMA SqlIsBound ==
    ASSUME NEW e, NEW p, NEW stmt, stmt.kind \notin SessionKinds
    PROVE  /\ InTransaction(e) => ExecuteStatement(e, p, stmt) = BindAndExecute(e, stmt)
           /\ ~ InTransaction(e) =>
                  ExecuteStatement(e, p, stmt) = TryExecuteAutoCommit(e, p, stmt)
BY DEF ExecuteStatement, SessionKinds
=============================================================================
