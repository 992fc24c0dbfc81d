-------------------------- MODULE InputBatchProofs --------------------------
(***************************************************************************)
(* Proofs about InputBatch, for every set of methods and any number of     *)
(* calls.                                                                  *)
(***************************************************************************)
EXTENDS InputBatch, TLAPS, SequenceTheorems

-----------------------------------------------------------------------------
(* The numbers of a sequence of statements *)

LEMMA NumbersType ==
    ASSUME NEW s \in Seq(Statement)
    PROVE  /\ Numbers(s) \in Seq(Nat)
           /\ Len(Numbers(s)) = Len(s)
           /\ \A i \in 1 .. Len(s) : Numbers(s)[i] = s[i].id
<1>1. DOMAIN s = 1 .. Len(s) /\ Len(s) \in Nat
    BY LenProperties
<1>2. \A i \in 1 .. Len(s) : s[i].id \in Nat
    <2>1. \A i \in 1 .. Len(s) : s[i] \in Statement
        BY ElementOfSeq
    <2> QED BY <2>1 DEF Statement
<1>3. Numbers(s) \in [1 .. Len(s) -> Nat]
    BY <1>1, <1>2 DEF Numbers
<1>4. Numbers(s) \in Seq(Nat)
    BY <1>1, <1>3, SeqDef
<1> QED BY <1>1, <1>3, <1>4, LenProperties DEF Numbers

LEMMA NumbersOfNone == Numbers(<<>>) = <<>>
<1>1. <<>> \in Seq(Statement)
    BY EmptySeq
<1>2. Numbers(<<>>) \in Seq(Nat) /\ Len(Numbers(<<>>)) = 0
    BY <1>1, NumbersType, EmptySeq
<1> QED BY <1>2, EmptySeq

LEMMA NumbersOfAppend ==
    ASSUME NEW s \in Seq(Statement), NEW x \in Statement
    PROVE  Numbers(Append(s, x)) = Append(Numbers(s), x.id)
<1> DEFINE l == Numbers(Append(s, x))
           r == Append(Numbers(s), x.id)
<1>1. /\ Append(s, x) \in Seq(Statement)
      /\ Len(Append(s, x)) = Len(s) + 1
      /\ \A i \in 1 .. Len(s) : Append(s, x)[i] = s[i]
      /\ Append(s, x)[Len(s) + 1] = x
    BY AppendProperties
<1>2. x.id \in Nat /\ Len(s) \in Nat
    BY LenProperties DEF Statement
<1>3. /\ Numbers(s) \in Seq(Nat)
      /\ Len(Numbers(s)) = Len(s)
      /\ \A i \in 1 .. Len(s) : Numbers(s)[i] = s[i].id
    BY NumbersType
<1>4. /\ l \in Seq(Nat)
      /\ Len(l) = Len(s) + 1
      /\ \A i \in 1 .. Len(s) + 1 : l[i] = Append(s, x)[i].id
    BY <1>1, NumbersType
<1>5. /\ r \in Seq(Nat)
      /\ Len(r) = Len(s) + 1
      /\ \A i \in 1 .. Len(s) : r[i] = Numbers(s)[i]
      /\ r[Len(s) + 1] = x.id
    BY <1>2, <1>3, AppendProperties
<1> HIDE DEF l, r
<1>6. ASSUME NEW i \in 1 .. Len(s) + 1 PROVE l[i] = r[i]
    <2>1. CASE i \in 1 .. Len(s)
        BY <1>1, <1>3, <1>4, <1>5, <2>1
    <2>2. CASE i = Len(s) + 1
        BY <1>1, <1>4, <1>5, <2>2
    <2> QED BY <1>2, <2>1, <2>2
<1>7. l = r
    BY <1>4, <1>5, <1>6, SeqEqual
<1> QED BY <1>7 DEF l, r

LEMMA NumbersOfSubSeq ==
    ASSUME NEW s \in Seq(Statement), NEW m \in 1 .. 2, NEW n \in 0 .. Len(s)
    PROVE  /\ SubSeq(s, m, n) \in Seq(Statement)
           /\ Numbers(SubSeq(s, m, n)) = SubSeq(Numbers(s), m, n)
<1> DEFINE l == Numbers(SubSeq(s, m, n))
           r == SubSeq(Numbers(s), m, n)
<1>1. Len(s) \in Nat /\ m \in Int /\ n \in Int /\ (\A i \in m .. n : s[i] \in Statement)
    BY LenProperties, ElementOfSeq
<1>2. /\ SubSeq(s, m, n) \in Seq(Statement)
      /\ Len(SubSeq(s, m, n)) = IF m <= n THEN n - m + 1 ELSE 0
      /\ \A i \in 1 .. n - m + 1 : SubSeq(s, m, n)[i] = s[m + i - 1]
    BY <1>1, SubSeqProperties
<1>3. /\ Numbers(s) \in Seq(Nat)
      /\ Len(Numbers(s)) = Len(s)
      /\ \A i \in 1 .. Len(s) : Numbers(s)[i] = s[i].id
    BY NumbersType
<1>4. \A i \in m .. n : Numbers(s)[i] \in Nat
    BY <1>1, <1>3, ElementOfSeq
<1>5. /\ r \in Seq(Nat)
      /\ Len(r) = IF m <= n THEN n - m + 1 ELSE 0
      /\ \A i \in 1 .. n - m + 1 : r[i] = Numbers(s)[m + i - 1]
    BY <1>1, <1>4, SubSeqProperties
<1>6. /\ l \in Seq(Nat)
      /\ Len(l) = Len(SubSeq(s, m, n))
      /\ \A i \in 1 .. Len(SubSeq(s, m, n)) : l[i] = SubSeq(s, m, n)[i].id
    BY <1>2, NumbersType
<1>7. Len(l) = Len(r)
    BY <1>2, <1>5, <1>6
<1>8. \A i \in 1 .. Len(l) : l[i] = r[i]
    <2> TAKE i \in 1 .. Len(l)
    <2>1. i \in 1 .. n - m + 1 /\ m + i - 1 \in 1 .. Len(s)
        BY <1>1, <1>2, <1>6
    <2> QED BY <2>1, <1>2, <1>3, <1>5, <1>6
<1> HIDE DEF l, r
<1>9. l = r
    BY <1>5, <1>6, <1>7, <1>8, SeqEqual
<1> QED BY <1>2, <1>9 DEF l, r

\* Front and Tail, of a batch's queue and of the statements being executed.
LEMMA NumbersOfPart ==
    ASSUME NEW s \in Seq(Statement), s # <<>>
    PROVE  /\ Numbers(s) # <<>>
           /\ Front(s) \in Seq(Statement)
           /\ Numbers(Front(s)) = SubSeq(Numbers(s), 1, Len(Numbers(s)) - 1)
           /\ Tail(s) \in Seq(Statement)
           /\ Numbers(Tail(s)) = Tail(Numbers(s))
           /\ Last(s) \in Statement
<1>1. Len(s) \in Nat \ {0}
    BY EmptySeq
<1>2. Numbers(s) \in Seq(Nat) /\ Len(Numbers(s)) = Len(s)
    BY NumbersType
<1>3. Numbers(s) # <<>>
    BY <1>1, <1>2, EmptySeq
<1>4. Front(s) \in Seq(Statement) /\ Numbers(Front(s)) = SubSeq(Numbers(s), 1, Len(s) - 1)
    BY <1>1, NumbersOfSubSeq DEF Front
<1>5. Tail(s) = SubSeq(s, 2, Len(s)) /\ Tail(Numbers(s)) = SubSeq(Numbers(s), 2, Len(s))
    BY <1>2, <1>3, TailIsSubSeq
<1>6. Tail(s) \in Seq(Statement) /\ Numbers(Tail(s)) = Tail(Numbers(s))
    <2>1. 2 \in 1 .. 2 /\ Len(s) \in 0 .. Len(s)
        BY <1>1
    <2>2. /\ SubSeq(s, 2, Len(s)) \in Seq(Statement)
          /\ Numbers(SubSeq(s, 2, Len(s))) = SubSeq(Numbers(s), 2, Len(s))
        BY <2>1, NumbersOfSubSeq
    <2> QED BY <1>5, <2>2
<1>7. Last(s) \in Statement
    BY <1>1, ElementOfSeq DEF Last
<1> QED BY <1>2, <1>3, <1>4, <1>6, <1>7

-----------------------------------------------------------------------------
(* Builders *)

AnyBuilder == Builder \cup JoinBuilder

LEMMA KindsDiffer ==
    /\ NoBuilder \notin AnyBuilder
    /\ \A x \in Builder : x.kind # "innerJoin"
    /\ \A x \in JoinBuilder : x.kind = "innerJoin" /\ x.outer \in Builder
    /\ \A x \in AnyBuilder : x.id \in Nat
<1>1. \A x \in Builder : x.kind \in SimpleKinds \cup QueryKinds /\ x.id \in Nat
    BY DEF Builder
<1>2. \A x \in JoinBuilder : x.kind = "innerJoin" /\ x.id \in Nat /\ x.outer \in Builder
    BY DEF JoinBuilder
<1>3. NoBuilder.kind = "none"
    BY DEF NoBuilder
<1> QED BY <1>1, <1>2, <1>3, SMT DEF AnyBuilder, SimpleKinds, QueryKinds

LEMMA NewBuilderType ==
    ASSUME NEW kind \in SimpleKinds \cup QueryKinds, NEW id \in Nat
    PROVE  /\ NewBuilder(kind, id) \in Builder
           /\ NewBuilder(kind, id).id = id
BY DEF NewBuilder, Builder

LEMMA CreatedType ==
    ASSUME NEW x \in AnyBuilder, Creates(x)
    PROVE  Created(x) \in Statement /\ Created(x).id = x.id
<1>1. x.kind # "innerJoin"
    BY DEF Creates
<1>2. x \in Builder
    BY <1>1, KindsDiffer DEF AnyBuilder
<1>3. /\ x.kind \in SimpleKinds \cup QueryKinds /\ x.id \in Nat
      /\ x.calls \in SUBSET CallNames /\ x.nested \in SUBSET Nat
    BY <1>2 DEF Builder
<1> QED BY <1>3 DEF Created, Statement

Coherent(x) == x.kind = "innerJoin" => x.outer.kind = "select" /\ x.outer.id = x.id

LEMMA CalledType ==
    ASSUME NEW x \in AnyBuilder, Coherent(x), NEW call \in CallNames,
           HasLeftSource(x, call),
           call = "on" => x.kind = "innerJoin",
           x.kind = "innerJoin" => call = "on"
    PROVE  /\ Called(x, call) \in AnyBuilder
           /\ Coherent(Called(x, call))
           /\ Called(x, call).id = x.id
<1>1. CASE call = "on"
    <2>1. x \in JoinBuilder /\ x.outer \in Builder
        BY <1>1, KindsDiffer DEF AnyBuilder
    <2>2. x.outer.id = x.id /\ x.nested \in SUBSET Nat /\ "innerJoin" \in CallNames
        BY <1>1, <2>1 DEF Coherent, JoinBuilder, CallNames, Joins
    <2>3. Called(x, call) = JoinedOn(x)
        BY <1>1 DEF Called
    <2>4. JoinedOn(x) \in Builder /\ JoinedOn(x).id = x.id
        BY <2>1, <2>2 DEF JoinedOn, Builder
    <2> QED BY <2>3, <2>4, KindsDiffer DEF AnyBuilder, Coherent
<1>2. CASE call = "innerJoin"
    <2>1. x \in Builder /\ x.kind = "select" /\ x.id \in Nat
        BY <1>2, KindsDiffer DEF HasLeftSource, AnyBuilder
    <2> DEFINE y == [kind |-> "innerJoin", id |-> x.id, calls |-> {}, nested |-> {},
                     outer |-> x]
    <2>2. Called(x, call) = y
        BY <1>2 DEF Called
    <2>3. y \in JoinBuilder /\ y.id = x.id /\ y.kind = "innerJoin" /\ y.outer = x
        BY <2>1 DEF JoinBuilder
    <2> HIDE DEF y
    <2> QED BY <2>1, <2>2, <2>3 DEF AnyBuilder, Coherent
<1>3. CASE call \notin {"on", "innerJoin"}
    <2>1. x \in Builder
        BY <1>3, KindsDiffer DEF AnyBuilder
    <2>2. Called(x, call) \in Builder /\ Called(x, call).id = x.id
        <3>1. CASE call = "unionAll"
            <4>1. Called(x, call) = [NewBuilder("unionAll", x.id) EXCEPT !.nested = x.nested]
                BY <3>1 DEF Called
            <4> QED BY <2>1, <4>1 DEF NewBuilder, Builder, QueryKinds
        <3>2. CASE call # "unionAll"
            <4>1. Called(x, call) = [x EXCEPT !.calls = @ \cup {call}]
                BY <1>3, <3>2 DEF Called
            <4> QED BY <2>1, <4>1 DEF Builder
        <3> QED BY <3>1, <3>2
    <2> QED BY <2>2, KindsDiffer DEF AnyBuilder, Coherent
<1> QED BY <1>1, <1>2, <1>3

-----------------------------------------------------------------------------
(* The queue a batch is *)

\* finalizeStatement: what was written and what was still being written, in order.
LEMMA FinalizedIsWaiting ==
    ASSUME BatchTypeOK, NEW b \in Batches, CanFinalize(b)
    PROVE  /\ Finalized(b) \in Seq(Statement)
           /\ Numbers(Finalized(b)) = Waiting(b)
<1>1. queue[b] \in Seq(Statement) /\ Numbers(queue[b]) \in Seq(Nat)
    BY NumbersType DEF BatchTypeOK
<1>2. CASE builder[b] = NoBuilder
    <2>1. Numbers(queue[b]) \o <<>> = Numbers(queue[b])
        BY <1>1, ConcatEmptySeq
    <2> QED BY <1>1, <1>2, <2>1 DEF Finalized, Waiting, Pending
<1>3. CASE builder[b] # NoBuilder
    <2>1. builder[b] \in AnyBuilder /\ Creates(builder[b])
        BY <1>3 DEF BatchTypeOK, AnyBuilder, CanFinalize
    <2>2. /\ Created(builder[b]) \in Statement
          /\ Created(builder[b]).id = builder[b].id
          /\ builder[b].id \in Nat
        BY <2>1, CreatedType, KindsDiffer
    <2>3. Finalized(b) = Append(queue[b], Created(builder[b]))
        BY <1>3 DEF Finalized
    <2>4. Finalized(b) \in Seq(Statement)
        BY <1>1, <2>2, <2>3, AppendProperties
    <2>5. Numbers(Finalized(b)) = Append(Numbers(queue[b]), builder[b].id)
        BY <1>1, <2>2, <2>3, NumbersOfAppend
    <2>6. Waiting(b) = Numbers(queue[b]) \o <<builder[b].id>>
        BY <1>3 DEF Waiting, Pending
    <2>7. Append(Numbers(queue[b]), builder[b].id) = Numbers(queue[b]) \o <<builder[b].id>>
        BY <1>1, <2>2, AppendIsConcat
    <2> QED BY <2>4, <2>5, <2>6, <2>7
<1> QED BY <1>2, <1>3

-----------------------------------------------------------------------------
(* Type correctness *)

\* The two ways of calling a method give CalledType what it asks for.
LEMMA CallsFit ==
    ASSUME NEW x \in AnyBuilder, NEW call \in CallNames,
           x.kind \in WorksOn(call) \/ x.kind \in TakesQuery(call)
    PROVE  /\ call = "on" => x.kind = "innerJoin"
           /\ x.kind = "innerJoin" => call = "on"
BY SMT DEF WorksOn, TakesQuery, QueryKinds

LEMMA NestedType ==
    ASSUME NEW x \in AnyBuilder, Coherent(x), NEW more \in SUBSET Nat
    PROVE  LET y == [x EXCEPT !.nested = @ \cup more]
           IN  y \in AnyBuilder /\ Coherent(y) /\ y.id = x.id
<1> DEFINE y == [x EXCEPT !.nested = @ \cup more]
<1>1. CASE x \in Builder
    <2>1. y \in Builder /\ y.id = x.id
        BY <1>1 DEF Builder
    <2> HIDE DEF y
    <2>2. y \in AnyBuilder /\ Coherent(y) /\ y.id = x.id
        BY <2>1, KindsDiffer DEF AnyBuilder, Coherent
    <2> QED BY <2>2 DEF y
<1>2. CASE x \in JoinBuilder
    <2>1. y \in JoinBuilder /\ y.id = x.id /\ y.kind = x.kind /\ y.outer = x.outer
        BY <1>2 DEF JoinBuilder
    <2> HIDE DEF y
    <2>2. y \in AnyBuilder /\ Coherent(y) /\ y.id = x.id
        BY <2>1 DEF AnyBuilder, Coherent
    <2> QED BY <2>2 DEF y
<1> QED BY <1>1, <1>2 DEF AnyBuilder

LEMMA TypeParts ==
    ASSUME BatchTypeOK, NEW b \in Batches
    PROVE  /\ queue[b] \in Seq(Statement)
           /\ builder[b] # NoBuilder => builder[b] \in AnyBuilder /\ Coherent(builder[b])
BY DEF BatchTypeOK, AnyBuilder, Coherent

\* CallWithQuery: the query is taken out of the inner batch; the main builder keeps its
\* number.
LEMMA CallWithQueryEffect ==
    ASSUME BatchTypeOK, NEW call \in Methods, CallWithQuery(call)
    PROVE  /\ Finalized("inner") \in Seq(Statement) /\ Finalized("inner") # <<>>
           /\ CanFinalize("inner")
           /\ queue' = [queue EXCEPT !["inner"] = Front(Finalized("inner"))]
           /\ \E x \in AnyBuilder :
                  /\ Coherent(x) /\ x.id = builder["main"].id
                  /\ builder' = [builder EXCEPT !["inner"] = NoBuilder, !["main"] = x]
<1> DEFINE query == Last(Finalized("inner"))
           main == builder["main"]
           called == Called(main, call)
           more == {query.id} \cup query.nested
           extended == [called EXCEPT !.nested = @ \cup {query.id} \cup query.nested]
           x == IF query.kind \in QueryKinds /\ HasLeftSource(main, call)
                THEN extended ELSE main
<1>1. /\ CanFinalize("inner") /\ Finalized("inner") # <<>> /\ main # NoBuilder
      /\ main.kind \in TakesQuery(call)
      /\ queue' = [queue EXCEPT !["inner"] = Front(Finalized("inner"))]
      /\ builder' = [builder EXCEPT !["inner"] = NoBuilder, !["main"] = x]
    BY DEF CallWithQuery, Popped, Batches, BatchTypeOK
<1>2. Finalized("inner") \in Seq(Statement)
    BY <1>1, FinalizedIsWaiting DEF Batches
<1>3. query \in Statement
    BY <1>1, <1>2, NumbersOfPart
<1>4. more \in SUBSET Nat
    BY <1>3 DEF Statement
<1>5. main \in AnyBuilder /\ Coherent(main)
    BY <1>1, TypeParts DEF Batches
<1>6. ASSUME HasLeftSource(main, call)
      PROVE  extended \in AnyBuilder /\ Coherent(extended) /\ extended.id = main.id
    <2>1. call \in CallNames
        BY InputBatchAssumption
    <2>2. /\ call = "on" => main.kind = "innerJoin"
          /\ main.kind = "innerJoin" => call = "on"
        <3> HIDE DEF main
        <3> QED BY <1>1, <1>5, <2>1, CallsFit
    <2>3. called \in AnyBuilder /\ Coherent(called) /\ called.id = main.id
        <3> HIDE DEF main
        <3> QED BY <1>5, <1>6, <2>1, <2>2, CalledType
    <2>4. extended = [called EXCEPT !.nested = @ \cup more]
        OBVIOUS
    <2> HIDE DEF main, called, more, extended
    <2> QED BY <1>4, <2>3, <2>4, NestedType
<1>7. x \in AnyBuilder /\ Coherent(x) /\ x.id = main.id
    <2> HIDE DEF extended, main, query
    <2> QED BY <1>5, <1>6
<1> HIDE DEF x
<1> QED BY <1>1, <1>2, <1>7

LEMMA CallEffect ==
    ASSUME BatchTypeOK, NEW b \in Batches, NEW call \in Methods, Call(b, call)
    PROVE  \E x \in AnyBuilder :
               /\ Coherent(x) /\ x.id = builder[b].id
               /\ builder[b] # NoBuilder
               /\ builder' = [builder EXCEPT ![b] = x]
<1>1. /\ builder[b] # NoBuilder /\ builder[b].kind \in WorksOn(call)
      /\ HasLeftSource(builder[b], call)
      /\ builder' = [builder EXCEPT ![b] = Called(builder[b], call)]
    BY DEF Call, BatchTypeOK
<1>2. builder[b] \in AnyBuilder /\ Coherent(builder[b])
    BY <1>1, TypeParts
<1>3. call \in CallNames
    BY InputBatchAssumption
<1>4. /\ Called(builder[b], call) \in AnyBuilder
      /\ Coherent(Called(builder[b], call))
      /\ Called(builder[b], call).id = builder[b].id
    BY <1>1, <1>2, <1>3, CallsFit, CalledType
<1> QED BY <1>1, <1>4

\* What keeps BatchTypeOK, whatever the call.
LEMMA UpdatesKeepType ==
    ASSUME BatchTypeOK, NEW b \in Batches,
           written' \in Nat, calls' \in 0 .. MaxCalls, executing' \in Seq(Statement),
           queue' = queue \/ \E q \in Seq(Statement) : queue' = [queue EXCEPT ![b] = q],
           \/ builder' = builder
           \/ \E x \in {NoBuilder} \cup AnyBuilder :
                 Coherent(x) /\ builder' = [builder EXCEPT ![b] = x]
    PROVE  BatchTypeOK'
<1>1. queue' \in [Batches -> Seq(Statement)]
    BY DEF BatchTypeOK
<1>2. /\ builder' \in [Batches -> {NoBuilder} \cup AnyBuilder]
      /\ \A c \in Batches : Coherent(builder'[c])
    <2>1. \A c \in Batches : Coherent(builder[c])
        BY DEF BatchTypeOK, Coherent
    <2>2. builder \in [Batches -> {NoBuilder} \cup AnyBuilder]
        BY DEF BatchTypeOK, AnyBuilder
    <2> QED BY <2>1, <2>2
<1> QED BY <1>1, <1>2 DEF BatchTypeOK, AnyBuilder, Coherent

LEMMA NoneIsCoherent == Coherent(NoBuilder)
BY DEF Coherent, NoBuilder

LEMMA NewIsCoherent ==
    ASSUME NEW kind \in SimpleKinds \cup QueryKinds, NEW id \in Nat
    PROVE  NewBuilder(kind, id) \in AnyBuilder /\ Coherent(NewBuilder(kind, id))
BY NewBuilderType, KindsDiffer DEF AnyBuilder, Coherent

LEMMA SessionStatement ==
    ASSUME NEW kind \in SessionKinds, NEW id \in Nat
    PROVE  Created(NewBuilder(kind, id)) \in Statement /\ Created(NewBuilder(kind, id)).id = id
BY InputBatchAssumption DEF Created, NewBuilder, Statement

LEMMA BatchInitType == BatchInit => BatchTypeOK
<1> SUFFICES ASSUME BatchInit PROVE BatchTypeOK
    OBVIOUS
<1>1. <<>> \in Seq(Statement)
    BY EmptySeq
<1>2. NoBuilder.kind # "innerJoin"
    BY DEF NoBuilder
<1> QED BY <1>1, <1>2, InputBatchAssumption DEF BatchInit, BatchTypeOK

LEMMA BatchStepKeepsType ==
    ASSUME BatchTypeOK, [BatchNext]_batchVars
    PROVE  BatchTypeOK'
<1> USE DEF BatchTypeOK
<1>0. MaxCalls \in Nat /\ "main" \in Batches /\ "inner" \in Batches /\ <<>> \in Seq(Statement)
    BY InputBatchAssumption, EmptySeq DEF Batches
<1>1. ASSUME MayCall
      PROVE  /\ calls' \in 0 .. MaxCalls
             /\ executing = <<>>
             /\ written + 1 \in Nat /\ written \in Nat
             /\ executing \in Seq(Statement)
    BY <1>0, <1>1 DEF MayCall
<1> USE <1>0
<1>2. ASSUME NEW b \in Batches, NEW kind \in SessionKinds, Session(b, kind)
      PROVE  BatchTypeOK'
    <2> DEFINE s == Created(NewBuilder(kind, written + 1))
    <2>1. /\ MayCall /\ executing' = executing /\ written' = written + 1
          /\ builder' = builder /\ queue' = [queue EXCEPT ![b] = Append(queue[b], s)]
        BY <1>2 DEF Session
    <2>2. s \in Statement /\ queue[b] \in Seq(Statement)
        BY <1>1, <2>1, SessionStatement
    <2>3. Append(queue[b], s) \in Seq(Statement)
        BY <2>2, AppendProperties
    <2> HIDE DEF s, BatchTypeOK
    <2> QED BY <1>1, <2>1, <2>3, UpdatesKeepType
<1>3. ASSUME NEW b \in Batches, NEW kind \in SimpleKinds \ {"insert_into"}, Start(b, kind)
      PROVE  BatchTypeOK'
    <2>1. /\ MayCall /\ executing' = executing /\ written' = written + 1 /\ queue' = queue
          /\ builder' = [builder EXCEPT ![b] = NewBuilder(kind, written + 1)]
        BY <1>3 DEF Start
    <2> HIDE DEF BatchTypeOK
    <2> QED BY <1>1, <2>1, NewIsCoherent, UpdatesKeepType
<1>4. ASSUME NEW b \in Batches, StartInsert(b)
      PROVE  BatchTypeOK'
    <2>1. /\ MayCall /\ executing' = executing /\ written' = written + 1
          /\ CanFinalize(b)
          /\ queue' = [queue EXCEPT ![b] = Finalized(b)]
          /\ builder' = [builder EXCEPT ![b] = NewBuilder("insert_into", written + 1)]
        BY <1>4 DEF StartInsert
    <2>2. "insert_into" \in SimpleKinds
        BY DEF SimpleKinds
    <2> HIDE DEF BatchTypeOK
    <2> QED BY <1>1, <2>1, <2>2, NewIsCoherent, FinalizedIsWaiting, UpdatesKeepType
<1>5. ASSUME NEW b \in Batches, NEW call \in Methods, Call(b, call)
      PROVE  BatchTypeOK'
    <2>1. /\ MayCall /\ executing' = executing /\ written' = written /\ queue' = queue
        BY <1>5 DEF Call
    <2> HIDE DEF BatchTypeOK
    <2> QED BY <1>1, <1>5, <2>1, CallEffect, UpdatesKeepType
<1>6. ASSUME NEW b \in Batches, Execute(b)
      PROVE  BatchTypeOK'
    <2>1. /\ MayCall /\ CanFinalize(b) /\ executing' = Finalized(b) /\ written' = written
          /\ queue' = [queue EXCEPT ![b] = <<>>]
          /\ builder' = [builder EXCEPT ![b] = NoBuilder]
        BY <1>6 DEF Execute
    <2> HIDE DEF BatchTypeOK
    <2> QED BY <1>1, <2>1, NoneIsCoherent, FinalizedIsWaiting, UpdatesKeepType
<1>7. ASSUME StartSelect
      PROVE  BatchTypeOK'
    <2> DEFINE b == IF builder["main"] = NoBuilder THEN "main" ELSE "inner"
    <2>1. /\ MayCall /\ executing' = executing /\ written' = written + 1 /\ queue' = queue
          /\ builder' = [builder EXCEPT ![b] = NewBuilder("select", written + 1)]
        BY <1>7 DEF StartSelect
    <2>2. "select" \in QueryKinds /\ b \in Batches
        BY DEF QueryKinds
    <2> HIDE DEF b, BatchTypeOK
    <2> QED BY <1>1, <2>1, <2>2, NewIsCoherent, UpdatesKeepType
<1>8. ASSUME NEW call \in Methods, CallWithQuery(call)
      PROVE  BatchTypeOK'
    <2>1. /\ MayCall /\ executing' = executing /\ written' = written
        BY <1>8 DEF CallWithQuery
    <2>2. PICK x \in AnyBuilder :
              /\ Coherent(x)
              /\ builder' = [builder EXCEPT !["inner"] = NoBuilder, !["main"] = x]
        BY <1>8, CallWithQueryEffect
    <2>3. Finalized("inner") \in Seq(Statement) /\ Finalized("inner") # <<>>
          /\ queue' = [queue EXCEPT !["inner"] = Front(Finalized("inner"))]
        BY <1>8, CallWithQueryEffect
    <2>4. Front(Finalized("inner")) \in Seq(Statement)
        BY <2>3, NumbersOfPart
    <2>5. queue' \in [Batches -> Seq(Statement)]
        BY <2>3, <2>4
    <2>6. /\ builder' \in [Batches -> {NoBuilder} \cup AnyBuilder]
          /\ \A c \in Batches : Coherent(builder'[c])
        BY <2>2, NoneIsCoherent DEF Batches, AnyBuilder
    <2> QED BY <1>1, <2>1, <2>5, <2>6 DEF AnyBuilder, Coherent
<1>9. ASSUME AsStatement
      PROVE  BatchTypeOK'
    <2>1. /\ MayCall /\ CanFinalize("main") /\ Finalized("main") # <<>>
          /\ executing' = executing /\ written' = written
          /\ queue' = [queue EXCEPT !["main"] = Front(Finalized("main"))]
          /\ builder' = [builder EXCEPT !["main"] = NoBuilder]
        BY <1>9 DEF AsStatement
    <2>2. Front(Finalized("main")) \in Seq(Statement)
        BY <2>1, FinalizedIsWaiting, NumbersOfPart
    <2> HIDE DEF BatchTypeOK
    <2> QED BY <1>1, <2>1, <2>2, NoneIsCoherent, UpdatesKeepType
<1>10. CASE Run
    <2>1. /\ executing # <<>> /\ executing' \in {Tail(executing), <<>>}
          /\ UNCHANGED <<queue, builder, written, calls>>
        BY <1>10 DEF Run
    <2>2. executing' \in Seq(Statement)
        BY <2>1, NumbersOfPart
    <2> QED BY <2>1, <2>2
<1>11. CASE UNCHANGED batchVars
    BY <1>11 DEF batchVars
<1> QED
    BY <1>2, <1>3, <1>4, <1>5, <1>6, <1>7, <1>8, <1>9, <1>10, <1>11
       DEF BatchNext, BatchCall

\* Whatever is called in whatever order, the batch holds statements and at most one
\* builder, and a pending join always belongs to a select (InputBatch).
THEOREM BatchTypeCorrect == BatchSpec => []BatchTypeOK
<1>1. BatchInit => BatchTypeOK
    BY BatchInitType
<1>2. BatchTypeOK /\ [BatchNext]_batchVars => BatchTypeOK'
    BY BatchStepKeepsType
<1> QED BY <1>1, <1>2, PTL DEF BatchSpec

-----------------------------------------------------------------------------
(* The refinement: every call is a step of the queue or no step at all *)

LEMMA WaitingType ==
    ASSUME BatchTypeOK, NEW b \in Batches
    PROVE  Waiting(b) \in Seq(Nat) /\ Numbers(queue[b]) \in Seq(Nat)
<1>1. Numbers(queue[b]) \in Seq(Nat)
    BY TypeParts, NumbersType
<1>2. Pending(b) \in Seq(Nat)
    <2>1. CASE builder[b] = NoBuilder
        BY <2>1, EmptySeq DEF Pending
    <2>2. CASE builder[b] # NoBuilder
        <3>1. builder[b].id \in Nat
            BY <2>2, TypeParts, KindsDiffer
        <3>2. Pending(b) = <<builder[b].id>>
            BY <2>2 DEF Pending
        <3> QED BY <3>1, <3>2
    <2> QED BY <2>1, <2>2
<1> QED BY <1>1, <1>2, ConcatProperties DEF Waiting

\* A batch of which neither the queue nor the number of its builder changes.
LEMMA WaitingStays ==
    ASSUME NEW b \in Batches, queue'[b] = queue[b],
           \/ builder'[b] = builder[b]
           \/ /\ builder[b] # NoBuilder /\ builder'[b] # NoBuilder
              /\ builder'[b].id = builder[b].id
    PROVE  Waiting(b)' = Waiting(b)
<1>1. Pending(b)' = Pending(b)
    BY DEF Pending
<1> QED BY <1>1 DEF Waiting

\* A batch left without a builder.
LEMMA WaitingEnded ==
    ASSUME NEW b \in Batches, NEW q \in Seq(Statement),
           queue'[b] = q, builder'[b] = NoBuilder
    PROVE  Waiting(b)' = Numbers(q)
<1>1. Pending(b)' = <<>>
    BY DEF Pending
<1>2. Numbers(q) \o <<>> = Numbers(q)
    BY NumbersType, ConcatEmptySeq
<1> QED BY <1>1, <1>2 DEF Waiting

\* A batch with a new builder behind what was waiting.
LEMMA WaitingGrows ==
    ASSUME BatchTypeOK, NEW b \in Batches, NEW n \in Nat,
           Numbers(queue'[b]) = Waiting(b),
           builder'[b] # NoBuilder, builder'[b].id = n
    PROVE  Waiting(b)' = Append(Waiting(b), n)
<1>1. Pending(b)' = <<n>>
    BY DEF Pending
<1>2. Waiting(b)' = Waiting(b) \o <<n>>
    BY <1>1 DEF Waiting
<1> QED BY <1>2, WaitingType, AppendIsConcat

LEMMA IdleIsFinalized ==
    ASSUME BatchTypeOK, NEW b \in Batches, builder[b] = NoBuilder
    PROVE  Numbers(queue[b]) = Waiting(b)
<1>1. CanFinalize(b) /\ Finalized(b) = queue[b]
    BY DEF CanFinalize, Finalized
<1> QED BY <1>1, FinalizedIsWaiting

LEMMA WriteMaps ==
    ASSUME NEW b \in Batches,
           executing = <<>>, executing' = executing, written' = written + 1,
           Waiting(b)' = Append(Waiting(b), written + 1),
           \A c \in Batches \ {b} : Waiting(c)' = Waiting(c)
    PROVE  Queue!Write(b)
<1>1. [c \in Batches |-> Waiting(c)]' =
          [[c \in Batches |-> Waiting(c)] EXCEPT ![b] = Append(@, written + 1)]
    OBVIOUS
<1> QED BY <1>1, NumbersOfNone DEF Queue!Write

LEMMA TakeMaps ==
    ASSUME NEW b \in Batches, NEW s \in Seq(Statement), s # <<>>,
           executing = <<>>, executing' = executing, written' = written,
           Waiting(b) = Numbers(s), Waiting(b)' = Numbers(Front(s)),
           \A c \in Batches \ {b} : Waiting(c)' = Waiting(c)
    PROVE  Queue!Take(b)
<1>1. Waiting(b) # <<>> /\ Waiting(b)' = SubSeq(Waiting(b), 1, Len(Waiting(b)) - 1)
    BY NumbersOfPart
<1>2. [c \in Batches |-> Waiting(c)]' =
          [[c \in Batches |-> Waiting(c)] EXCEPT ![b] = SubSeq(@, 1, Len(@) - 1)]
    BY <1>1
<1> QED BY <1>1, <1>2, NumbersOfNone DEF Queue!Take

LEMMA FlushMaps ==
    ASSUME NEW b \in Batches,
           executing = <<>>, written' = written,
           Numbers(executing') = Waiting(b), Waiting(b)' = <<>>,
           \A c \in Batches \ {b} : Waiting(c)' = Waiting(c)
    PROVE  Queue!Flush(b)
<1>1. [c \in Batches |-> Waiting(c)]' =
          [[c \in Batches |-> Waiting(c)] EXCEPT ![b] = <<>>]
    OBVIOUS
<1> QED BY <1>1, NumbersOfNone DEF Queue!Flush

LEMMA StutterMaps ==
    ASSUME executing' = executing, written' = written,
           \A c \in Batches : Waiting(c)' = Waiting(c)
    PROVE  UNCHANGED Queue!queueVars
<1>1. [c \in Batches |-> Waiting(c)]' = [c \in Batches |-> Waiting(c)]
    OBVIOUS
<1>2. Numbers(executing)' = Numbers(executing)
    BY DEF Numbers
<1> QED BY <1>1, <1>2 DEF Queue!queueVars

LEMMA BatchInitMaps == BatchInit => Queue!Init
<1> SUFFICES ASSUME BatchInit PROVE Queue!Init
    OBVIOUS
<1>1. \A b \in Batches : queue[b] = <<>> /\ builder[b] = NoBuilder
    BY DEF BatchInit
<1>2. \A b \in Batches : Waiting(b) = <<>> \o <<>>
    BY <1>1, NumbersOfNone DEF Waiting, Pending
<1>3. <<>> \o <<>> = <<>>
    BY EmptySeq, ConcatEmptySeq
<1>4. [b \in Batches |-> Waiting(b)] = [b \in Batches |-> <<>>]
    BY <1>2, <1>3
<1> QED BY <1>4, NumbersOfNone DEF BatchInit, Queue!Init

LEMMA BatchStepMaps ==
    ASSUME BatchTypeOK, [BatchNext]_batchVars
    PROVE  [Queue!Next]_Queue!queueVars
<1>0. /\ queue \in [Batches -> Seq(Statement)]
      /\ builder \in [Batches -> {NoBuilder} \cup AnyBuilder]
      /\ "main" \in Batches /\ "inner" \in Batches /\ written + 1 \in Nat
      /\ \A b \in Batches : b = "main" \/ b = "inner"
    BY DEF BatchTypeOK, AnyBuilder, Batches
<1> USE <1>0
<1>1. ASSUME NEW b \in Batches, NEW kind \in SessionKinds, Session(b, kind)
      PROVE  Queue!Write(b)
    <2> DEFINE s == Created(NewBuilder(kind, written + 1))
    <2>1. /\ executing = <<>> /\ executing' = executing /\ written' = written + 1
          /\ builder' = builder /\ builder[b] = NoBuilder
          /\ queue' = [queue EXCEPT ![b] = Append(queue[b], s)]
        BY <1>1 DEF Session, MayCall
    <2>2. s \in Statement /\ s.id = written + 1 /\ Append(queue[b], s) \in Seq(Statement)
        BY SessionStatement, AppendProperties
    <2>3. Waiting(b)' = Append(Waiting(b), written + 1)
        <3> HIDE DEF s
        <3>1. Waiting(b)' = Numbers(Append(queue[b], s))
            BY <2>1, <2>2, WaitingEnded
        <3> QED BY <2>1, <2>2, <3>1, NumbersOfAppend, IdleIsFinalized
    <2>4. \A c \in Batches \ {b} : Waiting(c)' = Waiting(c)
        <3> HIDE DEF s
        <3> QED BY <2>1, WaitingStays
    <2> HIDE DEF s
    <2> QED BY <2>1, <2>3, <2>4, WriteMaps
<1>2. ASSUME NEW b \in Batches, NEW kind \in SimpleKinds \cup QueryKinds,
             executing = <<>>, executing' = executing, written' = written + 1,
             CanFinalize(b),
             queue' = [queue EXCEPT ![b] = Finalized(b)],
             builder' = [builder EXCEPT ![b] = NewBuilder(kind, written + 1)]
      PROVE  Queue!Write(b)
    <2>1. Numbers(queue'[b]) = Waiting(b)
        BY <1>2, FinalizedIsWaiting
    <2>2. builder'[b] # NoBuilder /\ builder'[b].id = written + 1
        BY <1>2, NewBuilderType, KindsDiffer DEF AnyBuilder
    <2>3. Waiting(b)' = Append(Waiting(b), written + 1)
        BY <2>1, <2>2, WaitingGrows
    <2>4. \A c \in Batches \ {b} : Waiting(c)' = Waiting(c)
        BY <1>2, WaitingStays
    <2> QED BY <1>2, <2>3, <2>4, WriteMaps
<1>3. ASSUME NEW b \in Batches, builder[b] = NoBuilder, queue' = queue
      PROVE  CanFinalize(b) /\ queue' = [queue EXCEPT ![b] = Finalized(b)]
    BY <1>3 DEF CanFinalize, Finalized
<1>4. ASSUME NEW b \in Batches, NEW kind \in SimpleKinds \ {"insert_into"}, Start(b, kind)
      PROVE  Queue!Write(b)
    BY <1>2, <1>3, <1>4 DEF Start, MayCall
<1>5. ASSUME NEW b \in Batches, StartInsert(b)
      PROVE  Queue!Write(b)
    <2>1. "insert_into" \in SimpleKinds
        BY DEF SimpleKinds
    <2> QED BY <1>2, <1>5, <2>1 DEF StartInsert, MayCall
<1>6. ASSUME StartSelect
      PROVE  \E b \in Batches : Queue!Write(b)
    <2> DEFINE b == IF builder["main"] = NoBuilder THEN "main" ELSE "inner"
    <2>1. "select" \in QueryKinds /\ b \in Batches
        BY DEF QueryKinds
    <2>2. /\ executing = <<>> /\ executing' = executing /\ written' = written + 1
          /\ queue' = queue /\ builder[b] = NoBuilder
          /\ builder' = [builder EXCEPT ![b] = NewBuilder("select", written + 1)]
        BY <1>6 DEF StartSelect, MayCall
    <2> HIDE DEF b
    <2> QED BY <1>2, <1>3, <2>1, <2>2
<1>7. ASSUME NEW b \in Batches, NEW call \in Methods, Call(b, call)
      PROVE  UNCHANGED Queue!queueVars
    <2>1. executing' = executing /\ written' = written /\ queue' = queue
        BY <1>7 DEF Call
    <2>2. PICK x \in AnyBuilder :
              /\ x.id = builder[b].id /\ builder[b] # NoBuilder
              /\ builder' = [builder EXCEPT ![b] = x]
        BY <1>7, CallEffect
    <2>3. \A c \in Batches : Waiting(c)' = Waiting(c)
        BY <2>1, <2>2, KindsDiffer, WaitingStays
    <2> QED BY <2>1, <2>3, StutterMaps
<1>8. ASSUME NEW b \in Batches, Execute(b)
      PROVE  Queue!Flush(b)
    <2>1. /\ executing = <<>> /\ written' = written /\ CanFinalize(b)
          /\ executing' = Finalized(b)
          /\ queue' = [queue EXCEPT ![b] = <<>>]
          /\ builder' = [builder EXCEPT ![b] = NoBuilder]
        BY <1>8 DEF Execute, MayCall
    <2>2. Numbers(executing') = Waiting(b)
        BY <2>1, FinalizedIsWaiting
    <2>3. Waiting(b)' = <<>>
        BY <2>1, EmptySeq, WaitingEnded, NumbersOfNone
    <2>4. \A c \in Batches \ {b} : Waiting(c)' = Waiting(c)
        BY <2>1, WaitingStays
    <2> QED BY <2>1, <2>2, <2>3, <2>4, FlushMaps
<1>9. ASSUME NEW call \in Methods, CallWithQuery(call)
      PROVE  Queue!Take("inner")
    <2>1. /\ executing = <<>> /\ executing' = executing /\ written' = written
          /\ builder["main"] # NoBuilder
        BY <1>9 DEF CallWithQuery, MayCall
    <2>2. PICK x \in AnyBuilder :
              /\ x.id = builder["main"].id
              /\ builder' = [builder EXCEPT !["inner"] = NoBuilder, !["main"] = x]
        BY <1>9, CallWithQueryEffect
    <2>3. /\ Finalized("inner") \in Seq(Statement) /\ Finalized("inner") # <<>>
          /\ CanFinalize("inner")
          /\ queue' = [queue EXCEPT !["inner"] = Front(Finalized("inner"))]
        BY <1>9, CallWithQueryEffect
    <2>4. Waiting("inner") = Numbers(Finalized("inner"))
        BY <2>3, FinalizedIsWaiting
    <2>5. Front(Finalized("inner")) \in Seq(Statement)
        BY <2>3, NumbersOfPart
    <2>6. Waiting("inner")' = Numbers(Front(Finalized("inner")))
        BY <2>2, <2>3, <2>5, WaitingEnded
    <2>7. \A c \in Batches \ {"inner"} : Waiting(c)' = Waiting(c)
        <3>1. /\ queue'["main"] = queue["main"] /\ builder'["main"] # NoBuilder
              /\ builder'["main"].id = builder["main"].id
            BY <2>2, <2>3, KindsDiffer
        <3> QED BY <2>1, <3>1, WaitingStays
    <2> QED BY <2>1, <2>3, <2>4, <2>6, <2>7, TakeMaps
<1>10. ASSUME AsStatement
       PROVE  Queue!Take("main")
    <2>1. /\ executing = <<>> /\ executing' = executing /\ written' = written
          /\ CanFinalize("main") /\ Finalized("main") # <<>>
          /\ queue' = [queue EXCEPT !["main"] = Front(Finalized("main"))]
          /\ builder' = [builder EXCEPT !["main"] = NoBuilder]
        BY <1>10 DEF AsStatement, MayCall
    <2>2. /\ Finalized("main") \in Seq(Statement)
          /\ Waiting("main") = Numbers(Finalized("main"))
        BY <2>1, FinalizedIsWaiting
    <2>3. Front(Finalized("main")) \in Seq(Statement)
        BY <2>1, <2>2, NumbersOfPart
    <2>4. Waiting("main")' = Numbers(Front(Finalized("main")))
        BY <2>1, <2>3, WaitingEnded
    <2>5. \A c \in Batches \ {"main"} : Waiting(c)' = Waiting(c)
        BY <2>1, WaitingStays
    <2> QED BY <2>1, <2>2, <2>4, <2>5, TakeMaps
<1>11. ASSUME Run
       PROVE  Queue!Execute
    <2>1. /\ executing \in Seq(Statement) /\ executing # <<>>
          /\ executing' \in {Tail(executing), <<>>}
          /\ UNCHANGED <<queue, builder, written>>
        BY <1>11 DEF Run, BatchTypeOK
    <2>2. /\ Numbers(executing) # <<>>
          /\ Numbers(executing') \in {Tail(Numbers(executing)), <<>>}
        BY <2>1, NumbersOfPart, NumbersOfNone
    <2>3. \A c \in Batches : Waiting(c)' = Waiting(c)
        BY <2>1, WaitingStays
    <2>4. [c \in Batches |-> Waiting(c)]' = [c \in Batches |-> Waiting(c)]
        BY <2>3
    <2> QED BY <2>1, <2>2, <2>4 DEF Queue!Execute
<1>12. ASSUME UNCHANGED batchVars
       PROVE  UNCHANGED Queue!queueVars
    <2>1. UNCHANGED <<queue, builder, executing, written>>
        BY <1>12 DEF batchVars
    <2>2. \A c \in Batches : Waiting(c)' = Waiting(c)
        BY <2>1, WaitingStays
    <2> QED BY <2>1, <2>2, StutterMaps
<1> QED
    BY <1>1, <1>4, <1>5, <1>6, <1>7, <1>8, <1>9, <1>10, <1>11, <1>12
       DEF BatchNext, BatchCall, Queue!Next

\* Builders, nested queries and refused calls are invisible: each batch is a queue whose
\* statements are executed once, in the order they were begun (InputBatch).
THEOREM BatchesAreQueues == BatchSpec => ImplementsQueue
<1>1. BatchInit => Queue!Init
    BY BatchInitMaps
<1>2. BatchTypeOK /\ [BatchNext]_batchVars => [Queue!Next]_Queue!queueVars
    BY BatchStepMaps
<1> QED BY <1>1, <1>2, BatchTypeCorrect, PTL DEF BatchSpec, ImplementsQueue, Queue!Spec

-----------------------------------------------------------------------------
(* What alter table statements are made of *)

\* The calls an AlterTableBuilder can have received.
AlterShape(made) ==
    /\ "foreignKey" \in made =>
           "addConstraint" \in made /\ made \cap {"primaryKey", "unique", "check"} = {}
    /\ "references" \in made => "foreignKey" \in made
    /\ "addConstraint" \in made =>
           made = {"addConstraint"} \/ made \cap ConstraintCalls # {}

\* It has been extended by public calls only.
Shaped(x) ==
    /\ x.kind = "alter_table" => AlterShape(x.calls) /\ x.calls \subseteq Methods
    /\ x.kind = "innerJoin" => "innerJoin" \in Methods

\* The invariant: BatchTypeOK alone does not say how a builder came by its calls.
BatchInvariant ==
    /\ BatchTypeOK
    /\ UnfinishedNeverRuns
    /\ \A b \in Batches : Shaped(builder[b])

LEMMA AlterCallsKeepShape ==
    ASSUME NEW made \in SUBSET CallNames, AlterShape(made), NEW call,
           call \in AlterTableCalls(made).required \cup AlterTableCalls(made).optional
    PROVE  AlterShape(made \cup {call})
<1>1. CASE made = {}
    BY <1>1 DEF AlterTableCalls, Next_, AlterShape, Alterations
<1>2. CASE made = {"addConstraint"}
    <2>1. call \in ConstraintCalls
        BY <1>2 DEF AlterTableCalls, Next_
    <2> QED BY <1>2, <2>1 DEF AlterShape, ConstraintCalls
<1>3. CASE made # {} /\ made # {"addConstraint"}
    <2>1. \/ "references" \in made /\ call \in {"onDelete", "onUpdate"}
          \/ "foreignKey" \in made /\ call = "references"
        BY <1>3 DEF AlterTableCalls, Next_
    <2> QED BY <1>3, <2>1 DEF AlterShape, ConstraintCalls
<1> QED BY <1>1, <1>2, <1>3

LEMMA CalledShape ==
    ASSUME NEW x \in AnyBuilder, Coherent(x), Shaped(x), NEW call \in Methods,
           Offers(x, call), HasLeftSource(x, call),
           call = "on" => x.kind = "innerJoin",
           x.kind = "innerJoin" => call = "on"
    PROVE  Shaped(Called(x, call))
<1>1. CASE call = "on"
    <2>1. x \in JoinBuilder /\ x.outer \in Builder /\ x.outer.kind = "select"
        BY <1>1, KindsDiffer DEF AnyBuilder, Coherent
    <2>2. Called(x, call).kind = "select"
        BY <1>1, <2>1 DEF Called, JoinedOn, Builder
    <2> QED BY <2>2 DEF Shaped
<1>2. CASE call = "innerJoin"
    <2>1. Called(x, call).kind = "innerJoin"
        BY <1>2 DEF Called
    <2> QED BY <1>2, <2>1 DEF Shaped
<1>3. CASE call = "unionAll"
    <2>1. Called(x, call).kind = "unionAll"
        BY <1>3 DEF Called, NewBuilder
    <2> QED BY <2>1 DEF Shaped
<1>4. CASE call \notin {"on", "innerJoin", "unionAll"}
    <2>1. x \in Builder /\ x.calls \in SUBSET CallNames
        BY <1>4, KindsDiffer DEF AnyBuilder, Builder
    <2>2. Called(x, call) = [x EXCEPT !.calls = x.calls \cup {call}]
        BY <1>4, <2>1 DEF Called, Builder
    <2>3. Called(x, call).kind = x.kind /\ Called(x, call).calls = x.calls \cup {call}
        BY <2>1, <2>2 DEF Builder
    <2>4. CASE x.kind = "alter_table"
        <3>1. call \in AlterTableCalls(x.calls).required \cup AlterTableCalls(x.calls).optional
            BY <2>4 DEF Offers, NextCalls
        <3>2. AlterShape(x.calls \cup {call}) /\ x.calls \subseteq Methods
            BY <2>1, <2>4, <3>1, AlterCallsKeepShape DEF Shaped
        <3>3. x.calls \cup {call} \subseteq Methods
            BY <3>2
        <3> QED BY <2>3, <2>4, <3>2, <3>3 DEF Shaped
    <2>5. CASE x.kind # "alter_table"
        BY <1>4, <2>3, <2>5 DEF Shaped
    <2> QED BY <2>4, <2>5
<1> QED BY <1>1, <1>2, <1>3, <1>4

LEMMA NestedShape ==
    ASSUME NEW x \in AnyBuilder, Shaped(x), NEW more \in SUBSET Nat
    PROVE  Shaped([x EXCEPT !.nested = @ \cup more])
<1> DEFINE y == [x EXCEPT !.nested = @ \cup more]
<1>1. y.kind = x.kind /\ y.calls = x.calls
    BY DEF AnyBuilder, Builder, JoinBuilder
<1> HIDE DEF y
<1>2. Shaped(y)
    BY <1>1 DEF Shaped
<1> QED BY <1>2 DEF y

\* createStatement lets only a complete statement through.
LEMMA CreatedIsComplete ==
    ASSUME NEW x \in AnyBuilder, Shaped(x), Creates(x)
    PROVE  Complete(Created(x))
<1>1. Created(x).kind = x.kind /\ Created(x).calls = x.calls
    BY DEF Created
<1>2. x.kind \in SimpleKinds \cup QueryKinds
    BY KindsDiffer DEF Creates, AnyBuilder, Builder
<1>3. CASE x.kind = "alter_table"
    <2>1. /\ x.calls # {}
          /\ "addConstraint" \in x.calls => x.calls \cap ConstraintCalls # {}
          /\ "foreignKey" \in x.calls => "references" \in x.calls
        BY <1>3 DEF Shaped, AlterShape, Creates, AlterTableCreates, ConstraintCalls
    <2> QED BY <1>1, <1>3, <2>1 DEF Complete
<1>4. CASE x.kind # "alter_table"
    BY <1>1, <1>2, <1>4 DEF Complete, Creates, SimpleKinds, QueryKinds
<1> QED BY <1>3, <1>4

AllComplete(statements) == \A i \in DOMAIN statements : Complete(statements[i])

LEMMA CompleteAppend ==
    ASSUME NEW s \in Seq(Statement), AllComplete(s), NEW x \in Statement, Complete(x)
    PROVE  AllComplete(Append(s, x))
<1>1. /\ DOMAIN Append(s, x) = 1 .. Len(s) + 1 /\ DOMAIN s = 1 .. Len(s) /\ Len(s) \in Nat
      /\ \A i \in 1 .. Len(s) : Append(s, x)[i] = s[i]
      /\ Append(s, x)[Len(s) + 1] = x
    BY AppendProperties, LenProperties
<1>2. \A i \in 1 .. Len(s) : Complete(Append(s, x)[i])
    BY <1>1 DEF AllComplete
<1>3. Complete(Append(s, x)[Len(s) + 1])
    BY <1>1
<1>4. \A i \in 1 .. Len(s) + 1 : i \in 1 .. Len(s) \/ i = Len(s) + 1
    BY <1>1
<1> QED BY <1>1, <1>2, <1>3, <1>4 DEF AllComplete

LEMMA CompleteSubSeq ==
    ASSUME NEW s \in Seq(Statement), AllComplete(s), NEW m \in 1 .. 2, NEW n \in 0 .. Len(s)
    PROVE  AllComplete(SubSeq(s, m, n))
<1>1. Len(s) \in Nat /\ DOMAIN s = 1 .. Len(s)
    BY LenProperties
<1>2. \A i \in m .. n : s[i] \in Statement
    BY <1>1, ElementOfSeq
<1>3. /\ SubSeq(s, m, n) \in Seq(Statement)
      /\ Len(SubSeq(s, m, n)) = IF m <= n THEN n - m + 1 ELSE 0
      /\ \A i \in 1 .. n - m + 1 : SubSeq(s, m, n)[i] = s[m + i - 1]
    BY <1>1, <1>2, SubSeqProperties
<1>4. DOMAIN SubSeq(s, m, n) = 1 .. Len(SubSeq(s, m, n))
    BY <1>3, LenProperties
<1> SUFFICES ASSUME NEW i \in DOMAIN SubSeq(s, m, n)
             PROVE  Complete(SubSeq(s, m, n)[i])
    BY DEF AllComplete
<1>5. i \in 1 .. n - m + 1 /\ m + i - 1 \in DOMAIN s
    BY <1>1, <1>3, <1>4
<1>6. SubSeq(s, m, n)[i] = s[m + i - 1] /\ Complete(s[m + i - 1])
    BY <1>3, <1>5 DEF AllComplete
<1> QED BY <1>6

LEMMA CompleteParts ==
    ASSUME NEW s \in Seq(Statement), AllComplete(s), s # <<>>
    PROVE  AllComplete(Front(s)) /\ AllComplete(Tail(s))
<1>1. Len(s) \in Nat \ {0}
    BY EmptySeq
<1>2. 1 \in 1 .. 2 /\ 2 \in 1 .. 2 /\ Len(s) - 1 \in 0 .. Len(s) /\ Len(s) \in 0 .. Len(s)
    BY <1>1
<1>3. AllComplete(SubSeq(s, 1, Len(s) - 1)) /\ AllComplete(SubSeq(s, 2, Len(s)))
    BY <1>2, CompleteSubSeq
<1> QED BY <1>3, TailIsSubSeq DEF Front

LEMMA CompleteNone == AllComplete(<<>>)
<1>1. <<>> \in Seq(Statement) /\ Len(<<>>) = 0
    BY EmptySeq
<1>2. DOMAIN <<>> = {}
    BY <1>1, LenProperties
<1> QED BY <1>2 DEF AllComplete

LEMMA CompleteFinalized ==
    ASSUME BatchInvariant, NEW b \in Batches, CanFinalize(b)
    PROVE  AllComplete(Finalized(b)) /\ Finalized(b) \in Seq(Statement)
<1>1. BatchTypeOK /\ queue[b] \in Seq(Statement) /\ AllComplete(queue[b])
    BY TypeParts DEF BatchInvariant, UnfinishedNeverRuns, AllComplete
<1>2. CASE builder[b] = NoBuilder
    BY <1>1, <1>2 DEF Finalized
<1>3. CASE builder[b] # NoBuilder
    <2>1. builder[b] \in AnyBuilder /\ Creates(builder[b]) /\ Shaped(builder[b])
        BY <1>1, <1>3, TypeParts DEF CanFinalize, BatchInvariant
    <2>2. Created(builder[b]) \in Statement /\ Complete(Created(builder[b]))
        BY <2>1, CreatedType, CreatedIsComplete
    <2>3. Finalized(b) = Append(queue[b], Created(builder[b]))
        BY <1>3 DEF Finalized
    <2> QED BY <1>1, <2>2, <2>3, CompleteAppend, AppendProperties
<1> QED BY <1>2, <1>3

LEMMA CompleteSession ==
    ASSUME NEW kind \in SessionKinds, NEW id \in Nat
    PROVE  Complete(Created(NewBuilder(kind, id)))
<1>1. Created(NewBuilder(kind, id)).kind = kind /\ kind \in InstantKinds
    BY InputBatchAssumption DEF Created, NewBuilder
<1> QED BY <1>1 DEF Complete, InstantKinds

LEMMA NewIsShaped ==
    /\ Shaped(NoBuilder)
    /\ \A kind \in SimpleKinds \cup QueryKinds, id \in Nat : Shaped(NewBuilder(kind, id))
BY DEF NewBuilder, NoBuilder, Shaped, AlterShape, SimpleKinds, QueryKinds

\* What keeps the rest of the invariant, whatever the call.
LEMMA UpdatesKeepCompleteness ==
    ASSUME BatchInvariant, NEW b \in Batches,
           executing' = executing \/ AllComplete(executing'),
           \/ queue' = queue
           \/ \E q \in Seq(Statement) : AllComplete(q) /\ queue' = [queue EXCEPT ![b] = q],
           builder' = builder \/ \E x : Shaped(x) /\ builder' = [builder EXCEPT ![b] = x]
    PROVE  UnfinishedNeverRuns' /\ \A c \in Batches : Shaped(builder'[c])
<1>1. /\ queue \in [Batches -> Seq(Statement)] /\ DOMAIN builder = Batches
      /\ \A c \in Batches : AllComplete(queue[c]) /\ Shaped(builder[c])
      /\ AllComplete(executing)
    BY DEF BatchInvariant, BatchTypeOK, UnfinishedNeverRuns, AllComplete, Batches
<1>2. \A c \in Batches : AllComplete(queue'[c])
    BY <1>1
<1>3. AllComplete(executing')
    BY <1>1
<1>4. \A c \in Batches : Shaped(builder'[c])
    BY <1>1
<1> QED BY <1>2, <1>3, <1>4 DEF UnfinishedNeverRuns, AllComplete

LEMMA CallKeepsShape ==
    ASSUME BatchInvariant, NEW b \in Batches, NEW call \in Methods, Call(b, call)
    PROVE  \E x : Shaped(x) /\ builder' = [builder EXCEPT ![b] = x]
<1>1. /\ builder[b] # NoBuilder /\ builder[b].kind \in WorksOn(call)
      /\ Offers(builder[b], call) /\ HasLeftSource(builder[b], call)
      /\ builder' = [builder EXCEPT ![b] = Called(builder[b], call)]
    BY DEF Call, BatchInvariant, BatchTypeOK
<1>2. builder[b] \in AnyBuilder /\ Coherent(builder[b]) /\ Shaped(builder[b])
    BY <1>1, TypeParts DEF BatchInvariant
<1>3. call \in CallNames
    BY InputBatchAssumption
<1>4. /\ call = "on" => builder[b].kind = "innerJoin"
      /\ builder[b].kind = "innerJoin" => call = "on"
    BY <1>1, <1>2, <1>3, CallsFit
<1>5. Shaped(Called(builder[b], call))
    BY <1>1, <1>2, <1>3, <1>4, CalledShape
<1> QED BY <1>1, <1>5

LEMMA CallWithQueryKeepsShape ==
    ASSUME BatchInvariant, NEW call \in Methods, CallWithQuery(call)
    PROVE  \A c \in Batches : Shaped(builder'[c])
<1> DEFINE query == Last(Finalized("inner"))
           main == builder["main"]
           called == Called(main, call)
           more == {query.id} \cup query.nested
           extended == [called EXCEPT !.nested = @ \cup {query.id} \cup query.nested]
           x == IF query.kind \in QueryKinds /\ HasLeftSource(main, call)
                THEN extended ELSE main
<1>1. /\ CanFinalize("inner") /\ Finalized("inner") # <<>> /\ main # NoBuilder
      /\ Offers(main, call) /\ main.kind \in TakesQuery(call)
      /\ builder' = [builder EXCEPT !["inner"] = NoBuilder, !["main"] = x]
    BY DEF CallWithQuery, Batches, BatchTypeOK, BatchInvariant
<1>2. Finalized("inner") \in Seq(Statement)
    BY <1>1, FinalizedIsWaiting DEF Batches, BatchInvariant
<1>3. more \in SUBSET Nat
    <2>1. query \in Statement
        BY <1>1, <1>2, NumbersOfPart
    <2> QED BY <2>1 DEF Statement
<1>4. main \in AnyBuilder /\ Coherent(main) /\ Shaped(main)
    BY <1>1, TypeParts DEF Batches, BatchInvariant
<1>5. ASSUME HasLeftSource(main, call)
      PROVE  Shaped(extended)
    <2>1. call \in CallNames
        BY InputBatchAssumption
    <2>2. /\ call = "on" => main.kind = "innerJoin"
          /\ main.kind = "innerJoin" => call = "on"
        <3> HIDE DEF main
        <3> QED BY <1>1, <1>4, <2>1, CallsFit
    <2>3. called \in AnyBuilder /\ Shaped(called)
        <3> HIDE DEF main
        <3> QED BY <1>1, <1>4, <1>5, <2>1, <2>2, CalledType, CalledShape
    <2>4. extended = [called EXCEPT !.nested = @ \cup more]
        OBVIOUS
    <2> HIDE DEF main, called, more, extended
    <2> QED BY <1>3, <2>3, <2>4, NestedShape
<1>6. Shaped(x)
    <2> HIDE DEF extended, main, query
    <2> QED BY <1>4, <1>5
<1> HIDE DEF x
<1> QED BY <1>1, <1>6, NewIsShaped DEF Batches, BatchInvariant, BatchTypeOK

LEMMA BatchStepKeepsInvariant ==
    ASSUME BatchInvariant, [BatchNext]_batchVars
    PROVE  BatchInvariant'
<1>1. BatchTypeOK /\ BatchTypeOK'
    BY BatchStepKeepsType DEF BatchInvariant
<1> DEFINE Rest == UnfinishedNeverRuns' /\ \A c \in Batches : Shaped(builder'[c])
<1>2. /\ queue \in [Batches -> Seq(Statement)]
      /\ \A c \in Batches : AllComplete(queue[c]) /\ Shaped(builder[c])
      /\ AllComplete(executing)
      /\ "main" \in Batches /\ "inner" \in Batches /\ written + 1 \in Nat
    BY <1>1 DEF BatchInvariant, BatchTypeOK, UnfinishedNeverRuns, AllComplete, Batches
<1>3. ASSUME NEW b \in Batches, NEW kind \in SessionKinds, Session(b, kind)
      PROVE  Rest
    <2> DEFINE s == Created(NewBuilder(kind, written + 1))
    <2>1. /\ executing' = executing /\ builder' = builder
          /\ queue' = [queue EXCEPT ![b] = Append(queue[b], s)]
        BY <1>2, <1>3 DEF Session
    <2>2. s \in Statement /\ Complete(s) /\ queue[b] \in Seq(Statement)
        BY <1>2, SessionStatement, CompleteSession
    <2>3. Append(queue[b], s) \in Seq(Statement) /\ AllComplete(Append(queue[b], s))
        <3> HIDE DEF s
        <3> QED BY <1>2, <2>2, AppendProperties, CompleteAppend
    <2> HIDE DEF s
    <2> QED BY <2>1, <2>3, UpdatesKeepCompleteness
<1>4. ASSUME NEW b \in Batches, NEW kind \in SimpleKinds, Start(b, kind)
      PROVE  Rest
    BY <1>2, <1>4, NewIsShaped, UpdatesKeepCompleteness DEF Start
<1>5. ASSUME NEW b \in Batches, StartInsert(b)
      PROVE  Rest
    <2>1. Shaped(NewBuilder("insert_into", written + 1))
        BY <1>2, NewIsShaped DEF SimpleKinds
    <2> QED BY <1>5, <2>1, CompleteFinalized, UpdatesKeepCompleteness DEF StartInsert
<1>6. ASSUME NEW b \in Batches, NEW call \in Methods, Call(b, call)
      PROVE  Rest
    <2>1. executing' = executing /\ queue' = queue
        BY <1>6 DEF Call
    <2> QED BY <1>6, <2>1, CallKeepsShape, UpdatesKeepCompleteness
<1>7. ASSUME NEW b \in Batches, Execute(b)
      PROVE  Rest
    <2>1. /\ CanFinalize(b) /\ executing' = Finalized(b)
          /\ queue' = [queue EXCEPT ![b] = <<>>]
          /\ builder' = [builder EXCEPT ![b] = NoBuilder]
        BY <1>7 DEF Execute
    <2> QED BY <2>1, EmptySeq, CompleteNone, NewIsShaped, CompleteFinalized,
               UpdatesKeepCompleteness
<1>8. ASSUME StartSelect
      PROVE  Rest
    <2> DEFINE b == IF builder["main"] = NoBuilder THEN "main" ELSE "inner"
    <2>1. /\ executing' = executing /\ queue' = queue /\ b \in Batches
          /\ builder' = [builder EXCEPT ![b] = NewBuilder("select", written + 1)]
        BY <1>2, <1>8 DEF StartSelect
    <2>2. Shaped(NewBuilder("select", written + 1))
        BY <1>2, NewIsShaped DEF QueryKinds
    <2> HIDE DEF b
    <2> QED BY <2>1, <2>2, UpdatesKeepCompleteness
<1>9. ASSUME NEW call \in Methods, CallWithQuery(call)
      PROVE  Rest
    <2>1. /\ executing' = executing /\ CanFinalize("inner") /\ Finalized("inner") # <<>>
          /\ queue' = [queue EXCEPT !["inner"] = Front(Finalized("inner"))]
        BY <1>2, <1>9 DEF CallWithQuery, Popped
    <2>2. /\ Front(Finalized("inner")) \in Seq(Statement)
          /\ AllComplete(Front(Finalized("inner")))
        BY <1>2, <2>1, CompleteFinalized, CompleteParts, NumbersOfPart
    <2>3. \A c \in Batches : AllComplete(queue'[c])
        BY <1>2, <2>1, <2>2
    <2>4. AllComplete(executing')
        BY <1>2, <2>1
    <2> QED BY <1>9, <2>3, <2>4, CallWithQueryKeepsShape DEF UnfinishedNeverRuns, AllComplete
<1>10. ASSUME AsStatement
       PROVE  Rest
    <2>1. /\ executing' = executing /\ CanFinalize("main") /\ Finalized("main") # <<>>
          /\ queue' = [queue EXCEPT !["main"] = Front(Finalized("main"))]
          /\ builder' = [builder EXCEPT !["main"] = NoBuilder]
        BY <1>10 DEF AsStatement
    <2>2. /\ Front(Finalized("main")) \in Seq(Statement)
          /\ AllComplete(Front(Finalized("main")))
        BY <1>2, <2>1, CompleteFinalized, CompleteParts, NumbersOfPart
    <2> QED BY <1>2, <2>1, <2>2, NewIsShaped, UpdatesKeepCompleteness
<1>11. ASSUME Run PROVE Rest
    <2>1. /\ executing # <<>> /\ executing' \in {Tail(executing), <<>>}
          /\ queue' = queue /\ builder' = builder /\ executing \in Seq(Statement)
        BY <1>1, <1>11 DEF Run, BatchTypeOK
    <2>2. AllComplete(executing')
        BY <1>2, <2>1, CompleteParts, CompleteNone
    <2> QED BY <1>2, <2>1, <2>2, UpdatesKeepCompleteness
<1>12. ASSUME UNCHANGED batchVars PROVE Rest
    <2>1. queue' = queue /\ builder' = builder /\ executing' = executing
        BY <1>12 DEF batchVars
    <2> QED BY <1>2, <2>1, UpdatesKeepCompleteness
<1> HIDE DEF Rest
<1>13. Rest
    BY <1>3, <1>4, <1>5, <1>6, <1>7, <1>8, <1>9, <1>10, <1>11, <1>12
       DEF BatchNext, BatchCall
<1> QED BY <1>1, <1>13 DEF BatchInvariant, Rest

LEMMA BatchInitInvariant == BatchInit => BatchInvariant
<1> SUFFICES ASSUME BatchInit PROVE BatchInvariant
    OBVIOUS
<1>1. /\ AllComplete(executing)
      /\ \A b \in Batches : AllComplete(queue[b]) /\ Shaped(builder[b])
    BY CompleteNone, NewIsShaped DEF BatchInit
<1> QED BY <1>1, BatchInitType DEF BatchInvariant, UnfinishedNeverRuns, AllComplete

LEMMA BatchInvariantHolds == BatchSpec => []BatchInvariant
<1> QED BY BatchInitInvariant, BatchStepKeepsInvariant, PTL DEF BatchSpec

\* No statement reaches a queue, the engine or another statement before it says all that
\* the engine reads of it (createStatement of the builders).
THEOREM OnlyFinishedStatementsRun == BatchSpec => []UnfinishedNeverRuns
<1>1. BatchInvariant => UnfinishedNeverRuns
    BY DEF BatchInvariant
<1> QED BY <1>1, BatchInvariantHolds, PTL

\* With any set of public methods that has, for each part a statement may lack, one call
\* that supplies it, a batch never holds a statement that can neither be ended nor be
\* extended.  The public methods of each of the three dialects are such a set
\* (DialectsSupplyEveryPart in MCQueryInput).
THEOREM BatchIsNeverStuck ==
    ASSUME SuppliesEveryPart(Methods)
    PROVE  BatchSpec => []PendingCanBeFinished
<1>1. ASSUME BatchInvariant PROVE PendingCanBeFinished
    <2> SUFFICES ASSUME NEW b \in Batches, builder[b] # NoBuilder, ~ Creates(builder[b])
                 PROVE  \E call \in Methods :
                            /\ call \in NextCalls(builder[b]).required
                            /\ builder[b].kind \in WorksOn(call) \cup TakesQuery(call)
        BY DEF PendingCanBeFinished
    <2> DEFINE x == builder[b]
    <2>1. x \in AnyBuilder /\ Shaped(x)
        BY <1>1, TypeParts DEF BatchInvariant
    <2> HIDE DEF x
    <2>2. ~ Creates(x)
        BY DEF x
    <2>3. x.kind \in SimpleKinds \cup QueryKinds \cup {"innerJoin"}
        BY <2>1 DEF AnyBuilder, Builder, JoinBuilder
    <2>4. CASE x.kind = "select"
        BY <2>2, <2>4 DEF x, Creates, NextCalls, SelectCalls, Next_, WorksOn,
                           SuppliesEveryPart
    <2>5. CASE x.kind = "insert_into"
        <3>1. NextCalls(x).required = Sources
            BY <2>2, <2>5 DEF Creates, NextCalls, InsertIntoCalls, Next_
        <3>2. "insert_into" \in WorksOn("values") /\ "insert_into" \in TakesQuery("select")
            BY DEF WorksOn, TakesQuery
        <3> QED BY <2>5, <3>1, <3>2 DEF x, Sources, SuppliesEveryPart
    <2>6. CASE x.kind = "update_set"
        BY <2>2, <2>6 DEF x, Creates, NextCalls, UpdateSetCalls, Next_, WorksOn,
                           SuppliesEveryPart
    <2>7. CASE x.kind = "innerJoin"
        BY <2>1, <2>7 DEF x, NextCalls, Next_, WorksOn, Shaped, SuppliesEveryPart
    <2>8. CASE x.kind = "alter_table"
        <3>1. ~ AlterTableCreates(x.calls) /\ AlterShape(x.calls) /\ x.calls \subseteq Methods
            BY <2>1, <2>2, <2>8 DEF Creates, Shaped
        <3>2. NextCalls(x) = AlterTableCalls(x.calls)
            BY <2>8 DEF NextCalls
        <3>3. \E call \in Methods :
                  call \in AlterTableCalls(x.calls).required /\ "alter_table" \in WorksOn(call)
            <4>1. CASE x.calls = {}
                BY <4>1 DEF AlterTableCalls, Next_, Alterations, WorksOn, SuppliesEveryPart
            <4>2. CASE x.calls = {"addConstraint"}
                BY <3>1, <4>2 DEF AlterTableCalls, Next_, ConstraintCalls, WorksOn,
                                  SuppliesEveryPart
            <4>3. CASE x.calls # {} /\ x.calls # {"addConstraint"}
                <5>1. "foreignKey" \in x.calls /\ "references" \notin x.calls
                    BY <3>1, <4>3 DEF AlterTableCreates, AlterShape, ConstraintCalls
                <5>2. "references" \in AlterTableCalls(x.calls).required
                    BY <4>3, <5>1 DEF AlterTableCalls, Next_
                <5> QED BY <3>1, <5>1, <5>2 DEF WorksOn, SuppliesEveryPart
            <4> QED BY <4>1, <4>2, <4>3
        <3> QED BY <2>8, <3>2, <3>3 DEF x
    <2> QED BY <2>2, <2>3, <2>4, <2>5, <2>6, <2>7, <2>8 DEF Creates, SimpleKinds, QueryKinds
<1> QED BY <1>1, BatchInvariantHolds, PTL

-----------------------------------------------------------------------------
(* What statements and builders are made of                                *)

AllIds(statements) == UNION {StatementIds(statements[i]) : i \in DOMAIN statements}

\* No two of the statements have a part in common.
AreApart(statements) ==
    \A i, j \in DOMAIN statements :
        i # j => StatementIds(statements[i]) \cap StatementIds(statements[j]) = {}

OpenIds(b) == IF builder[b] = NoBuilder THEN {} ELSE BuilderIds(builder[b])

\* All that a batch holds
BatchIds(b) == AllIds(queue[b]) \cup OpenIds(b)

\* A batch by itself
IsTidy(b) == AreApart(queue[b]) /\ AllIds(queue[b]) \cap OpenIds(b) = {}

\* The invariant: what is begun next gets a number that nothing holds yet.
HeldOnce ==
    /\ \A b \in Batches : IsTidy(b) /\ BatchIds(b) \subseteq 1 .. written
    /\ BatchIds("main") \cap BatchIds("inner") = {}
    /\ AreApart(executing) /\ AllIds(executing) \subseteq 1 .. written
    /\ \A b \in Batches : AllIds(executing) \cap BatchIds(b) = {}

LEMMA NothingIsApart == AllIds(<<>>) = {} /\ AreApart(<<>>)
BY DEF AllIds, AreApart

LEMMA ApartAppend ==
    ASSUME NEW s \in Seq(Statement), AreApart(s), NEW x \in Statement
    PROVE  /\ AllIds(Append(s, x)) = AllIds(s) \cup StatementIds(x)
           /\ AllIds(s) \cap StatementIds(x) = {} => AreApart(Append(s, x))
<1> DEFINE t == Append(s, x)
           n == Len(s)
<1>1. /\ n \in Nat /\ DOMAIN s = 1 .. n /\ DOMAIN t = 1 .. n + 1
      /\ \A i \in 1 .. n : t[i] = s[i]
      /\ t[n + 1] = x
    BY LenProperties, AppendProperties
<1>2. DOMAIN t = DOMAIN s \cup {n + 1} /\ n + 1 \notin DOMAIN s
    BY <1>1
<1> HIDE DEF t, n
<1>3. AllIds(t) = AllIds(s) \cup StatementIds(x)
    BY <1>1, <1>2 DEF AllIds
<1>4. ASSUME AllIds(s) \cap StatementIds(x) = {} PROVE AreApart(t)
    <2>1. \A i \in DOMAIN s : StatementIds(s[i]) \cap StatementIds(x) = {}
        BY <1>4 DEF AllIds
    <2> QED BY <1>1, <1>2, <2>1 DEF AreApart
<1> QED BY <1>3, <1>4 DEF t

\* Front, Last and Tail
LEMMA ApartParts ==
    ASSUME NEW s \in Seq(Statement), s # <<>>, AreApart(s)
    PROVE  /\ AreApart(Front(s)) /\ AreApart(Tail(s))
           /\ AllIds(s) = AllIds(Front(s)) \cup StatementIds(Last(s))
           /\ AllIds(Front(s)) \cap StatementIds(Last(s)) = {}
           /\ AllIds(Tail(s)) \subseteq AllIds(s)
<1> DEFINE n == Len(s)
           f == Front(s)
           t == Tail(s)
<1>1. n \in Nat \ {0} /\ DOMAIN s = 1 .. n
    BY EmptySeq, LenProperties
<1>2. DOMAIN f = 1 .. n - 1 /\ \A i \in 1 .. n - 1 : f[i] = s[i]
    BY <1>1 DEF Front
<1>3. DOMAIN t = 1 .. n - 1 /\ \A i \in 1 .. n - 1 : t[i] = s[i + 1]
    BY <1>1, HeadTailProperties, LenProperties
<1>4. Last(s) = s[n]
    BY DEF Last
<1>5. AreApart(f)
    BY <1>1, <1>2 DEF AreApart
<1>6. AreApart(t)
    BY <1>1, <1>3 DEF AreApart
<1>7. DOMAIN s = DOMAIN f \cup {n} /\ n \notin DOMAIN f
    BY <1>1, <1>2
<1>8. \A i \in DOMAIN f : f[i] = s[i]
    BY <1>2
<1>9. \A i \in DOMAIN t : i + 1 \in DOMAIN s /\ t[i] = s[i + 1]
    BY <1>1, <1>3
<1> HIDE DEF n, f, t
<1>10. AllIds(s) = AllIds(f) \cup StatementIds(s[n])
    BY <1>7, <1>8 DEF AllIds
<1>11. AllIds(f) \cap StatementIds(s[n]) = {}
    <2>1. \A i \in DOMAIN f : StatementIds(f[i]) \cap StatementIds(s[n]) = {}
        BY <1>7, <1>8 DEF AreApart
    <2> QED BY <2>1 DEF AllIds
<1>12. AllIds(t) \subseteq AllIds(s)
    BY <1>9 DEF AllIds
<1> QED BY <1>4, <1>5, <1>6, <1>10, <1>11, <1>12 DEF f, t

LEMMA CreatedIds ==
    ASSUME NEW x \in AnyBuilder, Creates(x)
    PROVE  StatementIds(Created(x)) = BuilderIds(x)
<1>1. x.kind # "innerJoin"
    BY DEF Creates
<1> QED BY <1>1 DEF Created, StatementIds, BuilderIds

LEMMA NewIds ==
    ASSUME NEW kind, NEW id, kind # "innerJoin"
    PROVE  /\ BuilderIds(NewBuilder(kind, id)) = {id}
           /\ StatementIds(Created(NewBuilder(kind, id))) = {id}
BY DEF NewBuilder, Created, BuilderIds, StatementIds

\* A call changes neither the number of the statement nor the queries it holds.
LEMMA CalledIds ==
    ASSUME NEW x \in AnyBuilder, Coherent(x), NEW call \in CallNames,
           HasLeftSource(x, call),
           call = "on" => x.kind = "innerJoin",
           x.kind = "innerJoin" => call = "on"
    PROVE  BuilderIds(Called(x, call)) = BuilderIds(x)
<1>1. CASE call = "on"
    <2>1. x \in JoinBuilder /\ x.outer \in Builder /\ x.outer.kind = "select"
        BY <1>1, KindsDiffer DEF AnyBuilder, Coherent
    <2>2. Called(x, call) = JoinedOn(x)
        BY <1>1 DEF Called
    <2>3. /\ JoinedOn(x).kind = "select" /\ JoinedOn(x).id = x.outer.id
          /\ JoinedOn(x).nested = x.outer.nested \cup x.nested
        BY <2>1 DEF JoinedOn, Builder
    <2> QED BY <1>1, <2>2, <2>3 DEF BuilderIds, StatementIds
<1>2. CASE call = "innerJoin"
    <2> DEFINE y == [kind |-> "innerJoin", id |-> x.id, calls |-> {}, nested |-> {},
                     outer |-> x]
    <2>1. Called(x, call) = y
        BY <1>2 DEF Called
    <2>2. y.kind = "innerJoin" /\ y.outer = x /\ y.nested = {}
        OBVIOUS
    <2> HIDE DEF y
    <2> QED BY <1>2, <2>1, <2>2 DEF BuilderIds, HasLeftSource
<1>3. CASE call = "unionAll"
    <2>1. x \in Builder
        BY <1>3, KindsDiffer DEF AnyBuilder
    <2>2. Called(x, call) = [NewBuilder("unionAll", x.id) EXCEPT !.nested = x.nested]
        BY <1>3 DEF Called
    <2>3. /\ Called(x, call).kind = "unionAll" /\ Called(x, call).id = x.id
          /\ Called(x, call).nested = x.nested
        BY <2>2 DEF NewBuilder
    <2> QED BY <1>3, <2>3 DEF BuilderIds, StatementIds
<1>4. CASE call \notin {"on", "innerJoin", "unionAll"}
    <2>1. x \in Builder
        BY <1>4, KindsDiffer DEF AnyBuilder
    <2>2. Called(x, call) = [x EXCEPT !.calls = @ \cup {call}]
        BY <1>4 DEF Called
    <2>3. /\ Called(x, call).kind = x.kind /\ Called(x, call).id = x.id
          /\ Called(x, call).nested = x.nested
        BY <2>1, <2>2 DEF Builder
    <2> QED BY <1>4, <2>3 DEF BuilderIds, StatementIds
<1> QED BY <1>1, <1>2, <1>3, <1>4

LEMMA NestedIds ==
    ASSUME NEW x \in AnyBuilder, NEW more \in SUBSET Nat
    PROVE  BuilderIds([x EXCEPT !.nested = @ \cup more]) = BuilderIds(x) \cup more
<1> DEFINE y == [x EXCEPT !.nested = @ \cup more]
<1>1. CASE x \in Builder
    <2>1. y.kind = x.kind /\ y.id = x.id /\ y.nested = x.nested \cup more
        BY <1>1 DEF Builder
    <2> HIDE DEF y
    <2>2. BuilderIds(y) = BuilderIds(x) \cup more
        BY <1>1, <2>1, KindsDiffer DEF BuilderIds, StatementIds
    <2> QED BY <2>2 DEF y
<1>2. CASE x \in JoinBuilder
    <2>1. y.kind = x.kind /\ y.outer = x.outer /\ y.nested = x.nested \cup more
        BY <1>2 DEF JoinBuilder
    <2> HIDE DEF y
    <2>2. BuilderIds(y) = BuilderIds(x) \cup more
        BY <1>2, <2>1, KindsDiffer DEF BuilderIds
    <2> QED BY <2>2 DEF y
<1> QED BY <1>1, <1>2 DEF AnyBuilder

\* finalizeStatement keeps what the batch holds.
LEMMA FinalizedIds ==
    ASSUME BatchTypeOK, NEW b \in Batches, IsTidy(b), CanFinalize(b)
    PROVE  AreApart(Finalized(b)) /\ AllIds(Finalized(b)) = BatchIds(b)
<1>1. CASE builder[b] = NoBuilder
    BY <1>1 DEF Finalized, IsTidy, BatchIds, OpenIds
<1>2. CASE builder[b] # NoBuilder
    <2>1. /\ queue[b] \in Seq(Statement) /\ builder[b] \in AnyBuilder /\ Creates(builder[b])
          /\ Finalized(b) = Append(queue[b], Created(builder[b]))
        BY <1>2, TypeParts DEF CanFinalize, Finalized
    <2>2. /\ Created(builder[b]) \in Statement
          /\ StatementIds(Created(builder[b])) = OpenIds(b)
        BY <1>2, <2>1, CreatedType, CreatedIds DEF OpenIds
    <2> QED BY <2>1, <2>2, ApartAppend DEF IsTidy, BatchIds
<1> QED BY <1>1, <1>2

-----------------------------------------------------------------------------
(* Every step keeps them apart                                             *)

\* A batch that is not touched.
LEMMA IdsStay ==
    ASSUME NEW b \in Batches, queue'[b] = queue[b],
           \/ builder'[b] = builder[b]
           \/ /\ builder[b] # NoBuilder /\ builder'[b] # NoBuilder
              /\ BuilderIds(builder'[b]) = BuilderIds(builder[b])
    PROVE  BatchIds(b)' = BatchIds(b) /\ IsTidy(b)' = IsTidy(b)
<1>1. OpenIds(b)' = OpenIds(b)
    BY DEF OpenIds
<1> QED BY <1>1 DEF BatchIds, IsTidy

\* A batch left without a builder.
LEMMA IdsEnded ==
    ASSUME NEW b \in Batches, builder'[b] = NoBuilder, AreApart(queue'[b])
    PROVE  BatchIds(b)' = AllIds(queue'[b]) /\ IsTidy(b)'
<1>1. OpenIds(b)' = {}
    BY DEF OpenIds
<1> QED BY <1>1 DEF BatchIds, IsTidy

\* A statement is begun: in batch b, as number written + 1.
LEMMA BegunIsApart ==
    ASSUME BatchTypeOK, HeldOnce, NEW b \in Batches,
           executing' = executing, written' = written + 1,
           BatchIds(b)' = BatchIds(b) \cup {written + 1}, IsTidy(b)',
           \A c \in Batches \ {b} : queue'[c] = queue[c] /\ builder'[c] = builder[c]
    PROVE  HeldOnce'
<1>1. \A c \in Batches \ {b} : BatchIds(c)' = BatchIds(c) /\ IsTidy(c)' = IsTidy(c)
    BY IdsStay
<1>2. written + 1 \notin 1 .. written /\ 1 .. written' = 1 .. written \cup {written + 1}
    BY DEF BatchTypeOK
<1>3. Batches = {"main", "inner"}
    BY DEF Batches
<1>4. \A c \in Batches : IsTidy(c)' /\ BatchIds(c)' \subseteq 1 .. written'
    BY <1>1, <1>2 DEF HeldOnce
<1>5. BatchIds("main")' \cap BatchIds("inner")' = {}
    BY <1>1, <1>2, <1>3 DEF HeldOnce
<1>6. /\ AreApart(executing') /\ AllIds(executing') \subseteq 1 .. written'
      /\ \A c \in Batches : AllIds(executing') \cap BatchIds(c)' = {}
    BY <1>1, <1>2 DEF HeldOnce
<1> QED BY <1>4, <1>5, <1>6 DEF HeldOnce

\* Nothing is begun, and b holds nothing it did not hold.
LEMMA LessIsApart ==
    ASSUME HeldOnce, NEW b \in Batches, executing' = executing, written' = written,
           BatchIds(b)' \subseteq BatchIds(b), IsTidy(b)',
           \A c \in Batches \ {b} : queue'[c] = queue[c] /\ builder'[c] = builder[c]
    PROVE  HeldOnce'
<1>1. \A c \in Batches \ {b} : BatchIds(c)' = BatchIds(c) /\ IsTidy(c)' = IsTidy(c)
    BY IdsStay
<1>2. Batches = {"main", "inner"}
    BY DEF Batches
<1>3. \A c \in Batches : IsTidy(c)' /\ BatchIds(c)' \subseteq BatchIds(c)
    BY <1>1 DEF HeldOnce
<1> QED BY <1>2, <1>3 DEF HeldOnce

\* CallWithQuery: what the main builder gains is what the inner batch gives away, if
\* the main builder gains anything.
LEMMA CallWithQueryIds ==
    ASSUME BatchTypeOK, NEW call \in Methods, CallWithQuery(call)
    PROVE  /\ builder["main"] # NoBuilder /\ builder'["main"] # NoBuilder
           /\ builder'["inner"] = NoBuilder
           /\ \/ BuilderIds(builder'["main"]) = BuilderIds(builder["main"])
              \/ BuilderIds(builder'["main"]) =
                     BuilderIds(builder["main"]) \cup StatementIds(Last(Finalized("inner")))
<1> DEFINE query == Last(Finalized("inner"))
           main == builder["main"]
           called == Called(main, call)
           more == {query.id} \cup query.nested
           extended == [called EXCEPT !.nested = @ \cup {query.id} \cup query.nested]
           x == IF query.kind \in QueryKinds /\ HasLeftSource(main, call)
                THEN extended ELSE main
<1>1. /\ CanFinalize("inner") /\ Finalized("inner") # <<>> /\ main # NoBuilder
      /\ main.kind \in TakesQuery(call)
      /\ builder' = [builder EXCEPT !["inner"] = NoBuilder, !["main"] = x]
    BY DEF CallWithQuery, Batches, BatchTypeOK
<1>2. query \in Statement
    BY <1>1, FinalizedIsWaiting, NumbersOfPart DEF Batches
<1>3. more \in SUBSET Nat
    BY <1>2 DEF Statement
<1>4. main \in AnyBuilder /\ Coherent(main)
    BY <1>1, TypeParts DEF Batches
<1>5. builder'["main"] = x /\ builder'["inner"] = NoBuilder
    BY <1>1 DEF Batches, BatchTypeOK
<1>6. x # NoBuilder
    <2>1. \E y \in AnyBuilder : builder' = [builder EXCEPT !["inner"] = NoBuilder, !["main"] = y]
        BY CallWithQueryEffect
    <2>2. builder'["main"] \in AnyBuilder
        BY <2>1 DEF Batches, BatchTypeOK
    <2> HIDE DEF x
    <2> QED BY <1>5, <2>2, KindsDiffer
<1>7. ASSUME HasLeftSource(main, call)
      PROVE  BuilderIds(extended) = BuilderIds(main) \cup more
    <2>1. call \in CallNames
        BY InputBatchAssumption
    <2>2. /\ call = "on" => main.kind = "innerJoin"
          /\ main.kind = "innerJoin" => call = "on"
        <3> HIDE DEF main
        <3> QED BY <1>1, <1>4, <2>1, CallsFit
    <2>3. called \in AnyBuilder /\ BuilderIds(called) = BuilderIds(main)
        <3> HIDE DEF main
        <3> QED BY <1>4, <1>7, <2>1, <2>2, CalledType, CalledIds
    <2>4. extended = [called EXCEPT !.nested = @ \cup more]
        OBVIOUS
    <2> HIDE DEF main, called, more, extended
    <2> QED BY <1>3, <2>3, <2>4, NestedIds
<1>8. BuilderIds(x) = BuilderIds(main) \/ BuilderIds(x) = BuilderIds(main) \cup more
    <2> HIDE DEF extended, main, query
    <2> QED BY <1>7
<1>9. more = StatementIds(query)
    BY DEF StatementIds
<1> HIDE DEF x, more, query
<1> QED BY <1>1, <1>5, <1>6, <1>8, <1>9 DEF query

LEMMA StepKeepsHeldOnce ==
    ASSUME BatchTypeOK, HeldOnce, [BatchNext]_batchVars
    PROVE  HeldOnce'
<1>1. /\ queue \in [Batches -> Seq(Statement)]
      /\ builder \in [Batches -> {NoBuilder} \cup AnyBuilder]
      /\ \A b \in Batches : IsTidy(b) /\ queue[b] \in Seq(Statement)
      /\ Batches = {"main", "inner"} /\ written \in Nat /\ written + 1 \in Nat
    BY DEF BatchTypeOK, AnyBuilder, HeldOnce, Batches
<1>2. ASSUME NEW b \in Batches, NEW kind \in SessionKinds, Session(b, kind)
      PROVE  HeldOnce'
    <2> DEFINE s == Created(NewBuilder(kind, written + 1))
    <2>1. /\ executing' = executing /\ written' = written + 1
          /\ builder' = builder /\ builder[b] = NoBuilder
          /\ queue' = [queue EXCEPT ![b] = Append(queue[b], s)]
        BY <1>2 DEF Session
    <2>2. kind # "innerJoin"
        BY InputBatchAssumption DEF InstantKinds
    <2>3. s \in Statement /\ StatementIds(s) = {written + 1}
        BY <1>1, <2>2, SessionStatement, NewIds
    <2> HIDE DEF s
    <2>4. BatchIds(b) = AllIds(queue[b]) /\ AreApart(queue[b])
        BY <1>1, <2>1 DEF BatchIds, OpenIds, IsTidy
    <2>5. written + 1 \notin AllIds(queue[b])
        BY <1>1, <2>4 DEF HeldOnce
    <2>6. /\ AreApart(queue'[b])
          /\ AllIds(queue'[b]) = BatchIds(b) \cup {written + 1}
        BY <1>1, <2>1, <2>3, <2>4, <2>5, ApartAppend
    <2>7. BatchIds(b)' = BatchIds(b) \cup {written + 1} /\ IsTidy(b)'
        BY <2>1, <2>6, IdsEnded
    <2> QED BY <1>1, <2>1, <2>7, BegunIsApart
<1>3. ASSUME NEW b \in Batches, NEW kind \in SimpleKinds \cup QueryKinds,
             executing' = executing, written' = written + 1, CanFinalize(b),
             queue' = [queue EXCEPT ![b] = Finalized(b)],
             builder' = [builder EXCEPT ![b] = NewBuilder(kind, written + 1)]
      PROVE  HeldOnce'
    <2>1. kind # "innerJoin"
        BY DEF SimpleKinds, QueryKinds
    <2>2. builder'[b] # NoBuilder /\ BuilderIds(builder'[b]) = {written + 1}
        BY <1>1, <1>3, <2>1, NewIds, NewIsCoherent, KindsDiffer
    <2>3. AreApart(queue'[b]) /\ AllIds(queue'[b]) = BatchIds(b)
        BY <1>1, <1>3, FinalizedIds
    <2>4. OpenIds(b)' = {written + 1}
        BY <2>2 DEF OpenIds
    <2>5. written + 1 \notin BatchIds(b)
        BY <1>1 DEF HeldOnce
    <2>6. BatchIds(b)' = BatchIds(b) \cup {written + 1} /\ IsTidy(b)'
        BY <2>3, <2>4, <2>5 DEF BatchIds, IsTidy
    <2> QED BY <1>1, <1>3, <2>6, BegunIsApart
<1>4. ASSUME NEW b \in Batches, builder[b] = NoBuilder, queue' = queue
      PROVE  CanFinalize(b) /\ queue' = [queue EXCEPT ![b] = Finalized(b)]
    BY <1>1, <1>4 DEF CanFinalize, Finalized
<1>5. ASSUME NEW b \in Batches, NEW kind \in SimpleKinds \ {"insert_into"}, Start(b, kind)
      PROVE  HeldOnce'
    BY <1>3, <1>4, <1>5 DEF Start
<1>6. ASSUME NEW b \in Batches, StartInsert(b)
      PROVE  HeldOnce'
    <2>1. "insert_into" \in SimpleKinds
        BY DEF SimpleKinds
    <2> QED BY <1>3, <1>6, <2>1 DEF StartInsert
<1>7. ASSUME StartSelect
      PROVE  HeldOnce'
    <2> DEFINE b == IF builder["main"] = NoBuilder THEN "main" ELSE "inner"
    <2>1. "select" \in QueryKinds /\ b \in Batches
        BY <1>1 DEF QueryKinds
    <2>2. /\ executing' = executing /\ written' = written + 1
          /\ queue' = queue /\ builder[b] = NoBuilder
          /\ builder' = [builder EXCEPT ![b] = NewBuilder("select", written + 1)]
        BY <1>7 DEF StartSelect
    <2> HIDE DEF b
    <2> QED BY <1>3, <1>4, <2>1, <2>2
<1>8. ASSUME NEW b \in Batches, NEW call \in Methods, Call(b, call)
      PROVE  HeldOnce'
    <2>1. /\ builder[b] # NoBuilder /\ builder[b].kind \in WorksOn(call)
          /\ HasLeftSource(builder[b], call)
          /\ builder' = [builder EXCEPT ![b] = Called(builder[b], call)]
          /\ executing' = executing /\ written' = written /\ queue' = queue
        BY <1>1, <1>8 DEF Call
    <2>2. builder[b] \in AnyBuilder /\ Coherent(builder[b]) /\ call \in CallNames
        BY <2>1, TypeParts, InputBatchAssumption
    <2>3. /\ Called(builder[b], call) # NoBuilder
          /\ BuilderIds(Called(builder[b], call)) = BuilderIds(builder[b])
        BY <2>1, <2>2, CallsFit, CalledType, CalledIds, KindsDiffer
    <2>4. BatchIds(b)' = BatchIds(b) /\ IsTidy(b)'
        BY <1>1, <2>1, <2>3, IdsStay
    <2> QED BY <1>1, <2>1, <2>4, LessIsApart
<1>9. ASSUME NEW call \in Methods, CallWithQuery(call)
      PROVE  HeldOnce'
    <2> DEFINE all == Finalized("inner")
               query == StatementIds(Last(all))
    <2>1. /\ executing' = executing /\ written' = written
          /\ all \in Seq(Statement) /\ all # <<>> /\ CanFinalize("inner")
          /\ queue' = [queue EXCEPT !["inner"] = Front(all)]
        BY <1>9, CallWithQueryEffect DEF CallWithQuery
    <2>2. /\ AreApart(all) /\ AllIds(all) = BatchIds("inner")
        BY <1>1, <2>1, FinalizedIds
    <2>3. queue'["inner"] = Front(all) /\ queue'["main"] = queue["main"]
        BY <1>1, <2>1
    <2>4. /\ AreApart(queue'["inner"]) /\ AllIds(queue'["inner"]) \cap query = {}
          /\ BatchIds("inner") = AllIds(queue'["inner"]) \cup query
        BY <2>1, <2>2, <2>3, ApartParts
    <2> HIDE DEF all, query
    <2>5. BatchIds("inner")' = AllIds(queue'["inner"]) /\ IsTidy("inner")'
        BY <1>1, <1>9, <2>4, CallWithQueryIds, IdsEnded
    <2>6. OpenIds("main")' = OpenIds("main") \/ OpenIds("main")' = OpenIds("main") \cup query
        BY <1>9, CallWithQueryIds DEF OpenIds, query, all
    <2>7. BatchIds("main") \cap BatchIds("inner") = {}
        BY DEF HeldOnce
    <2>8. AllIds(queue["main"]) \cap OpenIds("main") = {} /\ AreApart(queue["main"])
        BY <1>1 DEF IsTidy
    <2>9. /\ IsTidy("main")'
          /\ BatchIds("main")' \subseteq BatchIds("main") \cup query
        BY <2>3, <2>4, <2>6, <2>7, <2>8 DEF IsTidy, BatchIds
    <2>10. /\ BatchIds("inner")' \subseteq BatchIds("inner")
           /\ BatchIds("inner")' \cap BatchIds("main")' = {}
           /\ BatchIds("main")' \subseteq BatchIds("main") \cup BatchIds("inner")
        BY <2>4, <2>5, <2>7, <2>9
    <2> QED BY <1>1, <2>1, <2>5, <2>9, <2>10 DEF HeldOnce
<1>10. ASSUME AsStatement
       PROVE  HeldOnce'
    <2>1. /\ executing' = executing /\ written' = written
          /\ CanFinalize("main") /\ Finalized("main") # <<>>
          /\ queue' = [queue EXCEPT !["main"] = Front(Finalized("main"))]
          /\ builder' = [builder EXCEPT !["main"] = NoBuilder]
        BY <1>10 DEF AsStatement
    <2>2. /\ Finalized("main") \in Seq(Statement)
          /\ AreApart(Finalized("main")) /\ AllIds(Finalized("main")) = BatchIds("main")
        BY <1>1, <2>1, FinalizedIds, FinalizedIsWaiting
    <2>3. AreApart(queue'["main"]) /\ AllIds(queue'["main"]) \subseteq BatchIds("main")
        BY <1>1, <2>1, <2>2, ApartParts
    <2>4. BatchIds("main")' \subseteq BatchIds("main") /\ IsTidy("main")'
        BY <1>1, <2>1, <2>3, IdsEnded
    <2> QED BY <1>1, <2>1, <2>4, LessIsApart
<1>11. ASSUME NEW b \in Batches, Execute(b)
       PROVE  HeldOnce'
    <2>1. /\ written' = written /\ CanFinalize(b) /\ executing' = Finalized(b)
          /\ queue' = [queue EXCEPT ![b] = <<>>]
          /\ builder' = [builder EXCEPT ![b] = NoBuilder]
        BY <1>11 DEF Execute
    <2>2. AreApart(executing') /\ AllIds(executing') = BatchIds(b)
        BY <1>1, <2>1, FinalizedIds
    <2>3. BatchIds(b)' = {} /\ IsTidy(b)'
        BY <1>1, <2>1, NothingIsApart, IdsEnded
    <2>4. \A c \in Batches \ {b} : BatchIds(c)' = BatchIds(c) /\ IsTidy(c)' = IsTidy(c)
        BY <1>1, <2>1, IdsStay
    <2>5. \A c \in Batches \ {b} : BatchIds(b) \cap BatchIds(c) = {}
        BY <1>1 DEF HeldOnce
    <2>6. \A c \in Batches : IsTidy(c)' /\ BatchIds(c)' \subseteq BatchIds(c)
        BY <1>1, <2>3, <2>4
    <2>7. \A c \in Batches : AllIds(executing') \cap BatchIds(c)' = {}
        BY <2>2, <2>3, <2>4, <2>5
    <2>8. BatchIds("main")' \cap BatchIds("inner")' = {}
        BY <1>1, <2>6 DEF HeldOnce
    <2> QED BY <1>1, <2>1, <2>2, <2>6, <2>7, <2>8 DEF HeldOnce
<1>12. ASSUME Run
       PROVE  HeldOnce'
    <2>1. /\ executing \in Seq(Statement) /\ executing # <<>> /\ AreApart(executing)
          /\ executing' \in {Tail(executing), <<>>}
          /\ queue' = queue /\ builder' = builder /\ written' = written
        BY <1>12 DEF Run, BatchTypeOK, HeldOnce
    <2>2. AreApart(executing') /\ AllIds(executing') \subseteq AllIds(executing)
        <3>1. CASE executing' = Tail(executing)
            BY <2>1, <3>1, ApartParts
        <3>2. CASE executing' = <<>>
            BY <3>2, NothingIsApart
        <3> QED BY <2>1, <3>1, <3>2
    <2>3. \A b \in Batches : BatchIds(b)' = BatchIds(b) /\ IsTidy(b)' = IsTidy(b)
        BY <2>1, IdsStay
    <2> QED BY <1>1, <2>1, <2>2, <2>3 DEF HeldOnce
<1>13. ASSUME UNCHANGED batchVars
       PROVE  HeldOnce'
    <2>1. executing' = executing /\ queue' = queue /\ builder' = builder /\ written' = written
        BY <1>13 DEF batchVars
    <2>2. \A b \in Batches : BatchIds(b)' = BatchIds(b) /\ IsTidy(b)' = IsTidy(b)
        BY <2>1, IdsStay
    <2> QED BY <1>1, <2>1, <2>2 DEF HeldOnce
<1> QED
    BY <1>2, <1>5, <1>6, <1>7, <1>8, <1>9, <1>10, <1>11, <1>12, <1>13
       DEF BatchNext, BatchCall

-----------------------------------------------------------------------------
(* As one sequence                                                         *)

\* The sets of a sequence have nothing in common.
AreDisjoint(sets) == \A i \in DOMAIN sets, j \in DOMAIN sets : i # j => sets[i] \cap sets[j] = {}

AllOf(sets) == UNION {sets[i] : i \in DOMAIN sets}

LEMMA DisjointConcat ==
    ASSUME NEW S, NEW s \in Seq(S), NEW t \in Seq(S), AreDisjoint(s), AreDisjoint(t),
           AllOf(s) \cap AllOf(t) = {}
    PROVE  /\ s \o t \in Seq(S)
           /\ AreDisjoint(s \o t)
           /\ AllOf(s \o t) =
                  AllOf(s) \cup AllOf(t)
<1> DEFINE u == s \o t
           m == Len(s)
           n == Len(t)
<1>1. /\ m \in Nat /\ n \in Nat /\ DOMAIN s = 1 .. m /\ DOMAIN t = 1 .. n
      /\ u \in Seq(S) /\ Len(u) = m + n
      /\ \A i \in 1 .. m + n : u[i] = IF i <= m THEN s[i] ELSE t[i - m]
    BY LenProperties, ConcatProperties
<1>2. DOMAIN u = 1 .. m + n
    BY <1>1, LenProperties
<1> HIDE DEF u, m, n
<1>3. \A i \in DOMAIN s : i \in DOMAIN u /\ u[i] = s[i]
    BY <1>1, <1>2
<1>4. \A i \in DOMAIN t : m + i \in DOMAIN u /\ u[m + i] = t[i]
    BY <1>1, <1>2
<1>5. \A i \in DOMAIN u : \/ i \in DOMAIN s /\ u[i] = s[i]
                          \/ i \notin DOMAIN s /\ i - m \in DOMAIN t /\ u[i] = t[i - m]
    BY <1>1, <1>2
<1>6. AllOf(u) =
          AllOf(s) \cup AllOf(t)
    <2>1. \A x \in AllOf(u) : x \in AllOf(s) \/ x \in AllOf(t)
        BY <1>5 DEF AllOf
    <2>2. \A x \in AllOf(s) : x \in AllOf(u)
        BY <1>3 DEF AllOf
    <2>3. \A x \in AllOf(t) : x \in AllOf(u)
        BY <1>4 DEF AllOf
    <2> QED BY <2>1, <2>2, <2>3
<1>7. \A i \in DOMAIN s, j \in DOMAIN t : s[i] \cap t[j] = {}
    BY DEF AllOf
<1>8. ASSUME NEW i \in DOMAIN u, NEW j \in DOMAIN u, i # j
      PROVE  u[i] \cap u[j] = {}
    <2>1. i - m \in DOMAIN t /\ j - m \in DOMAIN t => i - m # j - m
        BY <1>1, <1>2, <1>8
    <2> QED BY <1>5, <1>7, <1>8, <2>1 DEF AreDisjoint
<1>9. AreDisjoint(u)
    BY <1>8 DEF AreDisjoint
<1> QED BY <1>1, <1>6, <1>9 DEF u

LEMMA IdsOfEachApart ==
    ASSUME NEW s \in Seq(Statement), AreApart(s)
    PROVE  /\ IdsOfEach(s) \in Seq(SUBSET Nat)
           /\ AreDisjoint(IdsOfEach(s))
           /\ AllOf(IdsOfEach(s)) = AllIds(s)
<1>1. Len(s) \in Nat /\ DOMAIN s = 1 .. Len(s) /\ \A i \in DOMAIN s : s[i] \in Statement
    BY LenProperties, ElementOfSeq
<1>2. \A i \in DOMAIN s : StatementIds(s[i]) \in SUBSET Nat
    BY <1>1 DEF StatementIds, Statement
<1>3. DOMAIN IdsOfEach(s) = DOMAIN s /\ \A i \in DOMAIN s : IdsOfEach(s)[i] = StatementIds(s[i])
    BY DEF IdsOfEach
<1>4. IdsOfEach(s) \in [1 .. Len(s) -> SUBSET Nat]
    BY <1>1, <1>2 DEF IdsOfEach
<1>5. IdsOfEach(s) \in Seq(SUBSET Nat)
    BY <1>1, <1>4, SeqDef
<1> QED BY <1>3, <1>5 DEF AreDisjoint, AllOf, AreApart, AllIds

LEMMA PartsApart ==
    ASSUME BatchTypeOK, NEW b \in Batches, IsTidy(b)
    PROVE  /\ Parts(b) \in Seq(SUBSET Nat)
           /\ AreDisjoint(Parts(b))
           /\ AllOf(Parts(b)) = BatchIds(b)
<1> DEFINE s == IdsOfEach(queue[b])
           t == IF builder[b] = NoBuilder THEN <<>> ELSE <<BuilderIds(builder[b])>>
<1>1. /\ s \in Seq(SUBSET Nat) /\ AreDisjoint(s)
      /\ AllOf(s) = AllIds(queue[b])
    BY TypeParts, IdsOfEachApart DEF IsTidy
<1>2. /\ t \in Seq(SUBSET Nat) /\ AreDisjoint(t)
      /\ AllOf(t) = OpenIds(b)
    <2>1. CASE builder[b] = NoBuilder
        BY <2>1, EmptySeq DEF OpenIds, AreDisjoint, AllOf
    <2>2. CASE builder[b] # NoBuilder
        <3>1. builder[b] \in AnyBuilder
            BY <2>2, TypeParts
        <3>2. BuilderIds(builder[b]) \in SUBSET Nat
            <4>1. CASE builder[b] \in Builder
                BY <4>1, KindsDiffer DEF BuilderIds, StatementIds, Builder
            <4>2. CASE builder[b] \in JoinBuilder
                BY <4>2, KindsDiffer DEF BuilderIds, StatementIds, JoinBuilder, Builder
            <4> QED BY <3>1, <4>1, <4>2 DEF AnyBuilder
        <3>3. t = <<BuilderIds(builder[b])>> /\ OpenIds(b) = BuilderIds(builder[b])
            BY <2>2 DEF OpenIds
        <3> HIDE DEF t
        <3>4. t \in Seq(SUBSET Nat) /\ DOMAIN t = {1} /\ t[1] = OpenIds(b)
            BY <3>2, <3>3
        <3> QED BY <3>4 DEF AreDisjoint, AllOf
    <2> QED BY <2>1, <2>2
<1>3. Parts(b) = s \o t
    BY DEF Parts
<1>4. AllIds(queue[b]) \cap OpenIds(b) = {} /\ BatchIds(b) = AllIds(queue[b]) \cup OpenIds(b)
    BY DEF IsTidy, BatchIds
<1> HIDE DEF s, t
<1> QED BY <1>1, <1>2, <1>3, <1>4, DisjointConcat

LEMMA HeldOnceIsEnough == BatchTypeOK /\ HeldOnce => NestedUsedOnce
<1> SUFFICES ASSUME BatchTypeOK, HeldOnce PROVE NestedUsedOnce
    OBVIOUS
<1> DEFINE m == Parts("main")
           n == Parts("inner")
           e == IdsOfEach(executing)
<1>1. /\ m \in Seq(SUBSET Nat) /\ AreDisjoint(m)
      /\ AllOf(m) = BatchIds("main")
    BY PartsApart DEF HeldOnce, Batches
<1>2. /\ n \in Seq(SUBSET Nat) /\ AreDisjoint(n)
      /\ AllOf(n) = BatchIds("inner")
    BY PartsApart DEF HeldOnce, Batches
<1>3. /\ e \in Seq(SUBSET Nat) /\ AreDisjoint(e)
      /\ AllOf(e) = AllIds(executing)
    BY IdsOfEachApart DEF HeldOnce, BatchTypeOK
<1> HIDE DEF m, n, e
<1>4. /\ BatchIds("main") \cap BatchIds("inner") = {}
      /\ (BatchIds("main") \cup BatchIds("inner")) \cap AllIds(executing) = {}
    BY DEF HeldOnce, Batches
<1>5. /\ m \o n \in Seq(SUBSET Nat) /\ AreDisjoint(m \o n)
      /\ AllOf(m \o n) = BatchIds("main") \cup BatchIds("inner")
    BY <1>1, <1>2, <1>4, DisjointConcat
<1> DEFINE mn == m \o n
<1> HIDE DEF mn
<1>6. AreDisjoint(mn \o e)
    BY <1>3, <1>4, <1>5, DisjointConcat DEF mn
<1>7. Held = mn \o e
    BY DEF Held, mn, m, n, e
<1> QED BY <1>6, <1>7 DEF NestedUsedOnce, AreDisjoint

\* A query that was written is in one place at a time: waiting, under construction, being
\* executed, or part of one statement.  No sequence of calls, refused calls included,
\* makes it run twice or makes two statements share it (asQueryStatement, execute).
THEOREM QueriesAreUsedOnce == BatchSpec => []NestedUsedOnce
<1>1. BatchInit => HeldOnce
    <2> SUFFICES ASSUME BatchInit PROVE HeldOnce
        OBVIOUS
    <2>1. /\ executing = <<>> /\ "main" \in Batches /\ "inner" \in Batches
          /\ \A b \in Batches : queue[b] = <<>> /\ builder[b] = NoBuilder
        BY DEF BatchInit, Batches
    <2>2. \A b \in Batches : BatchIds(b) = {} /\ IsTidy(b)
        BY <2>1, NothingIsApart DEF BatchIds, IsTidy, OpenIds
    <2> QED BY <2>1, <2>2, NothingIsApart DEF HeldOnce
<1>2. BatchTypeOK /\ HeldOnce /\ [BatchNext]_batchVars => HeldOnce'
    BY StepKeepsHeldOnce
<1> QED BY <1>1, <1>2, HeldOnceIsEnough, BatchTypeCorrect, PTL DEF BatchSpec
=============================================================================
