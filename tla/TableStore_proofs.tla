-------------------------- MODULE TableStore_proofs --------------------------
(***************************************************************************)
(* What the steps of the store keep, for the applications that use it.     *)
(***************************************************************************)
EXTENDS TableStore, SequenceTheorems, TLAPS

LEMMA PutType ==
  ASSUME NEW m \in Mutation, NEW docs \in Docs
  PROVE  Put(m, docs) \in Docs
  BY DEF Put, Docs, Mutation

LEMMA BlankTypes == NoDocs \in Docs /\ Waiting \in Reply /\ Done \in Reply
  BY DEF NoDocs, Docs, Places, Waiting, Done, Reply

LEMMA PostType ==
  ASSUME StoreTypeOK, NEW S, NEW docs \in Docs, NEW ok \in BOOLEAN,
         Post(S, docs, ok)
  PROVE  reply' \in [Calls -> Reply]
  BY DEF Post, Reply, StoreTypeOK

LEMMA QueueHead ==
  ASSUME StoreTypeOK, workerQ # <<>>
  PROVE  Head(workerQ) \in Op /\ Tail(workerQ) \in Seq(Op)
  BY HeadTailProperties DEF StoreTypeOK

LEMMA ElsewhereType ==
  ASSUME StoreTypeOK, NEW D \in SUBSET Users, NEW p \in Places, Elsewhere(D, p)
  PROVE  StoreTypeOK'
  <1>1. Write(D, p) \in Mutation
    BY DEF Write, Mutation
  <1>2. server' \in Docs
    BY <1>1, PutType DEF Elsewhere, StoreTypeOK
  <1>3. QED
    BY <1>2 DEF Elsewhere, StoreTypeOK

LEMMA SyncType ==
  ASSUME StoreTypeOK, NEW D, NEW S, Sync(D, S)
  PROVE  StoreTypeOK'
  <1>1. local' \in Docs
    BY DEF Sync, StoreTypeOK, Refreshed, Docs
  <1>2. reply' \in [Calls -> Reply]
    BY <1>1, PostType DEF Sync
  <1>3. QED
    BY <1>1, <1>2 DEF Sync, StoreTypeOK

LEMMA RejectType ==
  ASSUME StoreTypeOK, NEW S, Reject(S)
  PROVE  StoreTypeOK'
  <1>1. reply' \in [Calls -> Reply]
    BY BlankTypes, PostType DEF Reject
  <1>2. QED
    BY <1>1 DEF Reject, StoreTypeOK

LEMMA WorkerType ==
  ASSUME StoreTypeOK, TakeListen \/ TakeWrite
  PROVE  StoreTypeOK'
  <1>1. CASE TakeListen
    <2>1. reply' \in [Calls -> Reply]
      BY <1>1, PostType DEF TakeListen, StoreTypeOK
    <2>2. QED
      BY <1>1, <2>1, QueueHead DEF TakeListen, StoreTypeOK
  <1>2. CASE TakeWrite
    <2>1. Head(workerQ) \in Mutation
      BY <1>2, QueueHead DEF TakeWrite, Op
    <2>2. local' \in Docs /\ pending' \in Seq(Mutation)
      BY <1>2, <2>1, PutType, AppendProperties DEF TakeWrite, StoreTypeOK
    <2>3. QED
      BY <1>2, <2>2, QueueHead DEF TakeWrite, StoreTypeOK
  <1>3. QED
    BY <1>1, <1>2

LEMMA AcknowledgeType ==
  ASSUME StoreTypeOK, Acknowledge
  PROVE  StoreTypeOK'
  <1>1. Head(pending) \in Mutation /\ pending' \in Seq(Mutation)
    BY HeadTailProperties DEF Acknowledge, StoreTypeOK
  <1>2. server' \in Docs
    BY <1>1, PutType DEF Acknowledge, StoreTypeOK
  <1>3. QED
    BY <1>1, <1>2 DEF Acknowledge, StoreTypeOK

LEMMA CompleteType ==
  ASSUME StoreTypeOK, NEW c \in 1..Len(calls), NEW ws \in Seq(Op), Complete(c, ws)
  PROVE  StoreTypeOK'
  <1>1. workerQ' \in Seq(Op)
    BY ConcatProperties DEF Complete, StoreTypeOK
  <1>2. reply' \in [Calls -> Reply]
    BY BlankTypes DEF Complete, StoreTypeOK
  <1>3. QED
    BY <1>1, <1>2 DEF Complete, StoreTypeOK

\* One read is asked.
LEMMA AskOneType ==
  ASSUME StoreTypeOK, NEW qs \in SUBSET Users, Ask(<<>>, <<qs>>)
  PROVE  /\ StoreTypeOK'
         /\ Len(calls') = Len(calls) + 1
         /\ workerQ' = Append(workerQ, Listen(Len(calls) + 1))
         /\ Len(calls) + 1 \in Calls
  <1>1. /\ calls \in Seq(SUBSET Users) /\ Len(calls) \in Nat /\ workerQ \in Seq(Op)
        /\ Len(calls) + 1 <= MaxCalls /\ MaxCalls \in Nat
    BY LenProperties, MaxCallsAssumption DEF Ask, StoreTypeOK
  <1>2. Len(calls) + 1 \in Calls
    BY <1>1 DEF Calls
  <1>3. Listen(Len(calls) + 1) \in Op
    BY <1>2 DEF Listen, Op
  <1>4. calls' \in Seq(SUBSET Users) /\ Len(calls') = Len(calls) + 1
    BY <1>1 DEF Ask
  <1>5. workerQ' = Append(workerQ, Listen(Len(calls) + 1))
    <2>1. PICK n : n = Len(calls)
      OBVIOUS
    <2>2. [i \in 1..1 |-> Listen(n + i)] = <<Listen(n + 1)>>
      OBVIOUS
    <2>3. workerQ' = workerQ \o <<>> \o <<Listen(n + 1)>>
      <3>1. workerQ' = workerQ \o <<>> \o [i \in 1..1 |-> Listen(n + i)]
        BY <2>1 DEF Ask
      <3>2. QED
        BY <2>2, <3>1
    <2>4. workerQ \o <<>> = workerQ
      BY <1>1
    <2>5. QED
      BY <1>1, <1>3, <2>1, <2>3, <2>4, AppendIsConcat
  <1>6. workerQ' \in Seq(Op)
    BY <1>1, <1>3, <1>5
  <1>7. QED
    BY <1>1, <1>2, <1>4, <1>5, <1>6 DEF Ask, StoreTypeOK
=============================================================================
