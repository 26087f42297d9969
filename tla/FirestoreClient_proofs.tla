----------------------- MODULE FirestoreClient_proofs -----------------------
(***************************************************************************)
(* Theorems about the Firestore client, for every set of users and places  *)
(* and every bound, with their proofs.                                     *)
(***************************************************************************)
EXTENDS FirestoreClient, Filters_proofs

----------------------------------------------------------------------------
(* The operators.                                                          *)

LEMMA PutType ==
  ASSUME NEW m \in Mutation, NEW docs \in Docs
  PROVE  Put(m, docs) \in Docs
  BY DEF Put, Docs, Mutation

LEMMA RefreshedType ==
  ASSUME NEW docs \in Docs, NEW D, NEW s \in Docs, NEW q
  PROVE  Refreshed(docs, D, s, q) \in Docs
  BY DEF Refreshed, Docs

LEMMA PostType ==
  ASSUME mainQ \in Seq(Event), NEW S \in SUBSET Calls, NEW docs \in Docs,
         NEW ok \in BOOLEAN, Post(S, docs, ok)
  PROVE  mainQ' \in Seq(Event)
  <1>1. [calls |-> S, docs |-> docs, ok |-> ok] \in Event
    BY DEF Event
  <1>2. QED
    BY <1>1, AppendProperties DEF Post

LEMMA ListenersAreCalls ==
  ASSUME TypeOK
  PROVE  /\ listening \subseteq Calls
         /\ Targets \subseteq SUBSET Users
         /\ ToldOffline \subseteq listening
         /\ \A D : Told(D) \subseteq listening
  <1>1. \A c \in listening : c \in 1..Len(calls) /\ c \in Calls /\ calls[c] \in SUBSET Users
    BY MaxCallsAssumption DEF TypeOK, Calls
  <1>2. QED
    BY <1>1 DEF Targets, ToldOffline, Told

LEMMA OnlineStateType ==
  ASSUME TypeOK, NEW state \in {"unknown", "online", "offline"},
         OnlineStateBecomes(state)
  PROVE  /\ net' \in {"unknown", "online", "offline"}
         /\ mainQ' \in Seq(Event)
         /\ raised' \subseteq 1..Len(calls)
         /\ synced' \subseteq SUBSET Users
  <1>1. ToldOffline \in SUBSET Calls /\ ToldOffline \subseteq 1..Len(calls)
    BY ListenersAreCalls DEF TypeOK
  <1>2. CASE state = "offline"
    <2>1. mainQ' \in Seq(Event)
      BY <1>1, <1>2, PostType DEF OnlineStateBecomes, TypeOK
    <2>2. QED
      BY <1>1, <1>2, <2>1 DEF OnlineStateBecomes, TypeOK
  <1>3. CASE state # "offline"
    BY <1>3 DEF OnlineStateBecomes, TypeOK
  <1>4. QED
    BY <1>2, <1>3

\* The worker queue holds what it held, less its head.
LEMMA WorkerQueue ==
  ASSUME TypeOK, workerQ # <<>>
  PROVE  /\ Head(workerQ) \in Asked
         /\ Tail(workerQ) \in Seq(Asked)
  BY HeadTailProperties DEF TypeOK

----------------------------------------------------------------------------
(* Type correctness.                                                       *)

LEMMA InitType == Init => TypeOK
  <1> SUFFICES ASSUME Init PROVE TypeOK
    OBVIOUS
  <1>1. calls \in Seq(SUBSET Users) /\ Len(calls) = 0
    BY EmptySeq DEF Init
  <1>2. pending \in Seq(Mutation) /\ workerQ \in Seq(Asked) /\ mainQ \in Seq(Event)
    BY EmptySeq DEF Init
  <1>3. local \in Docs
    BY DEF Init, Docs, Places
  <1>4. answers \in [Calls -> Nat]
    BY DEF Init
  <1>5. Len(calls) <= MaxCalls
    BY <1>1, MaxCallsAssumption
  <1>6. /\ listening \subseteq 1..Len(calls) /\ raised \subseteq 1..Len(calls)
        /\ muted \subseteq 1..Len(calls) /\ synced \subseteq SUBSET Users
    BY DEF Init
  <1>7. /\ server \in Docs /\ net \in {"unknown", "online", "offline"}
        /\ stream \in {"closed", "starting", "open"} /\ timer \in BOOLEAN
    BY DEF Init
  <1>8. QED
    BY <1>1, <1>2, <1>3, <1>4, <1>5, <1>6, <1>7 DEF TypeOK

LEMMA WorkerType == TypeOK /\ Worker => TypeOK'
  <1> SUFFICES ASSUME TypeOK, Worker PROVE TypeOK'
    OBVIOUS
  <1>1. CASE AddListener
    <2> DEFINE c == Head(workerQ).call
               S == IF MayRaise(c, net) THEN {c} ELSE {}
    <2>1. c \in 1..Len(calls) /\ c \in Calls
      <3>1. Head(workerQ) \in Asked /\ Head(workerQ).op = "listen"
        BY <1>1, WorkerQueue DEF AddListener
      <3>2. c \in 1..Len(calls)
        BY <3>1 DEF Asked, Mutation
      <3>3. Len(calls) \in Nat /\ Len(calls) <= MaxCalls
        BY DEF TypeOK
      <3>4. QED
        BY <3>2, <3>3, MaxCallsAssumption DEF Calls
    <2>2. S \in SUBSET Calls /\ S \subseteq 1..Len(calls)
      BY <2>1
    <2>3. Post(S, local, TRUE) /\ raised' = raised \cup S
          /\ listening' = listening \cup {c}
      BY <1>1 DEF AddListener
    <2>4. mainQ' \in Seq(Event)
      BY <2>2, <2>3, PostType DEF TypeOK
    <2>5. workerQ' \in Seq(Asked)
      BY <1>1, WorkerQueue DEF AddListener
    <2>6. raised' \subseteq 1..Len(calls) /\ listening' \subseteq 1..Len(calls)
      BY <2>1, <2>2, <2>3 DEF TypeOK
    <2> HIDE DEF c, S
    <2>7. QED
      BY <1>1, <2>4, <2>5, <2>6 DEF AddListener, TypeOK, Asked
  <1>2. CASE RemoveListener
    <2>1. workerQ' \in Seq(Asked)
      BY <1>2, WorkerQueue DEF RemoveListener
    <2>2. QED
      BY <1>2, <2>1 DEF RemoveListener, TypeOK, Asked
  <1>3. CASE WriteLocally
    <2> DEFINE m == Head(workerQ)
    <2>1. m \in Mutation
      BY <1>3, WorkerQueue DEF WriteLocally, Asked
    <2>2. local' \in Docs /\ Put(m, local) \in Docs
      BY <1>3, <2>1, PutType DEF WriteLocally, TypeOK
    <2>3. Told(m.docs) \in SUBSET Calls
      BY ListenersAreCalls
    <2>4. mainQ' \in Seq(Event)
      BY <1>3, <2>2, <2>3, PostType DEF WriteLocally, TypeOK
    <2>5. pending' \in Seq(Mutation)
      BY <1>3, <2>1, AppendProperties DEF WriteLocally, TypeOK
    <2>6. workerQ' \in Seq(Asked)
      BY <1>3, WorkerQueue DEF WriteLocally
    <2>7. QED
      BY <1>3, <2>2, <2>4, <2>5, <2>6 DEF WriteLocally, TypeOK, Asked
  <1>4. QED
    BY <1>1, <1>2, <1>3 DEF Worker

LEMMA NetworkType == TypeOK /\ Network => TypeOK'
  <1> SUFFICES ASSUME TypeOK, Network PROVE TypeOK'
    OBVIOUS
  <1>1. CASE WriteAcknowledged
    <2>1. Head(pending) \in Mutation /\ pending' \in Seq(Mutation)
      BY <1>1, HeadTailProperties DEF WriteAcknowledged, TypeOK
    <2>2. server' \in Docs
      BY <1>1, <2>1, PutType DEF WriteAcknowledged, TypeOK
    <2>3. QED
      BY <1>1, <2>1, <2>2 DEF WriteAcknowledged, TypeOK, Asked
  <1>2. ASSUME NEW q \in Targets, RemoteEvent(q)
        PROVE  TypeOK'
    <2> DEFINE seen == Refreshed(local, q, server, pending)
               changed == {u \in Users : seen[u] # local[u]}
               S == Told(changed) \cup
                    (IF q \in synced THEN {} ELSE {c \in listening : calls[c] = q})
    <2>1. seen \in Docs /\ S \subseteq listening /\ S \in SUBSET Calls
      BY ListenersAreCalls, RefreshedType DEF TypeOK
    <2>2. Post(S, seen, TRUE) /\ raised' = raised \cup S /\ local' = seen
          /\ synced' = synced \cup {q}
      BY <1>2 DEF RemoteEvent
    <2>3. mainQ' \in Seq(Event)
      BY <2>1, <2>2, PostType DEF TypeOK
    <2>4. raised' \subseteq 1..Len(calls) /\ synced' \subseteq SUBSET Users
          /\ local' \in Docs
      <3> HIDE DEF seen, S
      <3>1. raised' \subseteq 1..Len(calls)
        BY <2>1, <2>2 DEF TypeOK
      <3>2. q \in SUBSET Users
        BY ListenersAreCalls DEF TypeOK
      <3>3. synced' \subseteq SUBSET Users
        BY <2>2, <3>2 DEF TypeOK
      <3>4. QED
        BY <2>1, <2>2, <3>1, <3>3
    <2> HIDE DEF seen, S
    <2>5. UNCHANGED <<server, pending, net, stream, timer, calls, answers, listening, muted,
                      workerQ>>
      BY <1>2 DEF RemoteEvent
    <2>6. Asked' = Asked
      BY <2>5 DEF Asked
    <2>7. QED
      BY <2>3, <2>4, <2>5, <2>6 DEF TypeOK
  <1>3. ASSUME NEW q \in Targets, ListenRejected(q)
        PROVE  TypeOK'
    <2> DEFINE S == {c \in listening : calls[c] = q}
    <2>1. S \in SUBSET Calls
      BY ListenersAreCalls
    <2>2. NoDocs \in Docs
      BY DEF NoDocs, Docs, Places
    <2>3. mainQ' \in Seq(Event)
      BY <1>3, <2>1, <2>2, PostType DEF ListenRejected, TypeOK
    <2>4. QED
      BY <1>3, <2>3 DEF ListenRejected, TypeOK, Asked
  <1>4. CASE StreamOpens
    BY <1>4 DEF StreamOpens, TypeOK, Asked
  <1>5. CASE FirstMessage
    BY <1>5, OnlineStateType DEF FirstMessage, TypeOK, Asked
  <1>6. CASE StreamBreaks
    <2>1. CASE net = "offline"
      BY <1>6, <2>1 DEF StreamBreaks, TypeOK, Asked
    <2>2. CASE net # "offline"
      BY <1>6, <2>2, OnlineStateType DEF StreamBreaks, TypeOK, Asked
    <2>3. QED
      BY <2>1, <2>2
  <1>7. CASE StreamEnds
    BY <1>7, OnlineStateType DEF StreamEnds, TypeOK, Asked
  <1>8. CASE OnlineStateTimeout
    BY <1>8, OnlineStateType DEF OnlineStateTimeout, TypeOK, Asked
  <1>9. CASE RestartNetwork
    BY <1>9, OnlineStateType DEF RestartNetwork, TypeOK, Asked
  <1>10. QED
    BY <1>1, <1>2, <1>3, <1>4, <1>5, <1>6, <1>7, <1>8, <1>9 DEF Network

LEMMA MainQueueType == TypeOK /\ MainQueue => TypeOK'
  <1> SUFFICES ASSUME TypeOK, NEW c \in 1..Len(calls),
                      DropEvent(c) \/ Deliver(c, <<>>)
               PROVE  TypeOK'
    BY DEF MainQueue
  <1>1. mainQ # <<>> /\ Pop(c)
    BY DEF DropEvent, Deliver, FirstEvent
  <1>2. Head(mainQ) \in Event /\ Tail(mainQ) \in Seq(Event)
    BY <1>1, HeadTailProperties DEF TypeOK
  <1>3. [Head(mainQ) EXCEPT !.calls = @ \ {c}] \in Event
    BY <1>2 DEF Event
  <1>4. mainQ' \in Seq(Event)
    <2> DEFINE e == [Head(mainQ) EXCEPT !.calls = @ \ {c}]
    <2>1. <<e>> \in Seq(Event)
      BY <1>3
    <2> HIDE DEF e
    <2>2. <<e>> \o Tail(mainQ) \in Seq(Event)
      BY <1>2, <2>1, ConcatProperties
    <2>3. QED
      BY <1>1, <1>2, <2>2 DEF Pop, e
  <1>5. CASE DropEvent(c)
    BY <1>4, <1>5 DEF DropEvent, TypeOK, Asked
  <1>6. CASE Deliver(c, <<>>)
    <2>1. c \in Calls
      BY MaxCallsAssumption DEF TypeOK, Calls
    <2>2. answers' \in [Calls -> Nat]
      BY <1>6, <2>1 DEF Deliver, TypeOK
    <2>3. Unlisten(c) \in Asked
      BY DEF Unlisten, Asked
    <2>4. workerQ' \in Seq(Asked)
      <3>1. <<Unlisten(c)>> \in Seq(Asked) /\ <<>> \in Seq(Asked)
        BY <2>3, EmptySeq
      <3>2. /\ workerQ \o <<>> \in Seq(Asked)
            /\ workerQ \o <<Unlisten(c)>> \in Seq(Asked)
            /\ (workerQ \o <<Unlisten(c)>>) \o <<>> \in Seq(Asked)
        BY <3>1, ConcatProperties DEF TypeOK
      <3>3. QED
        BY <1>6, <3>2 DEF Deliver
    <2>5. muted' \subseteq 1..Len(calls)
      BY <1>6 DEF Deliver, Mute, TypeOK
    <2>6. UNCHANGED <<server, local, pending, net, stream, timer, calls, listening, raised, synced>>
      BY <1>6 DEF Deliver
    <2>7. Asked' = Asked
      BY <2>6 DEF Asked
    <2>8. QED
      BY <1>4, <2>2, <2>4, <2>5, <2>6, <2>7 DEF TypeOK
  <1>7. QED
    BY <1>5, <1>6

LEMMA AppType == TypeOK /\ App => TypeOK'
  <1> SUFFICES ASSUME TypeOK, App PROVE TypeOK'
    OBVIOUS
  <1>1. ASSUME NEW q \in Queries, Get(q)
        PROVE  TypeOK'
    <2>1. q \in SUBSET Users
      BY DEF Queries
    <2>2. calls' \in Seq(SUBSET Users) /\ Len(calls') = Len(calls) + 1
      BY <1>1, <2>1, AppendProperties DEF Get, TypeOK
    <2>3. Len(calls) \in Nat /\ 1..Len(calls) \subseteq 1..Len(calls')
      BY <2>2, LenProperties DEF TypeOK
    <2>4. Len(calls') <= MaxCalls
      BY <1>1, <2>2, <2>3, MaxCallsAssumption DEF Get
    <2>5. Asked \subseteq Asked' /\ Listen(Len(calls) + 1) \in Asked'
      BY <2>2, <2>3 DEF Asked, Listen
    <2>6. workerQ \in Seq(Asked')
      BY <2>5, SeqMonotonic DEF TypeOK
    <2>7. workerQ' \in Seq(Asked')
      BY <1>1, <2>5, <2>6, AppendProperties DEF Get
    <2>8. QED
      BY <1>1, <2>2, <2>3, <2>4, <2>7 DEF Get, TypeOK
  <1>2. ASSUME NEW u \in Users, NEW p \in Places, Set(u, p)
        PROVE  TypeOK'
    <2>1. Write({u}, p) \in Asked
      BY DEF Write, Asked, Mutation
    <2>2. workerQ' \in Seq(Asked)
      BY <1>2, <2>1, AppendProperties DEF Set, TypeOK
    <2>3. QED
      BY <1>2, <2>2 DEF Set, TypeOK, Asked
  <1>3. QED
    BY <1>1, <1>2 DEF App

LEMMA OthersType == TypeOK /\ Others => TypeOK'
  <1> SUFFICES ASSUME TypeOK, NEW u \in Users \ Owned, NEW p \in Places,
                      Elsewhere({u}, p)
               PROVE  TypeOK'
    BY DEF Others
  <1>1. Write({u}, p) \in Mutation
    BY DEF Write, Mutation
  <1>2. server' \in Docs
    BY <1>1, PutType DEF Elsewhere, TypeOK
  <1>3. QED
    BY <1>2 DEF Elsewhere, TypeOK, Asked

\* The client's state keeps its type: a batch of events names only reads that
\* were made, and the worker queue asks nothing about a read not yet made.
THEOREM Typing == Spec => []TypeOK
  <1>1. TypeOK /\ UNCHANGED vars => TypeOK'
    BY DEF TypeOK, vars, storeVars, Asked
  <1>2. TypeOK /\ [Next]_vars => TypeOK'
    BY <1>1, WorkerType, NetworkType, MainQueueType, AppType, OthersType DEF Next
  <1>3. QED
    BY <1>2, InitType, PTL DEF Spec

----------------------------------------------------------------------------
(* Latency compensation.  Three steps touch the view or the mutation       *)
(* queue: the worker applies a write, the oldest write is acknowledged, a  *)
(* snapshot arrives.                                                       *)

\* The other steps of the client.
ViewUntouched == UNCHANGED <<server, local, pending>>

LEMMA StepsOnTheView ==
  ASSUME [Next]_vars
  PROVE  \/ WriteLocally \/ WriteAcknowledged
         \/ \E q \in Targets : RemoteEvent(q)
         \/ Others
         \/ ViewUntouched
  <1> USE DEF ViewUntouched
  <1>1. App => ViewUntouched
    BY DEF App, Get, Set
  <1>2. Worker => WriteLocally \/ ViewUntouched
    BY DEF Worker, AddListener, RemoveListener
  <1>3. MainQueue => ViewUntouched
    BY DEF MainQueue, DropEvent, Deliver
  <1>4. Network => \/ WriteAcknowledged \/ ViewUntouched
                   \/ \E q \in Targets : RemoteEvent(q)
    BY DEF Network, ListenRejected, StreamOpens, FirstMessage, StreamBreaks,
           StreamEnds, OnlineStateTimeout, RestartNetwork
  <1>5. UNCHANGED vars => ViewUntouched
    BY DEF vars, storeVars
  <1>6. QED
    BY <1>1, <1>2, <1>3, <1>4, <1>5 DEF Next

\* A write joins the queue.
LEMMA WriteJoins ==
  ASSUME TypeOK, WriteLocally
  PROVE  /\ Head(workerQ) \in Mutation
         /\ local' = Put(Head(workerQ), local)
         /\ server' = server
         /\ Len(pending) \in Nat
         /\ Len(pending') = Len(pending) + 1
         /\ \A i \in 1..Len(pending) : pending'[i] = pending[i]
         /\ pending'[Len(pending) + 1] = Head(workerQ)
  <1>1. Head(workerQ) \in Mutation
    BY WorkerQueue DEF WriteLocally, Asked
  <1>2. QED
    BY <1>1, AppendProperties, LenProperties DEF WriteLocally, TypeOK

\* The oldest write leaves it, for the server.
LEMMA WriteLeaves ==
  ASSUME TypeOK, WriteAcknowledged
  PROVE  /\ Len(pending) \in Nat /\ Len(pending) > 0
         /\ server' = Put(pending[1], server)
         /\ local' = local
         /\ Len(pending') = Len(pending) - 1
         /\ \A i \in 1..Len(pending') : pending'[i] = pending[i + 1]
  BY HeadTailProperties, EmptySeq, LenProperties DEF WriteAcknowledged, TypeOK

LEMMA PendingWritesStep ==
  TypeOK /\ PendingWritesShow /\ [Next]_vars => PendingWritesShow'
  <1> SUFFICES ASSUME TypeOK, PendingWritesShow, [Next]_vars,
                      NEW i \in 1..Len(pending'), NEW u \in pending'[i].docs,
                      \A j \in i+1..Len(pending') : u \notin pending'[j].docs
               PROVE  local'[u] = pending'[i].to
    BY DEF PendingWritesShow
  <1>1. CASE WriteLocally
    <2>1. CASE i = Len(pending) + 1
      BY <1>1, <2>1, WriteJoins DEF Put, Mutation
    <2>2. CASE i # Len(pending) + 1
      <3>1. i \in 1..Len(pending) /\ pending'[i] = pending[i]
        BY <1>1, <2>2, WriteJoins
      <3>2. \A j \in i+1..Len(pending) : u \notin pending[j].docs
        BY <1>1, <3>1, WriteJoins
      <3>3. u \in Users
        <4>1. pending[i] \in Mutation
          BY <3>1, ElementOfSeq DEF TypeOK
        <4>2. QED
          BY <3>1, <4>1 DEF Mutation
      <3>4. u \notin Head(workerQ).docs
        BY <1>1, <3>1, WriteJoins
      <3>5. QED
        BY <1>1, <3>1, <3>2, <3>3, <3>4, WriteJoins DEF PendingWritesShow, Put
    <2>3. QED
      BY <2>1, <2>2
  <1>2. CASE WriteAcknowledged
    <2>1. i + 1 \in 1..Len(pending) /\ pending'[i] = pending[i + 1]
      BY <1>2, WriteLeaves
    <2>2. \A j \in (i + 1) + 1..Len(pending) : u \notin pending[j].docs
      <3>1. SUFFICES ASSUME NEW j \in (i + 1) + 1..Len(pending)
                     PROVE  u \notin pending[j].docs
        OBVIOUS
      <3>2. j - 1 \in i + 1..Len(pending') /\ pending'[j - 1] = pending[j]
        BY <1>2, WriteLeaves
      <3>3. QED
        BY <3>2
    <2>3. QED
      BY <1>2, <2>1, <2>2, WriteLeaves DEF PendingWritesShow
  <1>3. ASSUME NEW q \in Targets, RemoteEvent(q)
        PROVE  local'[u] = pending'[i].to
    <2>1. pending' = pending /\ local' = Refreshed(local, q, server, pending)
      BY <1>3 DEF RemoteEvent
    <2>2. u \in Written(pending) /\ u \in Users
      <3>1. pending[i] \in Mutation /\ u \in pending[i].docs
        BY <2>1, ElementOfSeq DEF TypeOK
      <3>2. QED
        BY <2>1, <3>1 DEF Written, Mutation
    <2>3. local'[u] = local[u]
      BY <2>1, <2>2 DEF Refreshed
    <2>4. QED
      BY <2>1, <2>3 DEF PendingWritesShow
  <1>4. CASE Others \/ ViewUntouched
    BY <1>4 DEF Others, Elsewhere, ViewUntouched, PendingWritesShow
  <1>5. QED
    BY <1>1, <1>2, <1>3, <1>4, StepsOnTheView

\* What the device sees of a document with unsent writes is the last of them,
\* whatever snapshots and acknowledgements come in between.
THEOREM LatencyCompensation == Spec => []PendingWritesShow
  <1>1. Init => PendingWritesShow
    BY DEF Init, PendingWritesShow
  <1>2. QED
    BY <1>1, PendingWritesStep, Typing, PTL DEF Spec

----------------------------------------------------------------------------
(* Own documents.  The last write of a document to leave the queue is what *)
(* the view shows already, by PendingWritesShow.                           *)

LEMMA OwnStep ==
  TypeOK /\ PendingWritesShow /\ OwnNeverStale /\ [Next]_vars => OwnNeverStale'
  <1> SUFFICES ASSUME TypeOK, PendingWritesShow, OwnNeverStale, [Next]_vars,
                      NEW u \in Owned, u \notin Written(pending')
               PROVE  local'[u] \in {server'[u], NoTable}
    BY DEF OwnNeverStale, Written
  <1> u \in Users
    BY OwnedAssumption
  <1>1. CASE WriteLocally
    <2>1. u \notin Written(pending)
      BY <1>1, WriteJoins DEF Written
    <2>2. u \notin Head(workerQ).docs
      BY <1>1, WriteJoins DEF Written
    <2>3. QED
      BY <1>1, <2>1, <2>2, WriteJoins DEF OwnNeverStale, Put
  <1>2. CASE WriteAcknowledged
    <2>1. \A j \in 1 + 1..Len(pending) : u \notin pending[j].docs
      <3>1. SUFFICES ASSUME NEW j \in 1 + 1..Len(pending)
                     PROVE  u \notin pending[j].docs
        OBVIOUS
      <3>2. j - 1 \in 1..Len(pending') /\ pending'[j - 1] = pending[j]
        BY <1>2, WriteLeaves
      <3>3. QED
        BY <3>2 DEF Written
    <2>2. CASE u \in pending[1].docs
      <3>1. local[u] = pending[1].to
        BY <1>2, <2>1, <2>2, WriteLeaves DEF PendingWritesShow
      <3>2. QED
        BY <1>2, <2>2, <3>1, WriteLeaves DEF Put
    <2>3. CASE u \notin pending[1].docs
      <3>1. u \notin Written(pending)
        BY <1>2, <2>1, <2>3, WriteLeaves DEF Written
      <3>2. QED
        BY <1>2, <2>3, <3>1, WriteLeaves DEF OwnNeverStale, Put
    <2>4. QED
      BY <2>2, <2>3
  <1>3. ASSUME NEW q \in Targets, RemoteEvent(q)
        PROVE  local'[u] \in {server'[u], NoTable}
    <2>1. /\ pending' = pending /\ server' = server
          /\ local' = Refreshed(local, q, server, pending)
      BY <1>3 DEF RemoteEvent
    <2>2. local'[u] = server[u] \/ local'[u] = local[u]
      BY <2>1 DEF Refreshed
    <2>3. u \notin Written(pending)
      BY <2>1
    <2>4. QED
      BY <2>1, <2>2, <2>3 DEF OwnNeverStale
  <1>4. CASE Others
    <2>1. PICK v \in Users \ Owned, p \in Places : Elsewhere({v}, p)
      BY <1>4 DEF Others
    <2>2. server'[u] = server[u] /\ local' = local /\ pending' = pending
      BY <2>1 DEF Elsewhere, Put, Write
    <2>3. QED
      BY <2>2 DEF OwnNeverStale
  <1>5. CASE ViewUntouched
    BY <1>5 DEF ViewUntouched, OwnNeverStale
  <1>6. QED
    BY <1>1, <1>2, <1>3, <1>4, <1>5, StepsOnTheView

\* What the device sees of a document only it writes is what the server holds,
\* once no write of it is on its way, or the document is not fetched yet.
THEOREM OwnDocuments == Spec => []OwnNeverStale
  <1>1. Init => OwnNeverStale
    BY OwnedAssumption DEF Init, OwnNeverStale
  <1>2. QED
    BY <1>1, OwnStep, LatencyCompensation, Typing, PTL DEF Spec
----------------------------------------------------------------------------
(* The timer of the online state.  The stream is closed only while the     *)
(* state is unknown: every step that closes it resets the state.           *)

TimerInv == TimerSound /\ (stream = "closed" => net = "unknown")

LEMMA TimerStep == TimerInv /\ [Next]_vars => TimerInv'
  <1> SUFFICES ASSUME TimerInv, [Next]_vars PROVE TimerInv'
    OBVIOUS
  <1> DEFINE Apart == UNCHANGED <<net, stream, timer>>
  <1>0. Apart => TimerInv'
    BY DEF TimerInv, TimerSound
  <1>1. CASE App
    <2>1. Apart
      BY <1>1 DEF App, Get, Set
    <2>2. QED
      BY <1>0, <2>1
  <1>2. CASE Worker
    <2>1. CASE AddListener
      BY <2>1 DEF TimerInv, TimerSound, AddListener
    <2>2. CASE RemoveListener
      BY <2>2 DEF TimerInv, TimerSound, RemoveListener
    <2>3. CASE WriteLocally
      <3>1. Apart
        BY <2>3 DEF WriteLocally
      <3>2. QED
        BY <1>0, <3>1
    <2>4. QED
      BY <1>2, <2>1, <2>2, <2>3 DEF Worker
  <1>3. CASE Network
    <2>1. CASE WriteAcknowledged \/ \E q \in Targets : RemoteEvent(q) \/ ListenRejected(q)
      <3>1. Apart
        BY <2>1 DEF WriteAcknowledged, RemoteEvent, ListenRejected
      <3>2. QED
        BY <1>0, <3>1
    <2>2. CASE StreamOpens
      BY <2>2 DEF TimerInv, TimerSound, StreamOpens
    <2>3. CASE FirstMessage
      BY <2>3 DEF TimerInv, TimerSound, FirstMessage, OnlineStateBecomes
    <2>4. CASE StreamBreaks
      BY <2>4 DEF TimerInv, TimerSound, StreamBreaks, OnlineStateBecomes
    <2>5. CASE StreamEnds
      BY <2>5 DEF TimerInv, TimerSound, StreamEnds, OnlineStateBecomes
    <2>6. CASE OnlineStateTimeout
      BY <2>6 DEF TimerInv, TimerSound, OnlineStateTimeout, OnlineStateBecomes
    <2>7. CASE RestartNetwork
      BY <2>7 DEF TimerInv, TimerSound, RestartNetwork, OnlineStateBecomes
    <2>8. QED
      BY <1>3, <2>1, <2>2, <2>3, <2>4, <2>5, <2>6, <2>7 DEF Network
  <1>4. CASE MainQueue
    <2>1. Apart
      BY <1>4 DEF MainQueue, DropEvent, Deliver
    <2>2. QED
      BY <1>0, <2>1
  <1>5. CASE Others
    <2>1. Apart
      BY <1>5 DEF Others, Elsewhere
    <2>2. QED
      BY <1>0, <2>1
  <1>6. CASE UNCHANGED vars
    BY <1>0, <1>6 DEF vars, storeVars
  <1>7. QED
    BY <1>1, <1>2, <1>3, <1>4, <1>5, <1>6 DEF Next

\* The two assertions of the online state tracker never fail.
THEOREM TimerAsserts == Spec => []TimerSound
  <1>1. Init => TimerInv
    BY DEF Init, TimerInv, TimerSound
  <1>2. TimerInv => TimerSound
    BY DEF TimerInv
  <1>3. QED
    BY <1>1, <1>2, TimerStep, PTL DEF Spec

----------------------------------------------------------------------------
(***************************************************************************)
(* Theorems about the answers of the Firestore client: every listener that *)
(* may be told is told, no event is lost, and reads are answered once and  *)
(* in order; for every set of users and places and every bound.            *)
(***************************************************************************)

(* Listeners that may be told.                                             *)

\* Listeners and their reads are where they were.
LEMMA ListenerTypes ==
  ASSUME TypeOK
  PROVE  /\ Len(calls) \in Nat /\ Len(calls) <= MaxCalls /\ MaxCalls \in Nat
         /\ listening \subseteq 1..Len(calls) /\ 1..Len(calls) \subseteq Calls
         /\ listening \subseteq Calls
  BY LenProperties, MaxCallsAssumption DEF TypeOK, Calls

LEMMA OnlineStateWakes ==
  ASSUME NoLostWakeup, NEW state, OnlineStateBecomes(state), UNCHANGED <<calls, listening>>
  PROVE  NoLostWakeup'
  BY DEF NoLostWakeup, OnlineStateBecomes, ToldOffline, MayRaise

LEMMA WakeupStep == TypeOK /\ NoLostWakeup /\ [Next]_vars => NoLostWakeup'
  <1> SUFFICES ASSUME TypeOK, NoLostWakeup, [Next]_vars PROVE NoLostWakeup'
    OBVIOUS
  <1>1. ASSUME NEW q, Get(q) PROVE NoLostWakeup'
    <2>1. \A c \in listening : calls'[c] = calls[c]
      BY <1>1, ListenerTypes DEF Get, TypeOK
    <2>2. QED
      BY <1>1, <2>1 DEF Get, NoLostWakeup, MayRaise
  <1>2. CASE AddListener
    BY <1>2 DEF AddListener, NoLostWakeup, MayRaise
  <1>3. CASE RemoveListener
    BY <1>3 DEF RemoveListener, NoLostWakeup, MayRaise
  <1>4. ASSUME NEW q \in Targets, RemoteEvent(q) PROVE NoLostWakeup'
    BY <1>4 DEF RemoteEvent, NoLostWakeup, MayRaise
  <1>5. ASSUME NEW q \in Targets, ListenRejected(q) PROVE NoLostWakeup'
    BY <1>5 DEF ListenRejected, NoLostWakeup, MayRaise
  <1>6. CASE FirstMessage \/ StreamEnds \/ OnlineStateTimeout \/ RestartNetwork
    BY <1>6, OnlineStateWakes DEF FirstMessage, StreamEnds, OnlineStateTimeout, RestartNetwork
  <1>7. CASE StreamBreaks
    <2>1. CASE net = "offline"
      BY <1>7, <2>1 DEF StreamBreaks, NoLostWakeup, MayRaise
    <2>2. CASE net # "offline"
      BY <1>7, <2>2, OnlineStateWakes DEF StreamBreaks
    <2>3. QED
      BY <2>1, <2>2
  <1>8. CASE UNCHANGED <<listening, calls, net, synced, raised>>
    BY <1>8 DEF NoLostWakeup, MayRaise
  <1>9. \/ \E q \in Queries : Get(q)
        \/ AddListener \/ RemoveListener
        \/ \E q \in Targets : RemoteEvent(q) \/ ListenRejected(q)
        \/ FirstMessage \/ StreamEnds \/ OnlineStateTimeout \/ RestartNetwork \/ StreamBreaks
        \/ UNCHANGED <<listening, calls, net, synced, raised>>
    BY DEF Next, App, Set, Worker, WriteLocally, Network, WriteAcknowledged, StreamOpens,
           MainQueue, DropEvent, Deliver, Others, Elsewhere, vars, storeVars
  <1>10. QED
    BY <1>1, <1>2, <1>3, <1>4, <1>5, <1>6, <1>7, <1>8, <1>9

\* No listener waits although it may be told (FirestoreClient.NoLostWakeup).
THEOREM Wakeups == Spec => []NoLostWakeup
  <1>1. Init => NoLostWakeup
    BY DEF Init, NoLostWakeup
  <1>2. QED
    BY <1>1, WakeupStep, Typing, PTL DEF Spec

----------------------------------------------------------------------------
(* The queues.                                                             *)

\* The listener of read c waits to be registered.
Waits(c) == \E i \in 1..Len(workerQ) : workerQ[i].op = "listen" /\ workerQ[i].call = c

\* An event for read c waits to be delivered.
Queued(c) == \E i \in 1..Len(mainQ) : c \in mainQ[i].calls

LEMMA PostQueue ==
  ASSUME mainQ \in Seq(Event), NEW S, NEW docs, NEW ok, Post(S, docs, ok)
  PROVE  /\ Len(mainQ) \in Nat /\ Len(mainQ') \in Nat
         /\ \A i \in 1..Len(mainQ) : i \in 1..Len(mainQ') /\ mainQ'[i] = mainQ[i]
         /\ \A i \in 1..Len(mainQ') :
              \/ i \in 1..Len(mainQ)
              \/ /\ i = Len(mainQ) + 1 /\ i = Len(mainQ')
                 /\ mainQ'[i].calls = S /\ mainQ'[i].ok = ok /\ mainQ'[i].docs = docs
         /\ S # {} => /\ Len(mainQ) + 1 \in 1..Len(mainQ')
                      /\ mainQ'[Len(mainQ) + 1].calls = S
  <1> DEFINE e == [calls |-> S, docs |-> docs, ok |-> ok]
  <1>1. e.calls = S /\ e.ok = ok /\ e.docs = docs
    OBVIOUS
  <1>2. mainQ' = IF S = {} THEN mainQ ELSE Append(mainQ, e)
    BY DEF Post
  <1> HIDE DEF e
  <1>3. QED
    BY <1>1, <1>2

\* Event i of the queue was event i + k before, and only read c was taken from it.
Shifted(k, c) ==
  /\ Len(mainQ) \in Nat /\ Len(mainQ') \in Nat
  /\ \A i \in 1..Len(mainQ') :
       /\ i + k \in 1..Len(mainQ) /\ mainQ'[i].ok = mainQ[i + k].ok
       /\ mainQ'[i].docs = mainQ[i + k].docs
       /\ mainQ'[i].calls \subseteq mainQ[i + k].calls
       /\ c \in mainQ'[i].calls => i + k # 1
  /\ \A i \in 1..Len(mainQ) : \A d : d # c /\ d \in mainQ[i].calls =>
       i - k \in 1..Len(mainQ') /\ d \in mainQ'[i - k].calls

LEMMA PopQueue ==
  ASSUME mainQ \in Seq(Event), mainQ # <<>>, NEW c, Pop(c)
  PROVE  \E k \in {0, 1} : Shifted(k, c)
  <1>1. /\ Len(mainQ) \in Nat \ {0} /\ Tail(mainQ) \in Seq(Event) /\ Head(mainQ) = mainQ[1]
        /\ Len(Tail(mainQ)) = Len(mainQ) - 1
        /\ \A i \in 1..Len(mainQ) - 1 : Tail(mainQ)[i] = mainQ[i + 1]
    OBVIOUS
  <1>2. CASE Head(mainQ).calls = {c}
    <2>1. mainQ' = Tail(mainQ)
      BY <1>2 DEF Pop
    <2>2. /\ \A i \in 1..Len(mainQ') :
                /\ i + 1 \in 1..Len(mainQ) /\ mainQ'[i].ok = mainQ[i + 1].ok
                /\ mainQ'[i].docs = mainQ[i + 1].docs
                /\ mainQ'[i].calls \subseteq mainQ[i + 1].calls
                /\ i + 1 # 1
      BY <1>1, <2>1
    <2>3. ASSUME NEW i \in 1..Len(mainQ), NEW d, d # c, d \in mainQ[i].calls
          PROVE  i - 1 \in 1..Len(mainQ') /\ d \in mainQ'[i - 1].calls
      <3>1. i # 1
        BY <1>1, <1>2, <2>3
      <3>2. i - 1 \in 1..Len(mainQ) - 1 /\ (i - 1) + 1 = i
        BY <1>1, <3>1
      <3>3. QED
        BY <1>1, <2>1, <2>3, <3>2
    <2>4. Len(mainQ) \in Nat /\ Len(mainQ') \in Nat
      BY <1>1, <2>1
    <2>5. Shifted(1, c)
      BY <2>2, <2>3, <2>4 DEF Shifted
    <2>6. QED
      BY <2>5
  <1>3. CASE Head(mainQ).calls # {c}
    <2> DEFINE e == [Head(mainQ) EXCEPT !.calls = @ \ {c}]
    <2>1. Head(mainQ) \in Event
      BY HeadTailProperties
    <2>2. e \in Event /\ e.ok = mainQ[1].ok /\ e.docs = mainQ[1].docs /\ e.calls = mainQ[1].calls \ {c}
      BY <1>1, <2>1 DEF Event
    <2>3. mainQ' = <<e>> \o Tail(mainQ)
      BY <1>3 DEF Pop
    <2> HIDE DEF e
    <2>4. /\ Len(mainQ') = Len(mainQ) /\ mainQ'[1] = e
          /\ \A i \in 2..Len(mainQ) : mainQ'[i] = mainQ[i]
      <3>1. <<e>> \in Seq(Event) /\ Len(<<e>>) = 1 /\ <<e>>[1] = e
        BY <2>2
      <3>2. /\ Len(mainQ') = Len(<<e>>) + Len(Tail(mainQ))
            /\ \A i \in 1..Len(<<e>>) + Len(Tail(mainQ)) :
                 mainQ'[i] = IF i <= Len(<<e>>) THEN <<e>>[i] ELSE Tail(mainQ)[i - Len(<<e>>)]
        BY <1>1, <2>3, <3>1, ConcatProperties
      <3>3. Len(mainQ') = Len(mainQ) /\ mainQ'[1] = e
        BY <1>1, <3>1, <3>2
      <3>4. ASSUME NEW i \in 2..Len(mainQ) PROVE mainQ'[i] = mainQ[i]
        <4>1. i - 1 \in 1..Len(mainQ) - 1 /\ (i - 1) + 1 = i /\ ~(i <= 1) /\ i \in 1..Len(mainQ)
          BY <1>1
        <4>2. mainQ'[i] = Tail(mainQ)[i - 1]
          BY <1>1, <3>1, <3>2, <4>1
        <4>3. QED
          BY <1>1, <4>1, <4>2
      <3>5. QED
        BY <3>3, <3>4
    <2>5. \A i \in 1..Len(mainQ) : i = 1 \/ i \in 2..Len(mainQ)
      BY <1>1
    <2>6. \A i \in 1..Len(mainQ') :
            /\ i + 0 \in 1..Len(mainQ) /\ mainQ'[i].ok = mainQ[i + 0].ok
            /\ mainQ'[i].docs = mainQ[i + 0].docs
            /\ mainQ'[i].calls \subseteq mainQ[i + 0].calls
            /\ c \in mainQ'[i].calls => i + 0 # 1
      <3> SUFFICES ASSUME NEW i \in 1..Len(mainQ)
                   PROVE  /\ mainQ'[i].ok = mainQ[i].ok /\ mainQ'[i].docs = mainQ[i].docs
                          /\ mainQ'[i].calls \subseteq mainQ[i].calls
                          /\ c \in mainQ'[i].calls => i # 1
        BY <1>1, <2>4
      <3>1. CASE i = 1
        BY <2>2, <2>4, <3>1
      <3>2. CASE i \in 2..Len(mainQ)
        BY <2>4, <3>2
      <3>3. QED
        BY <2>5, <3>1, <3>2
    <2>7. \A i \in 1..Len(mainQ) : \A d : d # c /\ d \in mainQ[i].calls =>
            i - 0 \in 1..Len(mainQ') /\ d \in mainQ'[i - 0].calls
      <3> SUFFICES ASSUME NEW i \in 1..Len(mainQ), NEW d, d # c, d \in mainQ[i].calls
                   PROVE  d \in mainQ'[i].calls
        BY <1>1, <2>4
      <3>1. CASE i = 1
        BY <2>2, <2>4, <3>1
      <3>2. CASE i \in 2..Len(mainQ)
        BY <2>4, <3>2
      <3>3. QED
        BY <2>5, <3>1, <3>2
    <2>8. Len(mainQ) \in Nat /\ Len(mainQ') \in Nat
      BY <1>1, <2>4
    <2>9. Shifted(0, c)
      BY <2>6, <2>7, <2>8 DEF Shifted
    <2>10. QED
      BY <2>9
  <1>4. QED
    BY <1>2, <1>3

\* The worker queue, its head taken.
LEMMA NextWork ==
  ASSUME TypeOK, workerQ # <<>>, workerQ' = Tail(workerQ)
  PROVE  /\ Len(workerQ) \in Nat \ {0} /\ Len(workerQ') = Len(workerQ) - 1
         /\ Head(workerQ) = workerQ[1]
         /\ \A i \in 1..Len(workerQ') : /\ i + 1 \in 1..Len(workerQ)
                                        /\ workerQ'[i] = workerQ[i + 1]
         /\ \A i \in 1..Len(workerQ) : i # 1 =>
              i - 1 \in 1..Len(workerQ') /\ workerQ'[i - 1] = workerQ[i]
  <1>1. /\ workerQ \in Seq(Asked) /\ Len(workerQ) \in Nat \ {0}
        /\ Head(workerQ) = workerQ[1] /\ Len(workerQ') = Len(workerQ) - 1
        /\ \A i \in 1..Len(workerQ) - 1 : workerQ'[i] = workerQ[i + 1]
    BY DEF TypeOK
  <1>2. \A i \in 1..Len(workerQ') : i + 1 \in 1..Len(workerQ) /\ workerQ'[i] = workerQ[i + 1]
    BY <1>1
  <1>3. ASSUME NEW i \in 1..Len(workerQ), i # 1
        PROVE  i - 1 \in 1..Len(workerQ') /\ workerQ'[i - 1] = workerQ[i]
    <2>1. i - 1 \in 1..Len(workerQ) - 1 /\ (i - 1) + 1 = i
      BY <1>1, <1>3
    <2>2. QED
      BY <1>1, <2>1
  <1>4. QED
    BY <1>1, <1>2, <1>3

----------------------------------------------------------------------------
(* The steps.                                                              *)

\* Work of the worker that registers no listener: taken, or enqueued.
WorkTaken ==
  \/ workerQ' = workerQ
  \/ workerQ # <<>> /\ Head(workerQ).op # "listen" /\ workerQ' = Tail(workerQ)

OtherWork == WorkTaken \/ \E o : o.op # "listen" /\ workerQ' = Append(workerQ, o)

\* The listeners in S raise an event.
Raise(S) ==
  /\ \E docs : Post(S, docs, TRUE)
  /\ raised' = raised \cup S
  /\ UNCHANGED <<calls, answers, listening, muted>>
  /\ WorkTaken

\* Of two listeners of one query, the earlier one raised its first event first.
RaisedInOrder ==
  \A c \in raised, d \in listening : d < c /\ calls[d] = calls[c] => d \in raised

\* Listeners raise an event with those of their query that were there before them
\* and have not raised one.
EarlierFirst(S) ==
  \A c \in S, d \in listening : d < c /\ calls[d] = calls[c] => d \in S \/ d \in raised

LEMMA ToldInOrder ==
  ASSUME RaisedInOrder, NEW D
  PROVE  EarlierFirst(Told(D))
  BY DEF RaisedInOrder, EarlierFirst, Told, MayRaise

LEMMA OnlineStateRaises ==
  ASSUME TypeOK, NEW state, OnlineStateBecomes(state),
         UNCHANGED <<calls, answers, listening, muted, workerQ>>
  PROVE  \E S \in SUBSET listening : Raise(S) /\ EarlierFirst(S)
  <1>1. CASE state = "offline"
    <2>1. Raise(ToldOffline) /\ ToldOffline \in SUBSET listening
      BY <1>1, ListenersAreCalls DEF OnlineStateBecomes, Raise, WorkTaken
    <2>2. EarlierFirst(ToldOffline)
      BY DEF EarlierFirst, ToldOffline
    <2>3. QED
      BY <2>1, <2>2
  <1>2. CASE state # "offline"
    <2>1. Raise({}) /\ EarlierFirst({})
      BY <1>2 DEF OnlineStateBecomes, Raise, WorkTaken, Post, EarlierFirst
    <2>2. QED
      BY <2>1
  <1>3. QED
    BY <1>1, <1>2

\* What the other steps do to the queues, the listeners and the answers.
LEMMA StepKinds ==
  ASSUME TypeOK, NoLostWakeup, [Next]_vars
  PROVE  \/ \E q \in Queries : Get(q)
         \/ \E u \in Users, p \in Places : Set(u, p)
         \/ AddListener \/ RemoveListener
         \/ \E q \in Targets : ListenRejected(q)
         \/ \E c \in 1..Len(calls) : DropEvent(c) \/ Deliver(c, <<>>)
         \/ \E S \in SUBSET listening : Raise(S) /\ (RaisedInOrder => EarlierFirst(S))
  <1> DEFINE R == \E S \in SUBSET listening : Raise(S) /\ (RaisedInOrder => EarlierFirst(S))
  <1>1. ASSUME UNCHANGED <<mainQ, raised, calls, answers, listening, muted, workerQ>> PROVE R
    <2>1. Raise({}) /\ EarlierFirst({})
      BY <1>1 DEF Raise, WorkTaken, Post, EarlierFirst
    <2>2. QED
      BY <2>1
  <1>2. CASE WriteLocally
    <2> DEFINE S == Told(Head(workerQ).docs)
    <2>1. S \subseteq listening /\ S \subseteq raised
      BY DEF Told, NoLostWakeup
    <2>2. \E docs : Post(S, docs, TRUE)
      BY <1>2 DEF WriteLocally
    <2>3. UNCHANGED <<raised, calls, answers, listening, muted>> /\ WorkTaken
      BY <1>2 DEF WriteLocally, WorkTaken
    <2>4. RaisedInOrder => EarlierFirst(S)
      BY ToldInOrder
    <2> HIDE DEF S
    <2>5. QED
      BY <2>1, <2>2, <2>3, <2>4 DEF Raise
  <1>3. ASSUME NEW q \in Targets, RemoteEvent(q) PROVE R
    <2> DEFINE seen == Refreshed(local, q, server, pending)
               changed == {u \in Users : seen[u] # local[u]}
               S == Told(changed) \cup
                    (IF q \in synced THEN {} ELSE {c \in listening : calls[c] = q})
    <2>1. S \subseteq listening
      BY DEF Told
    <2>2. Post(S, seen, TRUE) /\ raised' = raised \cup S
          /\ UNCHANGED <<calls, answers, listening, muted, workerQ>>
      BY <1>3 DEF RemoteEvent
    <2>3. RaisedInOrder => EarlierFirst(S)
      BY ToldInOrder DEF EarlierFirst
    <2> HIDE DEF S, seen
    <2>4. QED
      BY <2>1, <2>2, <2>3 DEF Raise, WorkTaken
  <1>4. CASE FirstMessage \/ StreamEnds \/ OnlineStateTimeout \/ RestartNetwork
    BY <1>4, OnlineStateRaises DEF FirstMessage, StreamEnds, OnlineStateTimeout, RestartNetwork
  <1>5. CASE StreamBreaks
    <2>1. CASE net = "offline"
      BY <1>1, <1>5, <2>1 DEF StreamBreaks
    <2>2. CASE net # "offline"
      BY <1>5, <2>2, OnlineStateRaises DEF StreamBreaks
    <2>3. QED
      BY <2>1, <2>2
  <1>6. CASE WriteAcknowledged \/ StreamOpens \/ Others \/ UNCHANGED vars
    BY <1>1, <1>6 DEF WriteAcknowledged, StreamOpens, Others, Elsewhere, vars, storeVars
  <1> HIDE DEF R
  <1>7. \/ \E q \in Queries : Get(q)
        \/ \E u \in Users, p \in Places : Set(u, p)
        \/ AddListener \/ RemoveListener \/ WriteLocally
        \/ \E q \in Targets : RemoteEvent(q) \/ ListenRejected(q)
        \/ FirstMessage \/ StreamEnds \/ OnlineStateTimeout \/ RestartNetwork \/ StreamBreaks
        \/ WriteAcknowledged \/ StreamOpens \/ Others \/ UNCHANGED vars
        \/ \E c \in 1..Len(calls) : DropEvent(c) \/ Deliver(c, <<>>)
    BY DEF Next, App, Worker, Network, MainQueue
  <1>8. QED
    BY <1>2, <1>3, <1>4, <1>5, <1>6, <1>7 DEF R

\* An event that is posted leaves the others where they are.
LEMMA PostKeeps ==
  ASSUME TypeOK, NEW S, NEW docs, NEW ok, Post(S, docs, ok)
  PROVE  /\ \A c : Queued(c) => Queued(c)'
         /\ \A c \in S : Queued(c)'
         /\ \A c : Queued(c)' => Queued(c) \/ c \in S
  <1>1. mainQ \in Seq(Event)
    BY DEF TypeOK
  <1>2. /\ \A i \in 1..Len(mainQ) : i \in 1..Len(mainQ') /\ mainQ'[i] = mainQ[i]
        /\ \A i \in 1..Len(mainQ') : i \in 1..Len(mainQ) \/ mainQ'[i].calls = S
        /\ S # {} => Len(mainQ) + 1 \in 1..Len(mainQ') /\ mainQ'[Len(mainQ) + 1].calls = S
    BY <1>1, PostQueue
  <1>3. ASSUME NEW c, Queued(c) PROVE Queued(c)'
    BY <1>2, <1>3 DEF Queued
  <1>4. ASSUME NEW c \in S PROVE Queued(c)'
    BY <1>2, <1>4 DEF Queued
  <1>5. ASSUME NEW c, Queued(c)' PROVE Queued(c) \/ c \in S
    BY <1>2, <1>5 DEF Queued
  <1>6. QED
    BY <1>3, <1>4, <1>5

\* The event delivered is the only one to go.
LEMMA PopKeeps ==
  ASSUME TypeOK, mainQ # <<>>, NEW c, Pop(c)
  PROVE  /\ \A d : d # c /\ Queued(d) => Queued(d)'
         /\ \A d : Queued(d)' => Queued(d)
  <1>1. mainQ \in Seq(Event)
    BY DEF TypeOK
  <1>pop. PICK k \in {0, 1} : Shifted(k, c)
    BY <1>1, PopQueue
  <1>2. /\ \A i \in 1..Len(mainQ') :
             i + k \in 1..Len(mainQ) /\ mainQ'[i].calls \subseteq mainQ[i + k].calls
        /\ \A i \in 1..Len(mainQ) : \A d : d # c /\ d \in mainQ[i].calls =>
             i - k \in 1..Len(mainQ') /\ d \in mainQ'[i - k].calls
    BY <1>pop DEF Shifted
  <1>3. ASSUME NEW d, d # c, Queued(d) PROVE Queued(d)'
    <2>1. PICK i \in 1..Len(mainQ) : d \in mainQ[i].calls
      BY <1>3 DEF Queued
    <2>2. i - k \in 1..Len(mainQ') /\ d \in mainQ'[i - k].calls
      BY <1>2, <1>3, <2>1
    <2>3. QED
      BY <2>2 DEF Queued
  <1>4. ASSUME NEW d, Queued(d)' PROVE Queued(d)
    <2>1. PICK i \in 1..Len(mainQ') : d \in mainQ'[i].calls
      BY <1>4 DEF Queued
    <2>2. i + k \in 1..Len(mainQ) /\ d \in mainQ[i + k].calls
      BY <1>2, <2>1
    <2>3. QED
      BY <2>2 DEF Queued
  <1>5. QED
    BY <1>3, <1>4

----------------------------------------------------------------------------
(* Events.                                                                 *)

LEMMA EventStep == TypeOK /\ NoLostWakeup /\ NoLostEvent /\ [Next]_vars => NoLostEvent'
  <1> SUFFICES ASSUME TypeOK, NoLostWakeup, NoLostEvent, [Next]_vars PROVE NoLostEvent'
    OBVIOUS
  <1> DEFINE Heard(c) == c \in muted \/ answers[c] > 0 \/ Queued(c)
  <1>1. \A c \in raised : Heard(c)
    BY DEF NoLostEvent, Queued
  <1>2. ASSUME \A c \in raised' : c \in muted' \/ answers'[c] > 0 \/ Queued(c)'
        PROVE  NoLostEvent'
    BY <1>2 DEF NoLostEvent, Queued
  <1>3. ASSUME NEW S, NEW docs, NEW ok, Post(S, docs, ok), raised' \subseteq raised \cup S,
               UNCHANGED <<answers, muted>>
        PROVE  NoLostEvent'
    BY <1>1, <1>2, <1>3, PostKeeps
  <1>4. CASE AddListener
    <2>1. PICK S : Post(S, local, TRUE) /\ raised' = raised \cup S
      BY <1>4 DEF AddListener
    <2>2. QED
      BY <1>3, <1>4, <2>1 DEF AddListener
  <1>5. ASSUME NEW q \in Targets, ListenRejected(q) PROVE NoLostEvent'
    <2>1. PICK S : Post(S, NoDocs, FALSE)
      BY <1>5 DEF ListenRejected
    <2>2. QED
      BY <1>3, <1>5, <2>1 DEF ListenRejected
  <1>6. ASSUME NEW S \in SUBSET listening, Raise(S) PROVE NoLostEvent'
    BY <1>3, <1>6 DEF Raise
  <1>7. ASSUME NEW c \in 1..Len(calls), DropEvent(c) \/ Deliver(c, <<>>) PROVE NoLostEvent'
    <2>1. mainQ # <<>> /\ Pop(c) /\ raised' = raised /\ muted \subseteq muted'
      BY <1>7 DEF DropEvent, Deliver, FirstEvent, Mute
    <2>2. c \in muted' \/ answers'[c] > 0
      <3>1. answers[c] \in Nat /\ c \in Calls
        BY ListenerTypes DEF TypeOK
      <3>2. CASE DropEvent(c)
        BY <3>2 DEF DropEvent
      <3>3. CASE Deliver(c, <<>>)
        <4>1. answers'[c] = answers[c] + 1
          BY <3>1, <3>3 DEF Deliver, TypeOK
        <4>2. QED
          BY <3>1, <4>1
      <3>4. QED
        BY <1>7, <3>2, <3>3
    <2>3. \A d \in Calls : d # c => answers'[d] = answers[d]
      BY <1>7 DEF DropEvent, Deliver, TypeOK
    <2>4. raised \subseteq Calls
      BY ListenerTypes DEF TypeOK
    <2>5. QED
      BY <1>1, <1>2, <2>1, <2>2, <2>3, <2>4, PopKeeps
  <1>8. CASE RemoveListener \/ (\E q \in Queries : Get(q))
             \/ (\E u \in Users, p \in Places : Set(u, p))
    <2>1. UNCHANGED <<raised, muted, answers, mainQ>>
      BY <1>8 DEF RemoveListener, Get, Set
    <2>2. QED
      BY <2>1 DEF NoLostEvent
  <1>9. QED
    BY <1>4, <1>5, <1>6, <1>7, <1>8, StepKinds

\* A listener that has raised an event is answered, muted, or its event waits
\* (FirestoreClient.NoLostEvent).
THEOREM EventsKept == Spec => []NoLostEvent
  <1>1. Init => NoLostEvent
    BY DEF Init, NoLostEvent
  <1>2. QED
    BY <1>1, EventStep, Wakeups, Typing, PTL DEF Spec

----------------------------------------------------------------------------
(* Listeners that wait to be registered.                                   *)

\* The listeners are enqueued in the order of their reads.
ListensSorted ==
  \A i, j \in 1..Len(workerQ) :
    i < j /\ workerQ[i].op = "listen" /\ workerQ[j].op = "listen" =>
      workerQ[i].call < workerQ[j].call

\* Nothing has happened to a read whose listener waits, or that is not made, and
\* the listeners that wait are the last.
WaitingInv ==
  /\ ListensSorted
  /\ \A c \in Calls : Waits(c) =>
       answers[c] = 0 /\ c \notin listening /\ c \notin raised /\ ~Queued(c)
  /\ \A c \in Calls : answers[c] > 0 \/ Queued(c) => c <= Len(calls)
  /\ \A d, c \in 1..Len(calls) : d < c /\ Waits(d) => Waits(c)

LEMMA OtherWorkWaits ==
  ASSUME TypeOK, OtherWork
  PROVE  /\ \A c : Waits(c)' <=> Waits(c)
         /\ ListensSorted => ListensSorted'
  <1>1. CASE workerQ' = workerQ
    BY <1>1 DEF Waits, ListensSorted
  <1>2. CASE workerQ # <<>> /\ Head(workerQ).op # "listen" /\ workerQ' = Tail(workerQ)
    <2>1. /\ Len(workerQ) \in Nat \ {0} /\ Len(workerQ') = Len(workerQ) - 1
          /\ workerQ[1].op # "listen"
          /\ \A i \in 1..Len(workerQ') : i + 1 \in 1..Len(workerQ) /\ workerQ'[i] = workerQ[i + 1]
          /\ \A i \in 1..Len(workerQ) : i # 1 =>
               i - 1 \in 1..Len(workerQ') /\ workerQ'[i - 1] = workerQ[i]
      BY <1>2, NextWork
    <2>2. ASSUME NEW c, Waits(c) PROVE Waits(c)'
      BY <2>1, <2>2 DEF Waits
    <2>3. ASSUME NEW c, Waits(c)' PROVE Waits(c)
      BY <2>1, <2>3 DEF Waits
    <2>4. ASSUME ListensSorted PROVE ListensSorted'
      <3> SUFFICES ASSUME NEW i \in 1..Len(workerQ'), NEW j \in 1..Len(workerQ'), i < j,
                          workerQ'[i].op = "listen", workerQ'[j].op = "listen"
                   PROVE  workerQ'[i].call < workerQ'[j].call
        BY DEF ListensSorted
      <3>1. i + 1 \in 1..Len(workerQ) /\ j + 1 \in 1..Len(workerQ) /\ i + 1 < j + 1
        BY <2>1
      <3>2. workerQ'[i] = workerQ[i + 1] /\ workerQ'[j] = workerQ[j + 1]
        BY <2>1
      <3>3. QED
        BY <2>4, <3>1, <3>2 DEF ListensSorted
    <2>5. QED
      BY <2>2, <2>3, <2>4
  <1>3. ASSUME NEW o, o.op # "listen", workerQ' = Append(workerQ, o)
        PROVE  /\ \A c : Waits(c)' <=> Waits(c)
               /\ ListensSorted => ListensSorted'
    <2> DEFINE n == Len(workerQ)
    <2>1. /\ n \in Nat /\ Len(workerQ') = n + 1 /\ workerQ'[n + 1] = o
          /\ \A i \in 1..n : workerQ'[i] = workerQ[i] /\ i \in 1..n + 1
      BY <1>3 DEF TypeOK
    <2>2. \A i \in 1..Len(workerQ') : i \in 1..n \/ i = n + 1
      BY <2>1
    <2> HIDE DEF n
    <2>3. ASSUME NEW c, Waits(c) PROVE Waits(c)'
      BY <2>1, <2>3 DEF Waits, n
    <2>4. ASSUME NEW c, Waits(c)' PROVE Waits(c)
      BY <1>3, <2>1, <2>2, <2>4 DEF Waits, n
    <2>5. ASSUME ListensSorted PROVE ListensSorted'
      BY <1>3, <2>1, <2>2, <2>5 DEF ListensSorted, n
    <2>6. QED
      BY <2>3, <2>4, <2>5
  <1>4. QED
    BY <1>1, <1>2, <1>3 DEF OtherWork, WorkTaken

\* A step that registers nobody, and posts events for registered listeners only.
LEMMA WaitingApart ==
  ASSUME TypeOK, WaitingInv, OtherWork, calls' = calls,
         \A c \in Calls : Queued(c)' => Queued(c) \/ c \in listening,
         listening' \subseteq listening, raised' \subseteq raised \cup listening,
         \A c \in Calls : answers'[c] # answers[c] => Queued(c)
  PROVE  WaitingInv'
  <1>1. (\A c : Waits(c)' <=> Waits(c)) /\ ListensSorted'
    BY OtherWorkWaits DEF WaitingInv
  <1>2. ASSUME NEW c \in Calls, Waits(c)'
        PROVE  answers'[c] = 0 /\ c \notin listening' /\ c \notin raised' /\ ~Queued(c)'
    <2>1. answers[c] = 0 /\ c \notin listening /\ c \notin raised /\ ~Queued(c)
      BY <1>1, <1>2 DEF WaitingInv
    <2>2. QED
      BY <2>1
  <1>3. ASSUME NEW c \in Calls, answers'[c] > 0 \/ Queued(c)'
        PROVE  c <= Len(calls')
    <2>1. answers[c] > 0 \/ Queued(c) \/ c \in listening
      BY <1>3
    <2>2. c \in listening => c <= Len(calls)
      BY ListenerTypes
    <2>3. QED
      BY <2>1, <2>2 DEF WaitingInv
  <1>4. \A d, c \in 1..Len(calls') : d < c /\ Waits(d)' => Waits(c)'
    BY <1>1 DEF WaitingInv
  <1>5. QED
    BY <1>1, <1>2, <1>3, <1>4 DEF WaitingInv

\* A read that is made waits, and is the last.
LEMMA GetWork ==
  ASSUME TypeOK, NEW q, Get(q)
  PROVE  /\ Len(calls) \in Nat /\ Len(calls') = Len(calls) + 1 /\ Len(calls) + 1 \in Calls
         /\ \A c \in 1..Len(calls') : c \in 1..Len(calls) \/ c = Len(calls) + 1
         /\ \A c \in 1..Len(calls) : c \in 1..Len(calls') /\ calls'[c] = calls[c]
         /\ \A c : Waits(c)' <=> Waits(c) \/ c = Len(calls) + 1
         /\ ListensSorted => ListensSorted'
  <1> DEFINE n == Len(workerQ)
             m == Len(calls)
             o == Listen(m + 1)
  <1>1. /\ n \in Nat /\ Len(workerQ') = n + 1 /\ workerQ'[n + 1] = o
        /\ \A i \in 1..n : workerQ'[i] = workerQ[i] /\ i \in 1..n + 1
    BY DEF Get, TypeOK
  <1>2. \A i \in 1..Len(workerQ') : i \in 1..n \/ i = n + 1
    BY <1>1
  <1>3. m \in Nat /\ Len(calls') = m + 1 /\ m + 1 \in Calls
        /\ \A c \in 1..m + 1 : c \in 1..m \/ c = m + 1
    BY ListenerTypes DEF Get, TypeOK, Calls
  <1>4. \A c \in 1..m : c \in 1..m + 1 /\ calls'[c] = calls[c]
    BY ListenerTypes DEF Get, TypeOK
  <1>5. o.op = "listen" /\ o.call = m + 1
    BY DEF Listen
  <1>6. \A i \in 1..n : workerQ[i].op = "listen" => workerQ[i].call \in 1..m
    <2>1. \A i \in 1..n : workerQ[i] \in Asked
      BY ElementOfSeq DEF TypeOK
    <2>2. QED
      BY <2>1 DEF Asked, Mutation
  <1> HIDE DEF n, m, o
  <1>7. ASSUME NEW c PROVE Waits(c)' <=> Waits(c) \/ c = m + 1
    <2>1. Waits(c) => Waits(c)'
      BY <1>1 DEF Waits, n
    <2>2. c = m + 1 => Waits(c)'
      <3>1. n + 1 \in 1..Len(workerQ')
        BY <1>1
      <3>2. QED
        BY <1>1, <1>5, <3>1 DEF Waits
    <2>3. Waits(c)' => Waits(c) \/ c = m + 1
      BY <1>1, <1>2, <1>5 DEF Waits, n
    <2>4. QED
      BY <2>1, <2>2, <2>3
  <1>8. ASSUME ListensSorted PROVE ListensSorted'
    <2> SUFFICES ASSUME NEW i \in 1..Len(workerQ'), NEW j \in 1..Len(workerQ'), i < j,
                        workerQ'[i].op = "listen", workerQ'[j].op = "listen"
                 PROVE  workerQ'[i].call < workerQ'[j].call
      BY DEF ListensSorted
    <2>1. i \in 1..n
      BY <1>1, <1>2
    <2>2. CASE j \in 1..n
      BY <1>1, <1>8, <2>1, <2>2 DEF ListensSorted, n
    <2>3. CASE j = n + 1
      <3>1. workerQ'[i].call \in 1..m
        BY <1>1, <1>6, <2>1
      <3>2. workerQ'[j].call = m + 1
        BY <1>1, <1>5, <2>3
      <3>3. QED
        BY <1>3, <3>1, <3>2
    <2>4. QED
      BY <1>2, <2>2, <2>3
  <1>9. QED
    BY <1>3, <1>4, <1>7, <1>8 DEF m

LEMMA WaitingGet ==
  ASSUME TypeOK, WaitingInv, NEW q, Get(q)
  PROVE  WaitingInv'
  <1> DEFINE m == Len(calls)
  <1>1. /\ m \in Nat /\ Len(calls') = m + 1 /\ m + 1 \in Calls
        /\ \A c \in 1..Len(calls') : c \in 1..m \/ c = m + 1
        /\ \A c : Waits(c)' <=> Waits(c) \/ c = m + 1
        /\ ListensSorted'
    BY GetWork DEF WaitingInv
  <1>2. UNCHANGED <<answers, listening, raised, mainQ>>
    BY DEF Get
  <1>3. \A c : Queued(c)' <=> Queued(c)
    BY <1>2 DEF Queued
  <1>4. answers[m + 1] = 0 /\ ~Queued(m + 1) /\ m + 1 \notin listening /\ m + 1 \notin raised
    <2>1. ~(m + 1 <= m)
      BY <1>1
    <2>2. answers[m + 1] \in Nat
      BY <1>1 DEF TypeOK
    <2>3. QED
      BY <1>1, <2>1, <2>2 DEF WaitingInv, TypeOK
  <1> HIDE DEF m
  <1>5. ASSUME NEW c \in Calls, Waits(c)'
        PROVE  answers'[c] = 0 /\ c \notin listening' /\ c \notin raised' /\ ~Queued(c)'
    BY <1>1, <1>2, <1>3, <1>4, <1>5 DEF WaitingInv
  <1>6. ASSUME NEW c \in Calls, answers'[c] > 0 \/ Queued(c)'
        PROVE  c <= Len(calls')
    <2>1. c <= m
      BY <1>2, <1>3, <1>6 DEF WaitingInv, m
    <2>2. QED
      BY <1>1, <2>1 DEF Calls
  <1>7. ASSUME NEW d \in 1..Len(calls'), NEW c \in 1..Len(calls'), d < c, Waits(d)'
        PROVE  Waits(c)'
    <2>1. d \in 1..m
      BY <1>1, <1>7
    <2>2. Waits(d)
      BY <1>1, <1>7, <2>1
    <2>3. QED
      BY <1>1, <1>7, <2>1, <2>2 DEF WaitingInv, m
  <1>8. QED
    BY <1>1, <1>5, <1>6, <1>7 DEF WaitingInv

\* The listener at the head of the worker queue is the first that waits.
LEMMA HeadWaits ==
  ASSUME TypeOK, ListensSorted, workerQ # <<>>, Head(workerQ).op = "listen",
         workerQ' = Tail(workerQ)
  PROVE  /\ Head(workerQ).call \in 1..Len(calls) /\ Head(workerQ).call \in Calls
         /\ Waits(Head(workerQ).call)
         /\ ListensSorted'
         /\ \A x : Waits(x)' => Waits(x) /\ Head(workerQ).call < x
         /\ \A x : Waits(x) /\ x # Head(workerQ).call => Waits(x)'
  <1> DEFINE c == Head(workerQ).call
  <1>1. /\ Len(workerQ) \in Nat \ {0} /\ Len(workerQ') = Len(workerQ) - 1
        /\ workerQ[1].op = "listen" /\ workerQ[1].call = c
        /\ \A i \in 1..Len(workerQ') : i + 1 \in 1..Len(workerQ) /\ workerQ'[i] = workerQ[i + 1]
        /\ \A i \in 1..Len(workerQ) : i # 1 =>
             i - 1 \in 1..Len(workerQ') /\ workerQ'[i - 1] = workerQ[i]
    BY NextWork
  <1>2. c \in 1..Len(calls) /\ c \in Calls
    BY WorkerQueue, ListenerTypes DEF Asked, Mutation
  <1> HIDE DEF c
  <1>3. 1 \in 1..Len(workerQ)
    BY <1>1
  <1>4. Waits(c)
    BY <1>1, <1>3 DEF Waits
  <1>5. ListensSorted'
    <2> SUFFICES ASSUME NEW i \in 1..Len(workerQ'), NEW j \in 1..Len(workerQ'), i < j,
                        workerQ'[i].op = "listen", workerQ'[j].op = "listen"
                 PROVE  workerQ'[i].call < workerQ'[j].call
      BY DEF ListensSorted
    <2>1. i + 1 \in 1..Len(workerQ) /\ j + 1 \in 1..Len(workerQ) /\ i + 1 < j + 1
      BY <1>1
    <2>2. workerQ'[i] = workerQ[i + 1] /\ workerQ'[j] = workerQ[j + 1]
      BY <1>1
    <2>3. QED
      BY <2>1, <2>2 DEF ListensSorted
  <1>6. ASSUME NEW x, Waits(x)' PROVE Waits(x) /\ c < x
    <2>1. PICK i \in 1..Len(workerQ') : workerQ'[i].op = "listen" /\ workerQ'[i].call = x
      BY <1>6 DEF Waits
    <2>2. i + 1 \in 1..Len(workerQ) /\ 1 < i + 1 /\ workerQ[i + 1] = workerQ'[i]
      BY <1>1, <2>1
    <2>3. c < x
      BY <1>1, <1>3, <2>1, <2>2 DEF ListensSorted
    <2>4. QED
      BY <2>1, <2>2, <2>3 DEF Waits
  <1>7. ASSUME NEW x, Waits(x), x # c PROVE Waits(x)'
    <2>1. PICK i \in 1..Len(workerQ) : workerQ[i].op = "listen" /\ workerQ[i].call = x
      BY <1>7 DEF Waits
    <2>2. i # 1
      BY <1>1, <1>7, <2>1
    <2>3. QED
      BY <1>1, <2>1, <2>2 DEF Waits
  <1>8. QED
    BY <1>2, <1>4, <1>5, <1>6, <1>7 DEF c

LEMMA WaitingAdd ==
  ASSUME TypeOK, WaitingInv, AddListener
  PROVE  WaitingInv'
  <1> DEFINE c == Head(workerQ).call
  <1>1. /\ c \in 1..Len(calls) /\ c \in Calls /\ Waits(c) /\ ListensSorted'
        /\ \A x : Waits(x)' => Waits(x) /\ c < x
        /\ \A x : Waits(x) /\ x # c => Waits(x)'
    BY HeadWaits DEF WaitingInv, AddListener
  <1>2. PICK S \in SUBSET {c} : Post(S, local, TRUE) /\ raised' = raised \cup S
    BY DEF AddListener
  <1>3. listening' = listening \cup {c} /\ UNCHANGED <<answers, calls>>
    BY DEF AddListener
  <1> HIDE DEF c
  <1>4. c \in Nat
    BY <1>1
  <1>5. \A x : Queued(x)' => Queued(x) \/ x = c
    BY <1>2, PostKeeps
  <1>6. ASSUME NEW x \in Calls, Waits(x)'
        PROVE  answers'[x] = 0 /\ x \notin listening' /\ x \notin raised' /\ ~Queued(x)'
    <2>1. Waits(x) /\ x # c
      BY <1>1, <1>4, <1>6
    <2>2. QED
      BY <1>2, <1>3, <1>5, <2>1 DEF WaitingInv
  <1>7. ASSUME NEW x \in Calls, answers'[x] > 0 \/ Queued(x)' PROVE x <= Len(calls')
    BY <1>1, <1>3, <1>5, <1>7 DEF WaitingInv
  <1>8. ASSUME NEW d \in 1..Len(calls'), NEW x \in 1..Len(calls'), d < x, Waits(d)'
        PROVE  Waits(x)'
    <2>1. Waits(d) /\ c < d
      BY <1>1, <1>8
    <2>2. Waits(x) /\ x # c
      BY <1>3, <1>4, <1>8, <2>1 DEF WaitingInv
    <2>3. QED
      BY <1>1, <2>2
  <1>9. QED
    BY <1>1, <1>6, <1>7, <1>8 DEF WaitingInv

\* A completion enqueues the removal of its listener, if anything.
LEMMA MainQueueWork ==
  ASSUME TypeOK, NEW c \in 1..Len(calls), DropEvent(c) \/ Deliver(c, <<>>)
  PROVE  /\ OtherWork
         /\ mainQ # <<>> /\ Pop(c) /\ c \in Head(mainQ).calls /\ Queued(c) /\ c \in Calls
         /\ UNCHANGED <<calls, listening, raised>>
         /\ \A d \in Calls : d # c => answers'[d] = answers[d]
  <1>1. mainQ # <<>> /\ Pop(c) /\ c \in Head(mainQ).calls
        /\ UNCHANGED <<calls, listening, raised>>
    BY DEF DropEvent, Deliver, FirstEvent
  <1>2. Queued(c)
    <2>1. 1 \in 1..Len(mainQ) /\ Head(mainQ) = mainQ[1]
      BY <1>1 DEF TypeOK
    <2>2. QED
      BY <1>1, <2>1 DEF Queued
  <1>3. c \in Calls
    BY ListenerTypes
  <1>4. \A d \in Calls : d # c => answers'[d] = answers[d]
    BY DEF DropEvent, Deliver, TypeOK
  <1>5. OtherWork
    <2>1. CASE DropEvent(c)
      BY <2>1 DEF DropEvent, OtherWork, WorkTaken
    <2>2. CASE Deliver(c, <<>>)
      <3> DEFINE o == Unlisten(c)
      <3>1. o \in Asked /\ o.op # "listen"
        BY DEF Unlisten, Asked
      <3>2. workerQ' = (workerQ \o <<o>>) \o <<>> \/ workerQ' = workerQ \o <<>>
        BY <2>2 DEF Deliver
      <3> HIDE DEF o
      <3>3. workerQ \o <<>> = workerQ
        BY DEF TypeOK
      <3>4. workerQ \o <<o>> = Append(workerQ, o) /\ Append(workerQ, o) \in Seq(Asked)
        BY <3>1, AppendIsConcat, AppendProperties DEF TypeOK
      <3>5. Append(workerQ, o) \o <<>> = Append(workerQ, o)
        BY <3>4, ConcatEmptySeq
      <3>6. workerQ' = workerQ \/ workerQ' = Append(workerQ, o)
        BY <3>2, <3>3, <3>4, <3>5
      <3>7. QED
        BY <3>1, <3>6 DEF OtherWork, WorkTaken
    <2>3. QED
      BY <2>1, <2>2
  <1>6. QED
    BY <1>1, <1>2, <1>3, <1>4, <1>5

LEMMA WaitingStep == TypeOK /\ NoLostWakeup /\ WaitingInv /\ [Next]_vars => WaitingInv'
  <1> SUFFICES ASSUME TypeOK, NoLostWakeup, WaitingInv, [Next]_vars PROVE WaitingInv'
    OBVIOUS
  <1>1. ASSUME NEW u, NEW p, Set(u, p) PROVE WaitingInv'
    <2>1. OtherWork
      BY <1>1 DEF Set, OtherWork, WorkTaken, Write
    <2>2. UNCHANGED <<calls, listening, raised, answers, mainQ>>
      BY <1>1 DEF Set
    <2>3. \A c : Queued(c)' => Queued(c)
      BY <2>2 DEF Queued
    <2>4. QED
      BY <2>1, <2>2, <2>3, WaitingApart
  <1>2. CASE RemoveListener
    <2>1. OtherWork
      BY <1>2 DEF RemoveListener, OtherWork, WorkTaken
    <2>2. UNCHANGED <<calls, raised, answers, mainQ>> /\ listening' \subseteq listening
      BY <1>2 DEF RemoveListener
    <2>3. \A c : Queued(c)' => Queued(c)
      BY <2>2 DEF Queued
    <2>4. QED
      BY <2>1, <2>2, <2>3, WaitingApart
  <1>3. ASSUME NEW q, ListenRejected(q) PROVE WaitingInv'
    <2>1. PICK S \in SUBSET listening : Post(S, NoDocs, FALSE)
      BY <1>3 DEF ListenRejected
    <2>2. OtherWork /\ UNCHANGED <<calls, raised, answers>> /\ listening' \subseteq listening
      BY <1>3 DEF ListenRejected, OtherWork, WorkTaken
    <2>3. QED
      BY <2>1, <2>2, PostKeeps, WaitingApart
  <1>4. ASSUME NEW c \in 1..Len(calls), DropEvent(c) \/ Deliver(c, <<>>) PROVE WaitingInv'
    BY <1>4, MainQueueWork, PopKeeps, WaitingApart
  <1>5. ASSUME NEW S \in SUBSET listening, Raise(S) PROVE WaitingInv'
    BY <1>5, PostKeeps, WaitingApart DEF Raise, OtherWork
  <1>6. QED
    BY <1>1, <1>2, <1>3, <1>4, <1>5, StepKinds, WaitingGet, WaitingAdd

LEMMA Waiting == Spec => []WaitingInv
  <1>1. Init => WaitingInv
    <2> SUFFICES ASSUME Init PROVE WaitingInv
      OBVIOUS
    <2>1. Len(workerQ) = 0 /\ Len(mainQ) = 0 /\ \A c \in Calls : answers[c] = 0
      BY DEF Init
    <2>2. QED
      BY <2>1 DEF Init, WaitingInv, ListensSorted, Waits, Queued
  <1>2. QED
    BY <1>1, WaitingStep, Wakeups, Typing, PTL DEF Spec

----------------------------------------------------------------------------
(* Answers.                                                                *)

\* A read that is answered and not muted, by an error, is heard of no more, and
\* an error is the last event for its read.
AnswerInv ==
  /\ \A c \in Calls : answers[c] > 0 /\ c \notin muted => c \notin listening /\ ~Queued(c)
  /\ \A i \in 1..Len(mainQ) : \A c \in mainQ[i].calls : ~mainQ[i].ok =>
       c \notin listening /\ \A j \in 1..Len(mainQ) : j > i => c \notin mainQ[j].calls
  /\ AnsweredOnce

\* No error waits for read c.
ErrorFree(c) == \A i \in 1..Len(mainQ) : c \in mainQ[i].calls => mainQ[i].ok

LEMMA AnswerPost ==
  ASSUME TypeOK, AnswerInv, NEW S, NEW docs, NEW ok \in BOOLEAN, Post(S, docs, ok),
         UNCHANGED <<answers, muted>>,
         \A c \in S \cup (listening' \ listening) :
           (answers[c] = 0 \/ c \in muted) /\ ErrorFree(c),
         ~ok => S \cap listening' = {}
  PROVE  AnswerInv'
  <1>1. ASSUME NEW c \in Calls, answers'[c] > 0, c \notin muted'
        PROVE  c \notin listening' /\ ~Queued(c)'
    <2>1. answers[c] # 0 /\ c \notin muted
      BY <1>1 DEF TypeOK
    <2>2. c \notin S /\ c \notin listening' \ listening
      BY <2>1
    <2>3. c \notin listening /\ ~Queued(c)
      BY <1>1, <2>1 DEF AnswerInv
    <2>4. QED
      BY <2>2, <2>3, PostKeeps
  <1>2. ASSUME NEW i \in 1..Len(mainQ'), NEW c \in mainQ'[i].calls, ~mainQ'[i].ok
        PROVE  /\ c \notin listening'
               /\ \A j \in 1..Len(mainQ') : j > i => c \notin mainQ'[j].calls
    <2> DEFINE n == Len(mainQ)
    <2>1. mainQ \in Seq(Event) /\ n \in Nat
      BY LenProperties DEF TypeOK
    <2>2. /\ \A k \in 1..n : k \in 1..Len(mainQ') /\ mainQ'[k] = mainQ[k]
          /\ \A k \in 1..Len(mainQ') :
               k \in 1..n \/ (k = n + 1 /\ mainQ'[k].calls = S /\ mainQ'[k].ok = ok)
      BY <2>1, PostQueue
    <2> HIDE DEF n
    <2>3. CASE i \in 1..n
      <3>1. c \in mainQ[i].calls /\ ~mainQ[i].ok
        BY <1>2, <2>2, <2>3
      <3>2. ~ErrorFree(c)
        BY <2>3, <3>1 DEF ErrorFree, n
      <3>3. c \notin S /\ c \notin listening' \ listening
        BY <3>2
      <3>4. c \notin listening /\ \A j \in 1..n : j > i => c \notin mainQ[j].calls
        BY <2>3, <3>1 DEF AnswerInv, n
      <3>5. QED
        BY <2>2, <3>3, <3>4
    <2>4. CASE i = n + 1
      <3>1. c \in S /\ ~ok
        BY <1>2, <2>1, <2>2, <2>4
      <3>2. \A j \in 1..Len(mainQ') : ~(j > i)
        BY <2>1, <2>2, <2>4
      <3>3. QED
        BY <3>1, <3>2
    <2>5. QED
      BY <2>2, <2>3, <2>4
  <1>3. AnsweredOnce'
    BY DEF AnswerInv, AnsweredOnce
  <1>4. QED
    BY <1>1, <1>2, <1>3 DEF AnswerInv

\* Registered listeners are muted or not answered, and no error waits for them.
LEMMA ListenersOpen ==
  ASSUME TypeOK, AnswerInv, NEW c \in listening
  PROVE  (answers[c] = 0 \/ c \in muted) /\ ErrorFree(c)
  <1>1. c \in Calls /\ answers[c] \in Nat
    BY ListenerTypes DEF TypeOK
  <1>2. QED
    BY <1>1 DEF AnswerInv, ErrorFree

LEMMA AnswerDelivery ==
  ASSUME TypeOK, AnswerInv, NEW c \in 1..Len(calls), DropEvent(c) \/ Deliver(c, <<>>)
  PROVE  AnswerInv'
  <1>1. /\ mainQ \in Seq(Event) /\ mainQ # <<>> /\ Pop(c) /\ c \in Head(mainQ).calls
        /\ Queued(c) /\ c \in Calls /\ UNCHANGED listening
        /\ \A d \in Calls : d # c => answers'[d] = answers[d]
    BY MainQueueWork DEF TypeOK
  <1>pop. PICK k \in {0, 1} : Shifted(k, c)
    BY <1>1, PopQueue
  <1>2. /\ Len(mainQ) \in Nat /\ Len(mainQ') \in Nat
        /\ \A i \in 1..Len(mainQ') :
             /\ i + k \in 1..Len(mainQ) /\ mainQ'[i].ok = mainQ[i + k].ok
             /\ mainQ'[i].calls \subseteq mainQ[i + k].calls
             /\ c \in mainQ'[i].calls => i + k # 1
    BY <1>pop DEF Shifted
  <1>3. \A d : Queued(d)' => Queued(d)
    BY <1>1, PopKeeps
  <1>4. 1 \in 1..Len(mainQ) /\ Head(mainQ) = mainQ[1]
    BY <1>1
  <1>5. muted \subseteq muted'
    BY DEF DropEvent, Deliver, Mute
  <1>6. ASSUME NEW i \in 1..Len(mainQ'), NEW d \in mainQ'[i].calls, ~mainQ'[i].ok
        PROVE  /\ d \notin listening'
               /\ \A j \in 1..Len(mainQ') : j > i => d \notin mainQ'[j].calls
    <2>1. i + k \in 1..Len(mainQ) /\ d \in mainQ[i + k].calls /\ ~mainQ[i + k].ok
      BY <1>2, <1>6
    <2>2. d \notin listening /\ \A j \in 1..Len(mainQ) : j > i + k => d \notin mainQ[j].calls
      BY <2>1 DEF AnswerInv
    <2>3. ASSUME NEW j \in 1..Len(mainQ'), j > i PROVE d \notin mainQ'[j].calls
      <3>1. j + k \in 1..Len(mainQ) /\ j + k > i + k /\ mainQ'[j].calls \subseteq mainQ[j + k].calls
        BY <1>2, <2>3
      <3>2. QED
        BY <2>2, <3>1
    <2>4. QED
      BY <1>1, <2>2, <2>3
  <1>7. ASSUME NEW d \in Calls, d # c, answers'[d] > 0, d \notin muted'
        PROVE  d \notin listening' /\ ~Queued(d)'
    BY <1>1, <1>3, <1>5, <1>7 DEF AnswerInv
  <1>8. CASE DropEvent(c)
    <2>1. UNCHANGED <<answers, muted>> /\ c \in muted
      BY <1>8 DEF DropEvent
    <2>2. QED
      BY <1>6, <1>7, <2>1 DEF AnswerInv, AnsweredOnce
  <1>9. CASE Deliver(c, <<>>)
    <2>1. c \notin muted /\ answers' = [answers EXCEPT ![c] = @ + 1]
      BY <1>9 DEF Deliver
    <2>2. answers[c] = 0 /\ answers'[c] = 1
      <3>1. answers[c] \in Nat /\ ~(answers[c] > 0)
        BY <1>1, <2>1 DEF AnswerInv, TypeOK
      <3>2. QED
        BY <1>1, <2>1, <3>1 DEF TypeOK
    <2>3. AnsweredOnce'
      BY <1>1, <2>2 DEF AnswerInv, AnsweredOnce
    <2>4. ASSUME c \notin muted' PROVE c \notin listening' /\ ~Queued(c)'
      <3>1. ~mainQ[1].ok /\ c \in mainQ[1].calls
        BY <1>1, <1>4, <1>9, <2>4 DEF Deliver, Mute
      <3>2. c \notin listening /\ \A j \in 1..Len(mainQ) : j > 1 => c \notin mainQ[j].calls
        BY <1>4, <3>1 DEF AnswerInv
      <3>3. ASSUME NEW i \in 1..Len(mainQ'), c \in mainQ'[i].calls PROVE FALSE
        <4>1. i + k \in 1..Len(mainQ) /\ i + k # 1 /\ c \in mainQ[i + k].calls
          BY <1>2, <3>3
        <4>2. i + k > 1
          BY <1>2, <4>1
        <4>3. QED
          BY <3>2, <4>1, <4>2
      <3>4. QED
        BY <1>1, <3>2, <3>3 DEF Queued
    <2>5. QED
      BY <1>6, <1>7, <2>3, <2>4 DEF AnswerInv
  <1>10. QED
    BY <1>8, <1>9

LEMMA AnswerStep ==
  TypeOK /\ NoLostWakeup /\ WaitingInv /\ AnswerInv /\ [Next]_vars => AnswerInv'
  <1> SUFFICES ASSUME TypeOK, NoLostWakeup, WaitingInv, AnswerInv, [Next]_vars
               PROVE  AnswerInv'
    OBVIOUS
  <1>1. CASE UNCHANGED <<answers, muted, mainQ>> /\ listening' \subseteq listening
    BY <1>1 DEF AnswerInv, AnsweredOnce, Queued
  <1>2. CASE AddListener
    <2> DEFINE c == Head(workerQ).call
    <2>1. c \in Calls /\ Waits(c)
      BY <1>2, HeadWaits DEF WaitingInv, AddListener
    <2>2. PICK S \in SUBSET {c} : Post(S, local, TRUE)
      BY <1>2 DEF AddListener
    <2>3. listening' = listening \cup {c} /\ UNCHANGED <<answers, muted>>
      BY <1>2 DEF AddListener
    <2> HIDE DEF c
    <2>4. answers[c] = 0 /\ ErrorFree(c)
      BY <2>1 DEF WaitingInv, Queued, ErrorFree
    <2>5. \A d \in S \cup (listening' \ listening) : d = c
      BY <2>2, <2>3
    <2>6. QED
      BY <2>2, <2>3, <2>4, <2>5, AnswerPost
  <1>3. ASSUME NEW q, ListenRejected(q) PROVE AnswerInv'
    <2>1. PICK S \in SUBSET listening : Post(S, NoDocs, FALSE) /\ listening' = listening \ S
      BY <1>3 DEF ListenRejected
    <2>2. UNCHANGED <<answers, muted>>
      BY <1>3 DEF ListenRejected
    <2>3. \A c \in S \cup (listening' \ listening) : c \in listening
      BY <2>1
    <2>4. S \cap listening' = {}
      BY <2>1
    <2>5. QED
      BY <2>1, <2>2, <2>3, <2>4, ListenersOpen, AnswerPost
  <1>4. ASSUME NEW S \in SUBSET listening, Raise(S) PROVE AnswerInv'
    <2>1. PICK docs : Post(S, docs, TRUE)
      BY <1>4 DEF Raise
    <2>2. UNCHANGED <<answers, muted, listening>>
      BY <1>4 DEF Raise
    <2>3. \A c \in S \cup (listening' \ listening) : c \in listening
      BY <2>2
    <2>4. QED
      BY <2>1, <2>2, <2>3, ListenersOpen, AnswerPost
  <1>5. CASE RemoveListener \/ (\E q \in Queries : Get(q))
             \/ (\E u \in Users, p \in Places : Set(u, p))
    BY <1>1, <1>5 DEF RemoveListener, Get, Set
  <1>6. QED
    BY <1>2, <1>3, <1>4, <1>5, StepKinds, AnswerDelivery

LEMMA Answers == Spec => []AnswerInv
  <1>1. Init => AnswerInv
    <2> SUFFICES ASSUME Init PROVE AnswerInv
      OBVIOUS
    <2>1. Len(mainQ) = 0 /\ \A c \in Calls : answers[c] = 0
      BY DEF Init
    <2>2. QED
      BY <2>1 DEF AnswerInv, AnsweredOnce
  <1>2. QED
    BY <1>1, AnswerStep, Waiting, Wakeups, Typing, PTL DEF Spec

\* A completion runs at most once (FirestoreClient.AnsweredOnce).
THEOREM Once == Spec => []AnsweredOnce
  <1>1. AnswerInv => AnsweredOnce
    BY DEF AnswerInv
  <1>2. QED
    BY <1>1, Answers, PTL

----------------------------------------------------------------------------
(* No read is forgotten: it waits, or it listens, or its event waits, or it *)
(* is answered.                                                            *)

Removals == \A i \in 1..Len(workerQ) : workerQ[i].op = "unlisten" => workerQ[i].call \in muted

HandledInv ==
  /\ \A c \in muted : answers[c] > 0
  /\ Removals
  /\ \A c \in 1..Len(calls) : Waits(c) \/ c \in listening \/ answers[c] > 0 \/ Queued(c)

LEMMA RemovalsTaken ==
  ASSUME TypeOK, Removals, workerQ # <<>>, workerQ' = Tail(workerQ), muted' = muted
  PROVE  Removals'
  BY NextWork DEF Removals

LEMMA RemovalsEnqueued ==
  ASSUME TypeOK, Removals, NEW o, workerQ' = Append(workerQ, o), muted \subseteq muted',
         o.op = "unlisten" => o.call \in muted'
  PROVE  Removals'
  <1>1. /\ Len(workerQ) \in Nat /\ Len(workerQ') = Len(workerQ) + 1
        /\ workerQ'[Len(workerQ) + 1] = o
        /\ \A i \in 1..Len(workerQ) : workerQ'[i] = workerQ[i]
    BY DEF TypeOK
  <1>2. \A i \in 1..Len(workerQ') : i \in 1..Len(workerQ) \/ i = Len(workerQ) + 1
    BY <1>1
  <1>3. QED
    BY <1>1, <1>2 DEF Removals

LEMMA HandledDelivery ==
  ASSUME TypeOK, HandledInv, NEW c \in 1..Len(calls), DropEvent(c) \/ Deliver(c, <<>>)
  PROVE  HandledInv'
  <1>1. /\ OtherWork /\ mainQ # <<>> /\ Pop(c) /\ c \in Calls
        /\ UNCHANGED <<calls, listening, raised>>
        /\ \A d \in Calls : d # c => answers'[d] = answers[d]
    BY MainQueueWork
  <1>2. answers'[c] > 0
    <2>1. CASE DropEvent(c)
      BY <2>1 DEF DropEvent, HandledInv
    <2>2. CASE Deliver(c, <<>>)
      <3>1. answers[c] \in Nat /\ answers'[c] = answers[c] + 1
        BY <1>1, <2>2 DEF Deliver, TypeOK
      <3>2. QED
        BY <3>1
    <2>3. QED
      BY <2>1, <2>2
  <1>3. muted' \subseteq muted \cup {c} /\ muted \subseteq muted' /\ muted \subseteq Calls
    BY ListenerTypes DEF DropEvent, Deliver, Mute, TypeOK
  <1>4. Removals'
    <2>1. CASE DropEvent(c)
      BY <2>1 DEF DropEvent, HandledInv, Removals
    <2>2. CASE Deliver(c, <<>>)
      <3>1. workerQ \o <<>> = workerQ /\ workerQ \in Seq(Asked)
        BY DEF TypeOK
      <3>2. CASE Head(mainQ).ok
        <4> DEFINE o == Unlisten(c)
        <4>1. o \in Asked /\ o.call = c /\ c \in muted'
          BY <2>2, <3>2 DEF Unlisten, Asked, Deliver, Mute
        <4>2. workerQ' = (workerQ \o <<o>>) \o <<>>
          BY <2>2, <3>2 DEF Deliver
        <4> HIDE DEF o
        <4>3. workerQ \o <<o>> = Append(workerQ, o) /\ Append(workerQ, o) \in Seq(Asked)
          BY <3>1, <4>1, AppendIsConcat, AppendProperties
        <4>4. workerQ' = Append(workerQ, o)
          BY <4>2, <4>3, ConcatEmptySeq
        <4>5. QED
          BY <1>3, <4>1, <4>4, RemovalsEnqueued DEF HandledInv
      <3>3. CASE ~Head(mainQ).ok
        BY <2>2, <3>1, <3>3 DEF Deliver, HandledInv, Removals
      <3>4. QED
        BY <3>2, <3>3
    <2>3. QED
      BY <2>1, <2>2
  <1>5. \A d \in muted' : answers'[d] > 0
    BY <1>1, <1>2, <1>3 DEF HandledInv
  <1>6. ASSUME NEW d \in 1..Len(calls')
        PROVE  Waits(d)' \/ d \in listening' \/ answers'[d] > 0 \/ Queued(d)'
    <2>1. CASE d = c
      BY <1>2, <2>1
    <2>2. CASE d # c
      <3>1. Queued(d) => Queued(d)'
        BY <1>1, <2>2, PopKeeps
      <3>2. Waits(d) => Waits(d)'
        BY <1>1, OtherWorkWaits
      <3>3. d \in 1..Len(calls) /\ answers'[d] = answers[d]
        BY <1>1, <2>2, ListenerTypes
      <3>4. QED
        BY <1>1, <3>1, <3>2, <3>3 DEF HandledInv
    <2>3. QED
      BY <2>1, <2>2
  <1>7. QED
    BY <1>4, <1>5, <1>6 DEF HandledInv

LEMMA HandledStep ==
  TypeOK /\ NoLostWakeup /\ WaitingInv /\ HandledInv /\ [Next]_vars => HandledInv'
  <1> SUFFICES ASSUME TypeOK, NoLostWakeup, WaitingInv, HandledInv, [Next]_vars
               PROVE  HandledInv'
    OBVIOUS
  <1>1. ASSUME NEW q, Get(q) PROVE HandledInv'
    <2>1. /\ \A c \in 1..Len(calls') : c \in 1..Len(calls) \/ c = Len(calls) + 1
          /\ \A c : Waits(c)' <=> Waits(c) \/ c = Len(calls) + 1
      BY <1>1, GetWork
    <2>2. UNCHANGED <<answers, listening, muted, mainQ>>
      BY <1>1 DEF Get
    <2>3. \A c : Queued(c)' <=> Queued(c)
      BY <2>2 DEF Queued
    <2>4. Removals'
      <3> DEFINE o == Listen(Len(calls) + 1)
      <3>1. workerQ' = Append(workerQ, o) /\ o.op # "unlisten"
        BY <1>1 DEF Get, Listen
      <3> HIDE DEF o
      <3>2. QED
        BY <2>2, <3>1, RemovalsEnqueued DEF HandledInv
    <2>5. QED
      BY <2>1, <2>2, <2>3, <2>4 DEF HandledInv
  <1>2. ASSUME NEW u, NEW p, Set(u, p) PROVE HandledInv'
    <2> DEFINE o == Write({u}, p)
    <2>1. workerQ' = Append(workerQ, o) /\ o.op = "write"
      BY <1>2 DEF Set, Write
    <2>2. UNCHANGED <<calls, answers, listening, muted, mainQ>>
      BY <1>2 DEF Set
    <2> HIDE DEF o
    <2>3. \A c : (Waits(c)' <=> Waits(c)) /\ (Queued(c)' <=> Queued(c))
      BY <2>1, <2>2, OtherWorkWaits DEF OtherWork, WorkTaken, Queued
    <2>4. Removals'
      BY <2>1, <2>2, RemovalsEnqueued DEF HandledInv
    <2>5. QED
      BY <2>2, <2>3, <2>4 DEF HandledInv
  <1>3. CASE AddListener
    <2>1. PICK S : Post(S, local, TRUE)
      BY <1>3 DEF AddListener
    <2>2. \A c : Queued(c) => Queued(c)'
      BY <2>1, PostKeeps
    <2>3. \A c : Waits(c) => Waits(c)' \/ c \in listening'
      BY <1>3, HeadWaits DEF AddListener, WaitingInv
    <2>4. UNCHANGED <<calls, answers, muted>> /\ listening \subseteq listening' /\ Removals'
      BY <1>3, RemovalsTaken DEF AddListener, HandledInv
    <2>5. QED
      BY <2>2, <2>3, <2>4 DEF HandledInv
  <1>4. CASE RemoveListener
    <2>1. \A c : (Waits(c)' <=> Waits(c)) /\ (Queued(c)' <=> Queued(c))
      BY <1>4, OtherWorkWaits DEF RemoveListener, OtherWork, WorkTaken, Queued
    <2>2. UNCHANGED <<calls, answers, muted>> /\ Removals'
          /\ listening' = listening \ {Head(workerQ).call}
      BY <1>4, RemovalsTaken DEF RemoveListener, HandledInv
    <2>3. Head(workerQ).call \in muted
      BY <1>4, NextWork DEF RemoveListener, HandledInv, Removals
    <2>4. QED
      BY <2>1, <2>2, <2>3 DEF HandledInv
  <1>5. ASSUME NEW q, ListenRejected(q) PROVE HandledInv'
    <2>1. PICK S \in SUBSET listening : Post(S, NoDocs, FALSE) /\ listening' = listening \ S
      BY <1>5 DEF ListenRejected
    <2>2. UNCHANGED <<calls, answers, muted, workerQ>>
      BY <1>5 DEF ListenRejected
    <2>3. /\ \A c : Queued(c) => Queued(c)'
          /\ \A c \in S : Queued(c)'
          /\ \A c : Waits(c) => Waits(c)'
      BY <2>1, <2>2, PostKeeps DEF Waits
    <2>4. QED
      BY <2>1, <2>2, <2>3 DEF HandledInv, Removals
  <1>6. ASSUME NEW S \in SUBSET listening, Raise(S) PROVE HandledInv'
    <2>1. PICK docs : Post(S, docs, TRUE)
      BY <1>6 DEF Raise
    <2>2. UNCHANGED <<calls, answers, muted, listening>> /\ OtherWork
      BY <1>6 DEF Raise, OtherWork
    <2>3. \A c : (Queued(c) => Queued(c)') /\ (Waits(c) => Waits(c)')
      BY <2>1, <2>2, PostKeeps, OtherWorkWaits
    <2>4. Removals'
      BY <1>6, <2>2, RemovalsTaken DEF Raise, WorkTaken, HandledInv, Removals
    <2>5. QED
      BY <2>2, <2>3, <2>4 DEF HandledInv
  <1>7. QED
    BY <1>1, <1>2, <1>3, <1>4, <1>5, <1>6, StepKinds, HandledDelivery

LEMMA Handled == Spec => []HandledInv
  <1>1. Init => HandledInv
    <2> SUFFICES ASSUME Init PROVE HandledInv
      OBVIOUS
    <2>1. Len(workerQ) = 0 /\ Len(calls) = 0 /\ muted = {}
      BY DEF Init
    <2>2. QED
      BY <2>1 DEF HandledInv, Removals
  <1>2. QED
    BY <1>1, HandledStep, Waiting, Wakeups, Typing, PTL DEF Spec

----------------------------------------------------------------------------
(* The order of answers.                                                   *)

\* Before an event for a read, the earlier reads of its query are answered, or
\* their events wait.
EventsInOrder ==
  \A i \in 1..Len(mainQ) : \A c \in mainQ[i].calls : \A d \in 1..Len(calls) :
    d < c /\ calls[d] = calls[c] =>
      answers[d] > 0 \/ \E j \in 1..Len(mainQ) : j <= i /\ d \in mainQ[j].calls

OrderInv == RaisedInOrder /\ EventsInOrder /\ AnsweredInOrder

\* Events posted after those of the earlier reads, or with them.
LEMMA PostInOrder ==
  ASSUME TypeOK, EventsInOrder, NEW S, NEW docs, NEW ok, Post(S, docs, ok),
         UNCHANGED <<calls, answers>>,
         \A c \in S, d \in 1..Len(calls) : d < c /\ calls[d] = calls[c] =>
           d \in S \/ answers[d] > 0 \/ Queued(d)
  PROVE  EventsInOrder'
  <1> DEFINE n == Len(mainQ)
  <1>1. mainQ \in Seq(Event)
    BY DEF TypeOK
  <1>2. /\ n \in Nat /\ Len(mainQ') \in Nat
        /\ \A i \in 1..n : i \in 1..Len(mainQ') /\ mainQ'[i] = mainQ[i]
        /\ \A i \in 1..Len(mainQ') : i \in 1..n \/ (i = n + 1 /\ mainQ'[i].calls = S)
    BY <1>1, PostQueue
  <1> HIDE DEF n
  <1> SUFFICES ASSUME NEW i \in 1..Len(mainQ'), NEW c \in mainQ'[i].calls,
                      NEW d \in 1..Len(calls), d < c, calls[d] = calls[c], ~(answers[d] > 0)
               PROVE  \E j \in 1..Len(mainQ') : j <= i /\ d \in mainQ'[j].calls
    BY DEF EventsInOrder
  <1>3. CASE i \in 1..n
    <2>1. PICK j \in 1..n : j <= i /\ d \in mainQ[j].calls
      BY <1>2, <1>3 DEF EventsInOrder, n
    <2>2. QED
      BY <1>2, <2>1
  <1>4. CASE i = n + 1 /\ mainQ'[i].calls = S
    <2>1. CASE d \in S
      BY <1>2, <1>4, <2>1
    <2>2. CASE Queued(d)
      <3>1. PICK j \in 1..n : d \in mainQ[j].calls
        BY <2>2 DEF Queued, n
      <3>2. j \in 1..Len(mainQ') /\ j <= i /\ d \in mainQ'[j].calls
        BY <1>2, <1>4, <3>1
      <3>3. QED
        BY <3>2
    <2>3. QED
      BY <1>4, <2>1, <2>2
  <1>5. QED
    BY <1>2, <1>3, <1>4

\* A read that has raised an event is answered, or its event waits.
LEMMA RaisedHandled ==
  ASSUME NoLostEvent, HandledInv, NEW d \in raised
  PROVE  answers[d] > 0 \/ Queued(d)
  BY DEF NoLostEvent, HandledInv, Queued

\* The reads before one that listens do not wait.
LEMMA EarlierListens ==
  ASSUME TypeOK, WaitingInv, HandledInv, NEW c \in listening, NEW d \in 1..Len(calls), d < c
  PROVE  d \in listening \/ answers[d] > 0 \/ Queued(d)
  <1>1. c \in 1..Len(calls) /\ c \in Calls
    BY ListenerTypes
  <1>2. ~Waits(d)
    BY <1>1 DEF WaitingInv
  <1>3. QED
    BY <1>2 DEF HandledInv

LEMMA OrderGet ==
  ASSUME TypeOK, WaitingInv, OrderInv, NEW q, Get(q)
  PROVE  OrderInv'
  <1> DEFINE m == Len(calls)
  <1>1. /\ m \in Nat /\ Len(calls') = m + 1 /\ m + 1 \in Calls
        /\ \A c \in 1..Len(calls') : c \in 1..m \/ c = m + 1
        /\ \A c \in 1..m : c \in 1..Len(calls') /\ calls'[c] = calls[c]
    BY GetWork
  <1>2. UNCHANGED <<answers, listening, raised, mainQ>>
    BY DEF Get
  <1>3. ~(m + 1 <= m)
    BY <1>1
  <1>4. \A i \in 1..Len(mainQ) : \A c \in mainQ[i].calls : c \in 1..m
    <2>1. \A i \in 1..Len(mainQ) : mainQ[i] \in Event
      BY ElementOfSeq DEF TypeOK
    <2>2. \A i \in 1..Len(mainQ) : \A c \in mainQ[i].calls : c \in Calls /\ Queued(c)
      BY <2>1 DEF Event, Queued
    <2>3. QED
      BY <1>1, <2>2 DEF WaitingInv, Calls
  <1>5. \A c \in Calls : answers[c] > 0 => c \in 1..m
    BY <1>1 DEF WaitingInv, Calls
  <1>6. raised \subseteq 1..m /\ listening \subseteq 1..m
    BY DEF TypeOK
  <1> HIDE DEF m
  <1>7. RaisedInOrder'
    BY <1>1, <1>2, <1>6 DEF OrderInv, RaisedInOrder
  <1>8. EventsInOrder'
    <2> SUFFICES ASSUME NEW i \in 1..Len(mainQ), NEW c \in mainQ[i].calls,
                        NEW d \in 1..Len(calls'), d < c, calls'[d] = calls'[c]
                 PROVE  answers[d] > 0 \/ \E j \in 1..Len(mainQ) : j <= i /\ d \in mainQ[j].calls
      BY <1>2 DEF EventsInOrder
    <2>1. c \in 1..m
      BY <1>4
    <2>2. d \in 1..m
      BY <1>1, <2>1
    <2>3. QED
      BY <1>1, <2>1, <2>2 DEF OrderInv, EventsInOrder, m
  <1>9. AnsweredInOrder'
    <2> SUFFICES ASSUME NEW c \in 1..Len(calls'), NEW d \in 1..Len(calls'),
                        d < c, calls'[d] = calls'[c], answers[c] > 0
                 PROVE  answers[d] > 0
      BY <1>2 DEF AnsweredInOrder
    <2>1. c \in 1..m
      BY <1>1, <1>5
    <2>2. d \in 1..m
      BY <1>1, <2>1
    <2>3. QED
      BY <1>1, <2>1, <2>2 DEF OrderInv, AnsweredInOrder, m
  <1>10. QED
    BY <1>7, <1>8, <1>9 DEF OrderInv

LEMMA OrderAdd ==
  ASSUME TypeOK, NoLostWakeup, NoLostEvent, WaitingInv, HandledInv, OrderInv, AddListener
  PROVE  OrderInv'
  <1> DEFINE c == Head(workerQ).call
             S == IF MayRaise(c, net) THEN {c} ELSE {}
  <1>1. /\ c \in 1..Len(calls) /\ c \in Calls /\ Waits(c)
        /\ \A x : Waits(x)' => c < x
        /\ \A x : Waits(x) /\ x # c => Waits(x)'
    BY HeadWaits DEF WaitingInv, AddListener
  <1>2. Post(S, local, TRUE) /\ raised' = raised \cup S
        /\ listening' = listening \cup {c} /\ UNCHANGED <<calls, answers>>
    BY DEF AddListener
  <1> HIDE DEF c
  <1>3. \A d \in listening : calls[d] = calls[c] /\ S # {} => d \in raised
    BY DEF NoLostWakeup, MayRaise
  <1>4. \A x \in 1..Len(calls) : c < x => x \notin raised
    <2>1. \A x \in 1..Len(calls) : c < x => x \in Calls /\ Waits(x)
      BY <1>1, ListenerTypes DEF WaitingInv
    <2>2. QED
      BY <2>1 DEF WaitingInv
  <1>5. RaisedInOrder'
    <2> SUFFICES ASSUME NEW x \in raised \cup S, NEW d \in listening \cup {c}, d < x,
                        calls[d] = calls[x]
                 PROVE  d \in raised \cup S
      BY <1>2 DEF RaisedInOrder
    <2>1. x \in 1..Len(calls) /\ d \in 1..Len(calls)
      BY <1>1 DEF TypeOK
    <2>2. CASE x \in raised /\ d \in listening
      BY <2>2 DEF OrderInv, RaisedInOrder
    <2>3. CASE x \in raised /\ d = c
      BY <1>4, <2>1, <2>3
    <2>4. CASE x = c /\ S # {}
      <3>1. d \in listening
        BY <2>1, <2>4
      <3>2. QED
        BY <1>3, <2>4, <3>1
    <2>5. QED
      BY <2>2, <2>3, <2>4
  <1>6. ASSUME NEW x \in S, NEW d \in 1..Len(calls), d < x, calls[d] = calls[x]
        PROVE  d \in S \/ answers[d] > 0 \/ Queued(d)
    <2>1. x = c /\ S # {}
      BY <1>6
    <2>2. ~Waits(d)
      <3>1. d # c /\ ~(c < d)
        BY <1>1, <1>6, <2>1
      <3>2. QED
        BY <1>1, <3>1
    <2>3. CASE d \in listening
      <3>1. d \in raised
        BY <1>3, <1>6, <2>1, <2>3
      <3>2. QED
        BY <3>1, RaisedHandled
    <2>4. CASE d \notin listening
      BY <2>2, <2>4 DEF HandledInv
    <2>5. QED
      BY <2>3, <2>4
  <1> HIDE DEF S
  <1>7. EventsInOrder'
    BY <1>2, <1>6, PostInOrder DEF OrderInv
  <1>8. AnsweredInOrder'
    BY <1>2 DEF OrderInv, AnsweredInOrder
  <1>9. QED
    BY <1>5, <1>7, <1>8 DEF OrderInv

LEMMA OrderDelivery ==
  ASSUME TypeOK, HandledInv, OrderInv, NEW c \in 1..Len(calls),
         DropEvent(c) \/ Deliver(c, <<>>)
  PROVE  OrderInv'
  <1>1. /\ mainQ \in Seq(Event) /\ mainQ # <<>> /\ Pop(c) /\ c \in Head(mainQ).calls
        /\ c \in Calls /\ UNCHANGED <<calls, listening, raised>>
        /\ \A d \in Calls : d # c => answers'[d] = answers[d]
    BY MainQueueWork DEF TypeOK
  <1>pop. PICK k \in {0, 1} : Shifted(k, c)
    BY <1>1, PopQueue
  <1>2. /\ Len(mainQ) \in Nat /\ Len(mainQ') \in Nat
        /\ \A i \in 1..Len(mainQ') :
             i + k \in 1..Len(mainQ) /\ mainQ'[i].calls \subseteq mainQ[i + k].calls
        /\ \A i \in 1..Len(mainQ) : \A d : d # c /\ d \in mainQ[i].calls =>
             i - k \in 1..Len(mainQ') /\ d \in mainQ'[i - k].calls
    BY <1>pop DEF Shifted
  <1>3. 1 \in 1..Len(mainQ) /\ Head(mainQ) = mainQ[1]
    BY <1>1
  <1>4. answers'[c] > 0
    <2>1. CASE DropEvent(c)
      BY <2>1 DEF DropEvent, HandledInv
    <2>2. CASE Deliver(c, <<>>)
      <3>1. answers[c] \in Nat /\ answers'[c] = answers[c] + 1
        BY <1>1, <2>2 DEF Deliver, TypeOK
      <3>2. QED
        BY <3>1
    <2>3. QED
      BY <2>1, <2>2
  <1>5. \A d \in 1..Len(calls) : d # c => answers'[d] = answers[d]
    BY <1>1, ListenerTypes
  <1>6. RaisedInOrder'
    BY <1>1 DEF OrderInv, RaisedInOrder
  <1>7. EventsInOrder'
    <2> SUFFICES ASSUME NEW i \in 1..Len(mainQ'), NEW x \in mainQ'[i].calls,
                        NEW d \in 1..Len(calls), d < x, calls[d] = calls[x], ~(answers'[d] > 0)
                 PROVE  \E j \in 1..Len(mainQ') : j <= i /\ d \in mainQ'[j].calls
      BY <1>1 DEF EventsInOrder
    <2>1. d # c /\ ~(answers[d] > 0)
      BY <1>4, <1>5
    <2>2. i + k \in 1..Len(mainQ) /\ x \in mainQ[i + k].calls
      BY <1>2
    <2>3. PICK j \in 1..Len(mainQ) : j <= i + k /\ d \in mainQ[j].calls
      BY <2>1, <2>2 DEF OrderInv, EventsInOrder
    <2>4. j - k \in 1..Len(mainQ') /\ d \in mainQ'[j - k].calls
      BY <1>2, <2>1, <2>3
    <2>5. j - k <= i
      BY <1>2, <2>3
    <2>6. QED
      BY <2>4, <2>5
  <1>8. AnsweredInOrder'
    <2> SUFFICES ASSUME NEW x \in 1..Len(calls), NEW d \in 1..Len(calls),
                        d < x, calls[d] = calls[x], answers'[x] > 0
                 PROVE  answers'[d] > 0
      BY <1>1 DEF AnsweredInOrder
    <2>1. CASE d = c
      BY <1>4, <2>1
    <2>2. CASE x # c /\ d # c
      BY <1>5, <2>2 DEF OrderInv, AnsweredInOrder
    <2>3. CASE x = c /\ d # c
      <3>1. CASE DropEvent(c)
        BY <3>1 DEF DropEvent, OrderInv, AnsweredInOrder
      <3>2. CASE Deliver(c, <<>>)
        <4>1. \A e \in mainQ[1].calls : calls[e] = calls[c] => c <= e
          BY <1>3, <3>2 DEF Deliver, FirstEvent
        <4>2. ~(c <= d)
          BY <2>3
        <4>3. d \notin mainQ[1].calls
          BY <2>3, <4>1, <4>2
        <4>4. answers[d] > 0 \/ \E j \in 1..Len(mainQ) : j <= 1 /\ d \in mainQ[j].calls
          BY <1>1, <1>3, <2>3 DEF OrderInv, EventsInOrder
        <4>5. answers[d] > 0
          BY <1>2, <4>3, <4>4
        <4>6. QED
          BY <1>5, <2>3, <4>5
      <3>3. QED
        BY <3>1, <3>2
    <2>4. QED
      BY <2>1, <2>2, <2>3
  <1>9. QED
    BY <1>6, <1>7, <1>8 DEF OrderInv

LEMMA OrderStep ==
  TypeOK /\ NoLostWakeup /\ NoLostEvent /\ WaitingInv /\ HandledInv /\ OrderInv /\ [Next]_vars
    => OrderInv'
  <1> SUFFICES ASSUME TypeOK, NoLostWakeup, NoLostEvent, WaitingInv, HandledInv, OrderInv,
                      [Next]_vars
               PROVE  OrderInv'
    OBVIOUS
  <1>1. CASE RemoveListener \/ (\E u \in Users, p \in Places : Set(u, p))
    <2>1. UNCHANGED <<calls, answers, raised, mainQ>> /\ listening' \subseteq listening
      BY <1>1 DEF RemoveListener, Set
    <2>2. QED
      BY <2>1 DEF OrderInv, RaisedInOrder, EventsInOrder, AnsweredInOrder
  <1>2. ASSUME NEW q, ListenRejected(q) PROVE OrderInv'
    <2> DEFINE S == {c \in listening : calls[c] = q}
    <2>1. /\ Post(S, NoDocs, FALSE) /\ listening' = listening \ S
          /\ UNCHANGED <<calls, answers, raised>>
      BY <1>2 DEF ListenRejected
    <2>2. ASSUME NEW c \in S, NEW d \in 1..Len(calls), d < c, calls[d] = calls[c]
          PROVE  d \in S \/ answers[d] > 0 \/ Queued(d)
      BY <2>2, EarlierListens
    <2> HIDE DEF S
    <2>3. EventsInOrder'
      BY <2>1, <2>2, PostInOrder DEF OrderInv
    <2>4. QED
      BY <2>1, <2>3 DEF OrderInv, RaisedInOrder, AnsweredInOrder
  <1>3. ASSUME NEW S \in SUBSET listening, Raise(S), EarlierFirst(S) PROVE OrderInv'
    <2>1. PICK docs : Post(S, docs, TRUE)
      BY <1>3 DEF Raise
    <2>2. raised' = raised \cup S /\ UNCHANGED <<calls, answers, listening>>
      BY <1>3 DEF Raise
    <2>3. ASSUME NEW c \in S, NEW d \in 1..Len(calls), d < c, calls[d] = calls[c]
          PROVE  d \in S \/ answers[d] > 0 \/ Queued(d)
      <3>1. CASE d \in listening
        <4>1. d \in S \/ d \in raised
          BY <1>3, <2>3, <3>1 DEF EarlierFirst
        <4>2. QED
          BY <4>1, RaisedHandled
      <3>2. CASE d \notin listening
        BY <2>3, <3>2, EarlierListens
      <3>3. QED
        BY <3>1, <3>2
    <2>4. EventsInOrder'
      BY <2>1, <2>2, <2>3, PostInOrder DEF OrderInv
    <2>5. RaisedInOrder'
      BY <1>3, <2>2 DEF OrderInv, RaisedInOrder, EarlierFirst
    <2>6. QED
      BY <2>2, <2>4, <2>5 DEF OrderInv, AnsweredInOrder
  <1>4. RaisedInOrder
    BY DEF OrderInv
  <1>5. QED
    BY <1>1, <1>2, <1>3, <1>4, StepKinds, OrderGet, OrderAdd, OrderDelivery

LEMMA Ordered == Spec => []OrderInv
  <1>1. Init => OrderInv
    <2> SUFFICES ASSUME Init PROVE OrderInv
      OBVIOUS
    <2>1. Len(mainQ) = 0 /\ Len(calls) = 0 /\ raised = {}
      BY DEF Init
    <2>2. QED
      BY <2>1 DEF OrderInv, RaisedInOrder, EventsInOrder, AnsweredInOrder
  <1>2. QED
    BY <1>1, OrderStep, Handled, Waiting, EventsKept, Wakeups, Typing, PTL DEF Spec

\* Reads of one query are answered in the order in which they were made
\* (FirestoreClient.AnsweredInOrder).
THEOREM InOrder == Spec => []AnsweredInOrder
  <1>1. OrderInv => AnsweredInOrder
    BY DEF OrderInv
  <1>2. QED
    BY <1>1, Ordered, PTL

----------------------------------------------------------------------------
(* The promise.  The answer that the main queue and the completions show   *)
(* of each read is the one that the abstract store posts.                  *)

\* The i-th event is the first for read c.
FirstOf(i, c) ==
  /\ i \in 1..Len(mainQ) /\ c \in mainQ[i].calls
  /\ \A j \in 1..Len(mainQ) : c \in mainQ[j].calls => i <= j

Posted(docs, ok) == [state |-> "posted", ok |-> ok, docs |-> docs]

\* No event has come for read c.
Unheard(S) == {c \in S : answers[c] = 0 /\ ~Queued(c)}

Replies == [c \in Calls |-> ReplyTo(c)]

ReplyKinds ==
  \A c \in Calls :
    /\ answers[c] > 0 => ReplyTo(c) = Promise!Done
    /\ ~(answers[c] > 0) /\ ~Queued(c) => ReplyTo(c) = Promise!Waiting
    /\ Queued(c) => \E i : FirstOf(i, c)
    /\ \A i : FirstOf(i, c) /\ ~(answers[c] > 0) =>
         ReplyTo(c) = Posted(mainQ[i].docs, mainQ[i].ok)

LEMMA ReplyIs == TypeOK => ReplyKinds
  <1> SUFFICES ASSUME TypeOK, NEW c \in Calls
               PROVE  /\ answers[c] > 0 => ReplyTo(c) = Promise!Done
                      /\ ~(answers[c] > 0) /\ ~Queued(c) => ReplyTo(c) = Promise!Waiting
                      /\ Queued(c) => \E i : FirstOf(i, c)
                      /\ \A i : FirstOf(i, c) /\ ~(answers[c] > 0) =>
                           ReplyTo(c) = Posted(mainQ[i].docs, mainQ[i].ok)
    BY DEF ReplyKinds
  <1>1. Len(mainQ) \in Nat
    BY LenProperties DEF TypeOK
  <1>2. Queued(c) <=> Events(c) # {}
    BY DEF Queued, Events
  <1>3. NoDocs = Promise!NoDocs
    BY DEF NoDocs, Promise!NoDocs
  <1>4. answers[c] > 0 => ReplyTo(c) = Promise!Done
    BY <1>3 DEF ReplyTo, Promise!Done
  <1>5. ~(answers[c] > 0) /\ ~Queued(c) => ReplyTo(c) = Promise!Waiting
    BY <1>2, <1>3 DEF ReplyTo, Promise!Waiting
  <1>6. ASSUME Queued(c) PROVE \E i : FirstOf(i, c)
    <2>1. Events(c) # {} /\ Events(c) \subseteq Nat
      BY <1>1, <1>2, <1>6 DEF Events
    <2>2. PICK i \in Events(c) : \A j \in Events(c) : i <= j
      BY <2>1, Least
    <2>3. QED
      BY <2>2 DEF Events, FirstOf
  <1>7. ASSUME NEW i, FirstOf(i, c), ~(answers[c] > 0)
        PROVE  ReplyTo(c) = Posted(mainQ[i].docs, mainQ[i].ok)
    <2>1. i \in Events(c) /\ \A j \in Events(c) : i <= j
      BY <1>7 DEF FirstOf, Events
    <2>2. Events(c) \subseteq Nat
      BY <1>1 DEF Events
    <2>3. PICK k : k = CHOOSE j \in Events(c) : \A l \in Events(c) : j <= l
      OBVIOUS
    <2>4. k \in Events(c) /\ \A l \in Events(c) : k <= l
      BY <2>1, <2>3
    <2>5. k = i
      BY <2>1, <2>2, <2>4
    <2>6. FirstEventOf(c) = mainQ[i]
      BY <2>3, <2>5 DEF FirstEventOf
    <2>7. Events(c) # {}
      BY <2>1
    <2>8. QED
      BY <1>7, <2>6, <2>7 DEF ReplyTo, Posted
  <1>8. QED
    BY <1>4, <1>5, <1>6, <1>7

\* The same of the next state.
LEMMA ReplyThen == TypeOK' => ReplyKinds'
  BY ReplyIs, PTL

\* The listeners that hear of a batch, and have not heard before, are answered.
LEMMA PostAnswers ==
  ASSUME TypeOK, TypeOK', NEW S \in SUBSET Calls, NEW docs, NEW ok, Post(S, docs, ok),
         answers' = answers
  PROVE  Promise!Post(Unheard(S), docs, ok)
  <1>1. ASSUME NEW c \in Calls
        PROVE  ReplyTo(c)' = IF c \in Unheard(S) THEN Posted(docs, ok) ELSE ReplyTo(c)
    <2>1. answers[c] \in Nat /\ answers'[c] = answers[c] /\ mainQ \in Seq(Event)
      BY DEF TypeOK
    <2>2. ReplyKinds /\ ReplyKinds'
      BY ReplyIs, ReplyThen
    <2>3. CASE answers[c] > 0
      <3>1. ReplyTo(c) = Promise!Done /\ ReplyTo(c)' = Promise!Done
        BY <2>1, <2>2, <2>3 DEF ReplyKinds
      <3>2. QED
        BY <2>3, <3>1 DEF Unheard
    <2>4. CASE ~(answers[c] > 0) /\ Queued(c)
      <3>1. PICK i : FirstOf(i, c)
        BY <2>2, <2>4 DEF ReplyKinds
      <3>2. i \in 1..Len(mainQ') /\ mainQ'[i] = mainQ[i]
        BY <2>1, <3>1, PostQueue DEF FirstOf
      <3>3. ASSUME NEW j \in 1..Len(mainQ'), c \in mainQ'[j].calls PROVE i <= j
        <4>1. CASE j \in 1..Len(mainQ)
          BY <2>1, <3>1, <3>3, <4>1, PostQueue DEF FirstOf
        <4>2. CASE j = Len(mainQ) + 1
          BY <2>1, <3>1, <4>2, PostQueue DEF FirstOf
        <4>3. QED
          BY <2>1, <4>1, <4>2, PostQueue
      <3>4. FirstOf(i, c)'
        BY <3>1, <3>2, <3>3 DEF FirstOf
      <3>5. ReplyTo(c)' = ReplyTo(c)
        BY <2>1, <2>2, <2>4, <3>1, <3>2, <3>4 DEF ReplyKinds
      <3>6. QED
        BY <2>4, <3>5 DEF Unheard
    <2>5. CASE ~(answers[c] > 0) /\ ~Queued(c) /\ c \in S
      <3>1. PICK n : /\ n = Len(mainQ) + 1 /\ n \in 1..Len(mainQ') /\ c \in mainQ'[n].calls
                     /\ mainQ'[n].docs = docs /\ mainQ'[n].ok = ok
        BY <2>1, <2>5, PostQueue
      <3>2. ASSUME NEW j \in 1..Len(mainQ'), c \in mainQ'[j].calls PROVE n <= j
        <4>1. j \notin 1..Len(mainQ)
          BY <2>1, <2>5, <3>2, PostQueue DEF Queued
        <4>2. QED
          BY <2>1, <3>1, <4>1, PostQueue
      <3>3. FirstOf(n, c)'
        BY <3>1, <3>2 DEF FirstOf
      <3>4. ReplyTo(c)' = Posted(docs, ok)
        BY <2>1, <2>2, <2>5, <3>1, <3>3 DEF ReplyKinds
      <3>5. QED
        BY <2>1, <2>5, <3>4 DEF Unheard
    <2>6. CASE ~(answers[c] > 0) /\ ~Queued(c) /\ c \notin S
      <3>1. ~Queued(c)'
        BY <2>6, PostKeeps
      <3>2. ReplyTo(c)' = ReplyTo(c)
        BY <2>1, <2>2, <2>6, <3>1 DEF ReplyKinds
      <3>3. QED
        BY <2>6, <3>2 DEF Unheard
    <2>7. QED
      BY <2>3, <2>4, <2>5, <2>6
  <1>2. Calls = Promise!Calls
    BY DEF Calls, Promise!Calls
  <1>3. QED
    BY <1>1, <1>2 DEF Promise!Post, Posted

\* While the answers and the main queue stand, so do the replies.
LEMMA RepliesStand ==
  ASSUME UNCHANGED <<answers, mainQ>>
  PROVE  Replies' = Replies
  BY DEF Replies, ReplyTo, Events, FirstEventOf

\* Nobody is answered by a batch nobody waits for.
LEMMA PostNobody ==
  ASSUME TypeOK, TypeOK', NEW S \in SUBSET Calls, NEW docs, NEW ok, Post(S, docs, ok),
         answers' = answers, Unheard(S) = {}
  PROVE  Replies' = Replies
  <1>1. Promise!Post({}, docs, ok)
    BY PostAnswers
  <1>2. Calls = Promise!Calls
    BY DEF Calls, Promise!Calls
  <1>3. QED
    BY <1>1, <1>2 DEF Promise!Post, Replies

\* Delivering an event for one read leaves the others with their answers.
LEMMA PopReplies ==
  ASSUME TypeOK, TypeOK', mainQ # <<>>, NEW c, Pop(c),
         NEW d \in Calls, d # c, answers'[d] = answers[d]
  PROVE  ReplyTo(d)' = ReplyTo(d)
  <1>1. ReplyKinds /\ ReplyKinds'
    BY ReplyIs, ReplyThen
  <1>2. Queued(d) <=> Queued(d)'
    BY PopKeeps
  <1>3. CASE answers[d] > 0 \/ ~Queued(d)
    BY <1>1, <1>2, <1>3 DEF ReplyKinds
  <1>4. CASE ~(answers[d] > 0) /\ Queued(d)
    <2>1. PICK i : FirstOf(i, d)
      BY <1>1, <1>4 DEF ReplyKinds
    <2>pop. PICK k \in {0, 1} : Shifted(k, c)
      BY PopQueue DEF TypeOK
    <2>2. /\ Len(mainQ) \in Nat /\ Len(mainQ') \in Nat
          /\ \A j \in 1..Len(mainQ') :
               /\ j + k \in 1..Len(mainQ) /\ mainQ'[j].ok = mainQ[j + k].ok
               /\ mainQ'[j].docs = mainQ[j + k].docs
               /\ mainQ'[j].calls \subseteq mainQ[j + k].calls
               /\ c \in mainQ'[j].calls => j + k # 1
          /\ \A j \in 1..Len(mainQ) : \A x : x # c /\ x \in mainQ[j].calls =>
               j - k \in 1..Len(mainQ') /\ x \in mainQ'[j - k].calls
      BY <2>pop DEF Shifted
    <2>3. PICK m : /\ m = i - k /\ m + k = i /\ m \in 1..Len(mainQ') /\ d \in mainQ'[m].calls
                   /\ i \in 1..Len(mainQ)
      BY <2>1, <2>2 DEF FirstOf
    <2>4. ASSUME NEW j \in 1..Len(mainQ'), d \in mainQ'[j].calls PROVE m <= j
      <3>1. j + k \in 1..Len(mainQ) /\ d \in mainQ[j + k].calls
        BY <2>2, <2>4
      <3>2. i <= j + k
        BY <2>1, <3>1 DEF FirstOf
      <3>3. QED
        BY <2>2, <2>3, <3>2
    <2>5. FirstOf(m, d)'
      BY <2>3, <2>4 DEF FirstOf
    <2>6. mainQ'[m].ok = mainQ[i].ok /\ mainQ'[m].docs = mainQ[i].docs
      BY <2>2, <2>3
    <2>7. QED
      BY <1>1, <1>4, <2>1, <2>5, <2>6 DEF ReplyKinds
  <1>5. QED
    BY <1>3, <1>4

----------------------------------------------------------------------------
(* What the promise sees of the worker queue.                              *)

Work == Filter(workerQ, NotUnlisten)

LEMMA WorkType ==
  ASSUME TypeOK
  PROVE  workerQ \in Seq(Op) /\ Work \in Seq(Op)
  <1>1. Asked \subseteq Op
    BY ListenerTypes DEF Asked, Op
  <1>2. workerQ \in Seq(Op)
    BY <1>1 DEF TypeOK
  <1>3. QED
    BY <1>2, FilterType DEF Work

LEMMA WorkEnqueued ==
  ASSUME TypeOK, NEW o \in Op, workerQ' = Append(workerQ, o)
  PROVE  Work' = IF o.op = "unlisten" THEN Work ELSE Append(Work, o)
  BY WorkType, FilterAppend DEF Work, NotUnlisten

LEMMA WorkDone ==
  ASSUME TypeOK, workerQ # <<>>, workerQ' = Tail(workerQ)
  PROVE  IF Head(workerQ).op = "unlisten" THEN Work' = Work
         ELSE Work # <<>> /\ Head(Work) = Head(workerQ) /\ Work' = Tail(Work)
  <1>1. workerQ \in Seq(Op) /\ Head(workerQ) \in Op /\ Tail(workerQ) \in Seq(Op)
    BY WorkType, HeadTailProperties
  <1>2. PICK h \in Op, r \in Seq(Op) : h = Head(workerQ) /\ r = Filter(Tail(workerQ), NotUnlisten)
    BY <1>1, FilterType
  <1>3. Work' = r
    BY <1>2 DEF Work
  <1>4. CASE h.op = "unlisten"
    BY <1>1, <1>2, <1>3, <1>4, FilterTail DEF Work, NotUnlisten
  <1>5. CASE h.op # "unlisten"
    <2>1. Work = <<h>> \o r
      BY <1>1, <1>2, <1>5, FilterTail DEF Work, NotUnlisten
    <2>2. PICK w : w = <<h>> \o r
      OBVIOUS
    <2>3. w # <<>> /\ Head(w) = h /\ Tail(w) = r
      BY <1>2, <2>2
    <2>4. QED
      BY <1>2, <1>3, <1>5, <2>1, <2>2, <2>3
  <1>6. QED
    BY <1>4, <1>5

----------------------------------------------------------------------------
(* The reads that the promise counts as waiting for their answer.          *)

\* What is known of every state.
Known ==
  /\ TypeOK /\ NoLostWakeup /\ NoLostEvent
  /\ WaitingInv /\ AnswerInv /\ HandledInv /\ OrderInv

LEMMA RegisteredIs ==
  ASSUME TypeOK, NEW c, c \in Promise!Registered
  PROVE  c \in 1..Len(calls) /\ c \in Unheard(Calls) /\ ~Waits(c)
  <1>1. /\ c \in 1..Len(calls) /\ c \in Calls /\ Replies[c].state = "waiting"
        /\ \A i \in 1..Len(Work) : Work[i] # Listen(c)
    BY ListenerTypes DEF Promise!Registered, Replies, Work, Promise!Listen, Listen
  <1>2. ReplyTo(c).state = "waiting"
    BY <1>1 DEF Replies
  <1>3. ReplyKinds /\ answers[c] \in Nat
    BY <1>1, ReplyIs DEF TypeOK
  <1>4. ~(answers[c] > 0)
    <2>1. Promise!Done.state # "waiting"
      BY DEF Promise!Done
    <2>2. QED
      BY <1>1, <1>2, <1>3, <2>1 DEF ReplyKinds
  <1>5. ~Queued(c)
    <2>1. \A docs, ok : Posted(docs, ok).state # "waiting"
      BY DEF Posted
    <2>2. QED
      BY <1>1, <1>2, <1>3, <1>4, <2>1 DEF ReplyKinds
  <1>6. ~Waits(c)
    <2>1. Listen(c) \in NotUnlisten
      BY <1>1 DEF Listen, NotUnlisten, Op
    <2>2. \A i \in 1..Len(workerQ) : workerQ[i] # Listen(c)
      <3>1. PICK e \in NotUnlisten : e = Listen(c)
        BY <2>1
      <3>2. ~ \E i \in 1..Len(Filter(workerQ, NotUnlisten)) : Filter(workerQ, NotUnlisten)[i] = e
        BY <1>1, <3>1 DEF Work
      <3>3. ~ \E i \in 1..Len(workerQ) : workerQ[i] = e
        BY <3>2, WorkType, FilterElements
      <3>4. QED
        BY <3>1, <3>3
    <2>3. ASSUME NEW i \in 1..Len(workerQ), workerQ[i].op = "listen", workerQ[i].call = c
          PROVE  workerQ[i] = Listen(c)
      <3>1. workerQ[i] \in Op
        BY WorkType, ElementOfSeq
      <3>2. workerQ[i] \notin Mutation
        BY <2>3 DEF Mutation
      <3>3. workerQ[i] \in [op : {"listen", "unlisten"}, call : Calls]
        BY <3>1, <3>2 DEF Op
      <3>4. workerQ[i] = [op |-> workerQ[i].op, call |-> workerQ[i].call]
        BY <3>3
      <3>5. QED
        BY <2>3, <3>4 DEF Listen
    <2>4. QED
      BY <2>2, <2>3 DEF Waits
  <1>7. QED
    BY <1>1, <1>3, <1>4, <1>5, <1>6 DEF Unheard

\* Such a read has a listener, which has raised nothing.
LEMMA RegisteredListens ==
  ASSUME Known, NEW c, c \in Promise!Registered
  PROVE  c \in listening /\ c \notin raised /\ ~MayRaise(c, net)
  <1>1. c \in 1..Len(calls) /\ c \in Unheard(Calls) /\ ~Waits(c)
    BY RegisteredIs DEF Known
  <1>2. ~(answers[c] > 0) /\ ~Queued(c)
    BY <1>1 DEF Unheard
  <1>3. c \in listening
    BY <1>1, <1>2 DEF Known, HandledInv
  <1>4. c \notin raised
    BY <1>2, RaisedHandled DEF Known
  <1>5. QED
    BY <1>3, <1>4 DEF Known, NoLostWakeup

LEMMA ListenersRegister ==
  ASSUME Known, NEW S \in SUBSET listening
  PROVE  Unheard(S) \subseteq Promise!Registered
  <1> SUFFICES ASSUME NEW c \in Unheard(S) PROVE c \in Promise!Registered
    OBVIOUS
  <1>1. /\ c \in listening /\ c \in 1..Len(calls) /\ c \in Calls /\ ~(answers[c] > 0)
        /\ ~Queued(c)
    BY ListenerTypes DEF Known, Unheard
  <1>2. Replies[c].state = "waiting"
    <2>1. Promise!Waiting.state = "waiting"
      BY DEF Promise!Waiting
    <2>2. QED
      BY <1>1, <2>1, ReplyIs DEF Known, ReplyKinds, Replies
  <1>3. ~Waits(c)
    BY <1>1 DEF Known, WaitingInv
  <1>4. \A i \in 1..Len(workerQ) : workerQ[i] # Listen(c)
    BY <1>3 DEF Waits, Listen
  <1>5. Listen(c) \in NotUnlisten
    BY <1>1 DEF Listen, NotUnlisten, Op
  <1>6. \A i \in 1..Len(Work) : Work[i] # Listen(c)
    BY <1>4, <1>5, WorkType, FilterElements DEF Work, Known
  <1>7. QED
    BY <1>1, <1>2, <1>6 DEF Promise!Registered, Replies, Work, Promise!Listen, Listen

\* The listeners that hear of a batch for the first time are the oldest of those
\* that wait.
LEMMA BatchOfOldest ==
  ASSUME Known, NEW S \in SUBSET listening, EarlierFirst(S)
  PROVE  Unheard(S) \in SUBSET Promise!Registered
         /\ Promise!Oldest(Unheard(S), Promise!Registered)
  <1>1. ASSUME NEW c \in Unheard(S), NEW d \in Promise!Registered \ Unheard(S), calls[c] = calls[d]
        PROVE  c < d
    <2>1. d \in listening /\ d \notin raised /\ d \in Unheard(Calls)
      BY RegisteredIs, RegisteredListens DEF Known
    <2>2. c \in S /\ c \in Nat /\ d \in Nat
      BY <2>1, ListenerTypes DEF Known, Unheard
    <2>3. d \notin S
      BY <2>1 DEF Unheard
    <2>4. ~(d < c)
      BY <1>1, <2>1, <2>2, <2>3 DEF EarlierFirst
    <2>5. QED
      BY <1>1, <2>2, <2>4
  <1>2. QED
    BY <1>1, ListenersRegister DEF Promise!Oldest

----------------------------------------------------------------------------
(* Each step of the client is a step of the promise, or leaves what it     *)
(* speaks of as it is.                                                     *)

Stands == UNCHANGED <<server, local, pending, calls, Work, Replies>>

LEMMA SameOperators ==
  /\ \A m, docs : Promise!Put(m, docs) = Put(m, docs)
  /\ \A docs, D, s, q : Promise!Refreshed(docs, D, s, q) = Refreshed(docs, D, s, q)
  /\ \A D, p : Promise!Write(D, p) = Write(D, p)
  /\ \A c : Promise!Listen(c) = Listen(c)
  /\ Promise!Places = Places /\ Promise!NoDocs = NoDocs /\ Promise!Calls = Calls
  <1>1. \A q : Promise!Written(q) = Written(q)
    BY DEF Promise!Written, Written
  <1>2. QED
    BY <1>1 DEF Promise!Put, Put, Promise!Refreshed, Refreshed, Promise!Write, Write,
                Promise!Listen, Listen, Promise!Places, Places, Promise!NoDocs, NoDocs,
                Promise!Calls, Calls

LEMMA ListenStep ==
  ASSUME Known, TypeOK', AddListener
  PROVE  Promise!StoreStep
  <1>1. PICK c : c = Head(workerQ).call
    OBVIOUS
  <1>2. PICK S : S = IF MayRaise(c, net) THEN {c} ELSE {}
    OBVIOUS
  <1>3. /\ workerQ # <<>> /\ Head(workerQ).op = "listen" /\ workerQ' = Tail(workerQ)
        /\ Post(S, local, TRUE)
        /\ UNCHANGED <<server, local, pending, calls, answers>>
    BY <1>1, <1>2 DEF AddListener
  <1>4. c \in 1..Len(calls) /\ c \in Calls /\ Waits(c)
    BY <1>1, <1>3, HeadWaits DEF Known, WaitingInv
  <1>5. Unheard(S) = S /\ S \in SUBSET {c} /\ S \in SUBSET Calls
    <2>1. answers[c] = 0 /\ ~Queued(c)
      BY <1>4 DEF Known, WaitingInv
    <2>2. QED
      BY <1>2, <1>4, <2>1 DEF Unheard
  <1>6. Promise!Post(S, local, TRUE)
    BY <1>3, <1>5, PostAnswers DEF Known
  <1>7. Promise!Oldest(S, Promise!Registered \cup {c})
    <2>1. ASSUME NEW d \in Promise!Registered, MayRaise(c, net), calls[c] = calls[d]
          PROVE  FALSE
      BY <2>1, RegisteredListens DEF MayRaise
    <2>2. QED
      BY <1>2, <2>1 DEF Promise!Oldest
  <1>8. Work # <<>> /\ Head(Work) = Head(workerQ) /\ Work' = Tail(Work)
    BY <1>3, WorkDone DEF Known
  <1>9. Promise!TakeListen
    BY <1>1, <1>3, <1>5, <1>6, <1>7, <1>8 DEF Promise!TakeListen, Work
  <1>10. QED
    BY <1>9 DEF Promise!StoreStep

LEMMA RemovalStands ==
  ASSUME Known, RemoveListener
  PROVE  Stands
  <1>1. workerQ # <<>> /\ Head(workerQ).op = "unlisten" /\ workerQ' = Tail(workerQ)
        /\ UNCHANGED <<server, local, pending, calls, answers, mainQ>>
    BY DEF RemoveListener
  <1>2. Work' = Work
    BY <1>1, WorkDone DEF Known
  <1>3. QED
    BY <1>1, <1>2, RepliesStand DEF Stands

LEMMA WriteStep ==
  ASSUME Known, TypeOK', WriteLocally
  PROVE  Promise!StoreStep
  <1>1. PICK m, S : /\ m = Head(workerQ) /\ S = Told(m.docs)
                    /\ Post(S, Put(m, local), TRUE)
                    /\ local' = Put(m, local) /\ pending' = Append(pending, m)
    BY DEF WriteLocally
  <1>2. /\ workerQ # <<>> /\ m.op = "write" /\ workerQ' = Tail(workerQ)
        /\ UNCHANGED <<server, calls, answers>>
    BY <1>1 DEF WriteLocally
  <1>3. S \in SUBSET Calls
    BY <1>1, ListenersAreCalls DEF Known
  <1>4. Unheard(S) = {}
    <2>1. ASSUME NEW c \in S PROVE answers[c] > 0 \/ Queued(c)
      <3>1. c \in raised
        BY <1>1 DEF Told, Known, NoLostWakeup
      <3>2. QED
        BY <3>1, RaisedHandled DEF Known
    <2>2. QED
      BY <2>1 DEF Unheard
  <1>5. Replies' = Replies
    BY <1>1, <1>2, <1>3, <1>4, PostNobody DEF Known
  <1>6. Work # <<>> /\ Head(Work) = m /\ Work' = Tail(Work)
    BY <1>1, <1>2, WorkDone DEF Known
  <1>7. Promise!TakeWrite
    BY <1>1, <1>2, <1>5, <1>6, SameOperators DEF Promise!TakeWrite, Work, Replies
  <1>8. QED
    BY <1>7 DEF Promise!StoreStep

LEMMA AcknowledgeStep ==
  ASSUME WriteAcknowledged
  PROVE  Promise!StoreStep
  <1>1. /\ pending # <<>> /\ server' = Put(Head(pending), server) /\ pending' = Tail(pending)
        /\ UNCHANGED <<local, calls, answers, workerQ, mainQ>>
    BY DEF WriteAcknowledged
  <1>2. Replies' = Replies /\ Work' = Work
    BY <1>1, RepliesStand DEF Work
  <1>3. Promise!Acknowledge
    BY <1>1, <1>2, SameOperators DEF Promise!Acknowledge, Work, Replies
  <1>4. QED
    BY <1>3 DEF Promise!StoreStep

LEMMA OthersStep ==
  ASSUME Others
  PROVE  Promise!StoreStep
  <1>1. PICK u \in Users, p \in Places : Elsewhere({u}, p)
    BY DEF Others
  <1>2. /\ server' = Put(Write({u}, p), server)
        /\ UNCHANGED <<local, pending, calls, answers, workerQ, mainQ>>
    BY <1>1 DEF Elsewhere
  <1>3. Replies' = Replies /\ Work' = Work
    BY <1>2, RepliesStand DEF Work
  <1>4. Promise!Elsewhere({u}, p)
    BY <1>2, <1>3, SameOperators DEF Promise!Elsewhere, Work, Replies
  <1>5. {u} \in SUBSET Users /\ p \in Promise!Places
    BY SameOperators
  <1>6. QED
    BY <1>4, <1>5 DEF Promise!StoreStep

LEMMA SnapshotStep ==
  ASSUME Known, TypeOK', NEW q \in Targets, RemoteEvent(q)
  PROVE  Promise!StoreStep
  <1>1. PICK changed, S, seen :
          /\ seen = Refreshed(local, q, server, pending)
          /\ S = Told(changed) \cup (IF q \in synced THEN {} ELSE {c \in listening : calls[c] = q})
          /\ Post(S, seen, TRUE) /\ local' = seen
    BY DEF RemoteEvent
  <1>2. UNCHANGED <<server, pending, calls, answers, workerQ>>
    BY DEF RemoteEvent
  <1>3. S \in SUBSET listening /\ S \in SUBSET Calls
    BY <1>1, ListenersAreCalls DEF Known
  <1>4. EarlierFirst(S)
    <2>1. EarlierFirst(Told(changed))
      BY ToldInOrder DEF Known, OrderInv
    <2>2. EarlierFirst({c \in listening : calls[c] = q})
      BY DEF EarlierFirst
    <2>3. QED
      BY <1>1, <2>1, <2>2 DEF EarlierFirst
  <1>5. /\ Unheard(S) \in SUBSET Promise!Registered
        /\ Promise!Oldest(Unheard(S), Promise!Registered)
        /\ Promise!Post(Unheard(S), seen, TRUE)
    BY <1>1, <1>2, <1>3, <1>4, BatchOfOldest, PostAnswers DEF Known
  <1>6. Work' = Work
    BY <1>2 DEF Work
  <1>7. Promise!Sync(q, Unheard(S))
    BY <1>1, <1>2, <1>5, <1>6, SameOperators DEF Promise!Sync, Work
  <1>8. q \in SUBSET Users
    BY ListenersAreCalls DEF Known
  <1>9. QED
    BY <1>5, <1>7, <1>8 DEF Promise!StoreStep

LEMMA RejectStep ==
  ASSUME Known, TypeOK', NEW q, ListenRejected(q)
  PROVE  Promise!StoreStep
  <1>1. PICK S : S = {c \in listening : calls[c] = q} /\ Post(S, NoDocs, FALSE)
    BY DEF ListenRejected
  <1>2. UNCHANGED <<server, local, pending, calls, answers, workerQ>>
    BY DEF ListenRejected
  <1>3. S \in SUBSET listening /\ S \in SUBSET Calls /\ EarlierFirst(S)
    BY <1>1, ListenersAreCalls DEF Known, EarlierFirst
  <1>4. /\ Unheard(S) \in SUBSET Promise!Registered
        /\ Promise!Oldest(Unheard(S), Promise!Registered)
        /\ Promise!Post(Unheard(S), NoDocs, FALSE)
    BY <1>1, <1>2, <1>3, BatchOfOldest, PostAnswers DEF Known
  <1>5. Work' = Work
    BY <1>2 DEF Work
  <1>6. Promise!Reject(Unheard(S))
    BY <1>2, <1>4, <1>5, SameOperators DEF Promise!Reject, Work
  <1>7. QED
    BY <1>4, <1>6 DEF Promise!StoreStep

LEMMA OnlineStateStep ==
  ASSUME Known, TypeOK', NEW state, OnlineStateBecomes(state),
         UNCHANGED <<server, local, pending, calls, answers, workerQ>>
  PROVE  Promise!StoreStep \/ Stands
  <1>1. Work' = Work
    BY DEF Work
  <1>2. CASE state = "offline"
    <2>1. PICK S : S = ToldOffline /\ Post(S, local, TRUE)
      BY <1>2 DEF OnlineStateBecomes
    <2>2. S \in SUBSET listening /\ S \in SUBSET Calls /\ EarlierFirst(S)
      BY <2>1, ListenersAreCalls DEF Known, ToldOffline, EarlierFirst
    <2>3. /\ Unheard(S) \in SUBSET Promise!Registered
          /\ Promise!Oldest(Unheard(S), Promise!Registered)
          /\ Promise!Post(Unheard(S), local, TRUE)
      BY <2>1, <2>2, BatchOfOldest, PostAnswers DEF Known
    <2>4. local = Refreshed(local, {}, server, pending)
      BY DEF Known, TypeOK, Docs, Refreshed
    <2>5. Promise!Sync({}, Unheard(S))
      BY <1>1, <2>3, <2>4, SameOperators DEF Promise!Sync, Work
    <2>6. {} \in SUBSET Users
      OBVIOUS
    <2>7. QED
      BY <2>3, <2>5, <2>6 DEF Promise!StoreStep
  <1>3. CASE state # "offline"
    <2>1. mainQ' = mainQ
      BY <1>3 DEF OnlineStateBecomes
    <2>2. QED
      BY <1>1, <2>1, RepliesStand DEF Stands
  <1>4. QED
    BY <1>2, <1>3

LEMMA NetworkStep ==
  ASSUME Known, TypeOK', Network
  PROVE  Promise!StoreStep \/ Stands
  <1>1. CASE WriteAcknowledged
    BY <1>1, AcknowledgeStep
  <1>2. CASE \E q \in Targets : RemoteEvent(q) \/ ListenRejected(q)
    BY <1>2, SnapshotStep, RejectStep
  <1>3. CASE StreamOpens \/ (StreamBreaks /\ net = "offline")
    <2>1. UNCHANGED <<server, local, pending, calls, answers, workerQ, mainQ>>
      BY <1>3 DEF StreamOpens, StreamBreaks
    <2>2. QED
      BY <2>1, RepliesStand DEF Stands, Work
  <1>4. CASE FirstMessage \/ StreamEnds \/ OnlineStateTimeout \/ RestartNetwork
             \/ (StreamBreaks /\ net # "offline")
    <2>1. /\ \E state : OnlineStateBecomes(state)
          /\ UNCHANGED <<server, local, pending, calls, answers, workerQ>>
      BY <1>4 DEF FirstMessage, StreamEnds, OnlineStateTimeout, RestartNetwork, StreamBreaks
    <2>2. QED
      BY <2>1, OnlineStateStep
  <1>5. QED
    BY <1>1, <1>2, <1>3, <1>4 DEF Network

LEMMA DropStands ==
  ASSUME Known, TypeOK', NEW c \in 1..Len(calls), DropEvent(c)
  PROVE  Stands
  <1>1. /\ c \in muted /\ Pop(c) /\ mainQ # <<>>
        /\ UNCHANGED <<server, local, pending, calls, answers, workerQ>>
    BY DEF DropEvent, FirstEvent
  <1>2. ASSUME NEW d \in Calls PROVE ReplyTo(d)' = ReplyTo(d)
    <2>1. CASE d = c
      <3>1. answers[d] > 0 /\ answers'[d] > 0
        BY <1>1, <2>1 DEF Known, HandledInv
      <3>2. QED
        BY <1>2, <3>1, ReplyIs, ReplyThen DEF ReplyKinds, Known
    <2>2. CASE d # c
      BY <1>1, <2>2, PopReplies DEF Known
    <2>3. QED
      BY <2>1, <2>2
  <1>3. Replies' = Replies
    BY <1>2 DEF Replies
  <1>4. QED
    BY <1>1, <1>3 DEF Stands, Work

\* A completion enqueues nothing the promise knows of.
LEMMA DeliveryWork ==
  ASSUME Known, NEW c \in 1..Len(calls), Deliver(c, <<>>)
  PROVE  Work' = Work
  <1>1. PICK o : o = Unlisten(c)
    OBVIOUS
  <1>2. o \in Op /\ o \in Asked /\ o.op = "unlisten"
    BY <1>1, ListenerTypes DEF Unlisten, Op, Asked, Known
  <1>3. workerQ' = (workerQ \o <<o>>) \o <<>> \/ workerQ' = workerQ \o <<>>
    BY <1>1 DEF Deliver
  <1>4. workerQ \in Seq(Asked) /\ workerQ \o <<>> = workerQ
    BY DEF Known, TypeOK
  <1>5. workerQ \o <<o>> = Append(workerQ, o) /\ Append(workerQ, o) \in Seq(Asked)
    BY <1>2, <1>4, AppendIsConcat, AppendProperties
  <1>6. Append(workerQ, o) \o <<>> = Append(workerQ, o)
    BY <1>5, ConcatEmptySeq
  <1>7. workerQ' = workerQ \/ workerQ' = Append(workerQ, o)
    BY <1>3, <1>4, <1>5, <1>6
  <1>8. CASE workerQ' = workerQ
    BY <1>8 DEF Work
  <1>9. CASE workerQ' = Append(workerQ, o)
    BY <1>2, <1>9, WorkEnqueued DEF Known
  <1>10. QED
    BY <1>7, <1>8, <1>9

LEMMA CompletionStep ==
  ASSUME Known, TypeOK', NEW c \in 1..Len(calls), Deliver(c, <<>>)
  PROVE  Promise!AppStep
  <1>1. /\ c \notin muted /\ Pop(c) /\ FirstEvent(c) /\ mainQ # <<>> /\ c \in Head(mainQ).calls
        /\ answers' = [answers EXCEPT ![c] = @ + 1]
        /\ UNCHANGED <<server, local, pending, calls>>
    BY DEF Deliver, FirstEvent
  <1>2. c \in Calls /\ answers[c] \in Nat
    BY ListenerTypes DEF Known, TypeOK
  <1>3. 1 \in 1..Len(mainQ) /\ Head(mainQ) = mainQ[1] /\ Len(mainQ) \in Nat
    BY <1>1 DEF Known, TypeOK
  <1>4. answers[c] = 0
    <2>1. Queued(c)
      BY <1>1, <1>3 DEF Queued
    <2>2. QED
      BY <1>1, <1>2, <2>1 DEF Known, AnswerInv
  <1>5. answers'[c] = 1 /\ \A d \in Calls : d # c => answers'[d] = answers[d]
    BY <1>1, <1>2, <1>4 DEF Known, TypeOK
  <1>6. ReplyKinds /\ ReplyKinds'
    BY ReplyIs, ReplyThen DEF Known
  <1>7. Replies[c].state = "posted"
    <2>1. FirstOf(1, c)
      BY <1>1, <1>3 DEF FirstOf
    <2>2. ReplyTo(c) = Posted(mainQ[1].docs, mainQ[1].ok)
      BY <1>2, <1>4, <1>6, <2>1 DEF ReplyKinds
    <2>3. QED
      BY <1>2, <2>2 DEF Replies, Posted
  <1>8. ASSUME NEW d \in 1..c - 1, calls[d] = calls[c] PROVE Replies[d].state = "done"
    <2>1. d \in 1..Len(calls) /\ d \in Calls /\ d < c /\ ~(c <= d)
      BY ListenerTypes DEF Known
    <2>2. answers[d] > 0 \/ \E j \in 1..Len(mainQ) : j <= 1 /\ d \in mainQ[j].calls
      BY <1>1, <1>3, <1>8, <2>1 DEF Known, OrderInv, EventsInOrder
    <2>3. d \notin mainQ[1].calls
      BY <1>1, <1>3, <1>8, <2>1 DEF FirstEvent
    <2>4. answers[d] > 0
      BY <1>3, <2>2, <2>3
    <2>5. ReplyTo(d) = Promise!Done
      BY <1>6, <2>1, <2>4 DEF ReplyKinds
    <2>6. QED
      BY <2>1, <2>5 DEF Replies, Promise!Done
  <1>9. Replies' = [Replies EXCEPT ![c] = Promise!Done]
    <2>1. ReplyTo(c)' = Promise!Done
      BY <1>2, <1>5, <1>6 DEF ReplyKinds
    <2>2. ASSUME NEW d \in Calls, d # c PROVE ReplyTo(d)' = ReplyTo(d)
      BY <1>1, <1>5, <2>2, PopReplies DEF Known
    <2>3. QED
      BY <2>1, <2>2 DEF Replies
  <1>10. Work' = Work \o <<>>
    <2>1. Work \o <<>> = Work
      BY WorkType, ConcatEmptySeq DEF Known
    <2>2. QED
      BY <2>1, DeliveryWork
  <1>11. Promise!Complete(c, <<>>)
    BY <1>1, <1>7, <1>8, <1>9, <1>10 DEF Promise!Complete, Work, Replies
  <1>12. <<>> \in Promise!Mutations
    BY DEF Promise!Mutations
  <1>13. QED
    BY <1>11, <1>12 DEF Promise!AppStep

LEMMA GetStep ==
  ASSUME Known, NEW q \in Queries, Get(q)
  PROVE  Promise!AppStep
  <1>1. PICK o : o = Listen(Len(calls) + 1)
    OBVIOUS
  <1>2. PICK qs : qs = <<q>>
    OBVIOUS
  <1>3. /\ Len(calls) < MaxCalls /\ calls' = Append(calls, q) /\ workerQ' = Append(workerQ, o)
        /\ UNCHANGED <<server, local, pending, answers, mainQ>>
    BY <1>1 DEF Get
  <1>4. Len(calls) \in Nat /\ MaxCalls \in Nat /\ calls \in Seq(SUBSET Users) /\ q \in SUBSET Users
    BY ListenerTypes DEF Known, TypeOK, Queries
  <1>5. Replies' = Replies
    BY <1>3, RepliesStand
  <1>6. o \in Op /\ o.op # "unlisten"
    BY <1>1, <1>3, <1>4 DEF Listen, Op, Calls
  <1>7. Work \in Seq(Op) /\ Work' = Append(Work, o)
    BY <1>3, <1>6, WorkEnqueued, WorkType DEF Known
  <1>8. qs \in [1..1 -> Promise!Queries] /\ Len(qs) = 1 /\ calls' = calls \o qs
    <2>1. Queries = Promise!Queries
      BY DEF Queries, Promise!Queries
    <2>2. calls' = calls \o qs
      BY <1>2, <1>3, <1>4, AppendIsConcat
    <2>3. QED
      BY <1>2, <2>1, <2>2
  <1>9. [i \in 1..Len(qs) |-> Promise!Listen(Len(calls) + i)] = <<o>>
    <2>1. [i \in 1..1 |-> Promise!Listen(Len(calls) + i)] = <<o>>
      BY <1>1, SameOperators
    <2>2. QED
      BY <1>8, <2>1
  <1>10. Work' = (Work \o <<>>) \o <<o>>
    <2>1. Work \o <<>> = Work /\ Append(Work, o) = Work \o <<o>>
      BY <1>6, <1>7, ConcatEmptySeq, AppendIsConcat
    <2>2. QED
      BY <1>7, <2>1
  <1>11. Promise!Ask(<<>>, qs)
    <2>1. Len(calls) + Len(qs) <= MaxCalls
      BY <1>3, <1>4, <1>8
    <2>2. QED
      BY <1>3, <1>5, <1>8, <1>9, <1>10, <2>1 DEF Promise!Ask, Work, Replies
  <1>12. <<>> \in Promise!Mutations /\ 1 \in 0..2
    BY DEF Promise!Mutations
  <1>13. QED
    BY <1>8, <1>11, <1>12 DEF Promise!AppStep

LEMMA SetStep ==
  ASSUME Known, NEW u \in Users, NEW p \in Places, Set(u, p)
  PROVE  Promise!AppStep
  <1>1. PICK o : o = Write({u}, p)
    OBVIOUS
  <1>2. PICK qs, ls : qs = <<>> /\ ls = [i \in 1..Len(qs) |-> Promise!Listen(Len(calls) + i)]
    OBVIOUS
  <1>3. /\ workerQ' = Append(workerQ, o)
        /\ UNCHANGED <<server, local, pending, calls, answers, mainQ>>
    BY <1>1 DEF Set
  <1>4. Len(calls) \in Nat /\ MaxCalls \in Nat /\ Len(calls) <= MaxCalls
        /\ calls \in Seq(SUBSET Users)
    BY ListenerTypes DEF Known, TypeOK
  <1>5. Replies' = Replies
    BY <1>3, RepliesStand
  <1>6. o \in Op /\ o.op # "unlisten"
    BY <1>1 DEF Write, Op, Mutation
  <1>7. Work \in Seq(Op) /\ Work' = Append(Work, o)
    BY <1>3, <1>6, WorkEnqueued, WorkType DEF Known
  <1>8. Len(qs) = 0 /\ qs \in [1..0 -> Promise!Queries] /\ calls' = calls \o qs /\ ls = <<>>
    <2>1. Len(qs) = 0 /\ 1..0 = {}
      BY <1>2
    <2>2. qs \in [1..0 -> Promise!Queries]
      BY <1>2, <2>1
    <2>3. calls \o qs = calls
      BY <1>2, <1>4, ConcatEmptySeq
    <2>4. ls = <<>>
      BY <1>2, <2>1
    <2>5. QED
      BY <1>3, <2>1, <2>2, <2>3, <2>4
  <1>9. Work' = (Work \o <<o>>) \o ls
    <2>1. Work \o <<o>> = Append(Work, o) /\ Append(Work, o) \in Seq(Op)
      BY <1>6, <1>7, AppendProperties, AppendIsConcat
    <2>2. Append(Work, o) \o <<>> = Append(Work, o)
      BY <2>1, ConcatEmptySeq
    <2>3. QED
      BY <1>7, <1>8, <2>1, <2>2
  <1>10. Promise!Ask(<<o>>, qs)
    <2>1. Len(calls) + Len(qs) <= MaxCalls
      BY <1>4, <1>8
    <2>2. QED
      BY <1>2, <1>3, <1>5, <1>8, <1>9, <2>1 DEF Promise!Ask, Work, Replies
  <1>11. <<o>> \in Promise!Mutations /\ 0 \in 0..2
    <2>1. o = Promise!Write({u}, p) /\ {u} \in SUBSET Users /\ p \in Promise!Places
      BY <1>1, SameOperators
    <2>2. QED
      BY <2>1 DEF Promise!Mutations
  <1>12. QED
    BY <1>8, <1>10, <1>11 DEF Promise!AppStep

LEMMA PromiseStep ==
  ASSUME Known, TypeOK', [Next]_vars
  PROVE  Promise!StoreStep \/ Promise!AppStep \/ Stands
  <1>1. CASE App
    BY <1>1, GetStep, SetStep DEF App
  <1>2. CASE Worker
    BY <1>2, ListenStep, RemovalStands, WriteStep DEF Worker
  <1>3. CASE Network
    BY <1>3, NetworkStep
  <1>4. CASE MainQueue
    BY <1>4, DropStands, CompletionStep DEF MainQueue
  <1>5. CASE Others
    BY <1>5, OthersStep
  <1>6. CASE UNCHANGED vars
    <2>1. UNCHANGED <<server, local, pending, calls, answers, workerQ, mainQ>>
      BY <1>6 DEF vars, storeVars
    <2>2. QED
      BY <2>1, RepliesStand DEF Stands, Work
  <1>7. QED
    BY <1>1, <1>2, <1>3, <1>4, <1>5, <1>6 DEF Next

LEMMA PromiseInit ==
  ASSUME Init, TypeOK
  PROVE  Promise!StoreInit
  <1>1. /\ server \in Docs /\ local = [u \in Users |-> NoTable] /\ pending = <<>> /\ calls = <<>>
        /\ workerQ = <<>> /\ mainQ = <<>> /\ answers = [c \in Calls |-> 0]
    BY DEF Init
  <1>2. Docs = Promise!Docs /\ local \in Docs /\ Calls = Promise!Calls
    BY <1>1 DEF Docs, Places, Promise!Docs, Promise!Places, Calls, Promise!Calls
  <1>3. Work = <<>>
    BY <1>1, FilterOfNone DEF Work
  <1>4. ASSUME NEW c \in Calls PROVE ReplyTo(c) = Promise!Waiting
    <2>1. ~(answers[c] > 0) /\ ~Queued(c)
      BY <1>1 DEF Queued
    <2>2. QED
      BY <2>1, ReplyIs DEF ReplyKinds
  <1>5. QED
    BY <1>1, <1>2, <1>3, <1>4 DEF Promise!StoreInit, Work

\* Whatever the connection does, the client keeps the promise of TableStore
\* (FirestoreClient.PromiseKept): what is asked takes effect in the order in which
\* it was asked, a read is answered once with the view at some later moment, and
\* the reads of one query in their order.
THEOREM StorePromise == Spec => PromiseKept
  <1>1. Init => Promise!StoreInit
    BY PromiseInit, InitType
  <1>2. Known /\ TypeOK' /\ [Next]_vars =>
          [Promise!StoreStep \/ Promise!AppStep]_(Promise!storeVars)
    BY PromiseStep DEF Stands, Promise!storeVars, Work, Replies
  <1>3. Spec => []Known
    BY Typing, Wakeups, EventsKept, Waiting, Answers, Handled, Ordered, PTL DEF Known
  <1>4. Spec => []TypeOK
    BY Typing
  <1>5. QED
    BY <1>1, <1>2, <1>3, <1>4, PTL DEF Spec, PromiseKept, Promise!StoreSpec
=============================================================================
