--------------------------- MODULE TableMap_proofs ---------------------------
(***************************************************************************)
(* Theorems about the map and the form, for every set of users and places  *)
(* and every bound, with their proofs.                                     *)
(***************************************************************************)
EXTENDS TableMap, TableStore_proofs

----------------------------------------------------------------------------
(* What a handler asks.                                                    *)

Asking == (SUBSET Users) \X Completion

\* The listeners of the reads rs, as Ask enqueues them.
Listens(n) == [i \in 1..n |-> Listen(Len(calls) + i)]

LEMMA IssueType ==
  ASSUME StoreTypeOK, todo \in Seq(Completion), Len(todo) = Len(calls),
         NEW ws \in Seq(Mutation), NEW rs \in Seq(Asking), Issue(ws, rs)
  PROVE  /\ StoreTypeOK'
         /\ todo' \in Seq(Completion)
         /\ Len(todo') = Len(calls')
         /\ Len(calls') = Len(calls) + Len(rs)
         /\ Len(calls) \in Nat /\ Len(calls') <= MaxCalls
  <1> DEFINE n  == Len(rs)
             qs == [i \in 1..n |-> rs[i][1]]
             ds == [i \in 1..n |-> rs[i][2]]
  <1>1. n \in Nat /\ \A i \in 1..n : rs[i][1] \in SUBSET Users /\ rs[i][2] \in Completion
    <2>1. n \in Nat
      BY LenProperties
    <2>2. ASSUME NEW i \in 1..n
          PROVE  rs[i][1] \in SUBSET Users /\ rs[i][2] \in Completion
      <3>1. rs[i] \in Asking
        BY ElementOfSeq
      <3>2. QED
        BY <3>1 DEF Asking
    <2>3. QED
      BY <2>1, <2>2
  <1>2. Ask(ws, qs) /\ todo' = todo \o ds
    BY DEF Issue
  <1> HIDE DEF n
  <1>3. qs \in Seq(SUBSET Users) /\ Len(qs) = n
    BY <1>1, SeqDef
  <1>4. ds \in Seq(Completion) /\ Len(ds) = n
    BY <1>1, SeqDef
  <1> HIDE DEF qs, ds
  <1>5. Len(calls) \in Nat /\ Len(calls) + n <= MaxCalls
    BY <1>2, <1>3, LenProperties DEF Ask, StoreTypeOK
  <1>6. calls' \in Seq(SUBSET Users) /\ Len(calls') = Len(calls) + n
    BY <1>2, <1>3, ConcatProperties DEF Ask, StoreTypeOK
  <1>7. todo' \in Seq(Completion) /\ Len(todo') = Len(todo) + n
    BY <1>2, <1>4, ConcatProperties
  <1>8. Listens(n) \in Seq(Op)
    <2>1. \A i \in 1..n : Listen(Len(calls) + i) \in Op
      BY <1>1, <1>5, MaxCallsAssumption DEF Listen, Op, Calls
    <2>2. Listens(n) \in [1..n -> Op]
      BY <2>1 DEF Listens
    <2>3. QED
      BY <1>1, <2>2, SeqDef
  <1>9. workerQ' \in Seq(Op)
    <2>1. ws \in Seq(Op)
      BY SeqMonotonic DEF Op
    <2>2. workerQ \o ws \in Seq(Op)
      BY <2>1, ConcatProperties DEF StoreTypeOK
    <2>3. workerQ' = (workerQ \o ws) \o Listens(n)
      BY <1>2, <1>3 DEF Ask, Listens
    <2>4. QED
      BY <1>8, <2>2, <2>3, ConcatProperties
  <1>10. StoreTypeOK'
    BY <1>2, <1>5, <1>6, <1>9 DEF Ask, StoreTypeOK
  <1>11. QED
    BY <1>5, <1>6, <1>7, <1>10 DEF n

LEMMA OneOrTwo ==
  ASSUME NEW S, NEW x \in S, NEW y \in S
  PROVE  /\ <<x>> \in Seq(S) /\ Len(<<x>>) = 1
         /\ <<x, y>> \in Seq(S) /\ Len(<<x, y>>) = 2
  OBVIOUS

LEMMA OneIsPositive == 1 \in Nat \ {0} /\ 2 \in Nat \ {0}
  OBVIOUS

LEMMA WhatIsAsked ==
  /\ setData \in Asking
  /\ \A u \in Users : <<{u}, [do |-> "load"]>> \in Asking
  /\ \A p \in Spots : <<Users, [do |-> "remove", at |-> p]>> \in Asking
  BY DEF setData, Asking, Completion

\* The screen after a handler that opens a new map, whose reads are rs.
LEMMA NewMapType ==
  ASSUME TypeOK, NEW ws \in Seq(Mutation), NEW rs \in Seq(Asking), Issue(ws, rs),
         NEW n \in Nat \ {0}, Len(rs) = n, ShowNewMap(n)
  PROVE  /\ StoreTypeOK'
         /\ todo' \in Seq(Completion) /\ Len(todo') = Len(calls')
         /\ mapRead' \in 1..Len(calls')
         /\ placed' \subseteq Spots
         /\ form' \in Form /\ form'.read <= Len(calls')
         /\ Len(calls) \in Nat /\ Len(calls') = Len(calls) + n
  <1>1. /\ StoreTypeOK'
        /\ todo' \in Seq(Completion) /\ Len(todo') = Len(calls')
        /\ Len(calls) \in Nat /\ Len(calls') = Len(calls) + n
    BY IssueType DEF TypeOK
  <1>2. mapRead' \in 1..Len(calls')
    BY <1>1 DEF ShowNewMap
  <1>3. form' \in Form /\ form'.read = 0
    BY MeAssumption, SpotsAssumption, MaxCallsAssumption DEF ShowNewMap, Closed, Form
  <1>4. QED
    BY <1>1, <1>2, <1>3 DEF ShowNewMap

----------------------------------------------------------------------------
(* Type correctness.                                                       *)

LEMMA InitType == Init => TypeOK
  <1> SUFFICES ASSUME Init PROVE TypeOK
    OBVIOUS
  <1>1. Me \in Users /\ Origin \in Spots /\ MaxCalls \in Nat
    BY MeAssumption, SpotsAssumption, MaxCallsAssumption
  <1>2. server \in Docs /\ local \in Docs
    BY BlankTypes DEF Init
  <1>3. calls \in Seq(SUBSET Users) /\ Len(calls) = 1
    BY DEF Init
  <1>4. todo \in Seq(Completion) /\ Len(todo) = 1
    BY DEF Init, Completion
  <1>5. workerQ \in Seq(Op)
    <2>1. Listen(1) \in Op
      BY <1>1, FirstReadAssumption DEF Listen, Op, Calls
    <2>2. QED
      BY <2>1 DEF Init
  <1>6. pending \in Seq(Mutation)
    BY EmptySeq DEF Init
  <1>7. reply \in [Calls -> Reply] /\ allMarkers \in [Calls -> SUBSET Marker]
        /\ removed \in [Calls -> SUBSET Users]
    BY BlankTypes DEF Init
  <1>8. StoreTypeOK
    BY <1>1, <1>2, <1>3, <1>5, <1>6, <1>7, FirstReadAssumption DEF StoreTypeOK
  <1>9. form \in Form /\ form.read = 0
    BY <1>1 DEF Init, Closed, Form
  <1>10. mapRead \in 1..Len(calls) /\ placed \subseteq Spots /\ toRemove \in Spots
         /\ image \in BOOLEAN /\ wiping \in BOOLEAN /\ mine \in Places \cup {"unwritten"}
    <2>1. mapRead \in 1..Len(calls)
      BY <1>3 DEF Init
    <2>2. placed \subseteq Spots /\ toRemove \in Spots /\ mine \in Places \cup {"unwritten"}
      BY <1>1 DEF Init
    <2>3. image \in BOOLEAN /\ wiping \in BOOLEAN
      BY DEF Init
    <2>4. QED
      BY <2>1, <2>2, <2>3
  <1>11. posted \in [pos : Spots, read : 0..Len(calls)]
    BY <1>1, <1>3 DEF Init
  <1>12. QED
    BY <1>3, <1>4, <1>7, <1>8, <1>9, <1>10, <1>11 DEF TypeOK

\* The form the user holds changes; nothing else does.
LEMMA FormBecomesType ==
  ASSUME TypeOK, NEW f \in Form, f.read <= Len(calls), FormBecomes(f)
  PROVE  TypeOK'
  BY DEF FormBecomes, TypeOK, StoreTypeOK, storeVars

LEMMA FormActionType ==
  ASSUME TypeOK,
         Dismiss \/ Type \/ editTapped \/ deleteTapped \/ CancelAlert \/ submitIncomplete
  PROVE  TypeOK'
  <1>1. form \in Form /\ form.read <= Len(calls) /\ Len(calls) \in Nat
    BY LenProperties DEF TypeOK, StoreTypeOK
  <1>2. Closed \in Form /\ Closed.read <= Len(calls)
    BY <1>1, MeAssumption, SpotsAssumption, MaxCallsAssumption DEF Closed, Form
  <1>3. CASE Dismiss
    BY <1>2, <1>3, FormBecomesType DEF Dismiss
  <1>4. CASE Type
    <2>1. [form EXCEPT !.filled = ~@] \in Form /\ [form EXCEPT !.filled = ~@].read = form.read
      BY <1>1 DEF Form
    <2>2. QED
      BY <1>1, <1>4, <2>1, FormBecomesType DEF Type
  <1>5. CASE editTapped
    <2>1. [form EXCEPT !.fields = TRUE] \in Form /\ [form EXCEPT !.fields = TRUE].read = form.read
      BY <1>1 DEF Form
    <2>2. QED
      BY <1>1, <1>5, <2>1, FormBecomesType DEF editTapped
  <1>6. ASSUME NEW a \in {"none", "delete", "invalid"},
               FormBecomes([form EXCEPT !.alert = a])
        PROVE  TypeOK'
    <2>1. [form EXCEPT !.alert = a] \in Form /\ [form EXCEPT !.alert = a].read = form.read
      BY <1>1 DEF Form
    <2>2. QED
      BY <1>1, <1>6, <2>1, FormBecomesType
  <1>7. CASE deleteTapped
    BY <1>6, <1>7 DEF deleteTapped
  <1>8. CASE CancelAlert
    BY <1>6, <1>8 DEF CancelAlert
  <1>9. CASE submitIncomplete
    BY <1>6, <1>9 DEF submitIncomplete
  <1>10. QED
    BY <1>3, <1>4, <1>5, <1>7, <1>8, <1>9

LEMMA PlaceType ==
  ASSUME TypeOK, NEW p \in Spots, PlaceMarker(p)
  PROVE  TypeOK'
  BY DEF PlaceMarker, TypeOK, StoreTypeOK, storeVars

LEMMA TapType ==
  ASSUME TypeOK, NEW v \in Visible, didTapInfoWindowOf(v[1], v[2])
  PROVE  TypeOK'
  <1>1. v[1] \in Spots /\ v[2] \in Users
    <2>1. mapRead \in Calls
      BY MaxCallsAssumption, LenProperties DEF TypeOK, StoreTypeOK, Calls
    <2>2. allMarkers[mapRead] \subseteq Marker
      BY <2>1 DEF TypeOK
    <2>3. QED
      BY <2>2, MeAssumption DEF Visible, Marker, TypeOK
  <1> DEFINE rs == <<<<{v[2]}, [do |-> "load"]>>>>
  <1>2. <<>> \in Seq(Mutation) /\ rs \in Seq(Asking) /\ Len(rs) = 1
    BY <1>1, WhatIsAsked, OneOrTwo, EmptySeq
  <1>3. Issue(<<>>, rs)
    BY DEF didTapInfoWindowOf
  <1> HIDE DEF rs
  <1>4. /\ StoreTypeOK' /\ todo' \in Seq(Completion) /\ Len(todo') = Len(calls')
        /\ Len(calls) \in Nat /\ Len(calls') = Len(calls) + 1 /\ Len(calls') <= MaxCalls
    BY <1>2, <1>3, IssueType DEF TypeOK
  <1>5. form' \in Form /\ form'.read <= Len(calls')
    <2>1. form' = [read |-> Len(calls) + 1, pos |-> v[1], owner |-> v[2], buttons |-> TRUE,
                   fields |-> TRUE, filled |-> FALSE, alert |-> "none"]
      BY DEF didTapInfoWindowOf, Closed
    <2>2. Len(calls) + 1 \in 0..MaxCalls
      BY <1>4, MaxCallsAssumption
    <2>3. QED
      BY <1>1, <1>4, <2>1, <2>2 DEF Form
  <1>6. mapRead' \in 1..Len(calls')
    BY <1>4 DEF didTapInfoWindowOf, TypeOK
  <1>7. posted' \in [pos : Spots, read : 0..Len(calls')]
    BY <1>4 DEF didTapInfoWindowOf, TypeOK
  <1>8. QED
    BY <1>4, <1>5, <1>6, <1>7 DEF didTapInfoWindowOf, TypeOK

LEMMA submitType ==
  ASSUME TypeOK, submitPressed
  PROVE  TypeOK'
  <1> DEFINE ws == <<Write({Me}, form.pos)>>
             rs == <<setData>>
  <1>1. form.pos \in Spots
    BY DEF TypeOK, Form
  <1>2. ws \in Seq(Mutation)
    <2>1. Write({Me}, form.pos) \in Mutation
      BY <1>1, MeAssumption DEF Write, Mutation, Places
    <2>2. QED
      BY <2>1
  <1>3. rs \in Seq(Asking) /\ Len(rs) = 1
    BY WhatIsAsked, OneOrTwo
  <1>4. Issue(ws, rs) /\ ShowNewMap(1)
    BY <1>3 DEF submitPressed
  <1> HIDE DEF ws, rs
  <1>5. /\ StoreTypeOK' /\ todo' \in Seq(Completion) /\ Len(todo') = Len(calls')
        /\ mapRead' \in 1..Len(calls') /\ placed' \subseteq Spots
        /\ form' \in Form /\ form'.read <= Len(calls')
        /\ Len(calls) \in Nat /\ Len(calls') = Len(calls) + 1
    BY <1>2, <1>3, <1>4, OneIsPositive, NewMapType, Zenon
  <1>6. posted' \in [pos : Spots, read : 0..Len(calls')]
    BY <1>1, <1>5 DEF submitPressed
  <1>7. mine' \in Places \cup {"unwritten"}
    BY <1>1 DEF submitPressed, Places
  <1>8. QED
    BY <1>5, <1>6, <1>7 DEF submitPressed, TypeOK

LEMMA BackToMapType ==
  ASSUME TypeOK, BackToMap
  PROVE  TypeOK'
  <1> DEFINE rs == <<setData>>
  <1>1. <<>> \in Seq(Mutation) /\ rs \in Seq(Asking) /\ Len(rs) = 1
    BY WhatIsAsked, OneOrTwo, EmptySeq
  <1>2. Issue(<<>>, rs) /\ ShowNewMap(1)
    BY <1>1 DEF BackToMap
  <1> HIDE DEF rs
  <1>3. /\ StoreTypeOK' /\ todo' \in Seq(Completion) /\ Len(todo') = Len(calls')
        /\ mapRead' \in 1..Len(calls') /\ placed' \subseteq Spots
        /\ form' \in Form /\ form'.read <= Len(calls')
        /\ Len(calls) \in Nat /\ Len(calls') = Len(calls) + 1
    BY <1>1, <1>2, OneIsPositive, NewMapType, Zenon
  <1>4. posted' \in [pos : Spots, read : 0..Len(calls')]
    BY <1>3 DEF BackToMap, TypeOK
  <1>5. QED
    BY <1>3, <1>4 DEF BackToMap, TypeOK

LEMMA ConfirmDeleteType ==
  ASSUME TypeOK, ConfirmDelete
  PROVE  TypeOK'
  <1> DEFINE rs == <<<<Users, [do |-> "remove", at |-> form.pos]>>, setData>>
  <1>1. form.pos \in Spots
    BY DEF TypeOK, Form
  <1>2. <<>> \in Seq(Mutation) /\ rs \in Seq(Asking) /\ Len(rs) = 2
    BY <1>1, WhatIsAsked, OneOrTwo, EmptySeq
  <1>3. Issue(<<>>, rs) /\ ShowNewMap(2)
    BY <1>2 DEF ConfirmDelete
  <1> HIDE DEF rs
  <1>4. /\ StoreTypeOK' /\ todo' \in Seq(Completion) /\ Len(todo') = Len(calls')
        /\ mapRead' \in 1..Len(calls') /\ placed' \subseteq Spots
        /\ form' \in Form /\ form'.read <= Len(calls')
        /\ Len(calls) \in Nat /\ Len(calls') = Len(calls) + 2
    BY <1>2, <1>3, OneIsPositive, NewMapType, Zenon
  <1>5. posted' \in [pos : Spots, read : 0..Len(calls')]
    BY <1>4 DEF ConfirmDelete, TypeOK
  <1>6. allMarkers' \in [Calls -> SUBSET Marker]
    <2>1. ASSUME NEW c \in Calls, NEW m \in allMarkers[c]
          PROVE  [m EXCEPT !.shown = @ /\ ~IsFirstAt(c, m, form.pos)] \in Marker
      <3>1. m \in Marker
        BY DEF TypeOK
      <3>2. IsFirstAt(c, m, form.pos) \in BOOLEAN
        BY DEF IsFirstAt
      <3>3. QED
        BY <3>1, <3>2 DEF Marker
    <2>2. QED
      BY <2>1 DEF ConfirmDelete, HideFirstAt
  <1>7. QED
    BY <1>4, <1>5, <1>6 DEF ConfirmDelete, TypeOK

LEMMA CallInRange ==
  ASSUME TypeOK, NEW c \in 1..Len(calls)
  PROVE  /\ c \in Calls /\ todo[c] \in Completion /\ reply[c] \in Reply
         /\ reply[c].docs \in Docs
  <1>1. c \in Calls /\ c \in 1..Len(todo)
    BY MaxCallsAssumption, LenProperties DEF TypeOK, StoreTypeOK, Calls
  <1>2. todo[c] \in Completion
    BY <1>1, ElementOfSeq DEF TypeOK
  <1>3. reply[c] \in Reply
    BY <1>1 DEF TypeOK, StoreTypeOK
  <1>4. QED
    BY <1>1, <1>2, <1>3 DEF Reply

LEMMA setDataAnsweredType ==
  ASSUME TypeOK, NEW c \in 1..Len(calls), setDataAnswered(c)
  PROVE  TypeOK'
  <1>1. StoreTypeOK' /\ calls' = calls
    <2>1. Complete(c, <<>>) /\ <<>> \in Seq(Op)
      BY EmptySeq DEF setDataAnswered
    <2>2. QED
      BY <2>1, CompleteType DEF TypeOK, Complete
  <1>2. allMarkers' \in [Calls -> SUBSET Marker] /\ toRemove' \in Spots
    <2>1. CASE reply[c].ok
      <3> DEFINE docs == reply[c].docs
                 keep == {u \in Users \ Skipped(docs) : docs[u] # NoTable}
                 new  == {[pos |-> docs[u], owner |-> u, shown |-> TRUE] : u \in keep}
      <3>1. \A u \in keep : u \in Users /\ docs[u] \in Spots
        BY CallInRange DEF Docs, Places
      <3> HIDE DEF keep, docs
      <3>2. new \subseteq Marker
        <4>1. ASSUME NEW u \in keep
              PROVE  [pos |-> docs[u], owner |-> u, shown |-> TRUE] \in Marker
          BY <3>1 DEF Marker
        <4>2. QED
          BY <4>1
      <3>3. allMarkers' = [allMarkers EXCEPT ![c] = new]
            /\ toRemove' = IF Skipped(docs) = {} THEN toRemove ELSE Origin
        BY <2>1 DEF setDataAnswered, keep, docs
      <3> HIDE DEF new
      <3>4. QED
        BY <3>2, <3>3, SpotsAssumption DEF TypeOK
    <2>2. CASE ~reply[c].ok
      BY <2>2 DEF setDataAnswered, TypeOK
    <2>3. QED
      BY <2>1, <2>2
  <1>3. QED
    BY <1>1, <1>2 DEF setDataAnswered, TypeOK

\* The documents that the completion of read c deletes.
Hits(c) == IF reply[c].ok THEN {u \in Users : reply[c].docs[u] = todo[c].at} ELSE {}

LEMMA removeAnsweredType ==
  ASSUME TypeOK, NEW c \in 1..Len(calls), removeAnswered(c)
  PROVE  TypeOK'
  <1>1. Hits(c) \in SUBSET Users
    BY DEF Hits
  <1>2. c \in Calls /\ todo[c].at \in Spots
    <2>1. todo[c] \in Completion /\ todo[c].do = "remove"
      BY CallInRange DEF removeAnswered
    <2>2. QED
      BY <2>1, CallInRange DEF Completion
  <1>3. StoreTypeOK' /\ calls' = calls
    <2> DEFINE ws == IF Hits(c) = {} THEN <<>> ELSE <<Write(Hits(c), NoTable)>>
    <2>1. Write(Hits(c), NoTable) \in Op
      BY <1>1 DEF Write, Op, Mutation, Places
    <2>2. ws \in Seq(Op)
      BY <2>1, OneOrTwo, EmptySeq
    <2>3. Complete(c, ws)
      BY DEF removeAnswered, Hits
    <2> HIDE DEF ws
    <2>4. QED
      BY <2>2, <2>3, CompleteType DEF TypeOK, Complete
  <1>4. toRemove' \in Spots /\ removed' \in [Calls -> SUBSET Users]
        /\ mine' \in Places \cup {"unwritten"}
    <2>1. /\ toRemove' = IF Hits(c) = {} THEN toRemove ELSE todo[c].at
          /\ removed' = [removed EXCEPT ![c] = Hits(c)]
          /\ mine' = IF Me \in Hits(c) THEN NoTable ELSE mine
      BY DEF removeAnswered, Hits
    <2>2. QED
      BY <1>1, <1>2, <2>1 DEF TypeOK, Places
  <1>5. QED
    BY <1>3, <1>4 DEF removeAnswered, TypeOK

LEMMA setElementsAnsweredType ==
  ASSUME TypeOK, NEW c \in 1..Len(calls), setElementsAnswered(c)
  PROVE  TypeOK'
  <1>1. StoreTypeOK' /\ calls' = calls
    <2>1. Complete(c, <<>>) /\ <<>> \in Seq(Op)
      BY EmptySeq DEF setElementsAnswered
    <2>2. QED
      BY <2>1, CompleteType DEF TypeOK, Complete
  <1>2. form' \in Form /\ form'.read = form.read
    <2>1. form \in Form /\ isAuthor(form.owner) \in BOOLEAN
      BY DEF TypeOK, isAuthor
    <2>2. QED
      BY <2>1 DEF setElementsAnswered, Form
  <1>3. QED
    BY <1>1, <1>2 DEF setElementsAnswered, TypeOK

LEMMA StoreStepType ==
  ASSUME TypeOK, Worker \/ ServerAck \/ OtherDevice \/ Catchup \/ Answer
  PROVE  TypeOK'
  <1>1. StoreTypeOK' /\ calls' = calls /\ UNCHANGED mapVars
    <2> StoreTypeOK
      BY DEF TypeOK
    <2>1. CASE Worker
      BY <2>1, WorkerType DEF Worker, TakeListen, TakeWrite
    <2>2. CASE ServerAck
      BY <2>2, AcknowledgeType DEF ServerAck, Acknowledge
    <2>3. CASE OtherDevice
      <3>1. PICK D \in SUBSET Users, p \in Places : Elsewhere(D, p)
        BY <2>3, SpotsAssumption
        DEF OtherDevice, Others, OtherDeletes, OtherSubmits, Places
      <3>2. QED
        BY <2>3, <3>1, ElsewhereType DEF OtherDevice, Elsewhere
    <2>4. CASE Catchup
      BY <2>4, SyncType DEF Catchup, Sync
    <2>5. CASE Answer
      BY <2>5, SyncType, RejectType DEF Answer, Sync, Reject
    <2>6. QED
      BY <2>1, <2>2, <2>3, <2>4, <2>5
  <1>2. QED
    BY <1>1 DEF mapVars, TypeOK

LEMMA StepType == TypeOK /\ [Next]_vars => TypeOK'
  <1> SUFFICES ASSUME TypeOK, [Next]_vars PROVE TypeOK'
    OBVIOUS
  <1>1. CASE UserAction
    <2>1. ASSUME NEW p \in SpotsOf[Me], didLongPressAt(p) \/ add_table(p)
          PROVE  TypeOK'
      BY <2>1, PlaceType, SpotsAssumption, MeAssumption DEF didLongPressAt, add_table
    <2>2. QED
      BY <1>1, <2>1, TapType, FormActionType, submitType, BackToMapType, ConfirmDeleteType
      DEF UserAction
  <1>2. CASE Completions
    BY <1>2, setDataAnsweredType, removeAnsweredType, setElementsAnsweredType
    DEF Completions
  <1>3. CASE Worker \/ ServerAck \/ OtherDevice \/ Catchup \/ Answer
    BY <1>3, StoreStepType
  <1>4. CASE \E done \in BOOLEAN : ImageRequestEnds(done)
    BY <1>4 DEF ImageRequestEnds, TypeOK, StoreTypeOK, storeVars
  <1>5. CASE UNCHANGED vars
    BY <1>5 DEF vars, mapVars, storeVars, TypeOK, StoreTypeOK
  <1>6. QED
    BY <1>1, <1>2, <1>3, <1>4, <1>5 DEF Next

\* The controllers' state keeps its type: no marker stands at a missing table,
\* no controller waits for a read that was not made.
THEOREM Typing == Spec => []TypeOK
  BY InitType, StepType, PTL DEF Spec

----------------------------------------------------------------------------
(* The form locks.                                                         *)

LEMMA LockStep == TypeOK /\ ForeignFormLocked /\ [Next]_vars => ForeignFormLocked'
  <1> SUFFICES ASSUME TypeOK, ForeignFormLocked, [Next]_vars PROVE ForeignFormLocked'
    OBVIOUS
  <1> DEFINE Locked(f) == ~f.fields /\ f.owner # Me => ~f.buttons
  <1>1. form \in Form /\ Locked(form) /\ Locked(Closed)
    BY DEF TypeOK, ForeignFormLocked, Closed
  <1>2. SUFFICES Locked(form')
    BY DEF ForeignFormLocked
  <1>3. CASE form' = form \/ form' = Closed
    BY <1>1, <1>3
  <1>4. ASSUME NEW v, didTapInfoWindowOf(v[1], v[2])
        PROVE  Locked(form')
    BY <1>4 DEF didTapInfoWindowOf, Closed
  <1>5. CASE Type \/ editTapped \/ deleteTapped \/ CancelAlert \/ submitIncomplete
    BY <1>1, <1>5
    DEF Type, editTapped, deleteTapped, CancelAlert, submitIncomplete, FormBecomes, Form
  <1>6. ASSUME NEW c, setElementsAnswered(c)
        PROVE  Locked(form')
    BY <1>1, <1>6 DEF setElementsAnswered, Form, isAuthor
  <1>7. CASE Dismiss \/ submitPressed \/ BackToMap \/ ConfirmDelete
    BY <1>3, <1>7
    DEF Dismiss, submitPressed, BackToMap, ConfirmDelete, ShowNewMap, FormBecomes
  <1>8. CASE \/ \E p \in SpotsOf[Me] : didLongPressAt(p) \/ add_table(p)
             \/ \E c \in 1..Len(calls) : setDataAnswered(c) \/ removeAnswered(c)
             \/ \E done \in BOOLEAN : ImageRequestEnds(done)
             \/ Worker \/ ServerAck \/ OtherDevice \/ Catchup \/ Answer
             \/ UNCHANGED vars
    BY <1>3, <1>8
    DEF didLongPressAt, add_table, PlaceMarker, setDataAnswered, removeAnswered,
        ImageRequestEnds, Worker, ServerAck, OtherDevice, Catchup, Answer, mapVars, vars
  <1>9. QED
    BY <1>4, <1>5, <1>6, <1>7, <1>8 DEF Next, UserAction, Completions

\* A form that has shown another user's table offers none of its buttons.
THEOREM FormsLock == Spec => []ForeignFormLocked
  <1>1. Init => ForeignFormLocked
    BY DEF Init, ForeignFormLocked, Closed
  <1>2. QED
    BY <1>1, LockStep, Typing, PTL DEF Spec

----------------------------------------------------------------------------
(* The own document.  A step appends to the worker queue, serves its head, *)
(* acknowledges the oldest pending write, or leaves the own document to    *)
(* another user's delete.                                                  *)

LEMMA ConcatParts ==
  ASSUME NEW v \in Seq(Op), NEW w \in Seq(Op)
  PROVE  /\ Len(v) \in Nat /\ Len(w) \in Nat /\ Len(v \o w) = Len(v) + Len(w)
         /\ \A i \in 1..Len(v) : (v \o w)[i] = v[i]
         /\ \A i \in 1..Len(w) : (v \o w)[Len(v) + i] = w[i]
  BY ConcatProperties, LenProperties

LEMMA Concat ==
  ASSUME NEW v \in Seq(Op), NEW w \in Seq(Op)
  PROVE  /\ Settled(v \o w) <=> Settled(v) /\ Settled(w)
         /\ \A p : LastWord(v, p) /\ Settled(w) => LastWord(v \o w, p)
         /\ \A p : LastWord(w, p) /\ ~Settled(w) => LastWord(v \o w, p)
  <1>1. /\ Len(v) \in Nat /\ Len(w) \in Nat /\ Len(v \o w) = Len(v) + Len(w)
        /\ \A i \in 1..Len(v) : (v \o w)[i] = v[i]
        /\ \A i \in 1..Len(w) : (v \o w)[Len(v) + i] = w[i]
    BY ConcatParts
  <1>2. \A i \in 1..Len(v \o w) :
          i \in 1..Len(v) \/ (i - Len(v) \in 1..Len(w) /\ i = Len(v) + (i - Len(v)))
    BY <1>1
  <1>3. Settled(v \o w) <=> Settled(v) /\ Settled(w)
    <2>1. ASSUME Settled(v \o w) PROVE Settled(v) /\ Settled(w)
      <3>1. \A i \in 1..Len(v) : i \in 1..Len(v \o w)
        BY <1>1
      <3>2. \A i \in 1..Len(w) : Len(v) + i \in 1..Len(v \o w)
        BY <1>1
      <3>3. QED
        BY <1>1, <2>1, <3>1, <3>2 DEF Settled
    <2>2. ASSUME Settled(v), Settled(w) PROVE Settled(v \o w)
      <3>1. ASSUME NEW i \in 1..Len(v \o w) PROVE ~OwnWrite((v \o w)[i])
        BY <1>1, <1>2, <2>2 DEF Settled
      <3>2. QED
        BY <3>1 DEF Settled
    <2>3. QED
      BY <2>1, <2>2
  <1>4. ASSUME NEW p, LastWord(v, p), Settled(w)
        PROVE  LastWord(v \o w, p)
    <2>1. SUFFICES ASSUME NEW i \in 1..Len(v \o w), OwnWrite((v \o w)[i]),
                          \A j \in i + 1..Len(v \o w) : ~OwnWrite((v \o w)[j])
                   PROVE  (v \o w)[i].to = p
      BY DEF LastWord
    <2>2. i \in 1..Len(v)
      BY <1>1, <1>2, <1>4, <2>1 DEF Settled
    <2>3. \A j \in i + 1..Len(v) : j \in i + 1..Len(v \o w) /\ j \in 1..Len(v)
      BY <1>1, <2>2
    <2>4. QED
      BY <1>1, <1>4, <2>1, <2>2, <2>3 DEF LastWord
  <1>5. ASSUME NEW p, LastWord(w, p), ~Settled(w)
        PROVE  LastWord(v \o w, p)
    <2>1. SUFFICES ASSUME NEW i \in 1..Len(v \o w), OwnWrite((v \o w)[i]),
                          \A j \in i + 1..Len(v \o w) : ~OwnWrite((v \o w)[j])
                   PROVE  (v \o w)[i].to = p
      BY DEF LastWord
    <2>2. i \notin 1..Len(v)
      <3>1. PICK k \in 1..Len(w) : OwnWrite(w[k])
        BY <1>5 DEF Settled
      <3>2. OwnWrite((v \o w)[Len(v) + k])
        BY <1>1, <3>1
      <3>3. Len(v) + k \notin i + 1..Len(v \o w)
        BY <2>1, <3>2
      <3>4. QED
        BY <1>1, <3>1, <3>3
    <2> DEFINE k == i - Len(v)
    <2>3. k \in 1..Len(w) /\ i = Len(v) + k
      BY <1>2, <2>2
    <2>4. \A j \in k + 1..Len(w) : Len(v) + j \in i + 1..Len(v \o w) /\ j \in 1..Len(w)
      BY <1>1, <2>3
    <2> HIDE DEF k
    <2>5. QED
      BY <1>1, <1>5, <2>1, <2>3, <2>4 DEF LastWord
  <1>6. QED
    BY <1>3, <1>4, <1>5

\* The requests q join the worker queue, and mine records its own writes.
Appended(q) ==
  /\ workerQ' = workerQ \o q /\ pending' = pending /\ server' = server
  /\ \/ Settled(q) /\ mine' = mine
     \/ LastWord(q, mine') /\ ~Settled(q)

LEMMA NothingAppended ==
  ASSUME TypeOK, UNCHANGED <<workerQ, pending, server, mine>>
  PROVE  \E q \in Seq(Op) : Appended(q)
  <1>1. <<>> \in Seq(Op) /\ workerQ \o <<>> = workerQ /\ Settled(<<>>)
    BY EmptySeq, ConcatEmptySeq DEF TypeOK, StoreTypeOK, Settled
  <1>2. Appended(<<>>)
    BY <1>1 DEF Appended
  <1>3. QED
    BY <1>1, <1>2

LEMMA IssueAppends ==
  ASSUME TypeOK, NEW ws \in Seq(Mutation), NEW rs \in Seq(Asking), Issue(ws, rs),
         \/ Settled(ws) /\ mine' = mine
         \/ LastWord(ws, mine') /\ ~Settled(ws)
  PROVE  \E q \in Seq(Op) : Appended(q)
  <1> DEFINE n  == Len(rs)
             qs == [i \in 1..n |-> rs[i][1]]
  <1>1. n \in Nat /\ Len(calls) \in Nat /\ Len(calls) + n <= MaxCalls
    <2>1. /\ n \in Nat /\ Len(calls) \in Nat
          /\ Len(calls') = Len(calls) + n /\ Len(calls') <= MaxCalls
      BY IssueType, LenProperties DEF TypeOK
    <2>2. QED
      BY <2>1
  <1>2. Ask(ws, qs)
    BY DEF Issue
  <1> HIDE DEF n
  <1>3. Len(qs) = n
    <2>1. DOMAIN qs = 1..n
      OBVIOUS
    <2>2. QED
      BY <1>1, <2>1
  <1>4. Listens(n) \in Seq(Op)
    <2>1. \A i \in 1..n : Listen(Len(calls) + i) \in Op
      BY <1>1, MaxCallsAssumption DEF Listen, Op, Calls
    <2>2. Listens(n) \in [1..n -> Op]
      BY <2>1 DEF Listens
    <2>3. QED
      BY <1>1, <2>2, SeqDef
  <1>5. Settled(Listens(n))
    <2>1. Len(Listens(n)) = n
      BY <1>1 DEF Listens
    <2>2. QED
      BY <2>1 DEF Listens, Listen, Settled, OwnWrite
  <1> HIDE DEF qs
  <1>6. ws \in Seq(Op) /\ workerQ \in Seq(Op)
    BY SeqMonotonic DEF Op, TypeOK, StoreTypeOK
  <1>7. workerQ' = (workerQ \o ws) \o Listens(n) /\ pending' = pending /\ server' = server
    BY <1>2, <1>3 DEF Ask, Listens
  <1>8. workerQ' = workerQ \o (ws \o Listens(n)) /\ ws \o Listens(n) \in Seq(Op)
    <2>1. Listens(n) \in Seq(Op)
      BY <1>4
    <2>2. ws \o Listens(n) \in Seq(Op)
      BY <1>6, <2>1, ConcatProperties
    <2>3. (workerQ \o ws) \o Listens(n) = workerQ \o (ws \o Listens(n))
      BY <1>6, <2>1, ConcatAssociative
    <2>4. QED
      BY <1>7, <2>2, <2>3
  <1>9. \/ Settled(ws \o Listens(n)) /\ mine' = mine
        \/ LastWord(ws \o Listens(n), mine') /\ ~Settled(ws \o Listens(n))
    BY <1>4, <1>5, <1>6, Concat
  <1>10. Appended(ws \o Listens(n))
    BY <1>7, <1>8, <1>9 DEF Appended
  <1>11. QED
    BY <1>8, <1>10

LEMMA OneWrite ==
  ASSUME NEW m \in Mutation
  PROVE  /\ Settled(<<m>>) <=> Me \notin m.docs
         /\ LastWord(<<m>>, m.to)
  <1>1. Len(<<m>>) = 1 /\ <<m>>[1] = m /\ m.op = "write"
    BY DEF Mutation
  <1>2. QED
    BY <1>1 DEF Settled, LastWord, OwnWrite

LEMMA HandlersAppend ==
  ASSUME TypeOK, UserAction \/ Completions
  PROVE  \E q \in Seq(Op) : Appended(q)
  <1>1. form \in Form /\ form.pos \in Spots /\ <<>> \in Seq(Mutation) /\ Settled(<<>>)
    BY EmptySeq DEF TypeOK, Form, Settled
  <1>2. CASE \/ \E p \in SpotsOf[Me] : didLongPressAt(p) \/ add_table(p)
             \/ Dismiss \/ Type \/ editTapped \/ deleteTapped \/ CancelAlert
             \/ submitIncomplete
    BY <1>2, NothingAppended
    DEF didLongPressAt, add_table, PlaceMarker, Dismiss, Type, editTapped, deleteTapped,
        CancelAlert, submitIncomplete, FormBecomes, storeVars
  <1>3. ASSUME NEW v \in Visible, didTapInfoWindowOf(v[1], v[2])
        PROVE  \E q \in Seq(Op) : Appended(q)
    <2> DEFINE rs == <<<<{v[2]}, [do |-> "load"]>>>>
    <2>1. v[2] \in Users
      <3>1. mapRead \in Calls
        BY MaxCallsAssumption, LenProperties DEF TypeOK, StoreTypeOK, Calls
      <3>2. allMarkers[mapRead] \subseteq Marker
        BY <3>1 DEF TypeOK
      <3>3. QED
        BY <3>2, MeAssumption DEF Visible, Marker
    <2>2. rs \in Seq(Asking)
      BY <2>1, WhatIsAsked, OneOrTwo
    <2>3. Issue(<<>>, rs) /\ mine' = mine
      BY <1>3 DEF didTapInfoWindowOf
    <2> HIDE DEF rs
    <2>4. QED
      BY <1>1, <2>2, <2>3, IssueAppends
  <1>4. CASE submitPressed
    <2> DEFINE m == Write({Me}, form.pos)
    <2>1. m \in Mutation /\ Me \in m.docs /\ m.to = form.pos
      BY <1>1, MeAssumption DEF Write, Mutation, Places
    <2>2. Issue(<<m>>, <<setData>>) /\ mine' = m.to
      BY <1>4, <2>1 DEF submitPressed
    <2> HIDE DEF m
    <2>3. <<m>> \in Seq(Mutation) /\ <<setData>> \in Seq(Asking)
      BY <2>1, WhatIsAsked, OneOrTwo
    <2>4. LastWord(<<m>>, mine') /\ ~Settled(<<m>>)
      BY <2>1, <2>2, OneWrite
    <2>5. QED
      BY <2>2, <2>3, <2>4, IssueAppends
  <1>5. CASE BackToMap
    <2>1. <<setData>> \in Seq(Asking)
      BY WhatIsAsked, OneOrTwo
    <2>2. QED
      BY <1>1, <1>5, <2>1, IssueAppends DEF BackToMap
  <1>6. CASE ConfirmDelete
    <2> DEFINE rs == <<<<Users, [do |-> "remove", at |-> form.pos]>>, setData>>
    <2>1. rs \in Seq(Asking)
      BY <1>1, WhatIsAsked, OneOrTwo
    <2>2. Issue(<<>>, rs) /\ mine' = mine
      BY <1>6 DEF ConfirmDelete
    <2> HIDE DEF rs
    <2>3. QED
      BY <1>1, <2>1, <2>2, IssueAppends
  <1>7. ASSUME NEW c \in 1..Len(calls), setDataAnswered(c) \/ setElementsAnswered(c)
        PROVE  \E q \in Seq(Op) : Appended(q)
    <2>1. Complete(c, <<>>) /\ mine' = mine
      BY <1>7 DEF setDataAnswered, setElementsAnswered
    <2>2. <<>> \in Seq(Op) /\ Appended(<<>>)
      BY <1>1, <2>1, EmptySeq DEF Complete, Appended
    <2>3. QED
      BY <2>2
  <1>8. ASSUME NEW c \in 1..Len(calls), removeAnswered(c)
        PROVE  \E q \in Seq(Op) : Appended(q)
    <2> DEFINE m == Write(Hits(c), NoTable)
    <2>1. m \in Mutation /\ m.docs = Hits(c) /\ m.to = NoTable
      BY DEF Hits, Write, Mutation, Places
    <2>2. Complete(c, IF Hits(c) = {} THEN <<>> ELSE <<m>>)
          /\ mine' = IF Me \in Hits(c) THEN NoTable ELSE mine
      BY <1>8 DEF removeAnswered, Hits
    <2> HIDE DEF m
    <2>3. CASE Hits(c) = {}
      <3>1. <<>> \in Seq(Op) /\ Appended(<<>>)
        BY <1>1, <2>2, <2>3, EmptySeq DEF Complete, Appended
      <3>2. QED
        BY <3>1
    <2>4. CASE Hits(c) # {}
      <3>1. <<m>> \in Seq(Op)
        BY <2>1, OneOrTwo DEF Op
      <3>2. workerQ' = workerQ \o <<m>> /\ pending' = pending /\ server' = server
        BY <2>2, <2>4 DEF Complete
      <3>3. \/ Settled(<<m>>) /\ mine' = mine
            \/ LastWord(<<m>>, mine') /\ ~Settled(<<m>>)
        BY <2>1, <2>2, OneWrite
      <3>4. QED
        BY <3>1, <3>2, <3>3 DEF Appended
    <2>5. QED
      BY <2>3, <2>4
  <1>9. QED
    BY <1>2, <1>3, <1>4, <1>5, <1>6, <1>7, <1>8 DEF UserAction, Completions

\* The queue q without its head.
LEMMA Served ==
  ASSUME NEW S, NEW q \in Seq(S), q # <<>>, NEW p
  PROVE  /\ LastWord(q, p) => LastWord(Tail(q), p)
         /\ Settled(q) <=> ~OwnWrite(Head(q)) /\ Settled(Tail(q))
         /\ LastWord(q, p) /\ OwnWrite(Head(q)) /\ Settled(Tail(q)) => Head(q).to = p
  <1>1. /\ Len(q) \in Nat /\ Len(q) > 0 /\ Head(q) = q[1]
        /\ Len(Tail(q)) = Len(q) - 1
        /\ \A i \in 1..Len(Tail(q)) : Tail(q)[i] = q[i + 1]
    BY HeadTailProperties, EmptySeq, LenProperties
  <1>2. \A i \in 1..Len(q) : i = 1 \/ (i - 1 \in 1..Len(Tail(q)) /\ q[i] = Tail(q)[i - 1])
    BY <1>1
  <1>3. \A i \in 1..Len(Tail(q)) : i + 1 \in 1..Len(q)
    BY <1>1
  <1>4. Settled(q) <=> ~OwnWrite(Head(q)) /\ Settled(Tail(q))
    <2>1. ASSUME Settled(q) PROVE ~OwnWrite(Head(q)) /\ Settled(Tail(q))
      BY <1>1, <1>3, <2>1 DEF Settled
    <2>2. ASSUME ~OwnWrite(Head(q)), Settled(Tail(q)) PROVE Settled(q)
      BY <1>1, <1>2, <2>2 DEF Settled
    <2>3. QED
      BY <2>1, <2>2
  <1>5. ASSUME LastWord(q, p) PROVE LastWord(Tail(q), p)
    <2>1. SUFFICES ASSUME NEW i \in 1..Len(Tail(q)), OwnWrite(Tail(q)[i]),
                          \A j \in i + 1..Len(Tail(q)) : ~OwnWrite(Tail(q)[j])
                   PROVE  Tail(q)[i].to = p
      BY DEF LastWord
    <2>2. ASSUME NEW j \in (i + 1) + 1..Len(q)
          PROVE  ~OwnWrite(q[j])
      <3>1. j - 1 \in i + 1..Len(Tail(q)) /\ q[j] = Tail(q)[j - 1]
        BY <1>1, <1>2
      <3>2. QED
        BY <2>1, <3>1
    <2>3. i + 1 \in 1..Len(q) /\ q[i + 1] = Tail(q)[i]
      BY <1>1, <1>3
    <2>4. QED
      BY <1>5, <2>1, <2>2, <2>3 DEF LastWord
  <1>6. ASSUME LastWord(q, p), OwnWrite(Head(q)), Settled(Tail(q))
        PROVE  Head(q).to = p
    <2>1. ASSUME NEW j \in 1 + 1..Len(q)
          PROVE  ~OwnWrite(q[j])
      <3>1. j - 1 \in 1..Len(Tail(q)) /\ q[j] = Tail(q)[j - 1]
        BY <1>1, <1>2
      <3>2. QED
        BY <1>6, <3>1 DEF Settled
    <2>2. 1 \in 1..Len(q)
      BY <1>1
    <2>3. QED
      BY <1>1, <1>6, <2>1, <2>2 DEF LastWord
  <1>7. QED
    BY <1>4, <1>5, <1>6

LEMMA OwnStep ==
  TypeOK /\ OwnLastWord /\ OwnTableSettles /\ [Next]_vars
    => OwnLastWord' /\ OwnTableSettles'
  <1> SUFFICES ASSUME TypeOK, OwnLastWord, OwnTableSettles, [Next]_vars
               PROVE  OwnLastWord' /\ OwnTableSettles'
    OBVIOUS
  <1> DEFINE Goal ==
        /\ LastWord(workerQ', mine')
        /\ Settled(workerQ') => LastWord(pending', mine')
        /\ Settled(workerQ') /\ Settled(pending') /\ mine' # "unwritten" =>
              server'[Me] \in {mine', NoTable}
  <1>1. SUFFICES Goal
    BY DEF OwnLastWord, OwnTableSettles, Settled, LastWord, OwnWrite
  <1> workerQ \in Seq(Op) /\ pending \in Seq(Mutation) /\ Me \in Users
    BY MeAssumption DEF TypeOK, StoreTypeOK
  <1>2. CASE UserAction \/ Completions
    <2>1. PICK q \in Seq(Op) : Appended(q)
      BY <1>2, HandlersAppend
    <2>2. CASE Settled(q) /\ mine' = mine
      BY <2>1, <2>2, Concat DEF Appended, OwnLastWord, OwnTableSettles
    <2>3. CASE LastWord(q, mine') /\ ~Settled(q)
      BY <2>1, <2>3, Concat DEF Appended
    <2>4. QED
      BY <2>1, <2>2, <2>3 DEF Appended
  <1>3. CASE TakeListen /\ UNCHANGED mapVars
    <2>1. /\ workerQ # <<>> /\ workerQ' = Tail(workerQ) /\ ~OwnWrite(Head(workerQ))
          /\ pending' = pending /\ server' = server /\ mine' = mine
      BY <1>3 DEF TakeListen, OwnWrite, mapVars
    <2>2. QED
      BY <2>1, Served DEF OwnLastWord, OwnTableSettles
  <1>4. CASE TakeWrite /\ UNCHANGED mapVars
    <2> DEFINE m == Head(workerQ)
    <2>1. /\ workerQ # <<>> /\ workerQ' = Tail(workerQ) /\ m \in Mutation
          /\ pending' = Append(pending, m) /\ server' = server /\ mine' = mine
      BY <1>4, QueueHead DEF TakeWrite, Op, mapVars, TypeOK
    <2> HIDE DEF m
    <2>2. /\ pending \in Seq(Op) /\ <<m>> \in Seq(Op) /\ pending' = pending \o <<m>>
          /\ OwnWrite(m) <=> Me \in m.docs
      <3>1. Mutation \subseteq Op /\ pending \in Seq(Mutation) /\ m \in Op
        BY <2>1 DEF Op
      <3>2. pending \in Seq(Op) /\ <<m>> \in Seq(Op)
        BY <3>1, SeqMonotonic, OneOrTwo
      <3>3. pending' = pending \o <<m>>
        BY <2>1, <3>1, <3>2, AppendIsConcat
      <3>4. OwnWrite(m) <=> Me \in m.docs
        BY <2>1 DEF OwnWrite, Mutation
      <3>5. QED
        BY <3>2, <3>3, <3>4
    <2>3. CASE OwnWrite(m)
      <3>1. ~Settled(<<m>>) /\ LastWord(<<m>>, m.to)
        BY <2>1, <2>2, <2>3, OneWrite
      <3>2. ~Settled(pending') /\ LastWord(pending', m.to)
        BY <2>2, <3>1, Concat
      <3>3. Settled(workerQ') => m.to = mine
        BY <2>1, <2>3, Served DEF OwnLastWord, m
      <3>4. QED
        BY <2>1, <3>2, <3>3, Served DEF OwnLastWord
    <2>4. CASE ~OwnWrite(m)
      <3>1. Settled(<<m>>)
        BY <2>1, <2>2, <2>4, OneWrite
      <3>2. Settled(workerQ) <=> Settled(workerQ')
        BY <2>1, <2>4, Served DEF m
      <3>3. LastWord(workerQ', mine)
        BY <2>1, Served DEF OwnLastWord
      <3>4. /\ Settled(pending') <=> Settled(pending)
            /\ LastWord(pending, mine) => LastWord(pending', mine)
        BY <2>2, <3>1, Concat
      <3>5. QED
        BY <2>1, <3>2, <3>3, <3>4 DEF OwnLastWord, OwnTableSettles
    <2>5. QED
      BY <2>3, <2>4
  <1>5. CASE ServerAck
    <2> DEFINE m == Head(pending)
    <2>1. /\ pending # <<>> /\ pending' = Tail(pending) /\ server' = Put(m, server)
          /\ workerQ' = workerQ /\ mine' = mine /\ m \in Mutation
      BY <1>5, HeadTailProperties DEF ServerAck, Acknowledge, mapVars
    <2>2. OwnWrite(m) <=> Me \in m.docs
      BY <2>1 DEF OwnWrite, Mutation
    <2>3. server'[Me] = IF Me \in m.docs THEN m.to ELSE server[Me]
      BY <2>1 DEF Put
    <2> HIDE DEF m
    <2>4. LastWord(workerQ', mine') /\ (Settled(workerQ') => LastWord(pending', mine'))
      BY <2>1, Served DEF OwnLastWord
    <2>5. ASSUME Settled(workerQ'), Settled(pending'), mine' # "unwritten"
          PROVE  server'[Me] \in {mine', NoTable}
      <3>1. CASE OwnWrite(m)
        <4>1. m.to = mine
          BY <2>1, <2>5, <3>1, Served DEF OwnLastWord, m
        <4>2. QED
          BY <2>1, <2>2, <2>3, <3>1, <4>1
      <3>2. CASE ~OwnWrite(m)
        <4>1. Settled(pending)
          BY <2>1, <2>5, <3>2, Served DEF m
        <4>2. QED
          BY <2>1, <2>2, <2>3, <2>5, <3>2, <4>1 DEF OwnTableSettles
      <3>3. QED
        BY <3>1, <3>2
    <2>6. QED
      BY <2>4, <2>5
  <1>6. CASE OtherDevice
    <2>1. /\ workerQ' = workerQ /\ pending' = pending /\ mine' = mine
          /\ server'[Me] \in {server[Me], NoTable}
      BY <1>6 DEF OtherDevice, Others, OtherDeletes, OtherSubmits, Elsewhere, Put, Write,
                  mapVars
    <2>2. QED
      BY <2>1 DEF OwnLastWord, OwnTableSettles
  <1>7. CASE \/ Catchup \/ Answer \/ UNCHANGED vars
             \/ \E done \in BOOLEAN : ImageRequestEnds(done)
    <2>1. UNCHANGED <<workerQ, pending, server, mine>>
      BY <1>7 DEF Catchup, Answer, Sync, Reject, ImageRequestEnds, storeVars, mapVars, vars
    <2>2. QED
      BY <2>1 DEF OwnLastWord, OwnTableSettles
  <1>8. QED
    BY <1>2, <1>3, <1>4, <1>5, <1>6, <1>7 DEF Next, Worker

LEMMA OwnInit == Init => OwnLastWord /\ OwnTableSettles
  <1> SUFFICES ASSUME Init PROVE OwnLastWord /\ OwnTableSettles
    OBVIOUS
  <1>1. Settled(workerQ) /\ Settled(pending)
    BY DEF Init, Settled, OwnWrite, Listen
  <1>2. QED
    BY <1>1 DEF Init, Settled, LastWord, OwnLastWord, OwnTableSettles

\* The own table's writes reach the server in the order the user gave them:
\* the newest under way is the last the user asked for.
THEOREM OwnWritesInOrder == Spec => []OwnLastWord
  BY OwnInit, OwnStep, Typing, PTL DEF Spec

\* With none under way, the own document is that last table, unless someone
\* else's delete took it.
THEOREM OwnTable == Spec => []OwnTableSettles
  BY OwnInit, OwnStep, Typing, PTL DEF Spec

----------------------------------------------------------------------------
(***************************************************************************)
(* Theorems about the map when its user is the only one: nothing takes the *)
(* own table away, and a deleted table stays hidden.  With other users     *)
(* neither holds, as the run map_shared shows of the second.               *)
(***************************************************************************)

Alone == Users = {Me}

----------------------------------------------------------------------------
(* The own table.                                                          *)

LEMMA AloneStep ==
  ASSUME Alone
  PROVE  TypeOK /\ OwnLastWord /\ OwnTableStays /\ [Next]_vars => OwnTableStays'
  <1> SUFFICES ASSUME TypeOK, OwnLastWord, OwnTableStays, [Next]_vars
               PROVE  OwnTableStays'
    OBVIOUS
  <1>1. SUFFICES ASSUME Settled(workerQ'), Settled(pending'), mine' # "unwritten"
                 PROVE  server'[Me] = mine'
    BY DEF OwnTableStays, Settled, OwnWrite
  <1> workerQ \in Seq(Op) /\ pending \in Seq(Mutation) /\ Me \in Users
    BY MeAssumption DEF TypeOK, StoreTypeOK
  <1>2. CASE UserAction \/ Completions
    <2>1. PICK q \in Seq(Op) : Appended(q)
      BY <1>2, HandlersAppend
    <2>2. Settled(q) /\ Settled(workerQ) /\ mine' = mine
      BY <1>1, <2>1, Concat DEF Appended
    <2>3. QED
      BY <1>1, <2>1, <2>2 DEF Appended, OwnTableStays
  <1>3. CASE TakeListen /\ UNCHANGED mapVars
    <2>1. /\ workerQ # <<>> /\ workerQ' = Tail(workerQ) /\ ~OwnWrite(Head(workerQ))
          /\ pending' = pending /\ server' = server /\ mine' = mine
      BY <1>3 DEF TakeListen, OwnWrite, mapVars
    <2>2. QED
      BY <1>1, <2>1, Served DEF OwnTableStays
  <1>4. CASE TakeWrite /\ UNCHANGED mapVars
    <2> DEFINE m == Head(workerQ)
    <2>1. /\ workerQ # <<>> /\ workerQ' = Tail(workerQ) /\ m \in Mutation
          /\ pending' = Append(pending, m) /\ server' = server /\ mine' = mine
      BY <1>4, QueueHead DEF TakeWrite, Op, mapVars, TypeOK
    <2> HIDE DEF m
    <2>2. /\ pending \in Seq(Op) /\ <<m>> \in Seq(Op) /\ pending' = pending \o <<m>>
          /\ OwnWrite(m) <=> Me \in m.docs
      <3>1. Mutation \subseteq Op /\ pending \in Seq(Mutation) /\ m \in Op
        BY <2>1 DEF Op
      <3>2. pending \in Seq(Op) /\ <<m>> \in Seq(Op)
        BY <3>1, SeqMonotonic, OneOrTwo
      <3>3. pending' = pending \o <<m>>
        BY <2>1, <3>1, <3>2, AppendIsConcat
      <3>4. OwnWrite(m) <=> Me \in m.docs
        BY <2>1 DEF OwnWrite, Mutation
      <3>5. QED
        BY <3>2, <3>3, <3>4
    <2>3. Settled(pending) /\ Settled(<<m>>)
      BY <1>1, <2>2, Concat
    <2>4. Settled(workerQ)
      BY <1>1, <2>1, <2>2, <2>3, OneWrite, Served DEF m
    <2>5. QED
      BY <1>1, <2>1, <2>3, <2>4 DEF OwnTableStays
  <1>5. CASE ServerAck
    <2> DEFINE m == Head(pending)
    <2>1. /\ pending # <<>> /\ pending' = Tail(pending) /\ server' = Put(m, server)
          /\ workerQ' = workerQ /\ mine' = mine /\ m \in Mutation
      BY <1>5, HeadTailProperties DEF ServerAck, Acknowledge, mapVars
    <2>2. OwnWrite(m) <=> Me \in m.docs
      BY <2>1 DEF OwnWrite, Mutation
    <2>3. server'[Me] = IF Me \in m.docs THEN m.to ELSE server[Me]
      BY <2>1 DEF Put
    <2> HIDE DEF m
    <2>4. CASE OwnWrite(m)
      <3>1. m.to = mine
        BY <1>1, <2>1, <2>4, Served DEF OwnLastWord, m
      <3>2. QED
        BY <2>1, <2>2, <2>3, <2>4, <3>1
    <2>5. CASE ~OwnWrite(m)
      <3>1. Settled(pending)
        BY <1>1, <2>1, <2>5, Served DEF m
      <3>2. QED
        BY <1>1, <2>1, <2>2, <2>3, <2>5, <3>1 DEF OwnTableStays
    <2>6. QED
      BY <2>4, <2>5
  <1>6. CASE OtherDevice
    BY <1>6 DEF OtherDevice, Others, Alone
  <1>7. CASE \/ Catchup \/ Answer \/ UNCHANGED vars
             \/ \E done \in BOOLEAN : ImageRequestEnds(done)
    <2>1. UNCHANGED <<workerQ, pending, server, mine>>
      BY <1>7 DEF Catchup, Answer, Sync, Reject, ImageRequestEnds, storeVars, mapVars, vars
    <2>2. QED
      BY <1>1, <2>1 DEF OwnTableStays
  <1>8. QED
    BY <1>2, <1>3, <1>4, <1>5, <1>6, <1>7 DEF Next, Worker

\* Where nobody else uses the application, the server's copy of the own table
\* is, with nothing under way, what this device wrote last.
THEOREM OwnTableAlone ==
  ASSUME Alone
  PROVE  Spec => []OwnTableStays
  <1>1. Init => OwnTableStays
    BY DEF Init, OwnTableStays
  <1>2. TypeOK /\ OwnLastWord /\ OwnTableStays /\ [Next]_vars => OwnTableStays'
    BY AloneStep
  <1>3. QED
    BY <1>1, <1>2, OwnWritesInOrder, Typing, PTL DEF Spec

----------------------------------------------------------------------------
(* The reads: a listener is registered once, before its answer; the reads  *)
(* of one query complete in order; a delete's read is followed by the read *)
(* of the map that opens next.                                             *)

IsListen(o) == o.op = "listen"

\* The listeners in q are of different reads, from lo + 1 to hi.
Distinct(q, lo, hi) ==
  /\ \A i \in 1..Len(q) : IsListen(q[i]) => q[i].call \in lo + 1..hi
  /\ \A i \in 1..Len(q), j \in 1..Len(q) :
       IsListen(q[i]) /\ IsListen(q[j]) /\ i # j => q[i].call # q[j].call

QueueInv ==
  /\ Distinct(workerQ, 0, Len(calls))
  /\ \A i \in 1..Len(workerQ) :
       IsListen(workerQ[i]) => reply[workerQ[i].call].state = "waiting"
  /\ \A c \in Calls : c > Len(calls) => reply[c].state = "waiting"

DoneInOrder ==
  \A c \in 1..Len(calls), d \in 1..Len(calls) :
    c < d /\ calls[c] = calls[d] /\ reply[d].state = "done" => reply[c].state = "done"

PairInv ==
  \A c \in 1..Len(calls) :
    /\ todo[c].do \in {"show", "remove"} => calls[c] = Users
    /\ todo[c].do = "remove" => c + 1 \in 1..Len(calls) /\ todo[c + 1].do = "show"

UnansweredInv ==
  \A c \in Calls : reply[c].state # "done" => removed[c] = {} /\ allMarkers[c] = {}

\* Until the next map loads, toRemove holds the place whose tables are deleted.
HiddenInv ==
  \A c \in 1..Len(calls) - 1 :
    todo[c].do = "remove" /\ removed[c] # {} =>
      IF reply[c + 1].state = "done"
        THEN \A m \in allMarkers[c + 1] : m.pos # todo[c].at
        ELSE toRemove = todo[c].at

ReadsInv == QueueInv /\ DoneInOrder /\ PairInv /\ UnansweredInv

LEMMA Numbers ==
  ASSUME TypeOK
  PROVE  /\ Len(calls) \in Nat /\ 1..Len(calls) \subseteq Calls /\ 1..Len(calls) \subseteq Nat
         /\ Len(todo) = Len(calls)
         /\ workerQ \in Seq(Op) /\ Len(workerQ) \in Nat
  BY MaxCallsAssumption, LenProperties DEF TypeOK, StoreTypeOK, Calls

LEMMA DistinctConcat ==
  ASSUME NEW v \in Seq(Op), NEW w \in Seq(Op), NEW a \in Nat, NEW b \in Nat, NEW c \in Nat,
         a <= b, b <= c, Distinct(v, a, b), Distinct(w, b, c)
  PROVE  /\ Distinct(v \o w, a, c)
         /\ \A i \in 1..Len(v \o w) : IsListen((v \o w)[i]) =>
              \/ \E k \in 1..Len(v) : (v \o w)[i] = v[k]
              \/ (v \o w)[i].call \in b + 1..c
  <1>1. /\ Len(v) \in Nat /\ Len(w) \in Nat /\ Len(v \o w) = Len(v) + Len(w)
        /\ \A i \in 1..Len(v) : (v \o w)[i] = v[i]
        /\ \A i \in 1..Len(w) : (v \o w)[Len(v) + i] = w[i]
    BY ConcatParts
  <1>2. ASSUME NEW i \in 1..Len(v \o w)
        PROVE  \/ i \in 1..Len(v) /\ (v \o w)[i] = v[i]
               \/ /\ i \notin 1..Len(v)
                  /\ i - Len(v) \in 1..Len(w) /\ (v \o w)[i] = w[i - Len(v)]
    <2>1. CASE i \in 1..Len(v)
      BY <1>1, <2>1
    <2>2. CASE i \notin 1..Len(v)
      <3>1. i - Len(v) \in 1..Len(w) /\ i = Len(v) + (i - Len(v))
        BY <1>1, <2>2
      <3>2. QED
        BY <1>1, <2>2, <3>1
    <2>3. QED
      BY <2>1, <2>2
  <1> DEFINE x == v \o w
  <1>3. \A i \in 1..Len(x) : IsListen(x[i]) =>
          \/ i \in 1..Len(v) /\ x[i] = v[i] /\ x[i].call \in a + 1..b
          \/ /\ i \notin 1..Len(v) /\ i - Len(v) \in 1..Len(w)
             /\ x[i] = w[i - Len(v)] /\ x[i].call \in b + 1..c
    BY <1>2 DEF Distinct
  <1> HIDE DEF x
  <1>4. \A i \in 1..Len(x) : IsListen(x[i]) => x[i].call \in a + 1..c
    BY <1>3
  <1>5. ASSUME NEW i \in 1..Len(x), NEW j \in 1..Len(x), IsListen(x[i]), IsListen(x[j]), i # j
        PROVE  x[i].call # x[j].call
    <2>1. CASE i \in 1..Len(v) /\ j \in 1..Len(v)
      BY <1>3, <1>5, <2>1 DEF Distinct
    <2>2. CASE i \notin 1..Len(v) /\ j \notin 1..Len(v)
      <3>1. i - Len(v) # j - Len(v)
        BY <1>1, <1>5, <2>2 DEF x
      <3>2. QED
        BY <1>3, <1>5, <2>2, <3>1 DEF Distinct
    <2>3. \A k \in a + 1..b, l \in b + 1..c : k # l
      OBVIOUS
    <2>4. CASE i \in 1..Len(v) /\ j \notin 1..Len(v)
      BY <1>3, <1>5, <2>3, <2>4
    <2>5. CASE i \notin 1..Len(v) /\ j \in 1..Len(v)
      BY <1>3, <1>5, <2>3, <2>5
    <2>6. QED
      BY <2>1, <2>2, <2>4, <2>5
  <1>6. Distinct(x, a, c)
    BY <1>4, <1>5 DEF Distinct
  <1>7. QED
    BY <1>3, <1>6 DEF x

\* What a handler asks joins the queue behind what is there.
LEMMA IssueReads ==
  ASSUME TypeOK, QueueInv, NEW ws \in Seq(Mutation), NEW rs \in Seq(Asking), Issue(ws, rs)
  PROVE  /\ QueueInv' /\ reply' = reply
         /\ Len(rs) \in Nat /\ Len(calls') = Len(calls) + Len(rs)
         /\ \A c \in 1..Len(calls) : calls'[c] = calls[c] /\ todo'[c] = todo[c]
         /\ \A i \in 1..Len(rs) : /\ calls'[Len(calls) + i] = rs[i][1]
                                  /\ todo'[Len(calls) + i] = rs[i][2]
  <1> DEFINE n  == Len(rs)
             qs == [i \in 1..n |-> rs[i][1]]
             ds == [i \in 1..n |-> rs[i][2]]
             L  == Len(calls)
  <1>1. n \in Nat /\ L \in Nat /\ L + n <= MaxCalls /\ Len(calls') = L + n
    <2>1. /\ n \in Nat /\ Len(calls) \in Nat
          /\ Len(calls') = Len(calls) + n /\ Len(calls') <= MaxCalls
      BY IssueType, LenProperties DEF TypeOK
    <2>2. QED
      BY <2>1
  <1>2. Ask(ws, qs) /\ todo' = todo \o ds
    BY DEF Issue
  <1>3. \A i \in 1..n : rs[i][1] \in SUBSET Users /\ rs[i][2] \in Completion
    BY ElementOfSeq DEF Asking
  <1> HIDE DEF n
  <1>4. qs \in Seq(SUBSET Users) /\ Len(qs) = n /\ ds \in Seq(Completion) /\ Len(ds) = n
    BY <1>1, <1>3, SeqDef
  <1>5. \A i \in 1..n : qs[i] = rs[i][1] /\ ds[i] = rs[i][2]
    OBVIOUS
  <1> HIDE DEF qs, ds
  <1>6. /\ \A c \in 1..L : calls'[c] = calls[c] /\ todo'[c] = todo[c]
        /\ \A i \in 1..n : calls'[L + i] = qs[i] /\ todo'[L + i] = ds[i]
    <2>1. calls' = calls \o qs /\ calls \in Seq(SUBSET Users)
          /\ todo \in Seq(Completion) /\ Len(todo) = L
      BY <1>2 DEF Ask, TypeOK, StoreTypeOK
    <2>2. /\ \A c \in 1..L : calls'[c] = calls[c]
          /\ \A i \in 1..n : calls'[L + i] = qs[i]
      BY <1>4, <2>1, ConcatProperties
    <2>3. /\ \A c \in 1..L : todo'[c] = todo[c]
          /\ \A i \in 1..n : todo'[L + i] = ds[i]
      <3>1. /\ \A c \in 1..Len(todo) : (todo \o ds)[c] = todo[c]
            /\ \A i \in 1..Len(ds) : (todo \o ds)[Len(todo) + i] = ds[i]
        BY <1>4, <2>1, ConcatProperties
      <3>2. QED
        BY <1>2, <1>4, <2>1, <3>1
    <2>4. QED
      BY <2>2, <2>3
  <1>7. Listens(n) \in Seq(Op) /\ Len(Listens(n)) = n
    <2>1. \A i \in 1..n : Listen(L + i) \in Op
      BY <1>1, MaxCallsAssumption DEF Listen, Op, Calls
    <2>2. Listens(n) \in [1..n -> Op]
      BY <2>1 DEF Listens
    <2>3. Len(Listens(n)) = n
      BY <1>1 DEF Listens
    <2>4. QED
      BY <1>1, <2>2, <2>3, SeqDef
  <1>8. Distinct(Listens(n), L, L + n)
    <2>1. \A i \in 1..n : Listens(n)[i].call = L + i
      BY DEF Listens, Listen
    <2>2. QED
      BY <1>1, <1>7, <2>1 DEF Distinct
  <1>9. ws \in Seq(Op) /\ workerQ \in Seq(Op)
    BY SeqMonotonic DEF Op, TypeOK, StoreTypeOK
  <1>10. Distinct(ws, L, L)
    <2>1. \A i \in 1..Len(ws) : ws[i] \in Mutation
      BY ElementOfSeq
    <2>2. \A i \in 1..Len(ws) : ~IsListen(ws[i])
      BY <2>1 DEF IsListen, Mutation
    <2>3. QED
      BY <2>2 DEF Distinct
  <1>11. workerQ' = workerQ \o (ws \o Listens(n)) /\ ws \o Listens(n) \in Seq(Op)
    <2>1. workerQ' = (workerQ \o ws) \o Listens(n)
      BY <1>2, <1>4 DEF Ask, Listens
    <2>2. Listens(n) \in Seq(Op) /\ ws \in Seq(Op) /\ workerQ \in Seq(Op)
      BY <1>7, <1>9
    <2>3. (workerQ \o ws) \o Listens(n) = workerQ \o (ws \o Listens(n))
      BY <2>2, ConcatAssociative
    <2>4. ws \o Listens(n) \in Seq(Op)
      BY <2>2, ConcatProperties
    <2>5. QED
      BY <2>1, <2>3, <2>4
  <1>12. Distinct(ws \o Listens(n), L, L + n)
    BY <1>1, <1>7, <1>8, <1>9, <1>10, DistinctConcat
  <1> DEFINE x == ws \o Listens(n)
  <1> HIDE DEF x
  <1>13. /\ Distinct(workerQ \o x, 0, L + n)
         /\ \A i \in 1..Len(workerQ \o x) : IsListen((workerQ \o x)[i]) =>
              \/ \E k \in 1..Len(workerQ) : (workerQ \o x)[i] = workerQ[k]
              \/ (workerQ \o x)[i].call \in L + 1..L + n
    <2>1. /\ 0 \in Nat /\ L \in Nat /\ L + n \in Nat /\ 0 <= L /\ L <= L + n
          /\ x \in Seq(Op) /\ Distinct(workerQ, 0, L) /\ Distinct(x, L, L + n)
      BY <1>1, <1>11, <1>12 DEF QueueInv, x
    <2>2. QED
      BY <1>9, <2>1, DistinctConcat
  <1>14. workerQ' = workerQ \o x /\ reply' = reply
    BY <1>2, <1>11 DEF Ask, x
  <1>15. \A c \in L + 1..L + n : c \in Calls /\ c > L
    BY <1>1, MaxCallsAssumption DEF Calls
  <1>16. QueueInv'
    <2>1. ASSUME NEW i \in 1..Len(workerQ'), IsListen(workerQ'[i])
          PROVE  reply'[workerQ'[i].call].state = "waiting"
      <3>1. CASE \E k \in 1..Len(workerQ) : workerQ'[i] = workerQ[k]
        BY <1>14, <2>1, <3>1 DEF QueueInv
      <3>2. CASE workerQ'[i].call \in L + 1..L + n
        BY <1>14, <1>15, <3>2 DEF QueueInv
      <3>3. QED
        BY <1>13, <1>14, <2>1, <3>1, <3>2
    <2>2. \A c \in Calls : c > Len(calls') => reply'[c].state = "waiting"
      BY <1>1, <1>14 DEF QueueInv, Calls
    <2>3. Distinct(workerQ', 0, Len(calls'))
      BY <1>1, <1>13, <1>14
    <2>4. QED
      BY <2>1, <2>2, <2>3 DEF QueueInv, Distinct, IsListen
  <1>17. QED
    BY <1>1, <1>5, <1>6, <1>14, <1>16 DEF n

\* The head of the queue is served.
LEMMA HeadServed ==
  ASSUME TypeOK, QueueInv, workerQ # <<>>, workerQ' = Tail(workerQ), calls' = calls
  PROVE  /\ Distinct(workerQ', 0, Len(calls'))
         /\ \A i \in 1..Len(workerQ') : IsListen(workerQ'[i]) =>
              /\ reply[workerQ'[i].call].state = "waiting"
              /\ IsListen(Head(workerQ)) => workerQ'[i].call # Head(workerQ).call
         /\ IsListen(Head(workerQ)) => /\ Head(workerQ).call \in 1..Len(calls)
                                       /\ reply[Head(workerQ).call].state = "waiting"
  <1>1. /\ Len(workerQ) \in Nat /\ Len(workerQ) > 0 /\ Head(workerQ) = workerQ[1]
        /\ Len(workerQ') = Len(workerQ) - 1
        /\ \A i \in 1..Len(workerQ') : workerQ'[i] = workerQ[i + 1]
    BY Numbers, HeadTailProperties, EmptySeq, LenProperties
  <1>2. \A i \in 1..Len(workerQ') : i + 1 \in 1..Len(workerQ) /\ i + 1 # 1
    BY <1>1
  <1>3. 1 \in 1..Len(workerQ) /\ 0 + 1 = 1
    BY <1>1
  <1>4. Distinct(workerQ', 0, Len(calls'))
    <2>1. \A i \in 1..Len(workerQ'), j \in 1..Len(workerQ') : i # j => i + 1 # j + 1
      BY <1>1
    <2>2. QED
      BY <1>1, <1>2, <2>1 DEF QueueInv, Distinct
  <1>5. QED
    BY <1>1, <1>2, <1>3, <1>4 DEF QueueInv, Distinct

\* A step of the client's worker, the server or the network completes no read.
LEMMA StoreReads ==
  ASSUME TypeOK, QueueInv, Worker \/ ServerAck \/ OtherDevice \/ Catchup \/ Answer
  PROVE  /\ QueueInv' /\ calls' = calls /\ UNCHANGED mapVars
         /\ \A c \in Calls : reply'[c].state = "done" <=> reply[c].state = "done"
  <1> /\ Len(calls) \in Nat /\ 1..Len(calls) \subseteq Calls /\ 1..Len(calls) \subseteq Nat
      /\ workerQ \in Seq(Op) /\ reply \in [Calls -> Reply]
    BY Numbers DEF TypeOK, StoreTypeOK
  <1>1. ASSUME NEW S, NEW docs, NEW ok, Post(S, docs, ok), S \subseteq 1..Len(calls),
               \A c \in S : reply[c].state = "waiting",
               \A i \in 1..Len(workerQ') : IsListen(workerQ'[i]) =>
                 /\ workerQ'[i].call \notin S /\ workerQ'[i].call \in Calls
                 /\ reply[workerQ'[i].call].state = "waiting",
               Distinct(workerQ', 0, Len(calls)), calls' = calls
        PROVE  /\ QueueInv'
               /\ \A c \in Calls : reply'[c].state = "done" <=> reply[c].state = "done"
    <2>1. \A c \in Calls : reply'[c] = IF c \in S
                                       THEN [state |-> "posted", ok |-> ok, docs |-> docs]
                                       ELSE reply[c]
      BY <1>1 DEF Post
    <2>2. \A c \in Calls : c \in S => reply'[c].state = "posted"
      BY <2>1
    <2>3. \A c \in Calls : reply'[c].state = "done" <=> reply[c].state = "done"
      BY <1>1, <2>1, <2>2
    <2>4. \A i \in 1..Len(workerQ') :
            IsListen(workerQ'[i]) => reply'[workerQ'[i].call].state = "waiting"
      BY <1>1, <2>1
    <2>5. \A c \in Calls : c > Len(calls') => reply'[c].state = "waiting"
      <3>1. \A c \in Calls : c > Len(calls) => c \notin 1..Len(calls)
        BY DEF Calls
      <3>2. QED
        BY <1>1, <2>1, <3>1 DEF QueueInv
    <2>6. QED
      BY <1>1, <2>3, <2>4, <2>5 DEF QueueInv, Distinct, IsListen
  <1>2. CASE TakeListen /\ UNCHANGED mapVars
    <2> DEFINE h == Head(workerQ).call
    <2>1. /\ workerQ # <<>> /\ workerQ' = Tail(workerQ) /\ IsListen(Head(workerQ))
          /\ calls' = calls
      BY <1>2 DEF TakeListen, IsListen
    <2>2. PICK S \in SUBSET {h} : Post(S, local, TRUE)
      BY <1>2 DEF TakeListen
    <2>3. h \in 1..Len(calls) /\ reply[h].state = "waiting"
      BY <2>1, HeadServed
    <2>4. /\ Distinct(workerQ', 0, Len(calls))
          /\ \A i \in 1..Len(workerQ') : IsListen(workerQ'[i]) =>
               workerQ'[i].call # h /\ reply[workerQ'[i].call].state = "waiting"
      BY <2>1, HeadServed
    <2>5. \A i \in 1..Len(workerQ') : IsListen(workerQ'[i]) => workerQ'[i].call \in Calls
      BY <2>4 DEF Distinct
    <2> HIDE DEF h
    <2>6. QED
      BY <1>1, <1>2, <2>1, <2>2, <2>3, <2>4, <2>5
  <1>3. CASE TakeWrite /\ UNCHANGED mapVars
    <2>1. /\ workerQ # <<>> /\ workerQ' = Tail(workerQ) /\ calls' = calls /\ reply' = reply
      BY <1>3 DEF TakeWrite
    <2>2. QED
      BY <1>3, <2>1, HeadServed DEF QueueInv, Distinct, IsListen
  <1>4. ASSUME NEW S \in SUBSET Registered, NEW docs, NEW ok, Post(S, docs, ok),
               UNCHANGED <<calls, workerQ>>
        PROVE  /\ QueueInv'
               /\ \A c \in Calls : reply'[c].state = "done" <=> reply[c].state = "done"
    <2>1. S \subseteq 1..Len(calls) /\ \A c \in S : reply[c].state = "waiting"
      BY DEF Registered
    <2>2. \A i \in 1..Len(workerQ) : IsListen(workerQ[i]) =>
            /\ workerQ[i].call \in Calls /\ workerQ[i] = Listen(workerQ[i].call)
            /\ reply[workerQ[i].call].state = "waiting"
      <3>1. \A i \in 1..Len(workerQ) : workerQ[i] \in Op
        BY ElementOfSeq
      <3>2. QED
        BY <3>1 DEF Op, Mutation, IsListen, Listen, QueueInv
    <2>3. \A i \in 1..Len(workerQ) : IsListen(workerQ[i]) => workerQ[i].call \notin S
      BY <2>2 DEF Registered
    <2>4. QED
      BY <1>1, <1>4, <2>1, <2>2, <2>3 DEF QueueInv
  <1>5. CASE Catchup \/ Answer
    BY <1>4, <1>5 DEF Catchup, Answer, Sync, Reject
  <1>6. CASE ServerAck \/ OtherDevice
    BY <1>6 DEF ServerAck, OtherDevice, Acknowledge, Others, OtherSubmits, OtherDeletes,
                Elsewhere, QueueInv, Distinct, IsListen
  <1>7. QED
    BY <1>2, <1>3, <1>5, <1>6 DEF Worker, Catchup, Answer

\* A completion runs after those of the older reads of its query.
LEMMA CompleteReads ==
  ASSUME TypeOK, QueueInv, DoneInOrder, NEW c \in 1..Len(calls), NEW ws \in Seq(Op),
         \A i \in 1..Len(ws) : ~IsListen(ws[i]), Complete(c, ws)
  PROVE  /\ QueueInv' /\ DoneInOrder' /\ calls' = calls
         /\ \A d \in Calls : reply'[d].state = "done" <=> d = c \/ reply[d].state = "done"
  <1> /\ Len(calls) \in Nat /\ 1..Len(calls) \subseteq Calls /\ 1..Len(calls) \subseteq Nat
      /\ workerQ \in Seq(Op) /\ reply \in [Calls -> Reply] /\ c \in Calls
    BY Numbers DEF TypeOK, StoreTypeOK
  <1>1. /\ calls' = calls /\ workerQ' = workerQ \o ws /\ reply[c].state = "posted"
        /\ \A d \in Calls : reply'[d] = IF d = c THEN Done ELSE reply[d]
        /\ Done.state = "done"
    BY DEF Complete, Done, Waiting
  <1>2. \A d \in Calls : reply'[d].state = "done" <=> d = c \/ reply[d].state = "done"
    BY <1>1
  <1>3. Distinct(ws, Len(calls), Len(calls))
    BY DEF Distinct
  <1>4. /\ Distinct(workerQ', 0, Len(calls))
        /\ \A i \in 1..Len(workerQ') : IsListen(workerQ'[i]) =>
             \E k \in 1..Len(workerQ) : workerQ'[i] = workerQ[k]
    <2>1. \A k \in Nat : k \notin k + 1..k
      OBVIOUS
    <2>2. 0 \in Nat /\ 0 <= Len(calls) /\ Len(calls) <= Len(calls)
          /\ Distinct(workerQ, 0, Len(calls))
      BY DEF QueueInv
    <2>3. QED
      BY <1>1, <1>3, <2>1, <2>2, DistinctConcat
  <1>5. QueueInv'
    <2>1. \A i \in 1..Len(workerQ') : IsListen(workerQ'[i]) =>
            /\ reply[workerQ'[i].call].state = "waiting"
            /\ workerQ'[i].call \in Calls
      BY <1>4 DEF QueueInv, Distinct
    <2>2. \A i \in 1..Len(workerQ') :
            IsListen(workerQ'[i]) => reply'[workerQ'[i].call].state = "waiting"
      BY <1>1, <2>1
    <2>3. \A d \in Calls : d > Len(calls') => reply'[d].state = "waiting"
      BY <1>1 DEF QueueInv
    <2>4. QED
      BY <1>1, <1>4, <2>2, <2>3 DEF QueueInv, Distinct, IsListen
  <1>6. DoneInOrder'
    <2>1. SUFFICES ASSUME NEW d \in 1..Len(calls), NEW e \in 1..Len(calls),
                          d < e, calls[d] = calls[e], reply'[e].state = "done"
                   PROVE  reply'[d].state = "done"
      BY <1>1 DEF DoneInOrder
    <2>2. CASE e = c
      <3>1. d \in 1..c - 1
        BY <2>1, <2>2
      <3>2. QED
        BY <1>2, <2>1, <2>2, <3>1 DEF Complete
    <2>3. CASE e # c
      BY <1>2, <2>1, <2>3 DEF DoneInOrder
    <2>4. QED
      BY <2>2, <2>3
  <1>7. QED
    BY <1>1, <1>2, <1>5, <1>6

\* Among the reads rs, a delete's is followed by that of the map.
Paired(rs) ==
  \A i \in 1..Len(rs) :
    /\ rs[i][2].do \in {"show", "remove"} => rs[i][1] = Users
    /\ rs[i][2].do = "remove" => i + 1 \in 1..Len(rs) /\ rs[i + 1][2].do = "show"

\* The markers stay where they are.
Stand == \A c \in Calls : \A m \in allMarkers'[c] : \E n \in allMarkers[c] : m.pos = n.pos

LEMMA WhatIsPaired ==
  /\ Paired(<<setData>>)
  /\ \A u \in Users : Paired(<<<<{u}, [do |-> "load"]>>>>)
  /\ \A p \in Spots : Paired(<<<<Users, [do |-> "remove", at |-> p]>>, setData>>)
  <1>1. setData[1] = Users /\ setData[2].do = "show"
    BY DEF setData
  <1>2. ASSUME NEW x, x[2].do \in {"show", "remove"} => x[1] = Users, x[2].do # "remove"
        PROVE  Paired(<<x>>)
    <2>1. Len(<<x>>) = 1 /\ <<x>>[1] = x /\ \A i \in 1..1 : i = 1
      OBVIOUS
    <2>2. QED
      BY <1>2, <2>1 DEF Paired
  <1>3. ASSUME NEW x, NEW y, x[1] = Users, y[1] = Users, y[2].do = "show"
        PROVE  Paired(<<x, y>>)
    <2>1. /\ Len(<<x, y>>) = 2 /\ <<x, y>>[1] = x /\ <<x, y>>[2] = y
          /\ \A i \in 1..2 : i = 1 \/ i = 2
      OBVIOUS
    <2>2. QED
      BY <1>3, <2>1 DEF Paired
  <1>4. Paired(<<setData>>)
    BY <1>1, <1>2
  <1>5. ASSUME NEW u \in Users
        PROVE  Paired(<<<<{u}, [do |-> "load"]>>>>)
    <2> DEFINE x == <<{u}, [do |-> "load"]>>
    <2>1. x[2].do = "load"
      OBVIOUS
    <2> HIDE DEF x
    <2>2. Paired(<<x>>)
      BY <1>2, <2>1
    <2>3. QED
      BY <2>2 DEF x
  <1>6. ASSUME NEW p \in Spots
        PROVE  Paired(<<<<Users, [do |-> "remove", at |-> p]>>, setData>>)
    <2> DEFINE x == <<Users, [do |-> "remove", at |-> p]>>
    <2>1. x[1] = Users
      OBVIOUS
    <2> HIDE DEF x
    <2>2. Paired(<<x, setData>>)
      BY <1>1, <1>3, <2>1
    <2>3. QED
      BY <2>2 DEF x
  <1>7. QED
    BY <1>4, <1>5, <1>6

\* A tap changes no answer: it may ask, and may hide markers.
LEMMA UserAsks ==
  ASSUME TypeOK, UserAction
  PROVE  /\ UNCHANGED <<removed, toRemove>> /\ Stand
         /\ \/ UNCHANGED <<calls, todo, workerQ, reply>>
            \/ \E ws \in Seq(Mutation), rs \in Seq(Asking) : Issue(ws, rs) /\ Paired(rs)
  <1>1. form.pos \in Spots /\ <<>> \in Seq(Mutation)
    BY EmptySeq DEF TypeOK, Form
  <1>2. CASE \/ \E p \in SpotsOf[Me] : didLongPressAt(p) \/ add_table(p)
             \/ Dismiss \/ Type \/ editTapped \/ deleteTapped \/ CancelAlert
             \/ submitIncomplete
    BY <1>2
    DEF didLongPressAt, add_table, PlaceMarker, Dismiss, Type, editTapped, deleteTapped,
        CancelAlert, submitIncomplete, FormBecomes, storeVars, Stand
  <1>3. ASSUME NEW v \in Visible, didTapInfoWindowOf(v[1], v[2])
        PROVE  /\ UNCHANGED <<removed, toRemove>> /\ Stand
               /\ \E ws \in Seq(Mutation), rs \in Seq(Asking) : Issue(ws, rs) /\ Paired(rs)
    <2> DEFINE rs == <<<<{v[2]}, [do |-> "load"]>>>>
    <2>1. v[2] \in Users
      <3>1. mapRead \in Calls
        BY MaxCallsAssumption, LenProperties DEF TypeOK, StoreTypeOK, Calls
      <3>2. allMarkers[mapRead] \subseteq Marker
        BY <3>1 DEF TypeOK
      <3>3. QED
        BY <3>2, MeAssumption DEF Visible, Marker
    <2>2. rs \in Seq(Asking) /\ Paired(rs)
      BY <2>1, WhatIsAsked, WhatIsPaired, OneOrTwo
    <2>3. Issue(<<>>, rs) /\ UNCHANGED <<removed, toRemove, allMarkers>>
      BY <1>3 DEF didTapInfoWindowOf
    <2> HIDE DEF rs
    <2>4. QED
      BY <1>1, <2>2, <2>3 DEF Stand
  <1>4. CASE submitPressed
    <2> DEFINE ws == <<Write({Me}, form.pos)>>
    <2>1. Write({Me}, form.pos) \in Mutation
      BY <1>1, MeAssumption DEF Write, Mutation, Places
    <2>2. ws \in Seq(Mutation) /\ <<setData>> \in Seq(Asking)
      BY <2>1, WhatIsAsked, OneOrTwo
    <2>3. Issue(ws, <<setData>>) /\ UNCHANGED <<removed, toRemove, allMarkers>>
      BY <1>4 DEF submitPressed
    <2> HIDE DEF ws
    <2>4. QED
      BY <2>2, <2>3, WhatIsPaired DEF Stand
  <1>5. CASE BackToMap
    <2>1. <<setData>> \in Seq(Asking)
      BY WhatIsAsked, OneOrTwo
    <2>2. QED
      BY <1>1, <1>5, <2>1, WhatIsPaired DEF BackToMap, Stand
  <1>6. CASE ConfirmDelete
    <2> DEFINE rs == <<<<Users, [do |-> "remove", at |-> form.pos]>>, setData>>
    <2>1. rs \in Seq(Asking) /\ Paired(rs)
      BY <1>1, WhatIsAsked, WhatIsPaired, OneOrTwo
    <2>2. Issue(<<>>, rs) /\ UNCHANGED <<removed, toRemove>>
      BY <1>6 DEF ConfirmDelete
    <2>3. Stand
      <3>1. SUFFICES ASSUME NEW c \in Calls, NEW m \in allMarkers'[c]
                     PROVE  \E n \in allMarkers[c] : m.pos = n.pos
        BY DEF Stand
      <3>2. PICK n \in allMarkers[c] :
              m = [n EXCEPT !.shown = @ /\ ~IsFirstAt(c, n, form.pos)]
        BY <1>6 DEF ConfirmDelete, HideFirstAt
      <3>3. n \in Marker
        BY DEF TypeOK
      <3>4. m.pos = n.pos
        BY <3>2, <3>3 DEF Marker
      <3>5. QED
        BY <3>4
    <2> HIDE DEF rs
    <2>4. QED
      BY <1>1, <2>1, <2>2, <2>3
  <1>7. QED
    BY <1>2, <1>3, <1>4, <1>5, <1>6 DEF UserAction

\* ReadsInv and HiddenInv when reads are asked.
LEMMA AskedStep ==
  ASSUME TypeOK, ReadsInv, HiddenInv, UNCHANGED <<removed, toRemove>>, Stand,
         NEW ws \in Seq(Mutation), NEW rs \in Seq(Asking), Issue(ws, rs), Paired(rs)
  PROVE  ReadsInv' /\ HiddenInv'
  <1> DEFINE L == Len(calls)
             n == Len(rs)
  <1>1. /\ QueueInv' /\ reply' = reply
        /\ n \in Nat /\ Len(calls') = L + n
        /\ \A c \in 1..L : calls'[c] = calls[c] /\ todo'[c] = todo[c]
        /\ \A i \in 1..n : calls'[L + i] = rs[i][1] /\ todo'[L + i] = rs[i][2]
    BY IssueReads DEF ReadsInv
  <1>2. L \in Nat /\ Len(calls') <= MaxCalls
    BY IssueType DEF TypeOK
  <1> HIDE DEF L, n
  <1>3. \A c \in 1..Len(calls') : /\ c \in Calls /\ c \in Nat
                                  /\ \/ c \in 1..L
                                     \/ c \notin 1..L /\ c > L /\ c - L \in 1..n /\ c = L + (c - L)
    BY <1>1, <1>2, MaxCallsAssumption DEF Calls
  <1>4. \A c \in 1..L : c \in 1..Len(calls')
    BY <1>1, <1>2
  <1>5. \A c \in Calls : c > L => reply[c].state # "done"
    BY DEF ReadsInv, QueueInv, L
  <1>6. UnansweredInv'
    BY <1>1 DEF ReadsInv, UnansweredInv, Stand
  <1>7. DoneInOrder'
    <2>1. SUFFICES ASSUME NEW c \in 1..Len(calls'), NEW d \in 1..Len(calls'), c < d,
                          calls'[c] = calls'[d], reply[d].state = "done"
                   PROVE  reply[c].state = "done"
      BY <1>1 DEF DoneInOrder
    <2>2. d \in 1..L /\ c \in 1..L
      <3>1. d \in 1..L
        BY <1>3, <1>5, <2>1
      <3>2. QED
        BY <1>2, <1>3, <2>1, <3>1
    <2>3. QED
      BY <1>1, <2>1, <2>2 DEF ReadsInv, DoneInOrder, L
  <1>8. PairInv'
    <2>1. SUFFICES ASSUME NEW c \in 1..Len(calls')
                   PROVE  /\ todo'[c].do \in {"show", "remove"} => calls'[c] = Users
                          /\ todo'[c].do = "remove" =>
                               c + 1 \in 1..Len(calls') /\ todo'[c + 1].do = "show"
      BY DEF PairInv
    <2>2. CASE c \in 1..L
      BY <1>1, <1>4, <2>2 DEF ReadsInv, PairInv, L
    <2>3. CASE c \notin 1..L
      <3> DEFINE i == c - L
      <3>1. i \in 1..n /\ c = L + i /\ (i + 1 \in 1..n => c + 1 \in 1..Len(calls'))
            /\ c + 1 = L + (i + 1)
        BY <1>1, <1>2, <1>3, <2>3
      <3> HIDE DEF i
      <3>2. calls'[c] = rs[i][1] /\ todo'[c] = rs[i][2]
        BY <1>1, <3>1
      <3>3. i + 1 \in 1..n => todo'[c + 1] = rs[i + 1][2]
        BY <1>1, <3>1
      <3>4. QED
        BY <3>1, <3>2, <3>3 DEF Paired, n
    <2>4. QED
      BY <2>2, <2>3
  <1>9. HiddenInv'
    <2>1. SUFFICES ASSUME NEW c \in 1..Len(calls') - 1,
                          todo'[c].do = "remove", removed[c] # {}
                   PROVE  IF reply[c + 1].state = "done"
                            THEN \A m \in allMarkers'[c + 1] : m.pos # todo'[c].at
                            ELSE toRemove = todo'[c].at
      BY <1>1 DEF HiddenInv
    <2>2. c \in 1..Len(calls') /\ c + 1 \in 1..Len(calls')
      BY <1>1, <1>2
    <2>3. reply[c].state = "done"
      BY <1>3, <2>1, <2>2 DEF ReadsInv, UnansweredInv
    <2>4. c \in 1..L
      BY <1>3, <1>5, <2>2, <2>3
    <2>5. todo'[c] = todo[c] /\ c + 1 \in 1..L
      BY <1>1, <2>1, <2>4 DEF ReadsInv, PairInv, L
    <2>6. c \in 1..L - 1
      BY <1>2, <2>4, <2>5
    <2>7. c + 1 \in Calls
      BY <1>3, <2>2
    <2>8. QED
      BY <2>1, <2>5, <2>6, <2>7 DEF HiddenInv, Stand, L
  <1>10. QED
    BY <1>1, <1>6, <1>7, <1>8, <1>9 DEF ReadsInv

\* ReadsInv and HiddenInv when the reads and the markers stay as they are.
LEMMA StillStep ==
  ASSUME TypeOK, ReadsInv, HiddenInv, QueueInv', Stand,
         UNCHANGED <<calls, todo, removed, toRemove>>,
         \A c \in Calls : reply'[c].state = "done" <=> reply[c].state = "done"
  PROVE  ReadsInv' /\ HiddenInv'
  <1>1. /\ Len(calls) \in Nat /\ 1..Len(calls) \subseteq Calls
        /\ \A c \in 1..Len(calls) - 1 : c + 1 \in Calls
    BY Numbers
  <1>2. DoneInOrder' /\ PairInv' /\ UnansweredInv'
    BY <1>1 DEF ReadsInv, DoneInOrder, PairInv, UnansweredInv, Stand
  <1>3. HiddenInv'
    BY <1>1 DEF HiddenInv, Stand
  <1>4. QED
    BY <1>2, <1>3 DEF ReadsInv

\* What all the completions have in common.
LEMMA CompletedReads ==
  ASSUME TypeOK, ReadsInv, NEW c \in 1..Len(calls), NEW ws \in Seq(Op),
         \A i \in 1..Len(ws) : ~IsListen(ws[i]), Complete(c, ws), UNCHANGED todo,
         \A d \in Calls : d # c => removed'[d] = removed[d] /\ allMarkers'[d] = allMarkers[d]
  PROVE  /\ ReadsInv' /\ calls' = calls
         /\ reply[c].state = "posted" /\ c \in Calls
         /\ \A d \in Calls : reply'[d].state = "done" <=> d = c \/ reply[d].state = "done"
         /\ \A d \in 1..Len(calls) :
              calls[d] = calls[c] /\ reply[d].state = "done" => d < c
         /\ \A d \in 1..Len(calls) :
              calls[d] = calls[c] /\ d < c => reply[d].state = "done"
  <1>1. c \in Calls /\ Len(calls) \in Nat /\ 1..Len(calls) \subseteq Nat
    BY Numbers
  <1>2. /\ QueueInv' /\ DoneInOrder' /\ calls' = calls
        /\ \A d \in Calls : reply'[d].state = "done" <=> d = c \/ reply[d].state = "done"
    BY CompleteReads DEF ReadsInv
  <1>3. reply[c].state = "posted"
    BY DEF Complete
  <1>4. PairInv'
    BY <1>2 DEF ReadsInv, PairInv
  <1>5. UnansweredInv'
    BY <1>2 DEF ReadsInv, UnansweredInv
  <1>6. ASSUME NEW d \in 1..Len(calls), calls[d] = calls[c], reply[d].state = "done"
        PROVE  d < c
    <2>1. d # c
      BY <1>3, <1>6
    <2>2. ~(c < d)
      BY <1>3, <1>6 DEF ReadsInv, DoneInOrder
    <2>3. QED
      BY <1>1, <2>1, <2>2
  <1>7. ASSUME NEW d \in 1..Len(calls), calls[d] = calls[c], d < c
        PROVE  reply[d].state = "done"
    <2>1. d \in 1..c - 1
      BY <1>1, <1>7
    <2>2. QED
      BY <1>7, <2>1 DEF Complete
  <1>8. QED
    BY <1>1, <1>2, <1>3, <1>4, <1>5, <1>6, <1>7 DEF ReadsInv

\* The completion of a read that is neither a delete's, nor the one after it.
LEMMA ElementsStep ==
  ASSUME TypeOK, ReadsInv, HiddenInv, NEW c \in 1..Len(calls), setElementsAnswered(c)
  PROVE  ReadsInv' /\ HiddenInv'
  <1>1. /\ Complete(c, <<>>) /\ <<>> \in Seq(Op) /\ \A i \in 1..Len(<<>>) : ~IsListen(<<>>[i])
        /\ UNCHANGED <<todo, removed, allMarkers, toRemove>> /\ todo[c].do = "load"
    BY EmptySeq DEF setElementsAnswered
  <1>2. /\ ReadsInv' /\ calls' = calls
        /\ \A d \in Calls : reply'[d].state = "done" <=> d = c \/ reply[d].state = "done"
    BY <1>1, CompletedReads
  <1>3. \A d \in 1..Len(calls) - 1 : d \in 1..Len(calls) /\ d + 1 \in Calls
    BY Numbers
  <1>4. HiddenInv'
    <2>1. \A d \in 1..Len(calls) - 1 : todo[d].do = "remove" => d + 1 # c
      BY <1>1, <1>3 DEF ReadsInv, PairInv
    <2>2. QED
      BY <1>1, <1>2, <1>3, <2>1 DEF HiddenInv
  <1>5. QED
    BY <1>2, <1>4

\* A delete completes: its place waits in toRemove for the next map.
LEMMA RemoveStep ==
  ASSUME TypeOK, ReadsInv, HiddenInv, NEW c \in 1..Len(calls), removeAnswered(c)
  PROVE  ReadsInv' /\ HiddenInv'
  <1> DEFINE ws == IF Hits(c) = {} THEN <<>> ELSE <<Write(Hits(c), NoTable)>>
  <1>1. /\ Complete(c, ws) /\ UNCHANGED <<todo, allMarkers>> /\ todo[c].do = "remove"
        /\ toRemove' = IF Hits(c) = {} THEN toRemove ELSE todo[c].at
        /\ removed' = [removed EXCEPT ![c] = Hits(c)]
    BY DEF removeAnswered, Hits
  <1>2. ws \in Seq(Op) /\ \A i \in 1..Len(ws) : ~IsListen(ws[i])
    <2> DEFINE m == Write(Hits(c), NoTable)
    <2>1. m \in Op /\ ~IsListen(m)
      BY DEF Hits, Write, Op, Mutation, Places, IsListen
    <2> HIDE DEF m
    <2>2. CASE Hits(c) = {}
      BY <2>2, EmptySeq
    <2>3. CASE Hits(c) # {}
      <3>1. ws = <<m>>
        BY <2>3 DEF m
      <3> HIDE DEF ws
      <3>2. QED
        BY <2>1, <3>1, OneOrTwo
    <2>4. QED
      BY <2>2, <2>3
  <1> HIDE DEF ws
  <1>3. \A d \in Calls : removed'[d] = IF d = c THEN Hits(c) ELSE removed[d]
    BY <1>1 DEF TypeOK
  <1>4. /\ ReadsInv' /\ calls' = calls
        /\ reply[c].state = "posted" /\ c \in Calls
        /\ \A d \in Calls : reply'[d].state = "done" <=> d = c \/ reply[d].state = "done"
        /\ \A d \in 1..Len(calls) : calls[d] = calls[c] /\ reply[d].state = "done" => d < c
        /\ \A d \in 1..Len(calls) : calls[d] = calls[c] /\ d < c => reply[d].state = "done"
    BY <1>1, <1>2, <1>3, CompletedReads
  <1>5. /\ \A d \in 1..Len(calls) - 1 : d \in 1..Len(calls) /\ d + 1 \in 1..Len(calls)
        /\ 1..Len(calls) \subseteq Calls /\ 1..Len(calls) \subseteq Nat
    BY Numbers
  <1>6. \A d \in 1..Len(calls) - 1 : todo[d].do = "remove" =>
          /\ d + 1 # c /\ calls[d] = calls[c] /\ calls[d + 1] = calls[c]
    BY <1>1, <1>5 DEF ReadsInv, PairInv
  <1>7. HiddenInv'
    <2>1. SUFFICES ASSUME NEW d \in 1..Len(calls) - 1,
                          todo[d].do = "remove", removed'[d] # {}
                   PROVE  IF reply'[d + 1].state = "done"
                            THEN \A m \in allMarkers[d + 1] : m.pos # todo[d].at
                            ELSE toRemove' = todo[d].at
      BY <1>1, <1>4 DEF HiddenInv
    <2>2. reply'[d + 1].state = "done" <=> reply[d + 1].state = "done"
      BY <1>4, <1>5, <1>6, <2>1
    <2>3. CASE d = c
      <3>1. reply[d + 1].state # "done"
        BY <1>4, <1>5, <1>6, <2>1, <2>3
      <3>2. toRemove' = todo[d].at
        BY <1>1, <1>3, <1>4, <2>1, <2>3
      <3>3. QED
        BY <2>2, <3>1, <3>2
    <2>4. CASE d # c
      <3>1. removed[d] # {} /\ reply[d].state = "done"
        BY <1>3, <1>5, <2>1, <2>4 DEF ReadsInv, UnansweredInv
      <3>2. d + 1 < c
        BY <1>4, <1>5, <1>6, <2>1, <3>1
      <3>3. reply[d + 1].state = "done"
        BY <1>4, <1>5, <1>6, <2>1, <3>2
      <3>4. QED
        BY <2>1, <2>2, <3>1, <3>3 DEF HiddenInv
    <2>5. QED
      BY <2>3, <2>4
  <1>8. QED
    BY <1>4, <1>7

\* The map that opened with a delete loads, and skips the one table there may be.
LEMMA ShowStep ==
  ASSUME Alone, TypeOK, ReadsInv, HiddenInv, NEW c \in 1..Len(calls), setDataAnswered(c)
  PROVE  ReadsInv' /\ HiddenInv'
  <1>1. /\ Complete(c, <<>>) /\ <<>> \in Seq(Op) /\ \A i \in 1..Len(<<>>) : ~IsListen(<<>>[i])
        /\ UNCHANGED <<todo, removed>> /\ todo[c].do = "show"
    BY EmptySeq DEF setDataAnswered
  <1>2. \A d \in Calls : d # c => allMarkers'[d] = allMarkers[d]
    BY DEF setDataAnswered, TypeOK
  <1>3. /\ ReadsInv' /\ calls' = calls
        /\ reply[c].state = "posted" /\ c \in Calls
        /\ \A d \in Calls : reply'[d].state = "done" <=> d = c \/ reply[d].state = "done"
        /\ \A d \in 1..Len(calls) : calls[d] = calls[c] /\ reply[d].state = "done" => d < c
        /\ \A d \in 1..Len(calls) : calls[d] = calls[c] /\ d < c => reply[d].state = "done"
    BY <1>1, <1>2, CompletedReads
  <1>4. /\ \A d \in 1..Len(calls) - 1 : d \in 1..Len(calls) /\ d + 1 \in 1..Len(calls)
        /\ 1..Len(calls) \subseteq Calls /\ 1..Len(calls) \subseteq Nat
    BY Numbers
  <1>5. \A m \in allMarkers'[c] : m.pos # toRemove
    <2>1. CASE reply[c].ok
      <3> DEFINE docs == reply[c].docs
                 keep == {u \in Users \ Skipped(docs) : docs[u] # NoTable}
      <3>1. allMarkers'[c] = {[pos |-> docs[u], owner |-> u, shown |-> TRUE] : u \in keep}
        BY <1>3, <2>1 DEF setDataAnswered, TypeOK
      <3>2. ASSUME NEW u \in keep PROVE docs[u] # toRemove
        <4>1. u \in Users /\ u \notin Skipped(docs) /\ \A v \in Users : v = u
          BY DEF Alone
        <4>2. u <= u
          BY <4>1, UsersAssumption
        <4>3. QED
          BY <4>1, <4>2 DEF Skipped
      <3>3. QED
        BY <3>1, <3>2
    <2>2. CASE ~reply[c].ok
      BY <1>3, <2>2 DEF setDataAnswered, ReadsInv, UnansweredInv
    <2>3. QED
      BY <2>1, <2>2
  <1>6. HiddenInv'
    <2>1. SUFFICES ASSUME NEW d \in 1..Len(calls) - 1,
                          todo[d].do = "remove", removed[d] # {}
                   PROVE  IF reply'[d + 1].state = "done"
                            THEN \A m \in allMarkers'[d + 1] : m.pos # todo[d].at
                            ELSE toRemove' = todo[d].at
      BY <1>1, <1>3 DEF HiddenInv
    <2>2. calls[d] = calls[c] /\ calls[d + 1] = calls[c] /\ reply[d].state = "done"
      BY <1>1, <1>4, <2>1 DEF ReadsInv, PairInv, UnansweredInv
    <2>3. d < c
      BY <1>3, <1>4, <2>1, <2>2
    <2>4. CASE d + 1 = c
      <3>1. toRemove = todo[d].at
        BY <1>3, <2>1, <2>4 DEF HiddenInv
      <3>2. QED
        BY <1>3, <1>5, <2>4, <3>1
    <2>5. CASE d + 1 # c
      <3>1. d + 1 < c
        BY <1>4, <2>1, <2>3, <2>5
      <3>2. reply[d + 1].state = "done"
        BY <1>3, <1>4, <2>1, <2>2, <3>1
      <3>3. QED
        BY <1>2, <1>3, <1>4, <2>1, <2>5, <3>2 DEF HiddenInv
    <2>6. QED
      BY <2>4, <2>5
  <1>7. QED
    BY <1>3, <1>6

LEMMA HiddenStep ==
  ASSUME Alone
  PROVE  TypeOK /\ ReadsInv /\ HiddenInv /\ [Next]_vars => ReadsInv' /\ HiddenInv'
  <1> SUFFICES ASSUME TypeOK, ReadsInv, HiddenInv, [Next]_vars
               PROVE  ReadsInv' /\ HiddenInv'
    OBVIOUS
  <1>1. CASE UserAction
    <2>1. UNCHANGED <<removed, toRemove>> /\ Stand
      BY <1>1, UserAsks
    <2>2. CASE UNCHANGED <<calls, todo, workerQ, reply>>
      BY <2>1, <2>2, StillStep DEF ReadsInv, QueueInv, Distinct, IsListen
    <2>3. CASE \E ws \in Seq(Mutation), rs \in Seq(Asking) : Issue(ws, rs) /\ Paired(rs)
      BY <2>1, <2>3, AskedStep
    <2>4. QED
      BY <1>1, <2>2, <2>3, UserAsks
  <1>2. CASE Completions
    BY <1>2, ShowStep, RemoveStep, ElementsStep DEF Completions
  <1>3. CASE Worker \/ ServerAck \/ OtherDevice \/ Catchup \/ Answer
    <2>1. /\ QueueInv' /\ calls' = calls /\ UNCHANGED mapVars
          /\ \A c \in Calls : reply'[c].state = "done" <=> reply[c].state = "done"
      BY <1>3, StoreReads DEF ReadsInv
    <2>2. QED
      BY <2>1, StillStep DEF mapVars, Stand
  <1>4. CASE UNCHANGED vars \/ \E done \in BOOLEAN : ImageRequestEnds(done)
    <2>1. UNCHANGED <<calls, todo, workerQ, reply, removed, toRemove, allMarkers>>
      BY <1>4 DEF ImageRequestEnds, vars, mapVars, storeVars
    <2>2. QED
      BY <2>1, StillStep DEF ReadsInv, QueueInv, Distinct, IsListen, Stand
  <1>5. QED
    BY <1>1, <1>2, <1>3, <1>4 DEF Next

LEMMA HiddenInit == Init => ReadsInv /\ HiddenInv
  <1> SUFFICES ASSUME Init PROVE ReadsInv /\ HiddenInv
    OBVIOUS
  <1>1. /\ Len(calls) = 1 /\ calls[1] = Users /\ todo[1] = [do |-> "show"]
        /\ \A c \in 1..1 : c = 1
        /\ \A c \in Calls : /\ reply[c].state = "waiting"
                            /\ removed[c] = {} /\ allMarkers[c] = {}
    BY DEF Init, Waiting
  <1>2. Len(workerQ) = 1 /\ workerQ[1].call = 1
    BY DEF Init, Listen
  <1>3. 1 \in Calls /\ 1 \in 0 + 1..1
    BY FirstReadAssumption, MaxCallsAssumption DEF Calls
  <1>4. QueueInv
    BY <1>1, <1>2, <1>3 DEF QueueInv, Distinct
  <1>5. DoneInOrder /\ PairInv /\ UnansweredInv /\ HiddenInv
    BY <1>1, <1>3 DEF DoneInOrder, PairInv, UnansweredInv, HiddenInv
  <1>6. QED
    BY <1>4, <1>5 DEF ReadsInv

\* Where nobody else uses the application, the map that loads after a delete
\* shows no marker at the deleted table's place.
THEOREM DeletedHiddenAlone ==
  ASSUME Alone
  PROVE  Spec => []DeletedStaysHidden
  <1>1. TypeOK /\ ReadsInv /\ HiddenInv => DeletedStaysHidden
    <2>1. SUFFICES ASSUME TypeOK, ReadsInv, HiddenInv PROVE DeletedStaysHidden
      OBVIOUS
    <2>2. \A c \in 1..Len(calls) - 1 : c + 1 \in Calls
      BY <2>1, Numbers
    <2>3. QED
      BY <2>1, <2>2 DEF ReadsInv, UnansweredInv, HiddenInv, DeletedStaysHidden
  <1>2. TypeOK /\ ReadsInv /\ HiddenInv /\ [Next]_vars => ReadsInv' /\ HiddenInv'
    BY HiddenStep
  <1>3. QED
    BY <1>1, <1>2, HiddenInit, Typing, PTL DEF Spec

----------------------------------------------------------------------------
(* The own table on the map.  The read of the newest map is enqueued after *)
(* the writes of the own table, so it is answered when the view shows them.*)

OwnBeforeMap ==
  mine \in Spots =>
    \A i \in 1..Len(workerQ) : OwnWrite(workerQ[i]) =>
      \E j \in i + 1..Len(workerQ) : IsListen(workerQ[j]) /\ workerQ[j].call = mapRead

ViewIsMine == mine \in Spots /\ Settled(workerQ) => local[Me] = mine

AnswerIsMine ==
  mine \in Spots /\ reply[mapRead].state = "posted" /\ reply[mapRead].ok =>
    reply[mapRead].docs[Me] = mine

MapInv == todo[mapRead].do = "show" /\ OwnBeforeMap /\ ViewIsMine /\ AnswerIsMine

\* What a handler asks is behind what was in the queue, its reads last.
LEMMA IssueQueue ==
  ASSUME TypeOK, NEW ws \in Seq(Mutation), NEW rs \in Seq(Asking), Issue(ws, rs)
  PROVE  /\ Len(workerQ) \in Nat /\ Len(ws) \in Nat /\ Len(rs) \in Nat /\ Len(calls) \in Nat
         /\ Len(workerQ') = Len(workerQ) + Len(ws) + Len(rs)
         /\ \A i \in 1..Len(workerQ) : workerQ'[i] = workerQ[i]
         /\ \A i \in 1..Len(rs) : workerQ'[Len(workerQ) + Len(ws) + i] = Listen(Len(calls) + i)
  <1> DEFINE n  == Len(rs)
             qs == [i \in 1..n |-> rs[i][1]]
  <1>2. n \in Nat /\ Len(calls) \in Nat /\ Len(calls) + n <= MaxCalls
    <2>1. /\ n \in Nat /\ Len(calls) \in Nat
          /\ Len(calls') = Len(calls) + n /\ Len(calls') <= MaxCalls
      BY IssueType, LenProperties DEF TypeOK
    <2>2. QED
      BY <2>1
  <1>1. Ask(ws, qs)
    BY DEF Issue
  <1> HIDE DEF n
  <1>3. Len(qs) = n
    <2>1. DOMAIN qs = 1..n
      OBVIOUS
    <2>2. QED
      BY <1>2, <2>1
  <1> HIDE DEF qs
  <1>4. PICK ls : ls = Listens(n)
    OBVIOUS
  <1>5. ls \in Seq(Op) /\ Len(ls) = n /\ \A i \in 1..n : ls[i] = Listen(Len(calls) + i)
    <2>1. \A i \in 1..n : Listen(Len(calls) + i) \in Op
      BY <1>2, MaxCallsAssumption DEF Listen, Op, Calls
    <2>2. ls \in [1..n -> Op] /\ \A i \in 1..n : ls[i] = Listen(Len(calls) + i)
      BY <1>4, <2>1 DEF Listens
    <2>3. Len(ls) = n
      BY <1>2, <1>4 DEF Listens
    <2>4. QED
      BY <1>2, <2>2, <2>3, SeqDef
  <1>6. workerQ \in Seq(Op) /\ ws \in Seq(Op)
    BY SeqMonotonic DEF Op, TypeOK, StoreTypeOK
  <1>7. PICK v : v = workerQ \o ws /\ workerQ' = v \o ls
    BY <1>1, <1>3, <1>4 DEF Ask, Listens
  <1>8. /\ v \in Seq(Op) /\ Len(v) = Len(workerQ) + Len(ws) /\ Len(workerQ) \in Nat
        /\ Len(ws) \in Nat /\ \A i \in 1..Len(workerQ) : v[i] = workerQ[i]
    BY <1>6, <1>7, ConcatProperties, LenProperties
  <1>9. /\ Len(workerQ') = Len(v) + n
        /\ \A i \in 1..Len(v) : workerQ'[i] = v[i]
        /\ \A i \in 1..n : workerQ'[Len(v) + i] = ls[i]
    <2>1. /\ Len(v \o ls) = Len(v) + Len(ls)
          /\ \A i \in 1..Len(v) : (v \o ls)[i] = v[i]
          /\ \A i \in 1..Len(ls) : (v \o ls)[Len(v) + i] = ls[i]
      BY <1>5, <1>8, ConcatParts
    <2>2. QED
      BY <1>5, <1>7, <2>1
  <1>10. \A i \in 1..Len(workerQ) : i \in 1..Len(v)
    BY <1>8
  <1>11. \A i \in 1..Len(workerQ) : workerQ'[i] = workerQ[i]
    BY <1>8, <1>9, <1>10
  <1>12. Len(workerQ') = Len(workerQ) + Len(ws) + n
    BY <1>8, <1>9
  <1>13. \A i \in 1..n : workerQ'[Len(workerQ) + Len(ws) + i] = Listen(Len(calls) + i)
    BY <1>5, <1>8, <1>9
  <1>14. QED
    BY <1>2, <1>8, <1>11, <1>12, <1>13 DEF n

\* A new map opens.
LEMMA MapOpens ==
  ASSUME TypeOK, QueueInv, NEW ws \in Seq(Mutation), NEW rs \in Seq(Asking), Issue(ws, rs),
         NEW n \in Nat \ {0}, Len(rs) = n, rs[n][2].do = "show", mapRead' = Len(calls) + n
  PROVE  OwnBeforeMap' /\ todo'[mapRead'].do = "show" /\ reply'[mapRead'].state = "waiting"
  <1>1. /\ reply' = reply /\ todo'[Len(calls) + n] = rs[n][2]
        /\ Len(calls') = Len(calls) + n
    BY IssueReads
  <1>2. /\ Len(calls) \in Nat /\ mapRead' \in Calls /\ mapRead' > Len(calls)
    <2>1. Len(calls) \in Nat /\ Len(calls') <= MaxCalls
      BY IssueType, LenProperties DEF TypeOK, StoreTypeOK
    <2>2. QED
      BY <1>1, <2>1, MaxCallsAssumption DEF Calls
  <1>3. reply[mapRead'].state = "waiting"
    BY <1>2 DEF QueueInv
  <1>4. PICK k : /\ k = Len(workerQ') /\ k \in Nat /\ k > 0
                 /\ workerQ'[k] = Listen(mapRead')
    <2>1. /\ Len(workerQ) \in Nat /\ Len(ws) \in Nat
          /\ Len(workerQ') = Len(workerQ) + Len(ws) + n
          /\ workerQ'[Len(workerQ) + Len(ws) + n] = Listen(Len(calls) + n)
      BY IssueQueue
    <2>2. QED
      BY <2>1
  <1>5. ASSUME NEW i \in 1..Len(workerQ'), OwnWrite(workerQ'[i])
        PROVE  \E j \in i + 1..Len(workerQ') :
                 IsListen(workerQ'[j]) /\ workerQ'[j].call = mapRead'
    <2>1. i # k
      BY <1>4, <1>5 DEF OwnWrite, Listen
    <2>2. k \in i + 1..Len(workerQ')
      BY <1>4, <2>1
    <2>3. IsListen(workerQ'[k]) /\ workerQ'[k].call = mapRead'
      BY <1>4 DEF IsListen, Listen
    <2>4. QED
      BY <2>2, <2>3
  <1>6. OwnBeforeMap'
    BY <1>5 DEF OwnBeforeMap, OwnWrite, IsListen
  <1>7. QED
    BY <1>1, <1>3, <1>6

\* The map stays, and reads are asked.
LEMMA MapStays ==
  ASSUME TypeOK, OwnBeforeMap, NEW rs \in Seq(Asking), Issue(<<>>, rs),
         UNCHANGED <<mapRead, mine>>
  PROVE  OwnBeforeMap'
  <1>1. <<>> \in Seq(Mutation) /\ Len(<<>>) = 0
    BY EmptySeq
  <1>2. /\ Len(workerQ) \in Nat /\ Len(rs) \in Nat
        /\ Len(workerQ') = Len(workerQ) + Len(rs)
        /\ \A i \in 1..Len(workerQ) : workerQ'[i] = workerQ[i]
        /\ \A i \in 1..Len(rs) : workerQ'[Len(workerQ) + i] = Listen(Len(calls) + i)
    <2>1. /\ Len(workerQ) \in Nat /\ Len(<<>>) \in Nat /\ Len(rs) \in Nat
          /\ Len(workerQ') = Len(workerQ) + Len(<<>>) + Len(rs)
          /\ \A i \in 1..Len(workerQ) : workerQ'[i] = workerQ[i]
          /\ \A i \in 1..Len(rs) : workerQ'[Len(workerQ) + Len(<<>>) + i] = Listen(Len(calls) + i)
      BY <1>1, IssueQueue
    <2>2. Len(workerQ) + Len(<<>>) = Len(workerQ)
      BY <1>1, <2>1
    <2>3. QED
      BY <2>1, <2>2
  <1>3. ASSUME NEW i \in 1..Len(workerQ'), OwnWrite(workerQ'[i])
        PROVE  i \in 1..Len(workerQ) /\ OwnWrite(workerQ[i])
    <2>1. CASE i \in 1..Len(workerQ)
      BY <1>2, <1>3, <2>1
    <2>2. CASE i \notin 1..Len(workerQ)
      <3>1. PICK k : k = i - Len(workerQ) /\ k \in 1..Len(rs) /\ Len(workerQ) + k = i
        BY <1>2, <2>2
      <3>2. workerQ'[i] = Listen(Len(calls) + k)
        BY <1>2, <3>1
      <3>3. QED
        BY <1>3, <3>2 DEF OwnWrite, Listen
    <2>3. QED
      BY <2>1, <2>2
  <1>4. \A i \in 1..Len(workerQ) : \A j \in i + 1..Len(workerQ) :
          j \in i + 1..Len(workerQ') /\ workerQ'[j] = workerQ[j]
    BY <1>2
  <1>5. QED
    BY <1>3, <1>4 DEF OwnBeforeMap, OwnWrite, IsListen

\* A tap opens a new map behind the writes asked with it, or leaves the map.
LEMMA MapTapped ==
  ASSUME TypeOK, QueueInv, todo[mapRead].do = "show", OwnBeforeMap, UserAction
  PROVE  /\ OwnBeforeMap' /\ todo'[mapRead'].do = "show" /\ local' = local
         /\ \/ reply'[mapRead'].state = "waiting"
            \/ UNCHANGED <<reply, mapRead, mine>>
  <1>1. form.pos \in Spots /\ <<>> \in Seq(Mutation) /\ mapRead \in 1..Len(calls)
    BY EmptySeq DEF TypeOK, Form
  <1>2. CASE \/ \E p \in SpotsOf[Me] : didLongPressAt(p) \/ add_table(p)
             \/ Dismiss \/ Type \/ editTapped \/ deleteTapped \/ CancelAlert
             \/ submitIncomplete
    <2>1. UNCHANGED <<workerQ, todo, local, reply, mapRead, mine>>
      BY <1>2
      DEF didLongPressAt, add_table, PlaceMarker, Dismiss, Type, editTapped, deleteTapped,
          CancelAlert, submitIncomplete, FormBecomes, storeVars
    <2>2. QED
      BY <2>1 DEF OwnBeforeMap, OwnWrite, IsListen
  <1>3. ASSUME NEW v \in Visible, didTapInfoWindowOf(v[1], v[2])
        PROVE  OwnBeforeMap' /\ todo'[mapRead'].do = "show" /\ local' = local
               /\ UNCHANGED <<reply, mapRead, mine>>
    <2> DEFINE rs == <<<<{v[2]}, [do |-> "load"]>>>>
    <2>1. v[2] \in Users
      <3>1. mapRead \in Calls
        BY MaxCallsAssumption, LenProperties DEF TypeOK, StoreTypeOK, Calls
      <3>2. allMarkers[mapRead] \subseteq Marker
        BY <3>1 DEF TypeOK
      <3>3. QED
        BY <3>2, MeAssumption DEF Visible, Marker
    <2>2. rs \in Seq(Asking)
      BY <2>1, WhatIsAsked, OneOrTwo
    <2>3. Issue(<<>>, rs) /\ mapRead' = mapRead /\ mine' = mine
      BY <1>3 DEF didTapInfoWindowOf
    <2> HIDE DEF rs
    <2>4. OwnBeforeMap'
      BY <2>2, <2>3, MapStays
    <2>5. todo'[mapRead'] = todo[mapRead] /\ reply' = reply
      BY <1>1, <2>2, <2>3, IssueReads
    <2>6. local' = local
      BY <2>3 DEF Issue, Ask
    <2>7. QED
      BY <2>3, <2>4, <2>5, <2>6
  <1>4. ASSUME NEW ws \in Seq(Mutation), NEW rs \in Seq(Asking), Issue(ws, rs),
               NEW n \in Nat \ {0}, Len(rs) = n, rs[n] = setData, ShowNewMap(n)
        PROVE  OwnBeforeMap' /\ todo'[mapRead'].do = "show" /\ local' = local
               /\ reply'[mapRead'].state = "waiting"
    <2>1. rs[n][2].do = "show" /\ mapRead' = Len(calls) + n /\ local' = local
      BY <1>4 DEF setData, ShowNewMap, Issue, Ask
    <2>2. QED
      BY <1>4, <2>1, MapOpens
  <1>5. CASE submitPressed
    <2> DEFINE ws == <<Write({Me}, form.pos)>>
    <2>1. Write({Me}, form.pos) \in Mutation
      BY <1>1, MeAssumption DEF Write, Mutation, Places
    <2>2. ws \in Seq(Mutation) /\ <<setData>> \in Seq(Asking) /\ Len(<<setData>>) = 1
      BY <2>1, WhatIsAsked, OneOrTwo
    <2>3. Issue(ws, <<setData>>) /\ ShowNewMap(1) /\ <<setData>>[1] = setData
      BY <1>5 DEF submitPressed
    <2> HIDE DEF ws
    <2>4. QED
      BY <1>4, <2>2, <2>3, OneIsPositive
  <1>6. CASE BackToMap
    <2>1. <<setData>> \in Seq(Asking) /\ Len(<<setData>>) = 1 /\ <<setData>>[1] = setData
      BY WhatIsAsked, OneOrTwo
    <2>2. Issue(<<>>, <<setData>>) /\ ShowNewMap(1)
      BY <1>6 DEF BackToMap
    <2>3. QED
      BY <1>1, <1>4, <2>1, <2>2, OneIsPositive
  <1>7. CASE ConfirmDelete
    <2> DEFINE rs == <<<<Users, [do |-> "remove", at |-> form.pos]>>, setData>>
    <2>1. rs \in Seq(Asking) /\ Len(rs) = 2
      BY <1>1, WhatIsAsked, OneOrTwo
    <2>2. Issue(<<>>, rs) /\ ShowNewMap(2) /\ rs[2] = setData
      BY <1>7 DEF ConfirmDelete
    <2> HIDE DEF rs
    <2>3. QED
      BY <1>1, <1>4, <2>1, <2>2, OneIsPositive
  <1>8. QED
    BY <1>2, <1>3, <1>5, <1>6, <1>7 DEF UserAction

LEMMA MapUserStep ==
  ASSUME TypeOK, QueueInv, MapInv, UserAction
  PROVE  MapInv'
  <1>1. /\ OwnBeforeMap' /\ todo'[mapRead'].do = "show" /\ local' = local
        /\ \/ reply'[mapRead'].state = "waiting"
           \/ UNCHANGED <<reply, mapRead, mine>>
    BY MapTapped DEF MapInv
  <1>2. PICK q \in Seq(Op) : Appended(q)
    BY HandlersAppend
  <1>3. ASSUME mine' \in Spots, Settled(workerQ') PROVE local'[Me] = mine'
    <2>1. Settled(q) /\ Settled(workerQ) /\ workerQ \in Seq(Op)
      BY <1>2, <1>3, Concat DEF Appended, TypeOK, StoreTypeOK
    <2>2. mine' = mine
      BY <1>2, <2>1 DEF Appended
    <2>3. QED
      BY <1>1, <1>3, <2>1, <2>2 DEF MapInv, ViewIsMine
  <1>4. ViewIsMine'
    BY <1>3 DEF ViewIsMine, Settled, OwnWrite
  <1>5. AnswerIsMine'
    BY <1>1 DEF MapInv, AnswerIsMine
  <1>6. QED
    BY <1>1, <1>4, <1>5 DEF MapInv

\* The only user's completion that writes takes the own table away.
LEMMA MapCompletes ==
  ASSUME Alone, TypeOK, MapInv, Completions
  PROVE  MapInv'
  <1>1. PICK c \in 1..Len(calls) :
          setDataAnswered(c) \/ removeAnswered(c) \/ setElementsAnswered(c)
    BY DEF Completions
  <1>2. /\ UNCHANGED <<todo, mapRead, local>>
        /\ \A d \in Calls : reply'[d] = IF d = c THEN Done ELSE reply[d]
    BY <1>1 DEF setDataAnswered, removeAnswered, setElementsAnswered, Complete, TypeOK,
                StoreTypeOK
  <1>3. workerQ \o <<>> = workerQ
    BY ConcatEmptySeq DEF TypeOK, StoreTypeOK
  <1>4. mine' \in Spots => UNCHANGED <<workerQ, mine>>
    <2>1. CASE setDataAnswered(c) \/ setElementsAnswered(c)
      BY <1>3, <2>1 DEF setDataAnswered, setElementsAnswered, Complete
    <2>2. CASE removeAnswered(c)
      <3>1. /\ workerQ' = workerQ \o IF Hits(c) = {} THEN <<>>
                                     ELSE <<Write(Hits(c), NoTable)>>
            /\ mine' = IF Me \in Hits(c) THEN NoTable ELSE mine
        BY <2>2 DEF removeAnswered, Hits, Complete
      <3>2. Hits(c) = {} \/ Me \in Hits(c)
        BY DEF Hits, Alone
      <3>3. CASE Hits(c) = {}
        BY <1>3, <3>1, <3>3
      <3>4. CASE Me \in Hits(c)
        BY <3>1, <3>4, NoTableAssumption
      <3>5. QED
        BY <3>2, <3>3, <3>4
    <2>3. QED
      BY <1>1, <2>1, <2>2
  <1>5. mapRead \in Calls /\ Done.state = "done"
    BY MaxCallsAssumption, LenProperties DEF TypeOK, StoreTypeOK, Calls, Done
  <1>6. OwnBeforeMap'
    BY <1>2, <1>4 DEF MapInv, OwnBeforeMap, OwnWrite, IsListen
  <1>7. ViewIsMine'
    BY <1>2, <1>4 DEF MapInv, ViewIsMine, Settled, OwnWrite
  <1>8. AnswerIsMine'
    BY <1>2, <1>4, <1>5 DEF MapInv, AnswerIsMine
  <1>9. QED
    BY <1>2, <1>6, <1>7, <1>8 DEF MapInv

\* The head of the queue is served.
LEMMA MapServed ==
  ASSUME TypeOK, OwnBeforeMap, workerQ # <<>>, workerQ' = Tail(workerQ),
         UNCHANGED <<mapRead, mine>>
  PROVE  OwnBeforeMap'
  <1>1. /\ Len(workerQ) \in Nat /\ Len(workerQ) > 0
        /\ Len(workerQ') = Len(workerQ) - 1
        /\ \A i \in 1..Len(workerQ') : workerQ'[i] = workerQ[i + 1]
    BY Numbers, HeadTailProperties, EmptySeq, LenProperties
  <1>2. ASSUME mine \in Spots, NEW i \in 1..Len(workerQ'), OwnWrite(workerQ'[i])
        PROVE  \E j \in i + 1..Len(workerQ') :
                 IsListen(workerQ'[j]) /\ workerQ'[j].call = mapRead
    <2>1. i + 1 \in 1..Len(workerQ) /\ OwnWrite(workerQ[i + 1])
      BY <1>1, <1>2
    <2>2. PICK j \in (i + 1) + 1..Len(workerQ) :
                 IsListen(workerQ[j]) /\ workerQ[j].call = mapRead
      BY <1>2, <2>1 DEF OwnBeforeMap
    <2>3. PICK k : k = j - 1 /\ k \in i + 1..Len(workerQ') /\ k \in 1..Len(workerQ') /\ k + 1 = j
      BY <1>1, <2>2
    <2>4. workerQ'[k] = workerQ[j]
      BY <1>1, <2>3
    <2>5. QED
      BY <2>2, <2>3, <2>4
  <1>3. QED
    BY <1>2 DEF OwnBeforeMap, OwnWrite, IsListen

\* When the newest map's read is registered, no own write is in the queue.
LEMMA MapSettled ==
  ASSUME TypeOK, QueueInv, OwnBeforeMap, mine \in Spots,
         \/ mapRead \in Registered
         \/ workerQ # <<>> /\ IsListen(Head(workerQ)) /\ Head(workerQ).call = mapRead
  PROVE  Settled(workerQ)
  <1>1. ASSUME NEW i \in 1..Len(workerQ), OwnWrite(workerQ[i])
        PROVE  FALSE
    <2>1. PICK j \in i + 1..Len(workerQ) :
                 IsListen(workerQ[j]) /\ workerQ[j].call = mapRead
      BY <1>1 DEF OwnBeforeMap
    <2>2. j \in 1..Len(workerQ) /\ j # 1
      BY <2>1, Numbers
    <2>3. CASE mapRead \in Registered
      <3>1. workerQ[j] \in Op
        BY <2>2, ElementOfSeq, Numbers
      <3>2. workerQ[j] = Listen(mapRead)
        BY <2>1, <3>1 DEF Op, Mutation, IsListen, Listen
      <3>3. QED
        BY <2>2, <2>3, <3>2 DEF Registered
    <2>4. CASE workerQ # <<>> /\ IsListen(Head(workerQ)) /\ Head(workerQ).call = mapRead
      <3>1. 1 \in 1..Len(workerQ) /\ Head(workerQ) = workerQ[1]
        BY <2>4, Numbers, HeadTailProperties, EmptySeq
      <3>2. QED
        BY <2>1, <2>2, <2>4, <3>1 DEF QueueInv, Distinct
    <2>5. QED
      BY <2>3, <2>4
  <1>2. QED
    BY <1>1 DEF Settled

\* A step of the client's worker.
LEMMA MapWorks ==
  ASSUME TypeOK, QueueInv, OwnLastWord, MapInv, Worker
  PROVE  MapInv'
  <1>1. /\ workerQ # <<>> /\ workerQ' = Tail(workerQ)
        /\ UNCHANGED <<todo, mapRead, mine>>
    BY DEF Worker, TakeListen, TakeWrite, mapVars
  <1>2. /\ workerQ \in Seq(Op) /\ Me \in Users /\ mapRead \in Calls
    BY Numbers, MeAssumption DEF TypeOK
  <1>3. OwnBeforeMap'
    BY <1>1, MapServed DEF MapInv
  <1>4. CASE TakeListen
    <2>1. local' = local /\ IsListen(Head(workerQ)) /\ ~OwnWrite(Head(workerQ))
      BY <1>4 DEF TakeListen, IsListen, OwnWrite
    <2>2. Settled(workerQ') => Settled(workerQ)
      BY <1>1, <1>2, <2>1, Served
    <2>3. ViewIsMine'
      BY <1>1, <2>1, <2>2 DEF MapInv, ViewIsMine, Settled, OwnWrite
    <2>4. AnswerIsMine'
      <3>1. PICK S \in SUBSET {Head(workerQ).call} : Post(S, local, TRUE)
        BY <1>4 DEF TakeListen
      <3>2. CASE mapRead \in S
        <4>1. mine \in Spots => local[Me] = mine
          BY <1>1, <2>1, <3>2, MapSettled DEF MapInv, ViewIsMine
        <4>2. reply'[mapRead].docs = local
          BY <1>2, <3>1, <3>2 DEF Post
        <4>3. QED
          BY <1>1, <4>1, <4>2 DEF AnswerIsMine
      <3>3. CASE mapRead \notin S
        <4>1. reply'[mapRead] = reply[mapRead]
          BY <1>2, <3>1, <3>3 DEF Post
        <4>2. QED
          BY <1>1, <4>1 DEF MapInv, AnswerIsMine
      <3>4. QED
        BY <3>2, <3>3
    <2>5. QED
      BY <1>1, <1>3, <2>3, <2>4 DEF MapInv
  <1>5. CASE TakeWrite
    <2>1. PICK m : m = Head(workerQ)
      OBVIOUS
    <2>2. /\ m \in Mutation /\ reply' = reply
          /\ local'[Me] = IF Me \in m.docs THEN m.to ELSE local[Me]
      BY <1>2, <1>5, <2>1, QueueHead DEF TakeWrite, Op, Put, TypeOK
    <2>3. OwnWrite(m) <=> Me \in m.docs
      BY <2>2 DEF OwnWrite, Mutation
    <2>4. ASSUME mine \in Spots, Settled(workerQ') PROVE local'[Me] = mine
      <3>1. CASE OwnWrite(m)
        <4>1. m.to = mine
          BY <1>1, <1>2, <2>1, <2>4, <3>1, Served DEF OwnLastWord
        <4>2. QED
          BY <2>2, <2>3, <3>1, <4>1
      <3>2. CASE ~OwnWrite(m)
        <4>1. Settled(workerQ)
          BY <1>1, <1>2, <2>1, <2>4, <3>2, Served
        <4>2. QED
          BY <2>2, <2>3, <2>4, <3>2, <4>1 DEF MapInv, ViewIsMine
      <3>3. QED
        BY <3>1, <3>2
    <2>5. ViewIsMine'
      BY <1>1, <2>4 DEF ViewIsMine, Settled, OwnWrite
    <2>6. QED
      BY <1>1, <1>3, <2>2, <2>5 DEF MapInv, AnswerIsMine
  <1>6. QED
    BY <1>4, <1>5 DEF Worker

\* The view catches up with the server, which holds the own table unless its
\* write is pending.
LEMMA MapSyncs ==
  ASSUME TypeOK, QueueInv, OwnTableStays, MapInv, NEW D \in SUBSET Behind,
         NEW S \in SUBSET Registered, Sync(D, S), UNCHANGED mapVars
  PROVE  MapInv'
  <1>1. /\ UNCHANGED <<todo, mapRead, mine, workerQ, pending>> /\ Me \in Users
        /\ mapRead \in Calls
    BY Numbers, MeAssumption DEF Sync, mapVars, TypeOK
  <1>2. ASSUME mine \in Spots, Settled(workerQ) PROVE local'[Me] = mine
    <2>1. CASE Me \in Written(pending)
      <3>1. local'[Me] = local[Me]
        BY <1>1, <2>1 DEF Sync, Refreshed
      <3>2. QED
        BY <1>2, <3>1 DEF MapInv, ViewIsMine
    <2>2. CASE Me \notin Written(pending)
      <3>1. Settled(pending)
        BY <2>2 DEF Settled, OwnWrite, Written
      <3>2. server[Me] = mine
        BY <1>2, <3>1, UnwrittenAssumption DEF OwnTableStays
      <3>3. local'[Me] \in {server[Me], local[Me]}
        BY <1>1 DEF Sync, Refreshed
      <3>4. QED
        BY <1>2, <3>2, <3>3 DEF MapInv, ViewIsMine
    <2>3. QED
      BY <2>1, <2>2
  <1>3. OwnBeforeMap' /\ ViewIsMine'
    BY <1>1, <1>2 DEF MapInv, OwnBeforeMap, ViewIsMine, Settled, OwnWrite, IsListen
  <1>4. AnswerIsMine'
    <2>1. CASE mapRead \in S
      <3>1. mine \in Spots => local'[Me] = mine
        BY <1>2, <2>1, MapSettled DEF MapInv
      <3>2. reply'[mapRead].docs = local'
        BY <1>1, <2>1 DEF Sync, Post
      <3>3. QED
        BY <1>1, <3>1, <3>2 DEF AnswerIsMine
    <2>2. CASE mapRead \notin S
      <3>1. reply'[mapRead] = reply[mapRead]
        BY <1>1, <2>2 DEF Sync, Post
      <3>2. QED
        BY <1>1, <3>1 DEF MapInv, AnswerIsMine
    <2>3. QED
      BY <2>1, <2>2
  <1>5. QED
    BY <1>1, <1>3, <1>4 DEF MapInv

LEMMA MapStep ==
  ASSUME Alone
  PROVE  TypeOK /\ ReadsInv /\ OwnLastWord /\ OwnTableStays /\ MapInv /\ [Next]_vars => MapInv'
  <1> SUFFICES ASSUME TypeOK, ReadsInv, OwnLastWord, OwnTableStays, MapInv, [Next]_vars
               PROVE  MapInv'
    OBVIOUS
  <1>1. QueueInv
    BY DEF ReadsInv
  <1>2. CASE UserAction
    BY <1>1, <1>2, MapUserStep
  <1>3. CASE Completions
    BY <1>3, MapCompletes
  <1>4. CASE Worker
    BY <1>1, <1>4, MapWorks
  <1>5. ASSUME NEW D \in SUBSET Behind, NEW S \in SUBSET Registered, Sync(D, S),
               UNCHANGED mapVars
        PROVE  MapInv'
    BY <1>1, <1>5, MapSyncs
  <1>6. ASSUME NEW S \in SUBSET Registered, Reject(S), UNCHANGED mapVars
        PROVE  MapInv'
    <2>1. UNCHANGED <<todo, mapRead, mine, workerQ, local>> /\ mapRead \in Calls
      BY <1>6, Numbers DEF Reject, mapVars, TypeOK
    <2>2. reply'[mapRead] = reply[mapRead] \/ reply'[mapRead].ok = FALSE
      BY <1>6, <2>1 DEF Reject, Post
    <2>3. QED
      BY <2>1, <2>2 DEF MapInv, OwnBeforeMap, ViewIsMine, AnswerIsMine, Settled, OwnWrite,
                        IsListen
  <1>7. CASE Catchup \/ Answer
    BY <1>5, <1>6, <1>7 DEF Catchup, Answer
  <1>8. CASE OtherDevice
    BY <1>8 DEF OtherDevice, Others, Alone
  <1>9. CASE \/ ServerAck \/ UNCHANGED vars
             \/ \E done \in BOOLEAN : ImageRequestEnds(done)
    <2>1. UNCHANGED <<todo, mapRead, mine, workerQ, local, reply>>
      BY <1>9 DEF ServerAck, Acknowledge, ImageRequestEnds, storeVars, mapVars, vars
    <2>2. QED
      BY <2>1 DEF MapInv, OwnBeforeMap, ViewIsMine, AnswerIsMine, Settled, OwnWrite, IsListen
  <1>10. QED
    BY <1>2, <1>3, <1>4, <1>7, <1>8, <1>9 DEF Next

LEMMA MapInit == Init => MapInv
  <1> SUFFICES ASSUME Init PROVE MapInv
    OBVIOUS
  <1>1. /\ todo[1] = [do |-> "show"] /\ mapRead = 1 /\ mine \notin Spots
    BY UnwrittenAssumption DEF Init
  <1>2. QED
    BY <1>1 DEF MapInv, OwnBeforeMap, ViewIsMine, AnswerIsMine

\* Only setData's completion shows a map, and the own table is among those it
\* keeps.
LEMMA ShownStep ==
  ASSUME Alone, TypeOK, ReadsInv, MapInv, [Next]_vars, NEW c \in Calls, Shows(c),
         mine \in Spots, toRemove # mine
  PROVE  [pos |-> mine, owner |-> Me, shown |-> TRUE] \in allMarkers'[c]
  <1>1. /\ c = mapRead /\ reply[c].state = "posted" /\ reply[c].ok /\ c \in 1..Len(calls)
        /\ reply'[c].state = "done" /\ reply[c].state # "done" /\ todo[c].do = "show"
        /\ reply[c].docs[Me] = mine /\ Me \in Users
    BY MeAssumption DEF Shows, MapInv, AnswerIsMine, TypeOK
  <1>2. Completions
    <2>1. QueueInv
      BY DEF ReadsInv
    <2>2. ~(Worker \/ ServerAck \/ OtherDevice \/ Catchup \/ Answer)
      BY <1>1, <2>1, StoreReads
    <2>3. ~UserAction
      <3>1. ASSUME UserAction PROVE reply' = reply
        <4>1. ASSUME NEW ws \in Seq(Mutation), NEW rs \in Seq(Asking), Issue(ws, rs)
              PROVE  reply' = reply
          BY <4>1 DEF Issue, Ask
        <4>2. QED
          BY <3>1, <4>1, UserAsks
      <3>2. QED
        BY <1>1, <3>1
    <2>4. ~(UNCHANGED vars \/ \E done \in BOOLEAN : ImageRequestEnds(done))
      BY <1>1 DEF ImageRequestEnds, vars, storeVars
    <2>5. QED
      BY <2>2, <2>3, <2>4 DEF Next
  <1>3. PICK d \in 1..Len(calls) :
          setDataAnswered(d) \/ removeAnswered(d) \/ setElementsAnswered(d)
    BY <1>2 DEF Completions
  <1>4. d = c
    <2>1. \A e \in Calls : e # d => reply'[e] = reply[e]
      BY <1>3 DEF setDataAnswered, removeAnswered, setElementsAnswered, Complete, TypeOK,
                  StoreTypeOK
    <2>2. QED
      BY <1>1, <2>1
  <1>5. setDataAnswered(c)
    BY <1>1, <1>3, <1>4 DEF removeAnswered, setElementsAnswered
  <1> DEFINE docs == reply[c].docs
             keep == {u \in Users \ Skipped(docs) : docs[u] # NoTable}
  <1>6. allMarkers'[c] = {[pos |-> docs[u], owner |-> u, shown |-> TRUE] : u \in keep}
    BY <1>1, <1>5 DEF setDataAnswered, TypeOK
  <1>7. Me \in keep
    <2>1. docs[Me] = mine /\ docs[Me] # NoTable /\ docs[Me] # toRemove
      BY <1>1, NoTableAssumption
    <2>2. ~\E v \in Users : v < Me /\ docs[v] = toRemove
      <3>1. \A v \in Users : v = Me
        BY DEF Alone
      <3>2. QED
        BY <2>1, <3>1
    <2> HIDE DEF docs
    <2>3. Me \notin Skipped(docs)
      BY <2>1, <2>2 DEF Skipped
    <2>4. QED
      BY <1>1, <2>1, <2>3
  <1>8. QED
    BY <1>1, <1>6, <1>7

\* Where nobody else uses the application, a map that loads shows the own table
\* written before it was opened, unless a delete at that place hides it.
THEOREM OwnTableOnMap ==
  ASSUME Alone
  PROVE  Spec => OwnTableShown
  <1>1. TypeOK /\ ReadsInv /\ MapInv /\ [Next]_vars =>
          [\A c \in Calls : Shows(c) /\ mine \in Spots /\ toRemove # mine =>
             [pos |-> mine, owner |-> Me, shown |-> TRUE] \in allMarkers'[c]]_vars
    BY ShownStep
  <1>2. TypeOK /\ ReadsInv /\ HiddenInv /\ [Next]_vars => ReadsInv' /\ HiddenInv'
    BY HiddenStep
  <1>3. /\ TypeOK /\ ReadsInv /\ OwnLastWord /\ OwnTableStays /\ MapInv /\ [Next]_vars
          => MapInv'
    BY MapStep
  <1>4. Spec => []OwnTableStays
    BY OwnTableAlone
  <1>5. QED
    BY <1>1, <1>2, <1>3, <1>4, HiddenInit, MapInit, Typing, OwnWritesInOrder, PTL
    DEF Spec, OwnTableShown
=============================================================================
