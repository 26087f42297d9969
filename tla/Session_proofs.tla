---------------------------- MODULE Session_proofs ----------------------------
(***************************************************************************)
(* Theorems about sessions, for every set of users and every bound, with   *)
(* their proofs.                                                           *)
(***************************************************************************)
EXTENDS Session, SequenceTheorems, TLAPS

----------------------------------------------------------------------------
(* Type correctness.                                                       *)

LEMMA RequestTypes ==
  ASSUME TypeOK
  PROVE  /\ DOMAIN requests = 1..Len(requests) /\ Len(requests) \in Nat
         /\ \A r \in DOMAIN requests : requests[r] \in Request
         /\ DOMAIN tasks = 1..Len(tasks) /\ Len(tasks) \in Nat
         /\ \A t \in DOMAIN tasks : tasks[t] \in Task
  BY ElementOfSeq, LenProperties DEF TypeOK

\* A function over the same numbers is a sequence of the same length.
LEMMA SameLength ==
  ASSUME NEW S, NEW T, NEW s \in Seq(S), NEW f \in [DOMAIN s -> T]
  PROVE  f \in Seq(T) /\ Len(f) = Len(s) /\ DOMAIN f = DOMAIN s
  <1>1. DOMAIN s = 1..Len(s) /\ Len(s) \in Nat
    BY LenProperties
  <1>2. f \in Seq(T)
    BY <1>1, SeqDef
  <1>3. DOMAIN f = 1..Len(f) /\ Len(f) \in Nat /\ DOMAIN f = 1..Len(s)
    BY <1>1, <1>2, LenProperties
  <1>4. Len(f) = Len(s)
    BY <1>1, <1>3
  <1>5. QED
    BY <1>2, <1>4

\* The tasks, one of them changed.
LEMMA TaskChange ==
  ASSUME TypeOK, NEW t \in DOMAIN tasks, NEW x \in Task,
         tasks' = [tasks EXCEPT ![t] = x]
  PROVE  tasks' \in Seq(Task) /\ Len(tasks') = Len(tasks) /\ DOMAIN tasks' = DOMAIN tasks
  <1>1. tasks' \in [DOMAIN tasks -> Task]
    BY RequestTypes
  <1>2. tasks \in Seq(Task)
    BY DEF TypeOK
  <1>3. QED
    BY <1>1, <1>2, SameLength

\* The requests, one of them changed.
LEMMA RequestChange ==
  ASSUME TypeOK, NEW r \in DOMAIN requests,
         NEW st \in {"sent", "accepted", "refused", "over"},
         requests' = [requests EXCEPT ![r].state = st]
  PROVE  /\ requests' \in Seq(Request) /\ Len(requests') = Len(requests)
         /\ DOMAIN requests' = DOMAIN requests
  <1>1. requests' \in [DOMAIN requests -> Request]
    BY RequestTypes DEF Request
  <1>2. requests \in Seq(Request)
    BY DEF TypeOK
  <1>3. QED
    BY <1>1, <1>2, SameLength

\* The requests, their screens gone.
LEMMA AbandonType ==
  ASSUME TypeOK
  PROVE  /\ Abandon(requests) \in Seq(Request) /\ Len(Abandon(requests)) = Len(requests)
         /\ DOMAIN Abandon(requests) = DOMAIN requests
  <1>1. Abandon(requests) \in [DOMAIN requests -> Request]
    BY RequestTypes DEF Abandon, Request
  <1>2. requests \in Seq(Request)
    BY DEF TypeOK
  <1>3. QED
    BY <1>1, <1>2, SameLength

\* The completion at the head of the main queue is that of a request.
LEMMA PostedHead ==
  ASSUME TypeOK, mainQ # <<>>
  PROVE  /\ Head(mainQ) \in DOMAIN requests
         /\ requests[Head(mainQ)] \in Request
         /\ Tail(mainQ) \in Seq(1..Len(requests))
  BY HeadTailProperties, RequestTypes DEF TypeOK

LEMMA InitType == Init => TypeOK
  <1> SUFFICES ASSUME Init PROVE TypeOK
    OBVIOUS
  <1>1. requests \in Seq(Request) /\ Len(requests) = 0 /\ tasks \in Seq(Task) /\ Len(tasks) = 0
    BY EmptySeq DEF Init
  <1>2. mainQ \in Seq(1..Len(requests))
    BY EmptySeq DEF Init
  <1>3. profiles \in [Users -> Nat]
    BY DEF Init
  <1>4. Len(requests) <= MaxTaps /\ Len(tasks) <= MaxTasks
    BY <1>1, BoundsAssumption
  <1>5. accounts \subseteq Users
    BY DEF Init
  <1>6. QED
    BY <1>1, <1>2, <1>3, <1>4, <1>5 DEF Init, TypeOK

LEMMA TapType ==
  ASSUME TypeOK, NEW do \in Forms, NEW u \in Users, Tap(do, u)
  PROVE  TypeOK'
  <1> DEFINE q == [do |-> do, who |-> u, live |-> TRUE, state |-> "sent"]
  <1>1. q \in Request
    BY DEF Request, Forms
  <1>2. requests' = Append(requests, q)
    BY DEF Tap
  <1> HIDE DEF q
  <1>3. requests' \in Seq(Request) /\ Len(requests') = Len(requests) + 1
    BY <1>1, <1>2, AppendProperties DEF TypeOK
  <1>4. Len(requests') <= MaxTaps
    BY <1>3, RequestTypes, BoundsAssumption DEF Tap
  <1>5. mainQ' \in Seq(1..Len(requests'))
    <2>1. 1..Len(requests) \subseteq 1..Len(requests')
      BY <1>3, RequestTypes
    <2>2. mainQ \in Seq(1..Len(requests'))
      BY <2>1, SeqMonotonic DEF TypeOK
    <2>3. QED
      BY <2>2 DEF Tap
  <1>6. QED
    BY <1>3, <1>4, <1>5 DEF Tap, TypeOK, photoVars

LEMMA DecoratedType ==
  ASSUME TypeOK, NEW r \in DOMAIN requests, NEW ok \in BOOLEAN, Decorated(r, ok)
  PROVE  /\ requests' \in Seq(Request) /\ Len(requests') = Len(requests)
         /\ mainQ' \in Seq(1..Len(requests'))
         /\ user' \in Users \cup {NoUser} /\ expelled' \in BOOLEAN
         /\ crossed' \subseteq Users
  <1>1. requests' \in Seq(Request) /\ Len(requests') = Len(requests)
    <2>1. requests' = [requests EXCEPT ![r].state = IF ok THEN "accepted" ELSE "refused"]
      BY DEF Decorated
    <2>2. CASE ok
      BY <2>1, <2>2, RequestChange
    <2>3. CASE ~ok
      BY <2>1, <2>3, RequestChange
    <2>4. QED
      BY <2>2, <2>3
  <1>2. mainQ' \in Seq(1..Len(requests'))
    <2>1. r \in 1..Len(requests) /\ mainQ \in Seq(1..Len(requests))
      BY RequestTypes DEF TypeOK
    <2>2. Append(mainQ, r) \in Seq(1..Len(requests))
      BY <2>1, AppendProperties
    <2>3. QED
      BY <1>1, <2>2 DEF Decorated
  <1>3. requests[r].who \in Users
    BY RequestTypes DEF Request
  <1>4. QED
    BY <1>1, <1>2, <1>3 DEF Decorated, TypeOK

LEMMA AuthType == TypeOK /\ Auth => TypeOK'
  <1> SUFFICES ASSUME TypeOK, NEW r \in DOMAIN requests, NEW ok \in BOOLEAN,
                      LoginAnswered(r, ok) \/ SignUpAnswered(r, ok)
               PROVE  TypeOK'
    BY DEF Auth
  <1>1. Decorated(r, ok)
    BY DEF LoginAnswered, SignUpAnswered
  <1>2. accounts' \subseteq Users
    BY RequestTypes DEF LoginAnswered, SignUpAnswered, Request, TypeOK
  <1>3. UNCHANGED <<profiles, owner, screen, tasks, images, stored, photos, wiped>>
    BY DEF LoginAnswered, SignUpAnswered
  <1>4. QED
    BY <1>1, <1>2, <1>3, DecoratedType DEF TypeOK

LEMMA TransitionType ==
  ASSUME TypeOK, NEW r \in DOMAIN requests, TransitionToMap(r)
  PROVE  /\ screen' \in {"map", "crashed"} /\ owner' \in Users
         /\ requests' \in Seq(Request) /\ Len(requests') = Len(requests)
  <1>1. requests' = [Abandon(requests) EXCEPT ![r].state = "over"]
    BY DEF TransitionToMap
  <1>2. Abandon(requests) \in [DOMAIN requests -> Request]
    BY RequestTypes DEF Abandon, Request
  <1>3. requests' \in [DOMAIN requests -> Request]
    BY <1>1, <1>2 DEF Request
  <1>4. requests \in Seq(Request)
    BY DEF TypeOK
  <1>5. requests' \in Seq(Request) /\ Len(requests') = Len(requests)
    BY <1>3, <1>4, SameLength
  <1>6. owner' \in Users
    BY RequestTypes DEF TransitionToMap, Request
  <1>7. QED
    BY <1>5, <1>6 DEF TransitionToMap

LEMMA CompletionType == TypeOK /\ Completions => TypeOK'
  <1> SUFFICES ASSUME TypeOK, Completions PROVE TypeOK'
    OBVIOUS
  <1> DEFINE r == Head(mainQ)
  <1>1. mainQ # <<>> /\ mainQ' = Tail(mainQ)
        /\ UNCHANGED <<accounts, user, expelled, photoVars>>
    BY DEF Completions, loginCompleted, signUpCompleted
  <1>2. r \in DOMAIN requests /\ requests[r] \in Request /\ Tail(mainQ) \in Seq(1..Len(requests))
    BY <1>1, PostedHead
  <1>3. \/ TransitionToMap(r)
        \/ /\ requests' = [requests EXCEPT ![r].state = "over"]
           /\ owner' = owner /\ screen' \in {screen, "crashed"}
    BY DEF Completions, loginCompleted, signUpCompleted
  <1>4. profiles' \in [Users -> Nat]
    <2>1. profiles \in [Users -> Nat] /\ requests[r].who \in Users
      BY <1>2 DEF TypeOK, Request
    <2>2. \/ profiles' = profiles
          \/ \E kept \in BOOLEAN :
               profiles' = [profiles EXCEPT ![requests[r].who] = IF kept THEN @ + 1 ELSE @]
      BY DEF Completions, loginCompleted, signUpCompleted
    <2>3. QED
      BY <2>1, <2>2
  <1> HIDE DEF r
  <1>5. CASE TransitionToMap(r)
    BY <1>1, <1>2, <1>4, <1>5, TransitionType DEF TypeOK, photoVars
  <1>6. CASE requests' = [requests EXCEPT ![r].state = "over"]
             /\ owner' = owner /\ screen' \in {screen, "crashed"}
    BY <1>1, <1>2, <1>4, <1>6, RequestChange DEF TypeOK, photoVars
  <1>7. QED
    BY <1>3, <1>5, <1>6

LEMMA BeginType ==
  ASSUME TypeOK, NEW do \in {"load", "put", "wipe"}, NEW u \in Users, Begin(do, u)
  PROVE  tasks' \in Seq(Task) /\ Len(tasks') <= MaxTasks
  <1> DEFINE q == [do |-> do, as |-> u]
  <1>1. q \in Task
    BY DEF Task
  <1>2. tasks' = Append(tasks, q) /\ Len(tasks) < MaxTasks
    BY DEF Begin
  <1> HIDE DEF q
  <1>3. tasks' \in Seq(Task) /\ Len(tasks') = Len(tasks) + 1
    BY <1>1, <1>2, AppendProperties DEF TypeOK
  <1>4. QED
    BY <1>2, <1>3, RequestTypes, BoundsAssumption

\* A map is opened for somebody.
MapHasOwner == screen = "map" => owner \in Users

Typed == TypeOK /\ MapHasOwner

LEMMA PersonType == Typed /\ Person => Typed'
  <1> SUFFICES ASSUME Typed, Person PROVE Typed'
    OBVIOUS
  <1> USE DEF Typed
  <1>1. ASSUME NEW f \in Forms, Show(f) PROVE Typed'
    BY <1>1 DEF Show, TypeOK, MapHasOwner, Forms, authVars, photoVars
  <1>2. CASE Back
    <2>1. requests' \in Seq(Request) /\ Len(requests') = Len(requests)
      BY <1>2, AbandonType DEF Back
    <2>2. QED
      BY <1>2, <2>1 DEF Back, TypeOK, MapHasOwner, photoVars
  <1>3. ASSUME NEW u \in Users, loginTapped(u) \/ signUpTapped(u) PROVE Typed'
    <2>1. PICK do \in Forms : Tap(do, u)
      BY <1>3 DEF loginTapped, signUpTapped, Forms
    <2>2. TypeOK'
      BY <2>1, TapType
    <2>3. MapHasOwner'
      BY <2>1 DEF Tap, Forms, MapHasOwner
    <2>4. QED
      BY <2>2, <2>3
  <1>4. ASSUME NEW ok \in BOOLEAN, logout(ok) PROVE Typed'
    BY <1>4 DEF logout, TypeOK, MapHasOwner, photoVars
  <1>5. CASE NeedUser
    BY <1>5 DEF NeedUser, TypeOK, MapHasOwner, authVars, photoVars
  <1>6. CASE setElements
    <2>1. screen = "map" /\ Begin("load", owner)
      BY <1>6 DEF setElements, Begin
    <2>2. tasks' \in Seq(Task) /\ Len(tasks') <= MaxTasks
      BY <2>1, BeginType DEF MapHasOwner
    <2>3. QED
      BY <1>6, <2>2 DEF setElements, TypeOK, MapHasOwner, authVars
  <1>7. CASE imagePicked
    <2>1. user \in Users /\ Begin("put", user)
      BY <1>7 DEF imagePicked, TypeOK
    <2>2. tasks' \in Seq(Task) /\ Len(tasks') <= MaxTasks
      BY <2>1, BeginType
    <2>3. QED
      BY <1>7, <2>2 DEF imagePicked, TypeOK, MapHasOwner, authVars
  <1>8. CASE remove_marker
    <2>1. user \in Users /\ Begin("wipe", user)
      BY <1>8 DEF remove_marker, TypeOK
    <2>2. tasks' \in Seq(Task) /\ Len(tasks') <= MaxTasks
      BY <2>1, BeginType
    <2>3. QED
      BY <1>8, <2>1, <2>2 DEF remove_marker, TypeOK, MapHasOwner, authVars
  <1>9. QED
    BY <1>1, <1>2, <1>3, <1>4, <1>5, <1>6, <1>7, <1>8 DEF Person

\* An answer leaves the session as it is, but for the screen a missing user
\* brings down.
LEMMA AnswerApart ==
  ASSUME NEW t \in DOMAIN tasks,
         Stored(t) \/ Found(t) \/ Wiped(t) \/ Failed(t) \/ Unwrapped(t)
  PROVE  /\ UNCHANGED authVars /\ screen' \in {screen, "crashed"}
         /\ UNCHANGED <<crossed, wiped>>
  BY DEF Stored, Found, Wiped, Failed, Unwrapped

LEMMA AnswersType == Typed /\ Answers => Typed'
  <1> SUFFICES ASSUME Typed, NEW t \in DOMAIN tasks,
                      Stored(t) \/ Found(t) \/ Wiped(t) \/ Failed(t) \/ Unwrapped(t)
               PROVE  Typed'
    BY DEF Answers
  <1> USE DEF Typed
  <1>1. tasks[t] \in Task /\ tasks[t].as \in Users
    BY RequestTypes DEF Task
  <1>2. UNCHANGED authVars /\ screen' \in {screen, "crashed"} /\ UNCHANGED <<crossed, wiped>>
    BY AnswerApart
  <1>3. \/ \E x \in Task : tasks' = [tasks EXCEPT ![t] = x]
        \/ tasks' = tasks
    <2>1. ASSUME NEW do \in {"load", "put", "stored", "url", "found", "wipe", "over"},
                 Becomes(t, do)
          PROVE  \E x \in Task : tasks' = [tasks EXCEPT ![t] = x]
      <3>1. [tasks[t] EXCEPT !.do = do] \in Task
        BY <1>1 DEF Task
      <3>2. tasks' = [tasks EXCEPT ![t] = [tasks[t] EXCEPT !.do = do]]
        BY <2>1 DEF Becomes
      <3>3. QED
        BY <3>1, <3>2
    <2>2. CASE Stored(t) \/ Found(t) \/ Wiped(t) \/ Failed(t)
      BY <2>1, <2>2 DEF Stored, Found, Wiped, Failed
    <2>3. CASE Unwrapped(t) /\ user # NoUser
      <3>1. user \in Users
        BY <2>3 DEF TypeOK
      <3>2. [do |-> IF tasks[t].do = "stored" THEN "url" ELSE "over", as |-> user] \in Task
        BY <3>1 DEF Task
      <3>3. QED
        BY <2>3, <3>2 DEF Unwrapped
    <2>4. CASE Unwrapped(t) /\ user = NoUser
      BY <2>4 DEF Unwrapped
    <2>5. QED
      BY <2>2, <2>3, <2>4
  <1>4. tasks' \in Seq(Task) /\ Len(tasks') <= MaxTasks
    BY <1>3, TaskChange DEF TypeOK
  <1>5. images' \subseteq Users /\ stored' \subseteq Users /\ photos' \subseteq Users
    BY <1>1 DEF Stored, Found, Wiped, Failed, Unwrapped, TypeOK
  <1>6. QED
    BY <1>2, <1>4, <1>5 DEF TypeOK, MapHasOwner, authVars

LEMMA RelaunchType == Typed /\ Relaunch => Typed'
  <1> SUFFICES ASSUME Typed, Relaunch PROVE Typed'
    OBVIOUS
  <1> USE DEF Typed
  <1>1. requests' \in Seq(Request) /\ Len(requests') = Len(requests)
    <2>1. requests' \in [DOMAIN requests -> Request]
      <3>1. \A i \in DOMAIN requests : requests[i] \in Request
        BY RequestTypes
      <3>2. QED
        BY <3>1, RequestTypes DEF Relaunch, Request
    <2>2. QED
      BY <2>1, SameLength DEF TypeOK
  <1>2. tasks' \in Seq(Task) /\ Len(tasks') = Len(tasks)
    <2>1. tasks' \in [DOMAIN tasks -> Task]
      <3>1. \A i \in DOMAIN tasks : tasks[i] \in Task
        BY RequestTypes
      <3>2. QED
        BY <3>1 DEF Relaunch, Task
    <2>2. QED
      BY <2>1, SameLength DEF TypeOK
  <1>3. mainQ' \in Seq(1..Len(requests'))
    BY EmptySeq DEF Relaunch
  <1>4. accounts' \subseteq Users
    <2>1. \A r \in DOMAIN requests : requests[r].who \in Users
      BY RequestTypes DEF Request
    <2>2. PICK R \in SUBSET DOMAIN requests :
             accounts' = accounts \cup {requests[r].who : r \in R}
      BY Zenon DEF Relaunch
    <2>3. QED
      BY <2>1, <2>2 DEF TypeOK
  <1>5. images' \subseteq Users /\ stored' \subseteq Users
    <2>1. \A t \in DOMAIN tasks : tasks[t].as \in Users
      BY RequestTypes DEF Task
    <2>2. PICK T \in SUBSET DOMAIN tasks :
             /\ images' = images \cup {tasks[t].as : t \in T}
             /\ stored' = stored \cup {tasks[t].as : t \in T}
      BY Zenon DEF Relaunch
    <2>3. QED
      BY <2>1, <2>2 DEF TypeOK
  <1>6. UNCHANGED <<profiles, user, owner, expelled, photos, crossed, wiped>> /\ screen' = "welcome"
    BY DEF Relaunch
  <1>7. QED
    BY <1>1, <1>2, <1>3, <1>4, <1>5, <1>6 DEF TypeOK, MapHasOwner

LEMMA StepType == Typed /\ [Next]_vars => Typed'
  <1> SUFFICES ASSUME Typed, [Next]_vars PROVE Typed'
    OBVIOUS
  <1>1. CASE Auth
    <2>1. UNCHANGED <<screen, owner>>
      BY <1>1 DEF Auth, LoginAnswered, SignUpAnswered
    <2>2. QED
      BY <1>1, <2>1, AuthType DEF Typed, MapHasOwner
  <1>2. CASE Expel
    BY <1>2 DEF Typed, TypeOK, MapHasOwner, Expel, photoVars
  <1>3. CASE Completions
    <2>1. TypeOK'
      BY <1>3, CompletionType DEF Typed
    <2>2. \/ owner' = owner /\ screen' \in {screen, "crashed"}
          \/ owner' = requests[Head(mainQ)].who
      BY <1>3 DEF Completions, loginCompleted, signUpCompleted, TransitionToMap
    <2>3. requests[Head(mainQ)].who \in Users
      BY <1>3, PostedHead DEF Typed, Completions, loginCompleted, signUpCompleted, Request
    <2>4. QED
      BY <2>1, <2>2, <2>3 DEF Typed, MapHasOwner
  <1>4. CASE UNCHANGED vars
    BY <1>4 DEF vars, authVars, photoVars, Typed, TypeOK, MapHasOwner
  <1>5. QED
    BY <1>1, <1>2, <1>3, <1>4, PersonType, AnswersType, RelaunchType DEF Next

\* The session keeps its types: every completion has its request, and every
\* request to Firestore and Storage is made by somebody (Session.TypeOK).
THEOREM Typing == Spec => []TypeOK
  <1>1. Init => Typed
    BY InitType DEF Typed, MapHasOwner, Init
  <1>2. Typed => TypeOK
    BY DEF Typed
  <1>3. QED
    BY <1>1, <1>2, StepType, PTL DEF Spec

----------------------------------------------------------------------------
(* One profile for each account.                                           *)

Granted(rs, r) == rs[r].do = "signup" /\ rs[r].state = "accepted"

\* The sign-ups whose completion is still to come have each made an account of
\* its own, without a profile yet.
SignUpsApart ==
  /\ \A r \in DOMAIN requests : Granted(requests, r) =>
       requests[r].who \in accounts /\ profiles[requests[r].who] = 0
  /\ \A r, s \in DOMAIN requests :
       Granted(requests, r) /\ Granted(requests, s) /\ r # s =>
         requests[r].who # requests[s].who

ProfileInv == SignUpsApart /\ OneProfileEach

\* A step that grants nothing and writes no profile.
LEMMA NothingGranted ==
  ASSUME ProfileInv, profiles' = profiles, accounts \subseteq accounts',
         \A r \in DOMAIN requests' : Granted(requests', r) =>
           /\ r \in DOMAIN requests /\ Granted(requests, r)
           /\ requests'[r].who = requests[r].who
  PROVE  ProfileInv'
  <1>1. SignUpsApart'
    BY DEF ProfileInv, SignUpsApart
  <1>2. OneProfileEach'
    BY DEF ProfileInv, OneProfileEach
  <1>3. QED
    BY <1>1, <1>2 DEF ProfileInv

LEMMA TapGrantsNothing ==
  ASSUME TypeOK, NEW do, NEW u, Tap(do, u)
  PROVE  \A r \in DOMAIN requests' : requests'[r].state = "accepted" =>
           r \in DOMAIN requests /\ requests'[r] = requests[r]
  <1> DEFINE q == [do |-> do, who |-> u, live |-> TRUE, state |-> "sent"]
  <1>1. requests' = Append(requests, q) /\ q.state = "sent"
    BY DEF Tap
  <1> HIDE DEF q
  <1>2. DOMAIN requests' = 1..Len(requests) + 1
    BY <1>1 DEF TypeOK
  <1>3. \A r \in DOMAIN requests' : r = Len(requests) + 1 \/ r \in DOMAIN requests
    BY <1>2, RequestTypes
  <1>4. requests'[Len(requests) + 1] = q
    BY <1>1 DEF TypeOK
  <1>5. \A r \in DOMAIN requests : requests'[r] = requests[r]
    BY <1>1, RequestTypes DEF TypeOK
  <1>6. QED
    BY <1>1, <1>3, <1>4, <1>5

LEMMA AbandonKeeps ==
  ASSUME TypeOK
  PROVE  \A r \in DOMAIN requests :
           /\ Abandon(requests)[r].do = requests[r].do
           /\ Abandon(requests)[r].who = requests[r].who
           /\ Abandon(requests)[r].state = requests[r].state
           /\ Abandon(requests)[r].live = FALSE
  BY RequestTypes DEF Abandon, Request

LEMMA PersonProfiles == TypeOK /\ ProfileInv /\ Person => ProfileInv'
  <1> SUFFICES ASSUME TypeOK, ProfileInv, Person PROVE ProfileInv'
    OBVIOUS
  <1>1. profiles' = profiles /\ accounts' = accounts
    BY DEF Person, Show, Back, loginTapped, signUpTapped, Tap, logout, NeedUser, setElements,
           imagePicked, remove_marker, authVars
  <1>2. CASE requests' = requests
    BY <1>1, <1>2, NothingGranted
  <1>3. CASE Back
    <2>1. requests' = Abandon(requests) /\ DOMAIN requests' = DOMAIN requests
      BY <1>3, AbandonType DEF Back
    <2>2. QED
      BY <1>1, <2>1, AbandonKeeps, NothingGranted DEF Granted
  <1>4. ASSUME NEW u \in Users, loginTapped(u) \/ signUpTapped(u) PROVE ProfileInv'
    <2>1. PICK do \in Forms : Tap(do, u)
      BY <1>4 DEF loginTapped, signUpTapped, Forms
    <2>2. QED
      BY <1>1, <2>1, TapGrantsNothing, NothingGranted DEF Granted
  <1>5. requests' = requests \/ Back \/ \E u \in Users : loginTapped(u) \/ signUpTapped(u)
    BY DEF Person, Show, logout, NeedUser, setElements, imagePicked, remove_marker, authVars
  <1>6. QED
    BY <1>2, <1>3, <1>4, <1>5

LEMMA AuthProfiles == TypeOK /\ ProfileInv /\ Auth => ProfileInv'
  <1> SUFFICES ASSUME TypeOK, ProfileInv, NEW r \in DOMAIN requests, NEW ok \in BOOLEAN,
                      LoginAnswered(r, ok) \/ SignUpAnswered(r, ok)
               PROVE  ProfileInv'
    BY DEF Auth
  <1> DEFINE st == IF ok THEN "accepted" ELSE "refused"
  <1>1. requests' = [requests EXCEPT ![r].state = st]
    BY DEF LoginAnswered, SignUpAnswered, Decorated
  <1>2. /\ DOMAIN requests' = DOMAIN requests
        /\ \A s \in DOMAIN requests : requests'[s].do = requests[s].do
                                      /\ requests'[s].who = requests[s].who
        /\ \A s \in DOMAIN requests : s # r => requests'[s] = requests[s]
        /\ requests'[r].state = st
    BY <1>1, RequestTypes DEF Request
  <1>3. profiles' = profiles /\ accounts \subseteq accounts'
    BY DEF LoginAnswered, SignUpAnswered
  <1>4. CASE ~(ok /\ requests[r].do = "signup")
    BY <1>2, <1>3, <1>4, NothingGranted DEF Granted
  <1>5. CASE ok /\ requests[r].do = "signup"
    <2>1. requests[r].who \notin accounts /\ requests[r].who \in accounts'
      BY <1>5 DEF LoginAnswered, SignUpAnswered
    <2>2. requests[r].who \in Users
      BY RequestTypes DEF Request
    <2>3. profiles[requests[r].who] = 0
      BY <2>1, <2>2 DEF ProfileInv, OneProfileEach, TypeOK
    <2>4. \A s \in DOMAIN requests : s # r /\ Granted(requests', s) =>
            Granted(requests, s) /\ requests[s].who \in accounts
      BY <1>2 DEF ProfileInv, SignUpsApart, Granted
    <2>5. SignUpsApart'
      BY <1>2, <1>3, <2>1, <2>3, <2>4 DEF ProfileInv, SignUpsApart, Granted
    <2>6. OneProfileEach'
      BY <1>3 DEF ProfileInv, OneProfileEach
    <2>7. QED
      BY <2>5, <2>6 DEF ProfileInv
  <1>6. QED
    BY <1>4, <1>5

LEMMA CompletionsProfiles == TypeOK /\ ProfileInv /\ Completions => ProfileInv'
  <1> SUFFICES ASSUME TypeOK, ProfileInv, Completions PROVE ProfileInv'
    OBVIOUS
  <1> DEFINE r == Head(mainQ)
  <1>1. r \in DOMAIN requests /\ requests[r] \in Request
    BY PostedHead DEF Completions, loginCompleted, signUpCompleted
  <1>2. accounts' = accounts
    BY DEF Completions, loginCompleted, signUpCompleted
  <1>3. \/ TransitionToMap(r)
        \/ requests' = [requests EXCEPT ![r].state = "over"]
    BY DEF Completions, loginCompleted, signUpCompleted
  <1>4. \/ profiles' = profiles
        \/ /\ Granted(requests, r)
           /\ profiles' = [profiles EXCEPT ![requests[r].who] = @ + 1]
    <2>1. CASE loginCompleted
      BY <2>1 DEF loginCompleted
    <2>2. CASE signUpCompleted /\ ~Granted(requests, r)
      BY <2>2 DEF signUpCompleted, Granted
    <2>3. CASE signUpCompleted /\ Granted(requests, r)
      <3>1. PICK kept \in BOOLEAN : profiles' = [profiles EXCEPT ![requests[r].who] =
                                                 IF kept THEN @ + 1 ELSE @]
        BY <2>3 DEF signUpCompleted, Granted
      <3>2. CASE kept
        BY <2>3, <3>1, <3>2
      <3>3. CASE ~kept
        BY <3>1, <3>3 DEF TypeOK
      <3>4. QED
        BY <3>2, <3>3
    <2>4. QED
      BY <2>1, <2>2, <2>3 DEF Completions
  <1> HIDE DEF r
  <1>5. /\ DOMAIN requests' = DOMAIN requests
        /\ \A s \in DOMAIN requests : /\ requests'[s].do = requests[s].do
                                      /\ requests'[s].who = requests[s].who
        /\ \A s \in DOMAIN requests : s # r => requests'[s].state = requests[s].state
        /\ requests'[r].state = "over"
    <2>1. CASE TransitionToMap(r)
      <3> DEFINE rs == Abandon(requests)
      <3>1. requests' = [rs EXCEPT ![r].state = "over"]
        BY <2>1 DEF TransitionToMap
      <3>2. rs \in [DOMAIN requests -> Request]
        BY RequestTypes DEF Abandon, Request
      <3>3. \A s \in DOMAIN requests : /\ rs[s].do = requests[s].do
                                      /\ rs[s].who = requests[s].who
                                      /\ rs[s].state = requests[s].state
        BY AbandonKeeps
      <3> HIDE DEF rs
      <3>4. QED
        BY <1>1, <3>1, <3>2, <3>3 DEF Request
    <2>2. CASE requests' = [requests EXCEPT ![r].state = "over"]
      BY <1>1, <2>2, RequestTypes DEF Request
    <2>3. QED
      BY <1>3, <2>1, <2>2
  <1>6. CASE profiles' = profiles
    BY <1>2, <1>5, <1>6, NothingGranted DEF Granted
  <1>7. CASE Granted(requests, r) /\ profiles' = [profiles EXCEPT ![requests[r].who] = @ + 1]
    <2> DEFINE u == requests[r].who
    <2>1. u \in Users /\ u \in accounts /\ profiles[u] = 0
      BY <1>1, <1>7 DEF ProfileInv, SignUpsApart, Request
    <2>2. profiles'[u] = 1 /\ \A v \in Users : v # u => profiles'[v] = profiles[v]
      BY <1>7, <2>1 DEF TypeOK
    <2>3. \A s \in DOMAIN requests : Granted(requests', s) =>
            s # r /\ Granted(requests, s) /\ requests[s].who # u
      BY <1>1, <1>5, <1>7 DEF ProfileInv, SignUpsApart, Granted
    <2>4. \A s \in DOMAIN requests : requests[s].who \in Users
      BY RequestTypes DEF Request
    <2>5. SignUpsApart'
      BY <1>2, <1>5, <2>2, <2>3, <2>4 DEF ProfileInv, SignUpsApart
    <2>6. OneProfileEach'
      BY <1>2, <2>1, <2>2 DEF ProfileInv, OneProfileEach
    <2>7. QED
      BY <2>5, <2>6 DEF ProfileInv
  <1>8. QED
    BY <1>4, <1>6, <1>7

\* An account has one profile at most, and a failed sign-up leaves none
\* (Session.OneProfileEach).
THEOREM OneProfile == Spec => []OneProfileEach
  <1>1. Init => ProfileInv
    <2> SUFFICES ASSUME Init PROVE ProfileInv
      OBVIOUS
    <2>1. DOMAIN requests = {}
      BY DEF Init
    <2>2. QED
      BY <2>1 DEF Init, ProfileInv, SignUpsApart, OneProfileEach
  <1>2. TypeOK /\ ProfileInv /\ [Next]_vars => ProfileInv'
    <2> SUFFICES ASSUME TypeOK, ProfileInv, [Next]_vars PROVE ProfileInv'
      OBVIOUS
    <2>1. CASE Relaunch
      <3>1. \A r \in DOMAIN requests' : requests'[r].state = "over"
        BY <2>1, RequestTypes DEF Relaunch, Request
      <3>2. profiles' = profiles /\ accounts \subseteq accounts'
        BY <2>1 DEF Relaunch
      <3>3. QED
        BY <3>1, <3>2, NothingGranted DEF Granted
    <2>2. CASE Answers \/ Expel \/ UNCHANGED vars
      <3>1. UNCHANGED <<requests, profiles, accounts>>
        BY <2>2, AnswerApart DEF Answers, Expel, vars, authVars
      <3>2. QED
        BY <3>1, NothingGranted
    <2>3. QED
      BY <2>1, <2>2, PersonProfiles, AuthProfiles, CompletionsProfiles DEF Next
  <1>3. ProfileInv => OneProfileEach
    BY DEF ProfileInv
  <1>4. QED
    BY <1>1, <1>2, <1>3, Typing, PTL DEF Spec

----------------------------------------------------------------------------
(* Images are deleted for who confirmed it.                                *)

ImageInv ==
  /\ \A t \in DOMAIN tasks : tasks[t].do = "wipe" => tasks[t].as \in wiped
  /\ ImagesGoByOwner

\* A step that begins no delete, and deletes no image.
LEMMA NothingWiped ==
  ASSUME ImageInv, wiped' = wiped, stored' \ images' \subseteq stored \ images,
         \A t \in DOMAIN tasks' : tasks'[t].do = "wipe" =>
           t \in DOMAIN tasks /\ tasks'[t] = tasks[t]
  PROVE  ImageInv'
  BY DEF ImageInv, ImagesGoByOwner

LEMMA BeginTask ==
  ASSUME TypeOK, NEW do, NEW u, Begin(do, u)
  PROVE  /\ \A t \in DOMAIN tasks' : t \notin DOMAIN tasks => tasks'[t] = [do |-> do, as |-> u]
         /\ \A t \in DOMAIN tasks : t \in DOMAIN tasks' /\ tasks'[t] = tasks[t]
  <1> DEFINE q == [do |-> do, as |-> u]
  <1>1. tasks' = Append(tasks, q)
    BY DEF Begin
  <1> HIDE DEF q
  <1>2. DOMAIN tasks' = 1..Len(tasks) + 1 /\ tasks'[Len(tasks) + 1] = q
    BY <1>1 DEF TypeOK
  <1>3. \A t \in DOMAIN tasks : tasks'[t] = tasks[t]
    BY <1>1, RequestTypes DEF TypeOK
  <1>4. QED
    BY <1>2, <1>3, RequestTypes DEF q

\* Images are deleted from Storage only for users who confirmed the delete of a
\* table (Session.ImagesGoByOwner).
THEOREM ImagesStay == Spec => []ImagesGoByOwner
  <1>1. Init => ImageInv
    BY DEF Init, ImageInv, ImagesGoByOwner
  <1>2. TypeOK /\ ImageInv /\ [Next]_vars => ImageInv'
    <2> SUFFICES ASSUME TypeOK, ImageInv, [Next]_vars PROVE ImageInv'
      OBVIOUS
    <2>1. CASE UNCHANGED <<tasks, images, stored, wiped>>
      BY <2>1, NothingWiped
    <2>2. CASE setElements \/ imagePicked
      <3>1. PICK do \in {"load", "put"}, u \in Users \cup {NoUser} : Begin(do, u)
        BY <2>2 DEF setElements, imagePicked, TypeOK
      <3>2. UNCHANGED <<images, stored, wiped>>
        BY <2>2 DEF setElements, imagePicked
      <3>3. QED
        BY <3>1, <3>2, BeginTask, NothingWiped
    <2>3. CASE remove_marker
      <3>1. Begin("wipe", user) /\ wiped' = wiped \cup {user} /\ UNCHANGED <<images, stored>>
        BY <2>3 DEF remove_marker
      <3>2. QED
        BY <3>1, BeginTask DEF ImageInv, ImagesGoByOwner
    <2>4. ASSUME NEW t \in DOMAIN tasks,
                 Stored(t) \/ Found(t) \/ Wiped(t) \/ Failed(t) \/ Unwrapped(t)
          PROVE  ImageInv'
      <3>1. wiped' = wiped
        BY <2>4, AnswerApart
      <3>2. /\ DOMAIN tasks' = DOMAIN tasks
            /\ \A s \in DOMAIN tasks : s # t => tasks'[s] = tasks[s]
            /\ tasks' = tasks \/ tasks'[t].do # "wipe"
        BY <2>4, RequestTypes DEF Stored, Found, Wiped, Failed, Unwrapped, Becomes, Task
      <3>3. stored' \ images' \subseteq (stored \ images) \cup wiped
        BY <2>4 DEF Stored, Found, Wiped, Failed, Unwrapped, ImageInv
      <3>4. QED
        BY <3>1, <3>2, <3>3 DEF ImageInv, ImagesGoByOwner
    <2>5. CASE Relaunch
      <3>1. \A t \in DOMAIN tasks' : tasks'[t].do = "over"
        BY <2>5, RequestTypes DEF Relaunch, Task
      <3>2. wiped' = wiped /\ stored' \ images' \subseteq stored \ images
        BY <2>5 DEF Relaunch
      <3>3. QED
        BY <3>1, <3>2, NothingWiped
    <2>6. \/ UNCHANGED <<tasks, images, stored, wiped>>
          \/ setElements \/ imagePicked \/ remove_marker \/ Answers \/ Relaunch
      BY DEF Next, Person, Auth, Completions, Show, Back, loginTapped, signUpTapped, Tap, logout,
             NeedUser, LoginAnswered, SignUpAnswered, Expel, loginCompleted, signUpCompleted,
             vars, authVars, photoVars
    <2>7. QED
      BY <2>1, <2>2, <2>3, <2>4, <2>5, <2>6 DEF Answers
  <1>3. ImageInv => ImagesGoByOwner
    BY DEF ImageInv
  <1>4. QED
    BY <1>1, <1>2, <1>3, Typing, PTL DEF Spec

----------------------------------------------------------------------------
(* A document in Photos says that its user has stored an image.            *)

Linked(ts, t) == ts[t].do \in {"url", "found"}

\* Between the download URL and the document, the user is the one who uploads,
\* nobody, or somebody who has signed in meanwhile.
Uploader(ts, t) == user \in {ts[t].as, NoUser} \cup crossed

PhotoInv ==
  /\ images \subseteq stored
  /\ \A t \in DOMAIN tasks : Linked(tasks, t) => Uploader(tasks, t)
  /\ \A t \in DOMAIN tasks : tasks[t].do = "found" => tasks[t].as \in stored
  /\ PhotoHasImage

\* A step that links no task and changes no photo, and leaves the user or signs
\* the user out.
LEMMA NothingLinked ==
  ASSUME PhotoInv, photos' = photos, crossed \subseteq crossed', stored \subseteq stored',
         images' \subseteq stored', user' \in {user, NoUser},
         \A t \in DOMAIN tasks' : Linked(tasks', t) => t \in DOMAIN tasks /\ tasks'[t] = tasks[t]
  PROVE  PhotoInv'
  <1>1. \A t \in DOMAIN tasks' : Linked(tasks', t) =>
          user' \in {tasks'[t].as, NoUser} \cup crossed'
    <2> SUFFICES ASSUME NEW t \in DOMAIN tasks', Linked(tasks', t)
                 PROVE  user' \in {tasks'[t].as, NoUser} \cup crossed'
      OBVIOUS
    <2>1. t \in DOMAIN tasks /\ tasks'[t] = tasks[t]
      OBVIOUS
    <2>2. Linked(tasks, t)
      BY <2>1 DEF Linked
    <2>3. QED
      BY <2>1, <2>2 DEF PhotoInv, Uploader
  <1>2. \A t \in DOMAIN tasks' : tasks'[t].do = "found" => tasks'[t].as \in stored'
    BY DEF PhotoInv, Linked
  <1>3. QED
    BY <1>1, <1>2 DEF PhotoInv, PhotoHasImage, Uploader

LEMMA AuthPhotos == PhotoInv /\ Auth => PhotoInv'
  <1> SUFFICES ASSUME PhotoInv, NEW r \in DOMAIN requests, NEW ok \in BOOLEAN,
                      LoginAnswered(r, ok) \/ SignUpAnswered(r, ok)
               PROVE  PhotoInv'
    BY DEF Auth
  <1>1. Decorated(r, ok) /\ UNCHANGED <<tasks, images, stored, photos>>
    BY DEF LoginAnswered, SignUpAnswered
  <1>2. crossed \subseteq crossed'
    BY <1>1 DEF Decorated
  <1>3. CASE ~ok
    BY <1>1, <1>2, <1>3, NothingLinked DEF Decorated, PhotoInv
  <1>4. CASE ok
    <2>1. user' = requests[r].who
      BY <1>1, <1>4 DEF Decorated
    <2>2. \A t \in DOMAIN tasks : Linked(tasks, t) =>
            requests[r].who \in {tasks[t].as} \cup crossed'
      BY <1>1, <1>4 DEF Decorated, Linked
    <2>3. QED
      BY <1>1, <1>2, <2>1, <2>2 DEF PhotoInv, PhotoHasImage, Uploader
  <1>5. QED
    BY <1>3, <1>4

LEMMA AnswersPhotos == TypeOK /\ PhotoInv /\ Answers => PhotoInv'
  <1> SUFFICES ASSUME TypeOK, PhotoInv, NEW t \in DOMAIN tasks,
                      Stored(t) \/ Found(t) \/ Wiped(t) \/ Failed(t) \/ Unwrapped(t)
               PROVE  PhotoInv'
    BY DEF Answers
  <1>1. UNCHANGED <<user, crossed>>
    BY AnswerApart DEF authVars
  <1>2. stored \subseteq stored' /\ images' \subseteq stored'
    BY DEF Stored, Found, Wiped, Failed, Unwrapped, PhotoInv
  <1>3. /\ DOMAIN tasks' = DOMAIN tasks
        /\ \A s \in DOMAIN tasks : s # t => tasks'[s] = tasks[s]
    BY DEF Stored, Found, Wiped, Failed, Unwrapped, Becomes
  <1>4. CASE Found(t)
    <2>1. tasks'[t].do = "found" /\ tasks'[t].as = tasks[t].as
      BY <1>4, RequestTypes DEF Found, Becomes, Task
    <2>2. Linked(tasks, t) /\ tasks[t].as \in stored
      BY <1>4 DEF Found, Linked, PhotoInv
    <2>3. photos' = photos
      BY <1>4 DEF Found
    <2>4. \A s \in DOMAIN tasks' : Linked(tasks', s) =>
            user' \in {tasks'[s].as, NoUser} \cup crossed'
      BY <1>1, <1>3, <2>1, <2>2 DEF PhotoInv, Uploader, Linked
    <2>5. \A s \in DOMAIN tasks' : tasks'[s].do = "found" => tasks'[s].as \in stored'
      BY <1>2, <1>3, <2>1, <2>2 DEF PhotoInv
    <2>6. QED
      BY <1>1, <1>2, <2>3, <2>4, <2>5 DEF PhotoInv, PhotoHasImage, Uploader
  <1>5. CASE Unwrapped(t) /\ user # NoUser
    <2>1. tasks'[t] = [do |-> IF tasks[t].do = "stored" THEN "url" ELSE "over", as |-> user]
      BY <1>5 DEF Unwrapped
    <2>2. tasks'[t].as = user /\ tasks'[t].do # "found"
      BY <2>1
    <2>3. \A s \in DOMAIN tasks' : Linked(tasks', s) =>
            user' \in {tasks'[s].as, NoUser} \cup crossed'
      BY <1>1, <1>3, <2>2 DEF PhotoInv, Uploader, Linked
    <2>4. \A s \in DOMAIN tasks' : tasks'[s].do = "found" => tasks'[s].as \in stored'
      BY <1>2, <1>3, <2>2 DEF PhotoInv
    <2>5. photos' \subseteq stored' \cup crossed'
      <3>1. CASE tasks[t].do = "found"
        <4>1. user \in stored \cup crossed
          BY <1>5, <3>1 DEF PhotoInv, Linked, Uploader
        <4>2. QED
          BY <1>1, <1>2, <1>5, <3>1, <4>1 DEF Unwrapped, PhotoInv, PhotoHasImage
      <3>2. CASE tasks[t].do # "found"
        BY <1>1, <1>2, <1>5, <3>2 DEF Unwrapped, PhotoInv, PhotoHasImage
      <3>3. QED
        BY <3>1, <3>2
    <2>6. QED
      BY <1>1, <1>2, <2>3, <2>4, <2>5 DEF PhotoInv, PhotoHasImage, Uploader
  <1>6. CASE \/ Stored(t) \/ Wiped(t) \/ Failed(t)
             \/ Unwrapped(t) /\ user = NoUser
    <2>1. photos' = photos /\ (tasks' = tasks \/ ~Linked(tasks', t))
      BY <1>6, RequestTypes DEF Stored, Wiped, Failed, Unwrapped, Becomes, Linked, Task
    <2>2. QED
      BY <1>1, <1>2, <1>3, <2>1, NothingLinked
  <1>7. QED
    BY <1>4, <1>5, <1>6

\* Who has a document in Photos has stored an image, or has signed in during
\* another's upload (Session.PhotoHasImage).
THEOREM PhotosOwned == Spec => []PhotoHasImage
  <1>1. Init => PhotoInv
    BY DEF Init, PhotoInv, PhotoHasImage
  <1>2. TypeOK /\ PhotoInv /\ [Next]_vars => PhotoInv'
    <2> SUFFICES ASSUME TypeOK, PhotoInv, [Next]_vars PROVE PhotoInv'
      OBVIOUS
    <2>1. CASE /\ user' \in {user, NoUser}
               /\ UNCHANGED <<tasks, images, stored, photos, crossed>>
      BY <2>1, NothingLinked DEF PhotoInv
    <2>2. CASE setElements \/ imagePicked \/ remove_marker
      <3>1. PICK do \in {"load", "put", "wipe"}, u \in Users \cup {NoUser} : Begin(do, u)
        BY <2>2 DEF setElements, imagePicked, remove_marker, TypeOK
      <3>2. UNCHANGED <<user, images, stored, photos, crossed>>
        BY <2>2 DEF setElements, imagePicked, remove_marker, authVars
      <3>3. \A t \in DOMAIN tasks' : Linked(tasks', t) =>
              t \in DOMAIN tasks /\ tasks'[t] = tasks[t]
        BY <3>1, BeginTask DEF Linked
      <3>4. QED
        BY <3>2, <3>3, NothingLinked DEF PhotoInv
    <2>3. CASE Relaunch
      <3>1. \A t \in DOMAIN tasks' : tasks'[t].do = "over"
        BY <2>3, RequestTypes DEF Relaunch, Task
      <3>2. UNCHANGED <<user, photos, crossed>> /\ stored \subseteq stored'
            /\ images' \subseteq stored'
        BY <2>3 DEF Relaunch, PhotoInv
      <3>3. QED
        BY <3>1, <3>2, NothingLinked DEF Linked
    <2>4. \/ user' \in {user, NoUser} /\ UNCHANGED <<tasks, images, stored, photos, crossed>>
          \/ setElements \/ imagePicked \/ remove_marker \/ Auth \/ Answers \/ Relaunch
      BY DEF Next, Person, Completions, Show, Back, loginTapped, signUpTapped, Tap, logout,
             NeedUser, Expel, loginCompleted, signUpCompleted, vars, authVars, photoVars
    <2>5. QED
      BY <2>1, <2>2, <2>3, <2>4, AuthPhotos, AnswersPhotos
  <1>3. PhotoInv => PhotoHasImage
    BY DEF PhotoInv
  <1>4. QED
    BY <1>1, <1>2, <1>3, Typing, PTL DEF Spec

----------------------------------------------------------------------------
(* The map is used by the user it was opened for.                          *)

Accepted(rs, r) == rs[r].state = "accepted"

\* A completion is posted once, when its request has been answered.
PostedOnce ==
  /\ \A i \in 1..Len(mainQ) : requests[mainQ[i]].state \in {"accepted", "refused"}
  /\ \A i, j \in 1..Len(mainQ) : mainQ[i] = mainQ[j] => i = j

\* A form that is still in the window is what the window shows.
LiveIsShown == \A r \in DOMAIN requests : requests[r].live => screen \in Forms \cup {"crashed"}

\* Who is about to get a map is the current user, unless another is to follow, or
\* Auth has expelled the user.
NextOwner ==
  \A i \in 1..Len(mainQ) : requests[mainQ[i]].live /\ Accepted(requests, mainQ[i]) =>
    \/ user = requests[mainQ[i]].who
    \/ user = NoUser /\ expelled
    \/ \E j \in 1..Len(mainQ) : j > i /\ Accepted(requests, mainQ[j])

OwnerInv == PostedOnce /\ LiveIsShown /\ NextOwner /\ OwnMap

\* Inside the domain of the requests.
LEMMA PostedIn ==
  ASSUME TypeOK
  PROVE  /\ Len(mainQ) \in Nat
         /\ \A i \in 1..Len(mainQ) : mainQ[i] \in DOMAIN requests
  BY RequestTypes, ElementOfSeq, LenProperties DEF TypeOK

\* A step that leaves the queue, the user and what is posted, and opens no map.
LEMMA QueueApart ==
  ASSUME OwnerInv, TypeOK, UNCHANGED <<mainQ, user, owner, expelled>>,
         LiveIsShown', screen' = "map" => screen = "map",
         \A r \in DOMAIN requests :
           /\ requests'[r].state = requests[r].state /\ requests'[r].who = requests[r].who
           /\ requests'[r].live => requests[r].live
  PROVE  OwnerInv'
  <1>1. PostedOnce'
    BY PostedIn DEF OwnerInv, PostedOnce
  <1>2. NextOwner'
    BY PostedIn DEF OwnerInv, NextOwner, Accepted
  <1>3. OwnMap'
    BY PostedIn DEF OwnerInv, OwnMap, CrashPosted
  <1>4. QED
    BY <1>1, <1>2, <1>3 DEF OwnerInv

LEMMA PersonOwner == TypeOK /\ OwnerInv /\ Person => OwnerInv'
  <1> SUFFICES ASSUME TypeOK, OwnerInv, Person PROVE OwnerInv'
    OBVIOUS
  <1>1. CASE \/ \E f \in Forms : Show(f)
             \/ NeedUser \/ setElements \/ imagePicked \/ remove_marker
    <2>1. UNCHANGED <<requests, mainQ, user, owner, expelled>>
      BY <1>1 DEF Show, NeedUser, setElements, imagePicked, remove_marker, authVars
    <2>2. screen' = "map" => screen = "map"
      BY <1>1 DEF Show, NeedUser, setElements, imagePicked, remove_marker, Forms
    <2>3. screen \in Forms \cup {"crashed"} => screen' \in Forms \cup {"crashed"}
      BY <1>1 DEF Show, NeedUser, setElements, imagePicked, remove_marker, Forms
    <2>4. LiveIsShown'
      BY <2>1, <2>3 DEF OwnerInv, LiveIsShown
    <2>5. QED
      BY <2>1, <2>2, <2>4, QueueApart
  <1>2. CASE Back
    <2>1. requests' = Abandon(requests) /\ screen' = "welcome"
          /\ UNCHANGED <<mainQ, user, owner, expelled>>
      BY <1>2 DEF Back
    <2>2. DOMAIN requests' = DOMAIN requests
      BY <2>1, AbandonType
    <2>3. LiveIsShown'
      BY <2>1, <2>2, AbandonKeeps DEF LiveIsShown
    <2>4. QED
      BY <2>1, <2>3, AbandonKeeps, QueueApart
  <1>3. ASSUME NEW u \in Users, loginTapped(u) \/ signUpTapped(u) PROVE OwnerInv'
    <2>1. PICK do \in Forms : Tap(do, u)
      BY <1>3 DEF loginTapped, signUpTapped, Forms
    <2>2. UNCHANGED <<mainQ, user, owner, expelled, screen>> /\ screen \in Forms
      BY <2>1 DEF Tap
    <2>3. \A r \in DOMAIN requests : requests'[r] = requests[r]
      BY <2>1, RequestTypes DEF Tap, TypeOK
    <2>4. QED
      BY <2>2, <2>3, QueueApart DEF LiveIsShown
  <1>4. ASSUME NEW ok \in BOOLEAN, logout(ok) PROVE OwnerInv'
    <2>1. screen = "map" /\ screen' = "welcome" /\ UNCHANGED <<requests, mainQ, owner, expelled>>
      BY <1>4 DEF logout
    <2>2. \A r \in DOMAIN requests : ~requests[r].live
      BY <2>1 DEF OwnerInv, LiveIsShown, Forms
    <2>3. QED
      BY <2>1, <2>2, PostedIn DEF OwnerInv, PostedOnce, LiveIsShown, NextOwner, OwnMap
  <1>5. QED
    BY <1>1, <1>2, <1>3, <1>4 DEF Person

LEMMA AuthOwner == TypeOK /\ OwnerInv /\ Auth => OwnerInv'
  <1> SUFFICES ASSUME TypeOK, OwnerInv, NEW r \in DOMAIN requests, NEW ok \in BOOLEAN,
                      LoginAnswered(r, ok) \/ SignUpAnswered(r, ok)
               PROVE  OwnerInv'
    BY DEF Auth
  <1> DEFINE st == IF ok THEN "accepted" ELSE "refused"
             n == Len(mainQ)
  <1>1. /\ requests[r].state = "sent" /\ UNCHANGED <<screen, owner>>
        /\ requests' = [requests EXCEPT ![r].state = st] /\ mainQ' = Append(mainQ, r)
        /\ user' = (IF ok THEN requests[r].who ELSE user)
        /\ expelled' = (expelled /\ ~ok)
    BY DEF LoginAnswered, SignUpAnswered, Decorated
  <1>2. /\ DOMAIN requests' = DOMAIN requests
        /\ \A s \in DOMAIN requests : s # r => requests'[s] = requests[s]
        /\ requests'[r].live = requests[r].live /\ requests'[r].who = requests[r].who
        /\ requests'[r].state = st
    BY <1>1, RequestTypes DEF Request
  <1>3. n \in Nat /\ Len(mainQ') = n + 1 /\ mainQ'[n + 1] = r
        /\ \A i \in 1..n : mainQ'[i] = mainQ[i]
    BY <1>1, PostedIn DEF TypeOK
  <1>4. \A i \in 1..n : mainQ[i] \in DOMAIN requests /\ mainQ[i] # r
    BY <1>1, PostedIn DEF OwnerInv, PostedOnce
  <1>5. \A i \in 1..n : requests'[mainQ'[i]] = requests[mainQ[i]]
    BY <1>2, <1>3, <1>4
  <1> HIDE DEF n
  <1>6. PostedOnce'
    <2>1. \A i \in 1..n + 1 : i \in 1..n \/ i = n + 1
      BY <1>3
    <2>2. \A i \in 1..Len(mainQ') : requests'[mainQ'[i]].state \in {"accepted", "refused"}
      BY <1>2, <1>3, <1>5, <2>1 DEF OwnerInv, PostedOnce, n
    <2>3. \A i, j \in 1..Len(mainQ') : mainQ'[i] = mainQ'[j] => i = j
      BY <1>3, <1>4, <2>1 DEF OwnerInv, PostedOnce, n
    <2>4. QED
      BY <2>2, <2>3 DEF PostedOnce
  <1>7. LiveIsShown'
    BY <1>1, <1>2 DEF OwnerInv, LiveIsShown
  <1>8. NextOwner'
    <2> SUFFICES ASSUME NEW i \in 1..Len(mainQ'), requests'[mainQ'[i]].live,
                        Accepted(requests', mainQ'[i])
                 PROVE  \/ user' = requests'[mainQ'[i]].who
                        \/ user' = NoUser /\ expelled'
                        \/ \E j \in 1..Len(mainQ') : j > i /\ Accepted(requests', mainQ'[j])
      BY DEF NextOwner
    <2>1. CASE i = n + 1
      BY <1>1, <1>2, <1>3, <2>1 DEF Accepted
    <2>2. CASE i # n + 1 /\ ok
      <3>1. n + 1 \in 1..Len(mainQ') /\ n + 1 > i /\ Accepted(requests', mainQ'[n + 1])
        BY <1>2, <1>3, <2>2 DEF Accepted
      <3>2. QED
        BY <3>1
    <2>3. CASE i # n + 1 /\ ~ok
      <3>1. i \in 1..n
        BY <1>3, <2>3
      <3>2. requests[mainQ[i]].live /\ Accepted(requests, mainQ[i])
        BY <1>5, <3>1 DEF Accepted
      <3>3. CASE \E j \in 1..n : j > i /\ Accepted(requests, mainQ[j])
        <4>1. PICK j \in 1..n : j > i /\ Accepted(requests, mainQ[j])
          BY <3>3
        <4>2. j \in 1..Len(mainQ') /\ Accepted(requests', mainQ'[j])
          BY <1>3, <1>5, <4>1 DEF Accepted
        <4>3. QED
          BY <4>1, <4>2
      <3>4. CASE user = requests[mainQ[i]].who \/ (user = NoUser /\ expelled)
        BY <1>1, <1>5, <2>3, <3>1, <3>4
      <3>5. QED
        BY <3>1, <3>2, <3>3, <3>4 DEF OwnerInv, NextOwner, n
    <2>4. QED
      BY <2>1, <2>2, <2>3
  <1>9. OwnMap'
    <2> SUFFICES ASSUME screen = "map", user' # owner
                 PROVE  CrashPosted' \/ (user' = NoUser /\ expelled')
      BY <1>1 DEF OwnMap
    <2>1. CASE ok
      <3>1. ~requests[r].live
        BY DEF OwnerInv, LiveIsShown, Forms
      <3>2. n + 1 \in 1..Len(mainQ') /\ requests'[mainQ'[n + 1]].state = "accepted"
            /\ ~requests'[mainQ'[n + 1]].live
        BY <1>2, <1>3, <2>1, <3>1
      <3>3. QED
        BY <3>2 DEF CrashPosted
    <2>2. CASE ~ok
      <3>1. user' = user /\ expelled' = expelled
        BY <1>1, <2>2 DEF TypeOK
      <3>2. CASE CrashPosted
        <4>1. PICK i \in 1..n : requests[mainQ[i]].state = "accepted" /\ ~requests[mainQ[i]].live
          BY <3>2 DEF CrashPosted, n
        <4>2. i \in 1..Len(mainQ') /\ requests'[mainQ'[i]] = requests[mainQ[i]]
          BY <1>3, <1>5, <4>1
        <4>3. QED
          BY <4>1, <4>2 DEF CrashPosted
      <3>3. QED
        BY <1>1, <3>1, <3>2 DEF OwnerInv, OwnMap
    <2>3. QED
      BY <2>1, <2>2
  <1>10. QED
    BY <1>6, <1>7, <1>8, <1>9 DEF OwnerInv

LEMMA CompletionsOwner == TypeOK /\ OwnerInv /\ Completions => OwnerInv'
  <1> SUFFICES ASSUME TypeOK, OwnerInv, Completions PROVE OwnerInv'
    OBVIOUS
  <1> DEFINE r == Head(mainQ)
             n == Len(mainQ')
  <1>1. r \in DOMAIN requests /\ requests[r] \in Request /\ mainQ # <<>> /\ mainQ' = Tail(mainQ)
        /\ user' = user /\ expelled' = expelled
    BY PostedHead DEF Completions, loginCompleted, signUpCompleted
  <1>2. n \in Nat /\ Len(mainQ) = n + 1 /\ r = mainQ[1]
        /\ \A i \in 1..n : mainQ'[i] = mainQ[i + 1]
    BY <1>1 DEF TypeOK
  <1>3. \A i \in 1..n : mainQ'[i] \in DOMAIN requests /\ mainQ'[i] # r
    BY <1>2, PostedIn DEF OwnerInv, PostedOnce
  <1>4. \/ TransitionToMap(r) /\ Accepted(requests, r)
        \/ /\ requests' = [requests EXCEPT ![r].state = "over"]
           /\ owner' = owner /\ screen' \in {screen, "crashed"}
           /\ ~Accepted(requests, r)
    BY DEF Completions, loginCompleted, signUpCompleted, Accepted
  <1> HIDE DEF r, n
  <1>5. DOMAIN requests' = DOMAIN requests
    BY <1>1, <1>4, AbandonType, RequestChange DEF TransitionToMap
  <1>6. \A s \in DOMAIN requests :
          /\ requests'[s].who = requests[s].who /\ (requests'[s].live => requests[s].live)
          /\ s # r => requests'[s].state = requests[s].state
    <2>1. CASE TransitionToMap(r)
      <3> DEFINE rs == Abandon(requests)
      <3>1. requests' = [rs EXCEPT ![r].state = "over"]
        BY <2>1 DEF TransitionToMap
      <3>2. rs \in [DOMAIN requests -> Request]
        BY RequestTypes DEF Abandon, Request
      <3>3. \A s \in DOMAIN requests : /\ rs[s].who = requests[s].who /\ rs[s].live = FALSE
                                      /\ rs[s].state = requests[s].state
        BY AbandonKeeps
      <3> HIDE DEF rs
      <3>4. QED
        BY <1>1, <3>1, <3>2, <3>3 DEF Request
    <2>2. CASE requests' = [requests EXCEPT ![r].state = "over"]
      BY <1>1, <2>2, RequestTypes DEF Request
    <2>3. QED
      BY <1>4, <2>1, <2>2
  <1>7. PostedOnce'
    <2>1. \A i \in 1..n : i + 1 \in 1..Len(mainQ) /\ mainQ'[i] = mainQ[i + 1]
      BY <1>2
    <2>2. \A i \in 1..n : requests'[mainQ'[i]].state \in {"accepted", "refused"}
      BY <1>3, <1>6, <2>1 DEF OwnerInv, PostedOnce
    <2>3. \A i, j \in 1..n : mainQ'[i] = mainQ'[j] => i = j
      <3> SUFFICES ASSUME NEW i \in 1..n, NEW j \in 1..n, mainQ'[i] = mainQ'[j] PROVE i = j
        OBVIOUS
      <3>1. i + 1 = j + 1
        BY <2>1 DEF OwnerInv, PostedOnce
      <3>2. QED
        BY <1>2, <3>1
    <2>4. QED
      BY <2>2, <2>3 DEF PostedOnce, n
  <1>8. \A i \in 1..n : i + 1 \in 1..Len(mainQ) /\ mainQ'[i] = mainQ[i + 1]
          /\ requests'[mainQ'[i]].state = requests[mainQ[i + 1]].state
          /\ requests'[mainQ'[i]].who = requests[mainQ[i + 1]].who
          /\ (requests'[mainQ'[i]].live => requests[mainQ[i + 1]].live)
    BY <1>2, <1>3, <1>6
  <1>9. CASE TransitionToMap(r) /\ Accepted(requests, r)
    <2>1. \A s \in DOMAIN requests : ~requests'[s].live
      <3> DEFINE rs == Abandon(requests)
      <3>1. requests' = [rs EXCEPT ![r].state = "over"]
        BY <1>9 DEF TransitionToMap
      <3>2. rs \in [DOMAIN requests -> Request] /\ \A s \in DOMAIN requests : rs[s].live = FALSE
        BY RequestTypes, AbandonKeeps DEF Abandon, Request
      <3> HIDE DEF rs
      <3>3. QED
        BY <1>1, <3>1, <3>2 DEF Request
    <2>2. LiveIsShown'
      BY <1>5, <2>1 DEF LiveIsShown
    <2>3. NextOwner'
      BY <1>3, <2>1 DEF NextOwner, n
    <2>4. OwnMap'
      <3> SUFFICES ASSUME screen' = "map", user # requests[r].who
                   PROVE  CrashPosted' \/ (user = NoUser /\ expelled)
        BY <1>1, <1>9 DEF OwnMap, TransitionToMap
      <3>1. requests[r].live
        BY <1>9 DEF TransitionToMap
      <3>2. 1 \in 1..Len(mainQ)
        BY <1>2
      <3>3. CASE \E j \in 1..Len(mainQ) : j > 1 /\ Accepted(requests, mainQ[j])
        <4>1. PICK j \in 1..Len(mainQ) : j > 1 /\ Accepted(requests, mainQ[j])
          BY <3>3
        <4>2. j - 1 \in 1..n /\ (j - 1) + 1 = j
          BY <1>2, <4>1
        <4>3. requests'[mainQ'[j - 1]].state = "accepted"
          BY <1>8, <4>1, <4>2 DEF Accepted
        <4>4. ~requests'[mainQ'[j - 1]].live
          BY <1>3, <2>1, <4>2
        <4>5. QED
          BY <4>2, <4>3, <4>4 DEF CrashPosted, n
      <3>4. QED
        BY <1>2, <1>9, <3>1, <3>2, <3>3 DEF OwnerInv, NextOwner
    <2>5. QED
      BY <1>7, <2>2, <2>3, <2>4 DEF OwnerInv
  <1>10. CASE /\ owner' = owner /\ screen' \in {screen, "crashed"}
              /\ ~Accepted(requests, r)
    <2>1. LiveIsShown'
      BY <1>5, <1>6, <1>10 DEF OwnerInv, LiveIsShown
    <2>2. NextOwner'
      <3> SUFFICES ASSUME NEW i \in 1..n, requests'[mainQ'[i]].live,
                          Accepted(requests', mainQ'[i])
                   PROVE  \/ user = requests'[mainQ'[i]].who
                          \/ user = NoUser /\ expelled
                          \/ \E j \in 1..n : j > i /\ Accepted(requests', mainQ'[j])
        BY <1>1 DEF NextOwner, n
      <3>1. i + 1 \in 1..Len(mainQ) /\ requests[mainQ[i + 1]].live
            /\ Accepted(requests, mainQ[i + 1])
            /\ requests'[mainQ'[i]].who = requests[mainQ[i + 1]].who
        BY <1>8 DEF Accepted
      <3>2. CASE \E j \in 1..Len(mainQ) : j > i + 1 /\ Accepted(requests, mainQ[j])
        <4>1. PICK j \in 1..Len(mainQ) : j > i + 1 /\ Accepted(requests, mainQ[j])
          BY <3>2
        <4>2. j - 1 \in 1..n /\ (j - 1) + 1 = j /\ j - 1 > i
          BY <1>2, <4>1
        <4>3. Accepted(requests', mainQ'[j - 1])
          BY <1>8, <4>1, <4>2 DEF Accepted
        <4>4. QED
          BY <4>2, <4>3
      <3>3. QED
        BY <3>1, <3>2 DEF OwnerInv, NextOwner
    <2>3. OwnMap'
      <3> SUFFICES ASSUME screen = "map", user # owner
                   PROVE  CrashPosted' \/ (user = NoUser /\ expelled)
        BY <1>1, <1>10 DEF OwnMap
      <3>1. CASE CrashPosted
        <4>1. PICK i \in 1..Len(mainQ) : requests[mainQ[i]].state = "accepted"
                                         /\ ~requests[mainQ[i]].live
          BY <3>1 DEF CrashPosted
        <4>2. i # 1
          BY <1>2, <1>10, <4>1 DEF Accepted
        <4>3. i - 1 \in 1..n /\ (i - 1) + 1 = i
          BY <1>2, <4>1, <4>2
        <4>4. requests'[mainQ'[i - 1]].state = "accepted"
          BY <1>8, <4>1, <4>3
        <4>5. ~requests'[mainQ'[i - 1]].live
          BY <1>8, <4>1, <4>3
        <4>6. QED
          BY <4>3, <4>4, <4>5 DEF CrashPosted, n
      <3>2. QED
        BY <3>1 DEF OwnerInv, OwnMap
    <2>4. QED
      BY <1>7, <2>1, <2>2, <2>3 DEF OwnerInv
  <1>11. QED
    BY <1>4, <1>9, <1>10

\* While the map is on the screen the current user is the one it was opened for,
\* or the application is about to abort, or Auth has expelled the user
\* (Session.OwnMap).
THEOREM MapsOwned == Spec => []OwnMap
  <1>1. Init => OwnerInv
    <2> SUFFICES ASSUME Init PROVE OwnerInv
      OBVIOUS
    <2>1. DOMAIN requests = {} /\ Len(mainQ) = 0 /\ screen = "welcome"
      BY DEF Init
    <2>2. QED
      BY <2>1 DEF OwnerInv, PostedOnce, LiveIsShown, NextOwner, OwnMap
  <1>2. TypeOK /\ OwnerInv /\ [Next]_vars => OwnerInv'
    <2> SUFFICES ASSUME TypeOK, OwnerInv, [Next]_vars PROVE OwnerInv'
      OBVIOUS
    <2>1. CASE Expel
      BY <2>1 DEF Expel, OwnerInv, PostedOnce, LiveIsShown, NextOwner, OwnMap, CrashPosted
    <2>2. CASE Answers
      <3>1. UNCHANGED <<requests, mainQ, user, owner, expelled>> /\ screen' \in {screen, "crashed"}
        BY <2>2, AnswerApart DEF Answers, authVars
      <3>2. LiveIsShown' /\ (screen' = "map" => screen = "map")
        BY <3>1 DEF OwnerInv, LiveIsShown
      <3>3. QED
        BY <3>1, <3>2, QueueApart
    <2>3. CASE Relaunch
      <3>1. Len(mainQ') = 0 /\ screen' = "welcome"
        BY <2>3 DEF Relaunch
      <3>2. \A r \in DOMAIN requests' : ~requests'[r].live
        BY <2>3, RequestTypes DEF Relaunch, Request
      <3>3. QED
        BY <3>1, <3>2 DEF OwnerInv, PostedOnce, LiveIsShown, NextOwner, OwnMap
    <2>4. CASE UNCHANGED vars
      BY <2>4, QueueApart DEF vars, authVars, OwnerInv, LiveIsShown
    <2>5. QED
      BY <2>1, <2>2, <2>3, <2>4, PersonOwner, AuthOwner, CompletionsOwner DEF Next
  <1>3. OwnerInv => OwnMap
    BY DEF OwnerInv
  <1>4. QED
    BY <1>1, <1>2, <1>3, Typing, PTL DEF Spec
=============================================================================
