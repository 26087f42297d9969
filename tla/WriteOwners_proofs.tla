--------------------------- MODULE WriteOwners_proofs ---------------------------
(***************************************************************************)
(* Whose batches the write stream carries, and what becomes of them:       *)
(* theorems for every set of users, every length of the pipeline and every *)
(* bound, with their proofs.                                               *)
(***************************************************************************)
EXTENDS WriteStream_proofs

----------------------------------------------------------------------------
(* Changes of the user on their way through a queue.                       *)

Change(e) == e.op \in {"notify", "credentials"}

Quiet(q, n) == \A k \in 1..n : ~Change(q[k])

\* Once the first n items of q are taken, the user is v, being u before.
Under(q, u, n, v) ==
  \/ v = u /\ Quiet(q, n)
  \/ \E j \in 1..n : /\ Change(q[j]) /\ q[j].user = v
                     /\ \A k \in 1..n : j < k => ~Change(q[k])

\* A write is taken for the user, among the owners o, who made it.
Made(q, u, o) ==
  \A i \in 1..Len(q) : q[i].op = "write" => Under(q, u, i - 1, o[q[i].batch])

LEMMA UnderSame ==
  ASSUME NEW q, NEW r, NEW n \in Nat, \A k \in 1..n : r[k] = q[k]
  PROVE  /\ \A u, v : Under(q, u, n, v) => Under(r, u, n, v)
         /\ Quiet(r, n) => Quiet(q, n)
  BY DEF Under, Quiet

LEMMA UnderNext ==
  ASSUME NEW q, NEW n \in Nat, NEW u, NEW v, Under(q, u, n, v)
  PROVE  Under(q, u, n + 1, IF Change(q[n + 1]) THEN q[n + 1].user ELSE v)
  <1>1. \A k \in 1..n + 1 : k \in 1..n \/ k = n + 1
    OBVIOUS
  <1>2. n + 1 \in 1..n + 1 /\ \A k \in 1..n + 1 : ~(n + 1 < k)
    OBVIOUS
  <1>3. CASE Change(q[n + 1])
    BY <1>2, <1>3 DEF Under
  <1>4. CASE ~Change(q[n + 1])
    <2>1. CASE v = u /\ Quiet(q, n)
      BY <1>1, <1>4, <2>1 DEF Under, Quiet
    <2>2. ASSUME NEW j \in 1..n, Change(q[j]), q[j].user = v,
                 \A k \in 1..n : j < k => ~Change(q[k])
          PROVE  Under(q, u, n + 1, v)
      <3>1. j \in 1..n + 1
        OBVIOUS
      <3>2. \A k \in 1..n + 1 : j < k => ~Change(q[k])
        BY <1>1, <1>4, <2>2
      <3>3. QED
        BY <2>2, <3>1, <3>2 DEF Under
    <2>3. QED
      BY <1>4, <2>1, <2>2 DEF Under
  <1>5. QED
    BY <1>3, <1>4

LEMMA UnderTail ==
  ASSUME NEW S, NEW q \in Seq(S), q # <<>>, NEW n \in 0..Len(q) - 1, NEW u, NEW v,
         Under(q, u, n + 1, v)
  PROVE  Under(Tail(q), IF Change(Head(q)) THEN Head(q).user ELSE u, n, v)
  <1> DEFINE w == IF Change(Head(q)) THEN Head(q).user ELSE u
  <1>1. /\ Len(q) \in Nat \ {0} /\ Head(q) = q[1] /\ n \in Nat
        /\ \A i \in 1..Len(q) - 1 : Tail(q)[i] = q[i + 1]
    BY TailIs
  <1>2. \A k \in 1..n : k + 1 \in 1..n + 1 /\ Tail(q)[k] = q[k + 1]
    BY <1>1
  <1>3. CASE v = u /\ Quiet(q, n + 1)
    <2>1. ~Change(Head(q)) /\ Quiet(Tail(q), n)
      BY <1>1, <1>2, <1>3 DEF Quiet
    <2>2. QED
      BY <1>3, <2>1 DEF Under
  <1>4. ASSUME NEW j \in 1..n + 1, Change(q[j]), q[j].user = v,
               \A k \in 1..n + 1 : j < k => ~Change(q[k])
        PROVE  Under(Tail(q), w, n, v)
    <2>1. CASE j = 1
      <3>1. w = v
        BY <1>1, <1>4, <2>1
      <3>2. Quiet(Tail(q), n)
        BY <1>1, <1>2, <1>4, <2>1 DEF Quiet
      <3>3. QED
        BY <3>1, <3>2 DEF Under
    <2>2. CASE j # 1
      <3> DEFINE i == j - 1
      <3>1. i \in 1..n /\ i + 1 = j
        BY <2>2
      <3> HIDE DEF i, w
      <3>2. Change(Tail(q)[i]) /\ Tail(q)[i].user = v
        BY <1>2, <1>4, <3>1
      <3>3. ASSUME NEW k \in 1..n, i < k PROVE ~Change(Tail(q)[k])
        <4>1. j < k + 1 /\ k + 1 \in 1..n + 1
          BY <3>1, <3>3
        <4>2. QED
          BY <1>2, <1>4, <4>1
      <3>4. QED
        BY <3>1, <3>2, <3>3 DEF Under
    <2>3. QED
      BY <2>1, <2>2
  <1> HIDE DEF w
  <1>5. Under(Tail(q), w, n, v)
    <2>1. CASE v = u /\ Quiet(q, n + 1)
      BY <1>3, <2>1 DEF w
    <2>2. QED
      BY <1>4, <2>1 DEF Under
  <1>6. QED
    BY <1>5 DEF w

\* Item k of q, no change of the user, is left out of r.
LEMMA UnderLess ==
  ASSUME NEW q, NEW r, NEW l \in Nat, NEW k \in 1..l, ~Change(q[k]),
         \A i \in 1..l - 1 : r[i] = IF i < k THEN q[i] ELSE q[i + 1],
         NEW n \in 0..l - 1, NEW m \in 0..l, (m = n /\ n < k) \/ (m = n + 1 /\ n >= k - 1),
         NEW u, NEW v, Under(q, u, m, v)
  PROVE  Under(r, u, n, v)
  <1> DEFINE f(i) == IF i < k THEN i ELSE i + 1
  <1>1. ASSUME NEW i \in 1..n PROVE f(i) \in 1..m /\ r[i] = q[f(i)]
    OBVIOUS
  <1>2. \A i, j \in 1..n : i < j <=> f(i) < f(j)
    OBVIOUS
  <1>3. ASSUME NEW j \in 1..m, j # k PROVE \E i \in 1..n : f(i) = j
    <2>1. CASE j < k
      <3>1. j \in 1..n /\ f(j) = j
        BY <2>1
      <3>2. QED
        BY <3>1
    <2>2. CASE j > k
      <3>1. j - 1 \in 1..n /\ f(j - 1) = j
        BY <2>2
      <3>2. QED
        BY <3>1
    <2>3. QED
      BY <1>3, <2>1, <2>2
  <1> HIDE DEF f
  <1>4. CASE v = u /\ Quiet(q, m)
    BY <1>1, <1>4 DEF Under, Quiet
  <1>5. ASSUME NEW j \in 1..m, Change(q[j]), q[j].user = v,
               \A i \in 1..m : j < i => ~Change(q[i])
        PROVE  Under(r, u, n, v)
    <2>1. PICK i \in 1..n : f(i) = j
      BY <1>3, <1>5
    <2>2. Change(r[i]) /\ r[i].user = v
      BY <1>1, <1>5, <2>1
    <2>3. \A h \in 1..n : i < h => ~Change(r[h])
      BY <1>1, <1>2, <1>5, <2>1
    <2>4. QED
      BY <2>2, <2>3 DEF Under
  <1>6. QED
    BY <1>4, <1>5 DEF Under

LEMMA TokenNoChange ==
  ASSUME NEW e, IsToken(e)
  PROVE  ~Change(e) /\ e.op # "write"
  BY DEF IsToken, Change

----------------------------------------------------------------------------
(* The users of a queue, when its head is taken, when its token is taken   *)
(* out, and when an item is added.                                         *)

LEMMA UsersTail ==
  ASSUME NEW S, NEW q \in Seq(S), q # <<>>, NEW u, NEW v, NEW o,
         Under(q, u, Len(q), v)
  PROVE  LET w == IF Change(Head(q)) THEN Head(q).user ELSE u
         IN  /\ Under(Tail(q), w, Len(Tail(q)), v)
             /\ Made(q, u, o) => Made(Tail(q), w, o)
  <1>1. /\ Len(q) \in Nat \ {0} /\ Len(Tail(q)) = Len(q) - 1
        /\ \A i \in 1..Len(q) - 1 : Tail(q)[i] = q[i + 1]
    BY TailIs
  <1> DEFINE w == IF Change(Head(q)) THEN Head(q).user ELSE u
  <1>2. \A n \in 0..Len(q) - 1 : \A z : Under(q, u, n + 1, z) => Under(Tail(q), w, n, z)
    BY UnderTail
  <1> HIDE DEF w
  <1>3. Under(Tail(q), w, Len(Tail(q)), v)
    <2>1. Len(q) - 1 \in 0..Len(q) - 1 /\ (Len(q) - 1) + 1 = Len(q)
      BY <1>1
    <2>2. Under(q, u, (Len(q) - 1) + 1, v)
      BY <2>1
    <2>3. QED
      BY <1>1, <1>2, <2>1, <2>2
  <1>4. ASSUME Made(q, u, o) PROVE Made(Tail(q), w, o)
    <2>1. ASSUME NEW i \in 1..Len(Tail(q)), Tail(q)[i].op = "write"
          PROVE  Under(Tail(q), w, i - 1, o[Tail(q)[i].batch])
      <3>1. /\ i + 1 \in 1..Len(q) /\ Tail(q)[i] = q[i + 1] /\ (i + 1) - 1 = (i - 1) + 1
            /\ i - 1 \in 0..Len(q) - 1
        BY <1>1
      <3>2. Under(q, u, (i + 1) - 1, o[q[i + 1].batch])
        BY <1>4, <2>1, <3>1 DEF Made
      <3>3. QED
        BY <1>2, <3>1, <3>2
    <2>2. QED
      BY <2>1 DEF Made
  <1>5. QED
    BY <1>3, <1>4 DEF w

LEMMA UsersVoid ==
  ASSUME NEW S, NEW q \in Seq(S), OneToken(q), NEW u, NEW v, NEW o,
         Under(q, u, Len(q), v)
  PROVE  /\ Under(Void(q), u, Len(Void(q)), v)
         /\ Made(q, u, o) => Made(Void(q), u, o)
  <1> DEFINE r == Void(q)
  <1>1. Len(q) \in Nat
    BY LenProperties
  <1>2. CASE r = q
    BY <1>2
  <1>3. ASSUME NEW k \in 1..Len(q), IsToken(q[k]), Len(r) = Len(q) - 1,
               \A i \in 1..Len(q) - 1 : r[i] = IF i < k THEN q[i] ELSE q[i + 1]
        PROVE  Under(r, u, Len(r), v) /\ (Made(q, u, o) => Made(r, u, o))
    <2> HIDE DEF r
    <2>1. ~Change(q[k])
      BY <1>3, TokenNoChange
    <2>2. ASSUME NEW n \in 0..Len(q) - 1, NEW m \in 0..Len(q),
                 (m = n /\ n < k) \/ (m = n + 1 /\ n >= k - 1), NEW z, Under(q, u, m, z)
          PROVE  Under(r, u, n, z)
      <3> DEFINE l == Len(q)
      <3>1. /\ l \in Nat /\ k \in 1..l /\ n \in 0..l - 1 /\ m \in 0..l
            /\ \A i \in 1..l - 1 : r[i] = IF i < k THEN q[i] ELSE q[i + 1]
        BY <1>1, <1>3
      <3> HIDE DEF l
      <3>2. QED
        BY <2>1, <2>2, <3>1, UnderLess
    <2>3. Under(r, u, Len(r), v)
      <3> DEFINE n == Len(q) - 1
      <3>1. n \in 0..Len(q) - 1 /\ Len(q) \in 0..Len(q) /\ Len(q) = n + 1 /\ n >= k - 1
        BY <1>1
      <3> HIDE DEF n
      <3>2. Under(r, u, n, v)
        BY <2>2, <3>1
      <3>3. QED
        BY <1>3, <3>2 DEF n
    <2>4. ASSUME Made(q, u, o) PROVE Made(r, u, o)
      <3>1. ASSUME NEW i \in 1..Len(r), r[i].op = "write"
            PROVE  Under(r, u, i - 1, o[r[i].batch])
        <4> DEFINE n == i - 1
        <4>1. n \in 0..Len(q) - 1 /\ i = n + 1
          BY <1>1, <1>3
        <4> HIDE DEF n
        <4>2. CASE i < k
          <5>1. r[i] = q[i] /\ i \in 1..Len(q) /\ n < k /\ n \in 0..Len(q)
            BY <1>1, <1>3, <4>1, <4>2
          <5>2. Under(q, u, i - 1, o[q[i].batch])
            BY <2>4, <3>1, <5>1 DEF Made
          <5>3. Under(q, u, n, o[r[i].batch])
            BY <5>1, <5>2 DEF n
          <5>4. Under(r, u, n, o[r[i].batch])
            BY <2>2, <4>1, <5>1, <5>3
          <5>5. QED
            BY <5>4 DEF n
        <4>3. CASE ~(i < k)
          <5>1. /\ r[i] = q[i + 1] /\ i + 1 \in 1..Len(q) /\ n >= k - 1 /\ n + 1 \in 0..Len(q)
                /\ (i + 1) - 1 = n + 1
            BY <1>1, <1>3, <4>1, <4>3
          <5>2. Under(q, u, (i + 1) - 1, o[q[i + 1].batch])
            BY <2>4, <3>1, <5>1 DEF Made
          <5>3. Under(q, u, n + 1, o[r[i].batch])
            BY <5>1, <5>2
          <5>4. Under(r, u, n, o[r[i].batch])
            BY <2>2, <4>1, <5>1, <5>3
          <5>5. QED
            BY <5>4 DEF n
        <4>4. QED
          BY <4>2, <4>3
      <3>2. QED
        BY <3>1 DEF Made
    <2>5. QED
      BY <2>3, <2>4
  <1>4. QED
    BY <1>2, <1>3, VoidIs

LEMMA UsersAppend ==
  ASSUME NEW S, NEW q \in Seq(S), NEW e \in S, NEW u, NEW v, NEW o,
         Under(q, u, Len(q), v)
  PROVE  LET r == Append(q, e)
         IN  /\ Under(r, u, Len(r), IF Change(e) THEN e.user ELSE v)
             /\ Made(q, u, o) /\ (e.op = "write" => o[e.batch] = v) => Made(r, u, o)
  <1> DEFINE r == Append(q, e)
  <1>1. /\ Len(q) \in Nat /\ Len(r) = Len(q) + 1
        /\ \A i \in 1..Len(q) : r[i] = q[i]
        /\ r[Len(q) + 1] = e
    BY AppendProperties, LenProperties
  <1> HIDE DEF r
  <1>2. \A n \in 0..Len(q) : \A z : Under(q, u, n, z) => Under(r, u, n, z)
    <2>1. ASSUME NEW n \in 0..Len(q)
          PROVE  \A z : Under(q, u, n, z) => Under(r, u, n, z)
      <3>1. n \in Nat /\ \A k \in 1..n : r[k] = q[k]
        BY <1>1
      <3>2. QED
        BY <3>1, UnderSame
    <2>2. QED
      BY <2>1
  <1>3. Under(r, u, Len(q), v)
    BY <1>1, <1>2
  <1>4. Under(r, u, Len(r), IF Change(e) THEN e.user ELSE v)
    BY <1>1, <1>3, UnderNext
  <1>5. ASSUME Made(q, u, o), e.op = "write" => o[e.batch] = v
        PROVE  Made(r, u, o)
    <2>1. ASSUME NEW i \in 1..Len(r), r[i].op = "write"
          PROVE  Under(r, u, i - 1, o[r[i].batch])
      <3>1. CASE i \in 1..Len(q)
        <4>1. r[i] = q[i] /\ i - 1 \in 0..Len(q)
          BY <1>1, <3>1
        <4>2. Under(q, u, i - 1, o[q[i].batch])
          BY <1>5, <2>1, <3>1, <4>1 DEF Made
        <4>3. QED
          BY <1>2, <4>1, <4>2
      <3>2. CASE i = Len(q) + 1
        <4>1. r[i] = e /\ i - 1 = Len(q) /\ o[e.batch] = v
          BY <1>1, <1>5, <2>1, <3>2
        <4>2. QED
          BY <1>3, <4>1
      <3>3. QED
        BY <1>1, <3>1, <3>2
    <2>2. QED
      BY <2>1 DEF Made
  <1>6. QED
    BY <1>4, <1>5 DEF r

----------------------------------------------------------------------------
(* The notifications under way to the provider, and to the worker, lead to *)
(* the user of Auth and to the user of the provider.                       *)

UsersInv ==
  /\ Under(workerQ, user, Len(workerQ), provider) /\ Made(workerQ, user, by)
  /\ Under(mainQ, provider, Len(mainQ), authUser)

LEMMA UsersStep ==
  ASSUME Core, UsersInv, [Next]_vars
  PROVE  UsersInv'
  <1>1. /\ mainQ \in Seq(MainItem) /\ workerQ \in Seq(WorkerItem)
        /\ OneToken(mainQ) /\ OneToken(workerQ) /\ QueueInv
        /\ authUser \in Owners /\ by \in Seq(Owners)
    BY DEF Core, TypeOK, TokenInv
  <1>2. /\ Under(workerQ, user, Len(workerQ), provider) /\ Made(workerQ, user, by)
        /\ Under(mainQ, provider, Len(mainQ), authUser)
    BY DEF UsersInv
  <1>3. UsersInv' <=>
          /\ Under(workerQ', user', Len(workerQ'), provider') /\ Made(workerQ', user', by')
          /\ Under(mainQ', provider', Len(mainQ'), authUser')
    BY DEF UsersInv
  <1>4. /\ Under(Void(mainQ), provider, Len(Void(mainQ)), authUser)
        /\ Under(Void(workerQ), user, Len(Void(workerQ)), provider)
        /\ Made(Void(workerQ), user, by)
    BY <1>1, <1>2, UsersVoid
  \* The worker takes an item that changes no user.
  <1>5. ASSUME workerQ # <<>>, ~Change(Head(workerQ))
        PROVE  /\ Under(Tail(workerQ), user, Len(Tail(workerQ)), provider)
               /\ Made(Tail(workerQ), user, by)
    BY <1>1, <1>2, <1>5, UsersTail
  \* It gets one.
  <1>6. ASSUME NEW e \in WorkerItem
        PROVE  LET r == Append(workerQ, e)
               IN  /\ Under(r, user, Len(r), IF Change(e) THEN e.user ELSE provider)
                   /\ \A o : /\ Made(workerQ, user, o)
                             /\ e.op = "write" => o[e.batch] = provider
                             => Made(r, user, o)
    BY <1>1, <1>2, UsersAppend
  <1>7. CASE UNCHANGED <<workerQ, mainQ, user, provider, authUser, by>>
    BY <1>2, <1>3, <1>7
  <1>8. UNCHANGED vars \/ MutationResult \/ FetchToken =>
          UNCHANGED <<workerQ, mainQ, user, provider, authUser, by>>
    BY DEF vars, MutationResult, FetchToken, authVars
  <1>9. CASE WriteMutations
    <2>1. /\ workerQ # <<>> /\ ~Change(Head(workerQ)) /\ workerQ' = Tail(workerQ)
          /\ UNCHANGED <<mainQ, user, provider, authUser, by>>
      BY <1>9 DEF WriteMutations, Takes, Change, authVars
    <2>2. QED
      BY <1>2, <1>3, <1>5, <2>1
  <1>10. CASE StreamStep
    <2>1. CASE ResumeStart /\ Head(workerQ).ok
      <3>1. /\ workerQ # <<>> /\ ~Change(Head(workerQ)) /\ workerQ' = Tail(workerQ)
            /\ UNCHANGED <<mainQ, user, provider, authUser, by>>
        BY <2>1 DEF ResumeStart, Takes, Change, authVars
      <3>2. QED
        BY <1>2, <1>3, <1>5, <3>1
    <2>2. CASE \/ HandshakeComplete \/ BackoffElapsed \/ IdleTimeout
                \/ AcceptStream \/ Apply \/ Refuse
      BY <1>7, <2>2
         DEF HandshakeComplete, BackoffElapsed, IdleTimeout, AcceptStream, Apply,
             Refuse, authVars
    <2>3. QED
      BY <1>10, <2>1, <2>2 DEF StreamStep
  <1>11. CASE Losing
    <2>1. CASE HandleCredentialChange
      <3> DEFINE t == Tail(workerQ)
                 w == Head(workerQ).user
      <3>1. /\ workerQ # <<>> /\ Change(Head(workerQ)) /\ workerQ' = Void(t)
            /\ user' = w /\ Reconnect(user')
            /\ UNCHANGED <<provider, authUser, by>>
        BY <2>1 DEF HandleCredentialChange, Takes, Change, authVars
      <3>2. mainQ' = Void(mainQ)
        BY <3>1 DEF Reconnect, Ended
      <3>3. Under(t, w, Len(t), provider) /\ Made(t, w, by)
        BY <1>1, <1>2, <3>1, UsersTail
      <3>4. t \in Seq(WorkerItem) /\ OneToken(t)
        BY <1>1, <3>1, TailIs, TokensTail
      <3> HIDE DEF t, w
      <3>5. Under(Void(t), w, Len(Void(t)), provider) /\ Made(Void(t), w, by)
        BY <3>3, <3>4, UsersVoid
      <3>6. QED
        BY <1>3, <1>4, <3>1, <3>2, <3>5
    <2>2. CASE ResumeStart /\ ~Head(workerQ).ok
      <3>1. /\ workerQ # <<>> /\ ~Change(Head(workerQ)) /\ workerQ' = Tail(workerQ)
            /\ CloseStream("transient")
            /\ UNCHANGED <<user, provider, authUser, by>>
        BY <2>2 DEF ResumeStart, Takes, Change, authVars
      <3>2. mainQ' = Void(mainQ)
        BY <3>1, CloseEffect
      <3>3. QED
        BY <1>3, <1>4, <1>5, <3>1, <3>2
    <2>3. ASSUME NEW status, StreamEnds(status)
          PROVE  UsersInv'
      <3>1. /\ CloseStream(status) /\ workerQ' = Void(workerQ)
            /\ UNCHANGED <<user, provider, authUser, by>>
        BY <2>3 DEF StreamEnds, authVars
      <3>2. mainQ' = Void(mainQ)
        BY <3>1, CloseEffect
      <3>3. QED
        BY <1>3, <1>4, <3>1, <3>2
    <2>4. CASE RestartNetwork
      <3>1. /\ Reconnect(user) /\ workerQ' = Void(workerQ)
            /\ UNCHANGED <<user, provider, authUser, by>>
        BY <2>4 DEF RestartNetwork, authVars
      <3>2. mainQ' = Void(mainQ)
        BY <3>1 DEF Reconnect, Ended
      <3>3. QED
        BY <1>3, <1>4, <3>1, <3>2
    <2>5. ASSUME NEW p \in Owners, NEW told \in BOOLEAN, Relaunch(p, told)
          PROVE  UsersInv'
      <3>1. /\ p = authUser \/ ~told
            /\ provider' = p /\ authUser' = authUser
            /\ mainQ' = IF told THEN <<>> ELSE <<Notify(authUser)>>
            /\ workerQ' = <<Credentials(p)>>
        BY <2>5 DEF Relaunch, Launched
      <3>2. Under(<<Credentials(p)>>, user', 1, p)
        BY DEF Under, Change, Credentials
      <3>3. Made(<<Credentials(p)>>, user', by')
        BY DEF Made, Credentials
      <3>4. CASE told
        <4>1. Under(<<>>, p, 0, authUser)
          BY <3>1, <3>4 DEF Under, Quiet
        <4>2. QED
          BY <1>3, <3>1, <3>2, <3>3, <3>4, <4>1
      <3>5. CASE ~told
        <4>1. Under(<<Notify(authUser)>>, p, 1, authUser)
          BY DEF Under, Change, Notify
        <4>2. QED
          BY <1>3, <3>1, <3>2, <3>3, <3>5, <4>1
      <3>6. QED
        BY <3>4, <3>5
    <2>6. QED
      BY <1>11, <2>1, <2>2, <2>3, <2>4, <2>5
         DEF Losing, WriteRefused, HandshakeRefused, StreamBreaks
  <1>12. CASE ApartStep /\ ~FetchToken
    <2>1. ASSUME NEW u \in Owners, AuthChanges(u)
          PROVE  UsersInv'
      <3>1. /\ mainQ' = Append(mainQ, Notify(u)) /\ authUser' = u
            /\ UNCHANGED <<workerQ, user, provider, by>>
        BY <2>1 DEF AuthChanges
      <3>2. Notify(u) \in MainItem /\ Change(Notify(u)) /\ Notify(u).user = u
        BY ItemTypes DEF Notify, Change
      <3>3. Under(mainQ', provider, Len(mainQ'), u)
        BY <1>1, <1>2, <3>1, <3>2, UsersAppend
      <3>4. QED
        BY <1>2, <1>3, <3>1, <3>3
    <2>2. ASSUME NEW ok \in BOOLEAN, PostToken(ok)
          PROVE  UsersInv'
      <3> DEFINE e == Token(token.user, ok)
      <3>1. /\ mainQ' = Append(mainQ, e)
            /\ UNCHANGED <<workerQ, user, provider, authUser, by>>
        BY <2>2 DEF PostToken, authVars
      <3>2. e \in MainItem /\ ~Change(e)
        BY ItemTypes DEF Token, Change, Core, TypeOK
      <3> HIDE DEF e
      <3>3. Under(mainQ', provider, Len(mainQ'), authUser)
        BY <1>1, <1>2, <3>1, <3>2, UsersAppend
      <3>4. QED
        BY <1>2, <1>3, <3>1, <3>3
    <2>3. CASE AuthStateDidChange
      <3> DEFINE w == Head(mainQ).user
                 e == Credentials(w)
      <3>1. /\ mainQ # <<>> /\ Change(Head(mainQ)) /\ mainQ' = Tail(mainQ) /\ provider' = w
            /\ workerQ' = Append(workerQ, e)
            /\ UNCHANGED <<user, authUser, by>>
        BY <2>3 DEF AuthStateDidChange, Change
      <3>2. e \in WorkerItem /\ Change(e) /\ e.user = w /\ e.op # "write"
        BY <3>1, MainHead, ItemTypes DEF Core, Credentials, Change
      <3>3. Under(Tail(mainQ), w, Len(Tail(mainQ)), authUser)
        BY <1>1, <1>2, <3>1, UsersTail
      <3> HIDE DEF e, w
      <3>4. Under(workerQ', user, Len(workerQ'), w) /\ Made(workerQ', user, by)
        BY <1>2, <1>6, <3>1, <3>2
      <3>5. QED
        BY <1>3, <3>1, <3>3, <3>4
    <2>4. CASE GotToken
      <3> DEFINE e == Resume(Head(mainQ).user, Head(mainQ).ok)
      <3>1. /\ mainQ # <<>> /\ ~Change(Head(mainQ)) /\ mainQ' = Tail(mainQ)
            /\ workerQ' = Append(workerQ, e) \/ workerQ' = workerQ
            /\ UNCHANGED <<user, provider, authUser, by>>
        BY <2>4 DEF GotToken, Change, authVars
      <3>2. e \in WorkerItem /\ ~Change(e) /\ e.op # "write"
        <4>1. Head(mainQ).user \in Owners /\ Head(mainQ).ok \in BOOLEAN
          BY <3>1, MainHead DEF Core
        <4>2. QED
          BY <4>1, ItemTypes DEF Resume, Change
      <3>3. Under(Tail(mainQ), provider, Len(Tail(mainQ)), authUser)
        BY <1>1, <1>2, <3>1, UsersTail
      <3> HIDE DEF e
      <3>4. Under(workerQ', user, Len(workerQ'), provider) /\ Made(workerQ', user, by)
        BY <1>2, <1>6, <3>1, <3>2
      <3>5. QED
        BY <1>3, <3>1, <3>3, <3>4
    <2>5. CASE Write
      <3> DEFINE e == Mutate(Len(by) + 1)
      <3>1. /\ by' = Append(by, provider) /\ workerQ' = Append(workerQ, e) /\ Len(by) < MaxWrites
            /\ UNCHANGED <<mainQ, user, provider, authUser>>
        BY <2>5 DEF Write, authVars
      <3>2. e \in WorkerItem /\ ~Change(e) /\ e.batch = Len(by) + 1
        <4>1. Len(by) \in Nat
          BY <1>1, LenProperties
        <4>2. Len(by) + 1 \in Batches
          BY <3>1, <4>1, BatchesAreNumbers DEF Batches
        <4>3. QED
          BY <4>2, AnswerTypes DEF Mutate, Change
      <3> HIDE DEF e
      <3>3. by'[Len(by) + 1] = provider /\ \A b \in 1..Len(by) : by'[b] = by[b]
        <4>1. provider \in Owners
          BY DEF Core, TypeOK
        <4>2. QED
          BY <1>1, <3>1, <4>1, AppendProperties
      <3>4. Made(workerQ, user, by')
        BY <1>1, <1>2, <3>3 DEF Made, QueueInv, Writes
      <3>5. Under(workerQ', user, Len(workerQ'), provider) /\ Made(workerQ', user, by')
        BY <1>6, <3>1, <3>2, <3>3, <3>4
      <3>6. QED
        BY <1>2, <1>3, <3>1, <3>5
    <2>6. QED
      BY <1>12, <2>1, <2>2, <2>3, <2>4, <2>5 DEF ApartStep
  <1>13. QED
    BY <1>7, <1>8, <1>9, <1>10, <1>11, <1>12, StepKinds

----------------------------------------------------------------------------
(* A user's queue holds what that user made.                               *)

OwnersInv == \A u \in Owners : \A i \in 1..Len(queue[u]) : by[queue[u][i]] = u

LEMMA OwnersStep ==
  ASSUME Core, UsersInv, OwnersInv, [Next]_vars
  PROVE  OwnersInv'
  <1>1. /\ queue \in [Owners -> Seq(Batches)] /\ user \in Owners /\ by \in Seq(Owners)
        /\ provider \in Owners /\ QueueInv
    BY DEF Core, TypeOK
  <1>2. ASSUME queue' = queue \/ QueuePopped, by' = by
        PROVE  OwnersInv'
    BY <1>2, QueueLess DEF OwnersInv
  <1>3. CASE Write
    <2>1. queue' = queue /\ by' = Append(by, provider)
      BY <1>3 DEF Write, diskVars
    <2>2. \A b \in 1..Len(by) : by'[b] = by[b]
      BY <1>1, <2>1, AppendProperties
    <2>3. QED
      BY <1>1, <2>1, <2>2 DEF OwnersInv, QueueInv
  <1>4. CASE WriteMutations
    <2> DEFINE b == Head(workerQ).batch
               q == Append(queue[user], b)
    <2>1. /\ workerQ # <<>> /\ Head(workerQ).op = "write" /\ by' = by
      BY <1>4 DEF WriteMutations, Takes
    <2>2. b \in Batches /\ queue' = [queue EXCEPT ![user] = q] /\ queue'[user] = q
      BY <1>4, WriteTaken
    <2>3. by[b] = user
      <3>1. Len(workerQ) \in Nat \ {0} /\ Head(workerQ) = workerQ[1]
        BY <2>1, TailIs DEF Core, TypeOK
      <3>2. 1 \in 1..Len(workerQ) /\ 1 - 1 = 0
        BY <3>1
      <3>3. Under(workerQ, user, 0, by[b])
        BY <2>1, <3>1, <3>2 DEF UsersInv, Made
      <3>4. QED
        BY <3>3 DEF Under
    <2>4. \A i \in 1..Len(q) : q[i] = b \/ \E k \in 1..Len(queue[user]) : q[i] = queue[user][k]
      <3>1. queue[user] \in Seq(Batches)
        BY <1>1
      <3>2. QED
        BY <2>2, <3>1, AppendProperties, LenProperties
    <2> HIDE DEF b, q
    <2>5. ASSUME NEW u \in Owners, NEW i \in 1..Len(queue'[u])
          PROVE  by'[queue'[u][i]] = u
      <3>1. CASE u = user
        BY <1>1, <2>1, <2>2, <2>3, <2>4, <2>5, <3>1 DEF OwnersInv
      <3>2. CASE u # user
        <4>1. queue'[u] = queue[u]
          BY <2>2, <3>2
        <4>2. QED
          BY <2>1, <2>5, <4>1 DEF OwnersInv
      <3>3. QED
        BY <3>1, <3>2
    <2>6. QED
      BY <2>5 DEF OwnersInv
  <1>5. CASE ApartStep /\ ~Write
    <2>1. by' = by
      BY <1>5 DEF ApartStep, AuthChanges, FetchToken, PostToken, AuthStateDidChange, GotToken
    <2>2. QED
      BY <1>2, <1>5, <2>1, ApartIs
  <1>6. CASE MutationResult
    <2>1. by' = by
      BY <1>6 DEF MutationResult
    <2>2. QED
      BY <1>2, <1>6, <2>1, ResultTaken DEF QueuePopped
  <1>7. CASE Losing
    BY <1>2, <1>7, LosingEffect
  <1>8. CASE StreamStep
    BY <1>2, <1>8, StreamStepIs
  <1>9. CASE UNCHANGED vars
    BY <1>2, <1>9 DEF vars, diskVars
  <1>10. QED
    BY <1>3, <1>4, <1>5, <1>6, <1>7, <1>8, <1>9, StepKinds

\* So the pipeline's batches are the current user's.
LEMMA PipelineOwned ==
  ASSUME Core, OwnersInv
  PROVE  \A i \in 1..Len(pipeline) : pipeline[i] \in Batches /\ by[pipeline[i]] = user
                                     /\ i \in 1..Len(queue[user]) /\ pipeline[i] = queue[user][i]
  <1>1. /\ queue[user] \in Seq(Batches) /\ pipeline \in Seq(Batches) /\ user \in Owners
        /\ Heads(pipeline, queue[user]) /\ Len(pipeline) \in Nat /\ Len(queue[user]) \in Nat
    BY LenProperties DEF Core, TypeOK
  <1>2. Len(pipeline) <= Len(queue[user]) /\ \A i \in 1..Len(pipeline) : pipeline[i] = queue[user][i]
    BY <1>1, HeadsIs
  <1>3. QED
    BY <1>1, <1>2, ElementOfSeq DEF OwnersInv

----------------------------------------------------------------------------
(* The stream is opened with the credentials of the user whose batches it  *)
(* carries.                                                                *)

\* A token under way is the user's who will be there when it comes, unless a
\* change of the user comes before it.
CredentialsInv ==
  /\ \A i \in 1..Len(workerQ) :
       workerQ[i].op = "resume" /\ Quiet(workerQ, i - 1) => workerQ[i].user = user
  /\ token.at = "fetching" /\ token.fresh /\ Quiet(mainQ, Len(mainQ)) => token.user = provider
  /\ \A i \in 1..Len(mainQ) :
       mainQ[i].op = "token" /\ token.fresh /\ Quiet(mainQ, i - 1) => mainQ[i].user = provider
  /\ stream.state = "open" => stream.user = user

LEMMA QuietUnder ==
  ASSUME NEW q, NEW u, NEW n \in Nat, NEW v, Under(q, u, n, v), Quiet(q, n)
  PROVE  v = u
  BY DEF Under, Quiet

\* Items of a queue that loses its head, no change, or gets an item.
LEMMA QuietMoves ==
  ASSUME NEW S, NEW q \in Seq(S)
  PROVE  /\ q # <<>> /\ ~Change(Head(q)) =>
              \A i \in 1..Len(Tail(q)) :
                /\ i + 1 \in 1..Len(q) /\ Tail(q)[i] = q[i + 1]
                /\ Quiet(Tail(q), i - 1) => Quiet(q, (i + 1) - 1)
         /\ q # <<>> /\ ~Change(Head(q)) => (Quiet(Tail(q), Len(Tail(q))) => Quiet(q, Len(q)))
         /\ \A e \in S :
              /\ \A i \in 1..Len(q) : /\ Append(q, e)[i] = q[i]
                                      /\ Quiet(Append(q, e), i - 1) => Quiet(q, i - 1)
              /\ Len(Append(q, e)) = Len(q) + 1 /\ Append(q, e)[Len(q) + 1] = e
              /\ Quiet(Append(q, e), Len(q)) => Quiet(q, Len(q))
              /\ Quiet(Append(q, e), Len(q) + 1) => Quiet(q, Len(q)) /\ ~Change(e)
  <1>1. Len(q) \in Nat
    BY LenProperties
  <1>2. ASSUME q # <<>>, ~Change(Head(q))
        PROVE  /\ \A i \in 1..Len(Tail(q)) :
                    /\ i + 1 \in 1..Len(q) /\ Tail(q)[i] = q[i + 1]
                    /\ Quiet(Tail(q), i - 1) => Quiet(q, (i + 1) - 1)
               /\ Quiet(Tail(q), Len(Tail(q))) => Quiet(q, Len(q))
    <2>1. /\ Len(q) \in Nat \ {0} /\ Head(q) = q[1] /\ Len(Tail(q)) = Len(q) - 1
          /\ \A i \in 1..Len(q) - 1 : Tail(q)[i] = q[i + 1]
      BY <1>2, TailIs
    <2>2. ASSUME NEW n \in 0..Len(q) - 1, Quiet(Tail(q), n) PROVE Quiet(q, n + 1)
      <3>1. ASSUME NEW k \in 1..n + 1 PROVE ~Change(q[k])
        <4>1. CASE k = 1
          BY <1>2, <2>1, <4>1
        <4>2. CASE k # 1
          <5>1. k - 1 \in 1..n /\ (k - 1) + 1 = k /\ k - 1 \in 1..Len(q) - 1
            BY <2>1, <4>2
          <5>2. ~Change(Tail(q)[k - 1]) /\ Tail(q)[k - 1] = q[(k - 1) + 1]
            BY <2>1, <2>2, <5>1 DEF Quiet
          <5>3. QED
            BY <5>1, <5>2
        <4>3. QED
          BY <4>1, <4>2
      <3>2. QED
        BY <3>1 DEF Quiet
    <2>3. ASSUME NEW i \in 1..Len(Tail(q))
          PROVE  /\ i + 1 \in 1..Len(q) /\ Tail(q)[i] = q[i + 1]
                 /\ Quiet(Tail(q), i - 1) => Quiet(q, (i + 1) - 1)
      <3>1. i - 1 \in 0..Len(q) - 1 /\ (i - 1) + 1 = (i + 1) - 1 /\ i + 1 \in 1..Len(q)
        BY <2>1
      <3>2. Quiet(Tail(q), i - 1) => Quiet(q, (i - 1) + 1)
        BY <2>2, <3>1
      <3>3. QED
        BY <2>1, <3>1, <3>2
    <2>4. Quiet(Tail(q), Len(Tail(q))) => Quiet(q, Len(q))
      <3>1. Len(q) - 1 \in 0..Len(q) - 1 /\ (Len(q) - 1) + 1 = Len(q)
        BY <2>1
      <3>2. Quiet(Tail(q), Len(q) - 1) => Quiet(q, (Len(q) - 1) + 1)
        BY <2>2, <3>1
      <3>3. QED
        BY <2>1, <3>1, <3>2
    <2>5. QED
      BY <2>3, <2>4
  <1>3. ASSUME NEW e \in S
        PROVE  /\ \A i \in 1..Len(q) : /\ Append(q, e)[i] = q[i]
                                       /\ Quiet(Append(q, e), i - 1) => Quiet(q, i - 1)
               /\ Len(Append(q, e)) = Len(q) + 1 /\ Append(q, e)[Len(q) + 1] = e
               /\ Quiet(Append(q, e), Len(q)) => Quiet(q, Len(q))
               /\ Quiet(Append(q, e), Len(q) + 1) => Quiet(q, Len(q)) /\ ~Change(e)
    <2>1. /\ Len(Append(q, e)) = Len(q) + 1
          /\ \A i \in 1..Len(q) : Append(q, e)[i] = q[i]
          /\ Append(q, e)[Len(q) + 1] = e
      BY AppendProperties
    <2>2. QED
      BY <1>1, <2>1 DEF Quiet
  <1>4. QED
    BY <1>2, <1>3

LEMMA CredentialsStep ==
  ASSUME Core, UsersInv, CredentialsInv, [Next]_vars
  PROVE  CredentialsInv'
  <1>1. /\ mainQ \in Seq(MainItem) /\ workerQ \in Seq(WorkerItem)
        /\ token \in TokenType /\ stream \in StreamType
        /\ Len(mainQ) \in Nat /\ Len(workerQ) \in Nat
    BY FillTypes, LenProperties DEF Core, TypeOK
  <1>2. /\ \A i \in 1..Len(workerQ) :
             workerQ[i].op = "resume" /\ Quiet(workerQ, i - 1) => workerQ[i].user = user
        /\ token.at = "fetching" /\ token.fresh /\ Quiet(mainQ, Len(mainQ)) =>
             token.user = provider
        /\ \A i \in 1..Len(mainQ) :
             mainQ[i].op = "token" /\ token.fresh /\ Quiet(mainQ, i - 1) =>
               mainQ[i].user = provider
        /\ stream.state = "open" => stream.user = user
    BY DEF CredentialsInv
  <1>3. ASSUME NEW q, NoToken(q)
        PROVE  \A i \in 1..Len(q) : q[i].op # "resume" /\ q[i].op # "token"
    BY <1>3 DEF NoToken, IsToken
  \* The worker takes an item that is no change, or gets one that is no token.
  <1>4. ASSUME workerQ # <<>>, ~Change(Head(workerQ)),
               NEW i \in 1..Len(Tail(workerQ)), Tail(workerQ)[i].op = "resume",
               Quiet(Tail(workerQ), i - 1)
        PROVE  Tail(workerQ)[i].user = user
    <2>1. /\ i + 1 \in 1..Len(workerQ) /\ Tail(workerQ)[i] = workerQ[i + 1]
          /\ Quiet(workerQ, (i + 1) - 1)
      BY <1>1, <1>4, QuietMoves
    <2>2. QED
      BY <1>2, <1>4, <2>1
  <1>5. ASSUME NEW e \in WorkerItem,
               e.op = "resume" /\ Quiet(workerQ, Len(workerQ)) => e.user = user,
               NEW i \in 1..Len(Append(workerQ, e)), Append(workerQ, e)[i].op = "resume",
               Quiet(Append(workerQ, e), i - 1)
        PROVE  Append(workerQ, e)[i].user = user
    <2> DEFINE r == Append(workerQ, e)
    <2>1. /\ \A k \in 1..Len(workerQ) : /\ r[k] = workerQ[k]
                                        /\ Quiet(r, k - 1) => Quiet(workerQ, k - 1)
          /\ Len(r) = Len(workerQ) + 1 /\ r[Len(workerQ) + 1] = e
          /\ Quiet(r, Len(workerQ)) => Quiet(workerQ, Len(workerQ))
      BY <1>1, QuietMoves
    <2> HIDE DEF r
    <2>2. r[i].op = "resume" /\ Quiet(r, i - 1) /\ i \in 1..Len(r)
      BY <1>5 DEF r
    <2>3. CASE i \in 1..Len(workerQ)
      BY <1>2, <2>1, <2>2, <2>3 DEF r
    <2>4. CASE i = Len(workerQ) + 1
      <3>1. i - 1 = Len(workerQ) /\ r[i] = e
        BY <1>1, <2>1, <2>4
      <3>2. QED
        BY <1>5, <2>1, <2>2, <3>1 DEF r
    <2>5. QED
      BY <1>1, <2>1, <2>2, <2>3, <2>4
  <1>6. CASE UNCHANGED <<workerQ, token, mainQ, provider, user, stream>>
    BY <1>2, <1>6 DEF CredentialsInv
  <1>7. UNCHANGED vars => UNCHANGED <<workerQ, token, mainQ, provider, user, stream>>
    BY DEF vars, streamVars
  <1>8. CASE Losing
    <2>1. Over /\ NoToken(workerQ')
      BY <1>8, LosingEffect, KeptType
    <2>2. QED
      BY <1>3, <2>1 DEF Over, CredentialsInv
  <1>9. CASE WriteMutations \/ MutationResult
    <2>1. PICK news \in Seq(Batches) : IF stream.state = "open" THEN SendsOn(news) ELSE Starts
      BY <1>9, FillingEffect
    <2>2. user' = user /\ stream'.user = stream.user /\ mainQ' = mainQ /\ provider' = provider
      BY <1>9, FillingEffect DEF WriteMutations, MutationResult, authVars
    <2>3. /\ stream'.state = "open" => stream.state = "open"
          /\ token' = token \/ token' = Requested
      BY <2>1 DEF SendsOn, Starts
    <2>4. \/ workerQ' = workerQ
          \/ workerQ # <<>> /\ ~Change(Head(workerQ)) /\ workerQ' = Tail(workerQ)
      BY <1>9 DEF WriteMutations, MutationResult, Takes, Change
    <2>5. \A i \in 1..Len(workerQ') :
             workerQ'[i].op = "resume" /\ Quiet(workerQ', i - 1) => workerQ'[i].user = user
      BY <1>2, <1>4, <2>4
    <2>6. CASE token' = token
      BY <1>2, <2>2, <2>3, <2>5, <2>6 DEF CredentialsInv
    <2>7. CASE token' # token /\ token' = Requested
      <3>1. stream.state \in {"initial", "error"}
        BY <2>1, <2>7 DEF SendsOn, Starts
      <3>2. NoToken(mainQ)
        BY <3>1 DEF Core, TokenInv
      <3>3. QED
        BY <1>2, <1>3, <2>2, <2>3, <2>5, <2>7, <3>2 DEF CredentialsInv, Requested
    <2>8. QED
      BY <2>3, <2>6, <2>7
  <1>10. CASE StreamStep
    <2>1. CASE ResumeStart /\ Head(workerQ).ok
      <3>1. /\ workerQ # <<>> /\ Head(workerQ).op = "resume" /\ workerQ' = Tail(workerQ)
            /\ stream' = [stream EXCEPT !.state = "open", !.user = Head(workerQ).user]
            /\ UNCHANGED <<mainQ, token, provider, user>>
        BY <2>1 DEF ResumeStart, Takes, authVars
      <3>2. Len(workerQ) \in Nat \ {0} /\ Head(workerQ) = workerQ[1]
        BY <1>1, <3>1, TailIs
      <3>3. Quiet(workerQ, 1 - 1) /\ 1 \in 1..Len(workerQ)
        BY <3>2 DEF Quiet
      <3>4. Head(workerQ).user = user
        BY <1>2, <3>1, <3>2, <3>3
      <3>5. stream'.user = user
        BY <1>1, <3>1, <3>4 DEF StreamType
      <3>6. \A i \in 1..Len(workerQ') :
               workerQ'[i].op = "resume" /\ Quiet(workerQ', i - 1) => workerQ'[i].user = user
        BY <1>4, <3>1 DEF Change
      <3>7. QED
        BY <1>2, <3>1, <3>5, <3>6 DEF CredentialsInv
    <2>2. CASE HandshakeComplete
      <3>1. /\ stream' = [stream EXCEPT !.shaken = TRUE]
            /\ UNCHANGED <<workerQ, token, mainQ, provider, user>>
        BY <2>2 DEF HandshakeComplete, authVars
      <3>2. stream'.state = stream.state /\ stream'.user = stream.user
        BY <1>1, <3>1 DEF StreamType
      <3>3. QED
        BY <1>2, <3>1, <3>2 DEF CredentialsInv
    <2>3. CASE BackoffElapsed
      <3>1. /\ stream.state = "backoff" /\ stream'.state = "starting" /\ token' = Requested
            /\ UNCHANGED <<workerQ, mainQ, provider, user>>
        BY <1>1, <2>3 DEF BackoffElapsed, authVars, StreamType
      <3>2. NoToken(mainQ)
        BY <3>1 DEF Core, TokenInv
      <3>3. QED
        BY <1>2, <1>3, <3>1, <3>2 DEF CredentialsInv, Requested
    <2>4. CASE IdleTimeout
      <3>1. stream' = Closed /\ UNCHANGED <<workerQ, token, mainQ, provider, user>>
        BY <2>4 DEF IdleTimeout, authVars
      <3>2. QED
        BY <1>2, <3>1 DEF CredentialsInv, Closed
    <2>5. CASE AcceptStream \/ Apply \/ Refuse
      BY <1>6, <2>5 DEF AcceptStream, Apply, Refuse, authVars, streamVars
    <2>6. QED
      BY <1>10, <2>1, <2>2, <2>3, <2>4, <2>5 DEF StreamStep
  <1>11. CASE ApartStep
    <2>1. stream' = stream /\ user' = user
      BY <1>11, ApartIs
    <2>2. ASSUME NEW u \in Owners, AuthChanges(u) PROVE CredentialsInv'
      <3>1. /\ mainQ' = Append(mainQ, Notify(u))
            /\ UNCHANGED <<workerQ, token, provider>>
        BY <2>2 DEF AuthChanges, streamVars
      <3> DEFINE e == Notify(u)
      <3>2. e \in MainItem /\ Change(e) /\ e.op # "token"
        BY ItemTypes DEF Notify, Change
      <3> HIDE DEF e
      <3>3. /\ \A i \in 1..Len(mainQ) : /\ Append(mainQ, e)[i] = mainQ[i]
                                        /\ Quiet(Append(mainQ, e), i - 1) => Quiet(mainQ, i - 1)
            /\ Len(Append(mainQ, e)) = Len(mainQ) + 1 /\ Append(mainQ, e)[Len(mainQ) + 1] = e
            /\ ~Quiet(Append(mainQ, e), Len(mainQ) + 1)
        BY <1>1, <3>2, QuietMoves
      <3>4. \A i \in 1..Len(mainQ) + 1 : i \in 1..Len(mainQ) \/ i = Len(mainQ) + 1
        BY <1>1
      <3>5. mainQ' = Append(mainQ, e)
        BY <3>1 DEF e
      <3>6. ~Quiet(mainQ', Len(mainQ'))
        BY <3>3, <3>5
      <3>7. \A i \in 1..Len(mainQ') :
             mainQ'[i].op = "token" /\ token.fresh /\ Quiet(mainQ', i - 1) =>
               mainQ'[i].user = provider
        BY <1>2, <3>2, <3>3, <3>4, <3>5
      <3>8. QED
        BY <1>2, <2>1, <3>1, <3>6, <3>7 DEF CredentialsInv
    <2>3. CASE FetchToken
      <3>1. /\ token' = [token EXCEPT !.at = "fetching", !.user = authUser]
            /\ token.at = "asked" /\ UNCHANGED <<mainQ, workerQ, provider>>
        BY <2>3 DEF FetchToken, authVars
      <3>2. token'.user = authUser /\ (token'.fresh <=> token.fresh)
        BY <1>1, <3>1 DEF TokenType
      <3>3. Quiet(mainQ, Len(mainQ)) => authUser = provider
        BY <1>1, QuietUnder DEF UsersInv
      <3>4. QED
        BY <1>2, <2>1, <3>1, <3>2, <3>3 DEF CredentialsInv
    <2>4. ASSUME NEW ok \in BOOLEAN, PostToken(ok) PROVE CredentialsInv'
      <3> DEFINE e == Token(token.user, ok)
      <3>1. /\ token.at = "fetching" /\ token'.at = "posted" /\ (token'.fresh <=> token.fresh)
            /\ mainQ' = Append(mainQ, e) /\ UNCHANGED <<workerQ, provider>>
        BY <1>1, <2>4 DEF PostToken, authVars, TokenType
      <3>2. e \in MainItem /\ e.user = token.user
        BY <1>1, ItemTypes DEF Token, TokenType
      <3> HIDE DEF e
      <3>3. /\ \A i \in 1..Len(mainQ) : /\ Append(mainQ, e)[i] = mainQ[i]
                                        /\ Quiet(Append(mainQ, e), i - 1) => Quiet(mainQ, i - 1)
            /\ Len(Append(mainQ, e)) = Len(mainQ) + 1 /\ Append(mainQ, e)[Len(mainQ) + 1] = e
            /\ Quiet(Append(mainQ, e), Len(mainQ)) => Quiet(mainQ, Len(mainQ))
        BY <1>1, <3>2, QuietMoves
      <3>4. \A i \in 1..Len(mainQ) + 1 :
              i \in 1..Len(mainQ) \/ (i = Len(mainQ) + 1 /\ i - 1 = Len(mainQ))
        BY <1>1
      <3>5. \A i \in 1..Len(mainQ') :
             mainQ'[i].op = "token" /\ token.fresh /\ Quiet(mainQ', i - 1) =>
               mainQ'[i].user = provider
        BY <1>2, <3>1, <3>2, <3>3, <3>4
      <3>6. QED
        BY <1>2, <2>1, <3>1, <3>5 DEF CredentialsInv
    <2>5. CASE AuthStateDidChange
      <3> DEFINE e == Credentials(Head(mainQ).user)
      <3>1. /\ mainQ # <<>> /\ ~IsToken(Head(mainQ)) /\ mainQ' = Tail(mainQ)
            /\ token' = [token EXCEPT !.fresh = (token.at = "none")]
            /\ workerQ' = Append(workerQ, e)
        BY <2>5 DEF AuthStateDidChange, IsToken
      <3>2. e \in WorkerItem /\ e.op # "resume"
        BY <3>1, MainHead, ItemTypes DEF Core, Credentials
      <3> HIDE DEF e
      <3>3. \A i \in 1..Len(workerQ') :
               workerQ'[i].op = "resume" /\ Quiet(workerQ', i - 1) => workerQ'[i].user = user
        BY <1>5, <3>1, <3>2
      <3>4. token'.fresh => token'.at = "none" /\ token.at = "none"
        BY <1>1, <3>1 DEF TokenType
      <3>5. token'.fresh => NoToken(mainQ')
        BY <1>1, <3>1, <3>4, TokensRest DEF Core, TokenInv
      <3>6. QED
        BY <1>2, <1>3, <2>1, <3>3, <3>4, <3>5 DEF CredentialsInv
    <2>6. CASE GotToken
      <3> DEFINE e == Resume(Head(mainQ).user, Head(mainQ).ok)
      <3>1. /\ mainQ # <<>> /\ Head(mainQ).op = "token" /\ mainQ' = Tail(mainQ)
            /\ \/ token.fresh /\ token' = NoRequest /\ workerQ' = Append(workerQ, e)
               \/ token' = Requested /\ workerQ' = workerQ
            /\ provider' = provider
        BY <2>6 DEF GotToken, authVars
      <3>2. e \in WorkerItem /\ e.user = Head(mainQ).user
        <4>1. Head(mainQ).user \in Owners /\ Head(mainQ).ok \in BOOLEAN
          BY <3>1, MainHead DEF Core
        <4>2. QED
          BY <4>1, ItemTypes DEF Resume
      <3> HIDE DEF e
      <3>3. token.fresh => Head(mainQ).user = provider
        <4>1. Len(mainQ) \in Nat \ {0} /\ Head(mainQ) = mainQ[1]
          BY <1>1, <3>1, TailIs
        <4>2. Quiet(mainQ, 1 - 1) /\ 1 \in 1..Len(mainQ)
          BY <4>1 DEF Quiet
        <4>3. QED
          BY <1>2, <3>1, <4>1, <4>2
      <3>4. Quiet(workerQ, Len(workerQ)) => provider = user
        BY <1>1, QuietUnder DEF UsersInv
      <3>5. \A i \in 1..Len(workerQ') :
               workerQ'[i].op = "resume" /\ Quiet(workerQ', i - 1) => workerQ'[i].user = user
        BY <1>2, <1>5, <3>1, <3>2, <3>3, <3>4
      <3>6. NoToken(mainQ') /\ token'.at # "fetching"
        BY <1>1, <3>1, TokensTail DEF Core, TokenInv, IsToken, NoRequest, Requested
      <3>7. QED
        BY <1>2, <1>3, <2>1, <3>5, <3>6 DEF CredentialsInv
    <2>7. CASE Write
      <3> DEFINE e == Mutate(Len(by) + 1)
      <3>1. /\ workerQ' = Append(workerQ, e) /\ Len(by) < MaxWrites
            /\ UNCHANGED <<mainQ, token, provider>>
        BY <2>7 DEF Write, authVars, streamVars
      <3>2. e \in WorkerItem /\ e.op # "resume"
        <4>1. Len(by) \in Nat
          BY LenProperties DEF Core, TypeOK
        <4>2. Len(by) + 1 \in Batches
          BY <3>1, <4>1, BatchesAreNumbers DEF Batches
        <4>3. QED
          BY <4>2, AnswerTypes DEF Mutate
      <3> HIDE DEF e
      <3>3. \A i \in 1..Len(workerQ') :
               workerQ'[i].op = "resume" /\ Quiet(workerQ', i - 1) => workerQ'[i].user = user
        BY <1>5, <3>1, <3>2
      <3>4. QED
        BY <1>2, <2>1, <3>1, <3>3 DEF CredentialsInv
    <2>8. QED
      BY <1>11, <2>2, <2>3, <2>4, <2>5, <2>6, <2>7 DEF ApartStep
  <1>12. QED
    BY <1>6, <1>7, <1>8, <1>9, <1>10, <1>11, StepKinds

----------------------------------------------------------------------------
(* What the server has answered, and what the client makes of it.          *)

Durable(b) ==
  /\ b \in 1..Len(by) /\ server[by[b]] >= b
  /\ \A i \in 1..Len(queue[by[b]]) : b < queue[by[b]][i]
  /\ \A i \in 1..Len(workerQ) : workerQ[i].op = "write" => b < workerQ[i].batch

AnsweredInv ==
  /\ \A i \in 1..Len(toClient) :
       /\ toClient[i].op = "applied" => server[by[toClient[i].batch]] >= toClient[i].batch
       /\ toClient[i].op = "refused" => toClient[i].batch \in refused
  /\ \A b \in acked : Durable(b)
  /\ dropped \subseteq refused

\* Behind the handshake every answer is to a batch of the pipeline, and the first
\* to the oldest; before it none is to a batch.
LEMMA AnswerOfPipeline ==
  ASSUME Core
  PROVE  /\ stream.shaken => \A i \in 1..Len(toClient) :
                               i \in 1..Len(pipeline) /\ toClient[i].batch = pipeline[i]
         /\ stream.shaken => \A i \in 1..Len(toServer) :
                               /\ Len(toClient) + i \in 1..Len(pipeline)
                               /\ toServer[i] = pipeline[Len(toClient) + i]
         /\ ~stream.shaken => /\ \A i \in 1..Len(toServer) : toServer[i] = Handshake
                              /\ \A i \in 1..Len(toClient) : toClient[i].batch = Handshake
         /\ stream.shaken /\ toClient # <<>> =>
              pipeline # <<>> /\ Head(toClient).batch = Head(pipeline)
  <1>1. /\ Len(toClient) \in Nat /\ Len(toServer) \in Nat /\ toClient \in Seq(Answer)
        /\ pipeline \in Seq(Batches)
        /\ Len(toClient) + Len(toServer) = Len(Expected)
        /\ \A i \in 1..Len(toClient) : toClient[i].batch = Expected[i]
        /\ \A i \in 1..Len(toServer) : toServer[i] = Expected[Len(toClient) + i]
    BY AnswersAre DEF Core, TypeOK, FlightInv
  <1>2. CASE stream.shaken
    <2>1. Expected = pipeline
      BY <1>2 DEF Expected
    <2>2. /\ \A i \in 1..Len(toClient) : i \in 1..Len(pipeline)
          /\ \A i \in 1..Len(toServer) : Len(toClient) + i \in 1..Len(pipeline)
      <3> DEFINE c == Len(toClient)
                 s == Len(toServer)
                 n == Len(pipeline)
      <3>1. c \in Nat /\ s \in Nat /\ c + s = n
        BY <1>1, <2>1
      <3> HIDE DEF c, s, n
      <3>2. (\A i \in 1..c : i \in 1..n) /\ (\A i \in 1..s : c + i \in 1..n)
        BY <3>1
      <3>3. QED
        BY <3>2 DEF c, s, n
    <2>3. ASSUME toClient # <<>> PROVE pipeline # <<>> /\ Head(toClient).batch = Head(pipeline)
      <3>1. 1 \in 1..Len(toClient) /\ Head(toClient) = toClient[1]
        BY <1>1, <2>3, TailIs
      <3>2. 1 \in 1..Len(pipeline) /\ toClient[1].batch = pipeline[1]
        BY <1>1, <2>1, <2>2, <3>1
      <3>3. pipeline # <<>>
        BY <1>1, <3>2, EmptySeq
      <3>4. Head(pipeline) = pipeline[1]
        BY <1>1, <3>3, TailIs
      <3>5. QED
        BY <3>1, <3>2, <3>3, <3>4
    <2>4. QED
      BY <1>1, <1>2, <2>1, <2>2, <2>3
  <1>3. CASE ~stream.shaken /\ stream.state = "open"
    <2>1. Expected = <<Handshake>>
      BY <1>3 DEF Expected
    <2>2. Len(<<Handshake>>) = 1 /\ <<Handshake>>[1] = Handshake
      OBVIOUS
    <2>3. /\ \A i \in 1..Len(toClient) : i = 1
          /\ \A i \in 1..Len(toServer) : Len(toClient) + i = 1
      <3> DEFINE c == Len(toClient)
                 s == Len(toServer)
      <3>1. c \in Nat /\ s \in Nat /\ c + s = 1
        BY <1>1, <2>1, <2>2
      <3> HIDE DEF c, s
      <3>2. (\A i \in 1..c : i = 1) /\ (\A i \in 1..s : c + i = 1)
        BY <3>1
      <3>3. QED
        BY <3>2 DEF c, s
    <2>4. QED
      BY <1>1, <1>3, <2>1, <2>2, <2>3
  <1>4. CASE stream.state # "open"
    BY <1>4, WireEmpty
  <1>5. QED
    BY <1>2, <1>3, <1>4

LEMMA AnsweredStep ==
  ASSUME Core, OwnersInv, AnsweredInv, [Next]_vars
  PROVE  AnsweredInv'
  <1>1. /\ queue \in [Owners -> Seq(Batches)] /\ user \in Owners /\ by \in Seq(Owners)
        /\ Len(by) \in Nat /\ provider \in Owners
        /\ server \in [Owners -> Batches \cup {0}]
        /\ toClient \in Seq(Answer) /\ workerQ \in Seq(WorkerItem)
        /\ Len(toClient) \in Nat /\ Len(workerQ) \in Nat
        /\ acked \subseteq Batches /\ Batches \subseteq Nat
        /\ QueueInv
    BY LenProperties, BatchesAreNumbers DEF Core, TypeOK
  <1>2. /\ \A i \in 1..Len(toClient) :
             /\ toClient[i].op = "applied" => server[by[toClient[i].batch]] >= toClient[i].batch
             /\ toClient[i].op = "refused" => toClient[i].batch \in refused
        /\ \A b \in acked : Durable(b)
        /\ dropped \subseteq refused
    BY DEF AnsweredInv
  \* An acknowledged batch stays older than the queues' as long as writes leave
  \* the worker queue and batches the mutation queues.
  <1>3. ASSUME NEW b \in acked, server' = server, by' = by,
               queue' = queue \/ QueuePopped,
               \A i \in 1..Len(workerQ') : workerQ'[i].op = "write" =>
                 b < workerQ'[i].batch
        PROVE  Durable(b)'
    <2>1. Durable(b)
      BY <1>2
    <2>2. by[b] \in Owners
      BY <1>1, <2>1, ElementOfSeq DEF Durable
    <2>3. \A i \in 1..Len(queue'[by[b]]) : b < queue'[by[b]][i]
      BY <1>3, <2>1, <2>2, QueueLess DEF Durable
    <2>4. QED
      BY <1>3, <2>1, <2>3 DEF Durable
  \* What is in the worker queue has been, or is newer.
  <1>4. ASSUME NEW b \in acked, NEW q \in Seq(WorkerItem), q # <<>>,
               \A i \in 1..Len(q) : q[i].op = "write" => b < q[i].batch,
               NEW i \in 1..Len(Tail(q)), Tail(q)[i].op = "write"
        PROVE  b < Tail(q)[i].batch
    BY <1>4, TailIs
  <1>5. ASSUME NEW b \in acked, NEW q \in Seq(WorkerItem), OneToken(q),
               \A i \in 1..Len(q) : q[i].op = "write" => b < q[i].batch,
               NEW i \in 1..Len(Void(q)), Void(q)[i].op = "write"
        PROVE  b < Void(q)[i].batch
    <2>1. CASE Void(q) = q
      BY <1>5, <2>1
    <2>2. ASSUME NEW k \in 1..Len(q), Len(Void(q)) = Len(q) - 1,
                 \A j \in 1..Len(q) - 1 : Void(q)[j] = IF j < k THEN q[j] ELSE q[j + 1]
          PROVE  b < Void(q)[i].batch
      <3>1. Len(q) \in Nat
        BY LenProperties
      <3>2. i \in 1..Len(q) /\ i + 1 \in 1..Len(q) /\ i \in 1..Len(q) - 1
        BY <2>2, <3>1
      <3>3. Void(q)[i] = q[i] \/ Void(q)[i] = q[i + 1]
        BY <2>2, <3>2
      <3>4. QED
        BY <1>5, <3>2, <3>3
    <2>3. QED
      BY <1>5, <2>1, <2>2, VoidIs
  <1>6. \A b \in acked : \A i \in 1..Len(workerQ) :
          workerQ[i].op = "write" => b < workerQ[i].batch
    BY <1>2 DEF Durable
  <1>7. CASE UNCHANGED <<queue, server, toClient, by, acked, refused, dropped>>
             /\ \A b \in acked : \A i \in 1..Len(workerQ') : workerQ'[i].op = "write" =>
                 b < workerQ'[i].batch
    BY <1>2, <1>3, <1>7 DEF AnsweredInv
  <1>8. CASE UNCHANGED vars
    BY <1>6, <1>7, <1>8 DEF vars, diskVars, wireVars
  <1>9. CASE Losing
    <2>1. /\ Over /\ Kept(workerQ) /\ UNCHANGED <<server, by, acked, refused>>
          /\ queue' = queue \/ QueuePopped
      BY <1>9, LosingEffect
    <2>2. OneToken(workerQ)
      BY DEF Core, TokenInv
    <2>3. ASSUME NEW b \in acked, NEW i \in 1..Len(workerQ'), workerQ'[i].op = "write"
          PROVE  b < workerQ'[i].batch
      <3>1. CASE workerQ' = Void(workerQ)
        BY <1>1, <1>5, <1>6, <2>2, <2>3, <3>1
      <3>2. CASE workerQ # <<>> /\ ~IsToken(Head(workerQ)) /\ workerQ' = Void(Tail(workerQ))
        <4>1. Tail(workerQ) \in Seq(WorkerItem) /\ OneToken(Tail(workerQ))
          BY <1>1, <2>2, <3>2, TailIs, TokensTail
        <4>2. \A j \in 1..Len(Tail(workerQ)) : Tail(workerQ)[j].op = "write" =>
                b < Tail(workerQ)[j].batch
          BY <1>1, <1>4, <1>6, <3>2
        <4>3. QED
          BY <1>5, <2>3, <3>2, <4>1, <4>2
      <3>3. CASE workerQ # <<>> /\ workerQ' = Tail(workerQ)
        BY <1>1, <1>4, <1>6, <2>3, <3>3
      <3>4. ASSUME NEW p \in Owners, workerQ' = <<Credentials(p)>>
            PROVE  FALSE
        BY <2>3, <3>4 DEF Credentials
      <3>5. QED
        BY <2>1, <3>1, <3>2, <3>3, <3>4 DEF Kept
    <2>4. \A b \in acked : Durable(b)'
      BY <1>3, <2>1, <2>3
    <2>5. dropped' \subseteq refused
      <3>1. CASE UNCHANGED dropped
        BY <1>2, <3>1
      <3>2. ASSUME NEW status, StreamEnds(status), WriteFailed(status)
            PROVE  dropped' = dropped \cup {Head(pipeline)}
        BY <3>2 DEF StreamEnds, CloseStream
      <3>3. CASE WriteRefused
        <4>1. /\ stream.shaken /\ toClient # <<>> /\ Head(toClient).op = "refused"
              /\ StreamEnds("permanent")
          BY <3>3 DEF WriteRefused
        <4>2. pipeline # <<>> /\ Head(toClient).batch = Head(pipeline)
          BY <4>1, AnswerOfPipeline
        <4>3. Head(pipeline) \in refused
          <5>1. 1 \in 1..Len(toClient) /\ Head(toClient) = toClient[1]
            BY <1>1, <4>1, TailIs
          <5>2. QED
            BY <1>2, <4>1, <4>2, <5>1
        <4>4. dropped' = dropped \cup {Head(pipeline)}
          BY <3>2, <4>1, <4>2 DEF WriteFailed
        <4>5. QED
          BY <1>2, <4>3, <4>4
      <3>4. CASE ~WriteRefused
        <4>1. ~WriteFailed("transient")
          BY DEF WriteFailed
        <4>2. ASSUME ~stream.shaken PROVE ~WriteFailed("permanent")
          BY <4>2 DEF WriteFailed
        <4>3. UNCHANGED dropped
          BY <1>9, <3>4, <4>1, <4>2
             DEF Losing, HandleCredentialChange, ResumeStart, HandshakeRefused, StreamBreaks,
                 StreamEnds, CloseStream, RestartNetwork, Relaunch, diskVars
        <4>4. QED
          BY <3>1, <4>3
      <3>5. QED
        BY <3>3, <3>4
    <2>6. QED
      BY <2>1, <2>4, <2>5 DEF Over, AnsweredInv
  <1>10. CASE MutationResult
    <2>15. PICK b : b = Head(pipeline)
      OBVIOUS
    <2>1. /\ stream.shaken /\ toClient # <<>> /\ Head(toClient).op = "applied"
          /\ toClient' = Tail(toClient)
          /\ UNCHANGED <<workerQ, dropped, server, by, refused>>
      BY <1>10 DEF MutationResult
    <2>2. /\ acked' = acked \cup {b} /\ QueuePopped
      BY <1>10, <2>15, ResultTaken DEF QueuePopped
    <2>3. pipeline # <<>> /\ Head(toClient).batch = b
      BY <2>1, <2>15, AnswerOfPipeline
    <2>4. /\ Len(toClient) \in Nat \ {0} /\ Head(toClient) = toClient[1]
          /\ Len(Tail(toClient)) = Len(toClient) - 1
          /\ \A i \in 1..Len(toClient) - 1 : Tail(toClient)[i] = toClient[i + 1]
      BY <1>1, <2>1, TailIs
    <2>5. /\ b \in Batches /\ by[b] = user /\ b = Head(queue[user])
          /\ queue[user] \in Seq(Batches) /\ queue[user] # <<>>
      <3>1. /\ queue[user] # <<>> /\ b \in Batches /\ b = Head(queue[user])
            /\ queue[user] \in Seq(Batches)
        BY <2>3, <2>15, Oldest
      <3>2. 1 \in 1..Len(queue[user]) /\ Head(queue[user]) = queue[user][1]
        BY <3>1, TailIs
      <3>3. QED
        BY <1>1, <3>1, <3>2 DEF OwnersInv
    <2>6. /\ Len(queue[user]) \in Nat \ {0} /\ b = queue[user][1]
          /\ Len(Tail(queue[user])) = Len(queue[user]) - 1
          /\ \A i \in 1..Len(queue[user]) - 1 : Tail(queue[user])[i] = queue[user][i + 1]
      BY <2>5, TailIs
    <2>7. queue'[user] = Tail(queue[user])
      BY <1>1, <2>2 DEF QueuePopped
    <2>8. \A i \in 1..Len(queue'[user]) : b < queue'[user][i]
      <3>1. ASSUME NEW i \in 1..Len(Tail(queue[user]))
            PROVE  b < Tail(queue[user])[i]
        <4>1. 1 \in 1..Len(queue[user]) /\ i + 1 \in 1..Len(queue[user]) /\ 1 < i + 1
              /\ i \in 1..Len(queue[user]) - 1
          BY <2>6
        <4>2. QED
          BY <1>1, <2>6, <4>1 DEF QueueInv, Ascending
      <3>2. QED
        BY <2>7, <3>1
    <2>9. server[by[b]] >= b
      <3>1. 1 \in 1..Len(toClient)
        BY <2>4
      <3>2. QED
        BY <1>2, <2>1, <2>3, <2>4, <3>1
    <2>10. b \in 1..Len(by) /\ \A i \in 1..Len(workerQ) : workerQ[i].op = "write" =>
             b < workerQ[i].batch
      <3>1. 1 \in 1..Len(queue[user])
        BY <2>6
      <3>2. QED
        BY <1>1, <2>6, <3>1 DEF QueueInv, Writes
    <2>11. Durable(b)'
      BY <2>1, <2>5, <2>8, <2>9, <2>10 DEF Durable
    <2>12. \A c \in acked : Durable(c)'
      BY <1>3, <1>6, <2>1, <2>2
    <2>13. ASSUME NEW i \in 1..Len(toClient')
           PROVE  i + 1 \in 1..Len(toClient) /\ toClient'[i] = toClient[i + 1]
      BY <2>1, <2>4
    <2>14. QED
      BY <1>2, <2>1, <2>2, <2>11, <2>12, <2>13 DEF AnsweredInv
  <1>11. CASE WriteMutations
    <2> DEFINE d == Head(workerQ).batch
               q == Append(queue[user], d)
    <2>1. /\ workerQ # <<>> /\ Head(workerQ).op = "write" /\ workerQ' = Tail(workerQ)
          /\ UNCHANGED <<server, toClient, by, acked, refused, dropped>>
      BY <1>11 DEF WriteMutations, Takes
    <2>2. d \in Batches /\ queue' = [queue EXCEPT ![user] = q] /\ queue'[user] = q
      BY <1>11, WriteTaken
    <2>3. \A i \in 1..Len(q) : q[i] = d \/ \E k \in 1..Len(queue[user]) : q[i] = queue[user][k]
      <3>1. queue[user] \in Seq(Batches)
        BY <1>1
      <3>2. QED
        BY <2>2, <3>1, AppendProperties, LenProperties
    <2>4. \A b \in acked : b < d
      <3>1. 1 \in 1..Len(workerQ) /\ Head(workerQ) = workerQ[1]
        BY <1>1, <2>1, TailIs
      <3>2. QED
        BY <1>6, <2>1, <3>1
    <2> HIDE DEF d, q
    <2>5. ASSUME NEW b \in acked PROVE Durable(b)'
      <3>1. Durable(b)
        BY <1>2
      <3>2. \A i \in 1..Len(queue'[by[b]]) : b < queue'[by[b]][i]
        <4>1. CASE by[b] = user
          BY <2>2, <2>3, <2>4, <3>1, <4>1 DEF Durable
        <4>2. CASE by[b] # user
          <5>1. queue'[by[b]] = queue[by[b]]
            BY <1>1, <2>2, <3>1, <4>2, ElementOfSeq DEF Durable
          <5>2. QED
            BY <3>1, <5>1 DEF Durable
        <4>3. QED
          BY <4>1, <4>2
      <3>3. \A i \in 1..Len(workerQ') : workerQ'[i].op = "write" => b < workerQ'[i].batch
        BY <1>1, <1>4, <1>6, <2>1
      <3>4. QED
        BY <2>1, <3>1, <3>2, <3>3 DEF Durable
    <2>6. QED
      BY <1>2, <2>1, <2>5 DEF AnsweredInv
  <1>12. CASE StreamStep
    <2>1. CASE Apply
      <3> DEFINE h == Head(toServer)
      <3>1. /\ toServer # <<>> /\ h # Handshake
            /\ toClient' = Append(toClient, Applied(h))
            /\ server' = [server EXCEPT ![by[h]] = h]
            /\ UNCHANGED <<workerQ, queue, by, acked, refused, dropped>>
        BY <2>1 DEF Apply, diskVars
      <3>2. h \in Batches /\ Applied(h) \in Answer /\ Applied(h).op = "applied" /\ Applied(h).batch = h
        BY <3>1, ServerHead, AnswerTypes DEF Core, Applied
      <3>3. /\ Len(toServer) \in Nat \ {0} /\ h = toServer[1]
        BY <3>1, TailIs DEF Core, TypeOK
      <3>4. /\ stream.shaken /\ Len(toClient) + 1 \in 1..Len(pipeline)
            /\ h = pipeline[Len(toClient) + 1]
        BY <3>1, <3>3, AnswerOfPipeline
      <3>5. \E k \in 1..Len(queue[user]) : h = queue[user][k]
        BY <3>4, PipelineOwned
      <3>6. by[h] = user
        BY <3>4, PipelineOwned
      <3> HIDE DEF h
      <3>7. server'[user] = h /\ \A u \in Owners : u # user => server'[u] = server[u]
        BY <1>1, <3>1, <3>6
      <3>8. ASSUME NEW b \in acked PROVE Durable(b)'
        <4>1. Durable(b) /\ b \in Nat /\ h \in Nat
          BY <1>1, <1>2, <3>2
        <4>2. by[b] \in Owners
          BY <1>1, <4>1, ElementOfSeq DEF Durable
        <4>3. CASE by[b] = user
          <5>1. b < h
            BY <3>5, <4>1, <4>3 DEF Durable
          <5>2. server'[by[b]] >= b
            BY <3>7, <4>1, <4>3, <5>1
          <5>3. QED
            BY <3>1, <4>1, <5>2 DEF Durable
        <4>4. CASE by[b] # user
          BY <3>1, <3>7, <4>1, <4>2, <4>4 DEF Durable
        <4>5. QED
          BY <4>3, <4>4
      <3>9. ASSUME NEW i \in 1..Len(toClient)
            PROVE  toClient[i].batch \in Batches /\ by[toClient[i].batch] = user
                   /\ toClient[i].batch < h
        <4>1. i \in 1..Len(pipeline) /\ toClient[i].batch = pipeline[i] /\ i < Len(toClient) + 1
          BY <1>1, <3>4, AnswerOfPipeline
        <4>2. pipeline[i] \in Batches /\ by[pipeline[i]] = user
          BY <4>1, PipelineOwned
        <4>3. pipeline[i] < pipeline[Len(toClient) + 1]
          BY <1>1, <3>4, <4>1, PipelineOwned DEF QueueInv, Ascending
        <4>4. QED
          BY <3>4, <4>1, <4>2, <4>3
      <3>10. /\ Len(toClient') = Len(toClient) + 1
             /\ \A i \in 1..Len(toClient) : toClient'[i] = toClient[i]
             /\ toClient'[Len(toClient) + 1] = Applied(h)
        BY <1>1, <3>1, <3>2, AppendProperties
      <3>11. ASSUME NEW i \in 1..Len(toClient')
             PROVE  /\ toClient'[i].op = "applied" =>
                         server'[by[toClient'[i].batch]] >= toClient'[i].batch
                    /\ toClient'[i].op = "refused" => toClient'[i].batch \in refused
        <4>1. CASE i \in 1..Len(toClient)
          <5>1. toClient'[i] = toClient[i] /\ toClient[i].batch \in Nat /\ h \in Nat
            BY <1>1, <3>2, <3>9, <3>10, <4>1
          <5>2. server'[by[toClient[i].batch]] >= toClient[i].batch
            BY <3>7, <3>9, <4>1, <5>1
          <5>3. QED
            BY <1>2, <4>1, <5>1, <5>2
        <4>2. CASE i = Len(toClient) + 1
          <5>1. h >= h
            BY <1>1, <3>2
          <5>2. QED
            BY <3>2, <3>6, <3>7, <3>10, <4>2, <5>1
        <4>3. QED
          BY <1>1, <3>10, <4>1, <4>2
      <3>12. QED
        BY <1>2, <3>1, <3>8, <3>11 DEF AnsweredInv
    <2>2. CASE AcceptStream \/ Refuse
      <3>1. /\ UNCHANGED <<workerQ, queue, server, by, acked, dropped>>
            /\ refused \subseteq refused'
        BY <2>2 DEF AcceptStream, Refuse, diskVars
      <3>2. \E a \in Answer : /\ toClient' = Append(toClient, a)
                              /\ a.op # "applied"
                              /\ a.op = "refused" => a.batch \in refused'
        <4>1. CASE AcceptStream
          BY <4>1 DEF AcceptStream, Shaken, Answer
        <4>2. CASE Refuse
          <5>1. Head(toServer) \in Batches
            BY <4>2, ServerHead DEF Refuse, Core
          <5>2. Refused(Head(toServer)) \in Answer
            BY <5>1, AnswerTypes
          <5>3. QED
            BY <4>2, <5>2 DEF Refuse, Refused
        <4>3. QED
          BY <2>2, <4>1, <4>2
      <3>3. PICK a \in Answer : /\ toClient' = Append(toClient, a)
                                /\ a.op # "applied"
                                /\ a.op = "refused" => a.batch \in refused'
        BY <3>2
      <3>4. /\ Len(toClient') = Len(toClient) + 1
            /\ \A i \in 1..Len(toClient) : toClient'[i] = toClient[i]
            /\ toClient'[Len(toClient) + 1] = a
        BY <1>1, <3>3, AppendProperties
      <3>5. ASSUME NEW i \in 1..Len(toClient')
            PROVE  /\ toClient'[i].op = "applied" =>
                        server[by[toClient'[i].batch]] >= toClient'[i].batch
                   /\ toClient'[i].op = "refused" => toClient'[i].batch \in refused'
        <4>1. CASE i \in 1..Len(toClient)
          BY <1>2, <3>1, <3>4, <4>1
        <4>2. CASE i = Len(toClient) + 1
          BY <3>3, <3>4, <4>2
        <4>3. QED
          BY <1>1, <3>4, <4>1, <4>2
      <3>6. \A b \in acked : Durable(b)'
        BY <1>3, <1>6, <3>1
      <3>7. QED
        BY <1>2, <3>1, <3>5, <3>6 DEF AnsweredInv
    <2>3. CASE \/ ResumeStart /\ Head(workerQ).ok
               \/ HandshakeComplete \/ BackoffElapsed \/ IdleTimeout
      <3>1. UNCHANGED <<queue, server, by, acked, refused, dropped>>
        BY <2>3 DEF ResumeStart, HandshakeComplete, BackoffElapsed, IdleTimeout, diskVars
      <3>2. workerQ' = workerQ \/ (workerQ # <<>> /\ workerQ' = Tail(workerQ))
        BY <2>3 DEF ResumeStart, Takes, HandshakeComplete, BackoffElapsed, IdleTimeout
      <3>3. \/ toClient' = toClient \/ toClient' = <<>>
            \/ toClient # <<>> /\ toClient' = Tail(toClient)
        BY <2>3 DEF ResumeStart, HandshakeComplete, BackoffElapsed, IdleTimeout, wireVars
      <3>4. \A i \in 1..Len(toClient') : \E j \in 1..Len(toClient) : toClient'[i] = toClient[j]
        <4>1. CASE toClient' = <<>>
          BY <4>1
        <4>2. ASSUME toClient # <<>>, toClient' = Tail(toClient), NEW i \in 1..Len(toClient')
              PROVE  i + 1 \in 1..Len(toClient) /\ toClient'[i] = toClient[i + 1]
          BY <1>1, <4>2, TailIs
        <4>3. QED
          BY <3>3, <4>1, <4>2
      <3>5. \A b \in acked : \A i \in 1..Len(workerQ') : workerQ'[i].op = "write" =>
              b < workerQ'[i].batch
        BY <1>1, <1>4, <1>6, <3>2
      <3>6. \A b \in acked : Durable(b)'
        BY <1>3, <3>1, <3>5
      <3>7. QED
        BY <1>2, <3>1, <3>4, <3>6 DEF AnsweredInv
    <2>4. QED
      BY <1>12, <2>1, <2>2, <2>3 DEF StreamStep
  <1>13. CASE Write
    <2> DEFINE e == Mutate(Len(by) + 1)
    <2>1. /\ by' = Append(by, provider) /\ workerQ' = Append(workerQ, e) /\ Len(by) < MaxWrites
          /\ UNCHANGED <<queue, server, toClient, acked, refused, dropped>>
      BY <1>13 DEF Write, diskVars, wireVars
    <2>2. e \in WorkerItem /\ e.batch = Len(by) + 1
      <3>1. Len(by) + 1 \in Batches
        BY <1>1, <2>1, BatchesAreNumbers DEF Batches
      <3>2. QED
        BY <3>1, AnswerTypes DEF Mutate
    <2> HIDE DEF e
    <2>3. Len(by') = Len(by) + 1 /\ \A b \in 1..Len(by) : by'[b] = by[b]
      BY <1>1, <2>1, AppendProperties
    <2>4. ASSUME NEW b \in acked PROVE Durable(b)'
      <3>1. Durable(b)
        BY <1>2
      <3>2. by'[b] = by[b] /\ b \in 1..Len(by')  /\ b < Len(by) + 1
        BY <1>1, <2>3, <3>1 DEF Durable
      <3>3. \A i \in 1..Len(workerQ') : workerQ'[i].op = "write" => b < workerQ'[i].batch
        <4>1. /\ Len(workerQ') = Len(workerQ) + 1 /\ workerQ'[Len(workerQ) + 1] = e
              /\ \A i \in 1..Len(workerQ) : workerQ'[i] = workerQ[i]
          BY <1>1, <2>1, <2>2, AppendProperties
        <4>2. \A i \in 1..Len(workerQ') : i \in 1..Len(workerQ) \/ i = Len(workerQ) + 1
          BY <1>1, <4>1
        <4>3. QED
          BY <1>6, <2>2, <3>2, <4>1, <4>2
      <3>4. QED
        BY <2>1, <3>1, <3>2, <3>3 DEF Durable
    <2>5. \A i \in 1..Len(toClient) : toClient[i].op = "applied" => toClient[i].batch \in 1..Len(by)
      <3>1. ASSUME NEW i \in 1..Len(toClient), toClient[i].op = "applied"
            PROVE  toClient[i].batch \in 1..Len(by)
        <4>1. toClient[i].batch # Handshake
          <5>1. toClient[i] \in Answer
            BY <3>1, AnswersAre DEF Core
          <5>2. QED
            BY <3>1, <5>1, BatchesAreNumbers DEF Answer, Shaken, Handshake
        <4>2. stream.shaken /\ i \in 1..Len(pipeline) /\ toClient[i].batch = pipeline[i]
          BY <4>1, AnswerOfPipeline
        <4>3. user \in Owners /\ i \in 1..Len(queue[user]) /\ pipeline[i] = queue[user][i]
          BY <1>1, <4>2, PipelineOwned DEF Core, TypeOK
        <4>4. queue[user][i] \in 1..Len(by)
          BY <1>1, <4>3 DEF QueueInv
        <4>5. QED
          BY <4>2, <4>3, <4>4
      <3>2. QED
        BY <3>1
    <2>6. QED
      BY <1>2, <2>1, <2>3, <2>4, <2>5 DEF AnsweredInv
  <1>14. CASE ApartStep /\ ~Write
    <2>1. UNCHANGED <<queue, server, toClient, by, acked, refused, dropped>>
      BY <1>14, ApartIs
         DEF ApartStep, AuthChanges, FetchToken, PostToken, AuthStateDidChange, GotToken
    <2>2. \/ workerQ' = workerQ
          \/ \E e \in WorkerItem : e.op # "write" /\ workerQ' = Append(workerQ, e)
      <3>1. CASE AuthStateDidChange
        <4>1. /\ mainQ # <<>> /\ workerQ' = Append(workerQ, Credentials(Head(mainQ).user))
          BY <3>1 DEF AuthStateDidChange
        <4>2. Credentials(Head(mainQ).user) \in WorkerItem
          BY <4>1, MainHead, ItemTypes DEF Core
        <4>3. QED
          BY <4>1, <4>2 DEF Credentials
      <3>2. CASE GotToken
        <4> DEFINE e == Resume(Head(mainQ).user, Head(mainQ).ok)
        <4>1. mainQ # <<>> /\ (workerQ' = workerQ \/ workerQ' = Append(workerQ, e))
          BY <3>2 DEF GotToken
        <4>2. e \in WorkerItem /\ e.op # "write"
          <5>1. Head(mainQ).user \in Owners /\ Head(mainQ).ok \in BOOLEAN
            BY <4>1, MainHead DEF Core
          <5>2. QED
            BY <5>1, ItemTypes DEF Resume
        <4> HIDE DEF e
        <4>3. QED
          BY <4>1, <4>2
      <3>3. QED
        BY <1>14, <3>1, <3>2 DEF ApartStep, AuthChanges, FetchToken, PostToken
    <2>3. ASSUME NEW e \in WorkerItem, e.op # "write", workerQ' = Append(workerQ, e),
                 NEW b \in acked, NEW i \in 1..Len(workerQ'), workerQ'[i].op = "write"
          PROVE  b < workerQ'[i].batch
      <3>1. /\ Len(workerQ') = Len(workerQ) + 1 /\ workerQ'[Len(workerQ) + 1] = e
            /\ \A j \in 1..Len(workerQ) : workerQ'[j] = workerQ[j]
        BY <1>1, <2>3, AppendProperties
      <3>2. i \in 1..Len(workerQ)
        BY <1>1, <2>3, <3>1
      <3>3. QED
        BY <1>6, <2>3, <3>1, <3>2
    <2>4. QED
      BY <1>6, <1>7, <2>1, <2>2, <2>3
  <1>15. QED
    BY <1>8, <1>9, <1>10, <1>11, <1>12, <1>13, <1>14, StepKinds DEF ApartStep

----------------------------------------------------------------------------
(* The theorems.                                                           *)

Owned == Core /\ UsersInv /\ OwnersInv /\ CredentialsInv /\ AnsweredInv

LEMMA InitOwned ==
  ASSUME Init
  PROVE  Owned
  <1>1. /\ provider = authUser /\ mainQ = <<>> /\ workerQ = <<Credentials(authUser)>>
        /\ queue = [u \in Owners |-> <<>>] /\ stream = Closed /\ token = NoRequest
        /\ toClient = <<>> /\ acked = {} /\ dropped = {}
    BY DEF Init
  <1>2. UsersInv
    <2>1. Under(<<Credentials(authUser)>>, user, 1, authUser)
      BY DEF Under, Change, Credentials
    <2>2. Under(<<>>, authUser, 0, authUser)
      BY DEF Under, Quiet
    <2>3. Made(<<Credentials(authUser)>>, user, by)
      BY DEF Made, Credentials
    <2>4. QED
      BY <1>1, <2>1, <2>2, <2>3 DEF UsersInv
  <1>3. OwnersInv
    BY <1>1 DEF OwnersInv
  <1>4. CredentialsInv
    BY <1>1 DEF CredentialsInv, Credentials, NoRequest, Closed
  <1>5. AnsweredInv
    BY <1>1 DEF AnsweredInv
  <1>6. QED
    BY <1>2, <1>3, <1>4, <1>5, InitCore DEF Owned

LEMMA OwnedInvariant == Spec => []Owned
  <1>1. Init => Owned
    BY InitOwned
  <1>2. Owned /\ [Next]_vars => Owned'
    <2>1. Core /\ [Next]_vars => Core'
      BY TypeStep, QueueStep, HeadsStep, FlightStep, TokenStep, IdleStep, OpenStep DEF Core
    <2>2. QED
      BY <2>1, UsersStep, OwnersStep, CredentialsStep, AnsweredStep DEF Owned
  <1>3. QED
    BY <1>1, <1>2, PTL DEF Spec

\* However users sign in and out while writes, tokens and notifications are under
\* way, a batch is sent only on a stream opened with its maker's credentials.
THEOREM CredentialsOwn == Spec => []OwnCredentials
  <1>1. Owned => OwnCredentials
    BY PipelineOwned DEF Owned, CredentialsInv, OwnCredentials
  <1>2. QED
    BY <1>1, OwnedInvariant, PTL

\* A write the client knows to be done stays done: batches are sent again after
\* every loss of the stream, but never one older than an acknowledged one of the
\* same user.
THEOREM Durability == Spec => []AckedIsDurable
  <1>1. Owned => AckedIsDurable
    BY DEF Owned, AnsweredInv, Durable, AckedIsDurable
  <1>2. QED
    BY <1>1, OwnedInvariant, PTL

\* The client gives a write up only when the server has refused that write: the
\* error of a stream is never blamed on a batch it is not about.
THEOREM DroppedRefused == Spec => []OnlyRefusedDropped
  <1>1. Owned => OnlyRefusedDropped
    BY DEF Owned, AnsweredInv, OnlyRefusedDropped
  <1>2. QED
    BY <1>1, OwnedInvariant, PTL

----------------------------------------------------------------------------
(***************************************************************************)
(* The write stream keeps the promise of WriteQueue: every step of the     *)
(* client, of the server and of Auth is a step of the promise, or none of  *)
(* its business.                                                           *)
(***************************************************************************)

Sent == [u \in Owners |-> AppliedNow(u)]

\* The server ends the stream with a refusal.
LastRefused == \A i \in 1..Len(toClient) : toClient[i].op = "refused" => i = Len(toClient)

\* A stream is lost, with the write that was refused or with none.
LEMMA LosingKinds ==
  ASSUME Losing
  PROVE  queue' = queue \/ WriteRefused
  <1>1. ~WriteFailed("transient")
    BY DEF WriteFailed
  <1>2. ASSUME ~stream.shaken PROVE ~WriteFailed("permanent")
    BY <1>2 DEF WriteFailed
  <1>3. QED
    BY <1>1, <1>2
       DEF Losing, HandleCredentialChange, ResumeStart, HandshakeRefused, StreamBreaks,
           StreamEnds, CloseStream, RestartNetwork, Relaunch, diskVars

\* What the wire holds before and behind the handshake.
LEMMA BeforeHandshake ==
  ASSUME Core, ~stream.shaken
  PROVE  /\ toClient # <<>> => Tail(toClient) = <<>>
         /\ toServer # <<>> => toClient = <<>>
  <1>1. /\ Len(toClient) \in Nat /\ Len(toServer) \in Nat
        /\ toClient \in Seq(Answer) /\ toServer \in Seq(Batches \cup {Handshake})
        /\ Len(toClient) + Len(toServer) = Len(Expected)
    BY AnswersAre DEF Core, TypeOK, FlightInv
  <1>2. Len(Expected) \in 0..1
    BY DEF Expected
  <1>3. Len(toClient) \in 0..1 /\ (Len(toServer) # 0 => Len(toClient) = 0)
    <2> DEFINE c == Len(toClient)
               s == Len(toServer)
               n == Len(Expected)
    <2>1. c \in Nat /\ s \in Nat /\ n \in 0..1 /\ c + s = n
      BY <1>1, <1>2
    <2> HIDE DEF c, s, n
    <2>2. c \in 0..1 /\ (s # 0 => c = 0)
      BY <2>1
    <2>3. QED
      BY <2>2 DEF c, s
  <1>4. ASSUME toClient # <<>> PROVE Tail(toClient) = <<>>
    <2>1. Tail(toClient) \in Seq(Answer) /\ Len(Tail(toClient)) = 0
      BY <1>1, <1>3, <1>4, TailIs
    <2>2. QED
      BY <2>1, EmptySeq
  <1>5. QED
    BY <1>1, <1>3, <1>4, EmptySeq

LEMMA BehindHandshake ==
  ASSUME Core, stream.shaken
  PROVE  /\ \A i \in 1..Len(toClient) : toClient[i].op \in {"applied", "refused"}
         /\ toServer # <<>> =>
              /\ Head(toServer) # Handshake
              /\ Len(toClient) + 1 \in 1..Len(pipeline)
              /\ Head(toServer) = pipeline[Len(toClient) + 1]
  <1>1. /\ pipeline \in Seq(Batches) /\ toServer \in Seq(Batches \cup {Handshake})
        /\ \A i \in 1..Len(toClient) : toClient[i] \in Answer
    BY AnswersAre DEF Core, TypeOK
  <1>2. ASSUME NEW i \in 1..Len(toClient) PROVE toClient[i].op \in {"applied", "refused"}
    <2>1. toClient[i].batch \in Batches
      BY <1>1, AnswerOfPipeline, ElementOfSeq
    <2>2. QED
      BY <1>1, <2>1, BatchesAreNumbers DEF Answer, Shaken, Handshake
  <1>3. ASSUME toServer # <<>>
        PROVE  /\ Head(toServer) # Handshake
               /\ Len(toClient) + 1 \in 1..Len(pipeline)
               /\ Head(toServer) = pipeline[Len(toClient) + 1]
    <2>1. 1 \in 1..Len(toServer) /\ Head(toServer) = toServer[1]
      BY <1>1, <1>3, TailIs
    <2>2. Len(toClient) + 1 \in 1..Len(pipeline) /\ toServer[1] = pipeline[Len(toClient) + 1]
      BY <2>1, AnswerOfPipeline
    <2>3. pipeline[Len(toClient) + 1] \in Batches
      BY <1>1, <2>2, ElementOfSeq
    <2>4. QED
      BY <2>1, <2>2, <2>3, BatchesAreNumbers DEF Handshake
  <1>4. QED
    BY <1>2, <1>3

\* What the steps do to the answers.
LEMMA AnswersMove ==
  ASSUME Core, [Next]_vars
  PROVE  \/ toClient' = toClient \/ toClient' = <<>>
         \/ toClient # <<>> /\ toClient' = Tail(toClient)
         \/ Listens /\ \E a \in Answer : toClient' = Append(toClient, a)
  <1>1. CASE AcceptStream
    <2>1. toServer # <<>> /\ Head(toServer) = Handshake /\ toClient' = Append(toClient, Shaken)
      BY <1>1 DEF AcceptStream
    <2>2. toClient = <<>>
      BY <2>1, BeforeHandshake, BehindHandshake
    <2>3. Listens /\ Shaken \in Answer
      BY <2>2 DEF Listens, Answer
    <2>4. QED
      BY <2>1, <2>3
  <1>2. CASE Apply \/ Refuse
    <2>1. Head(toServer) \in Batches
      BY <1>2, ServerHead DEF Apply, Refuse, Core
    <2>2. Applied(Head(toServer)) \in Answer /\ Refused(Head(toServer)) \in Answer
      BY <2>1, AnswerTypes
    <2>3. QED
      BY <1>2, <2>2 DEF Apply, Refuse
  <1>3. CASE ResumeStart /\ Head(workerQ).ok
    BY <1>3 DEF ResumeStart
  <1>4. CASE HandshakeComplete \/ BackoffElapsed \/ IdleTimeout
    BY <1>4 DEF HandshakeComplete, BackoffElapsed, IdleTimeout, wireVars
  <1>5. CASE WriteMutations \/ MutationResult
    BY <1>5 DEF WriteMutations, MutationResult
  <1>6. CASE Losing
    BY <1>6, LosingEffect DEF Over
  <1>7. CASE UNCHANGED vars
    BY <1>7 DEF vars, wireVars
  <1>8. QED
    BY <1>1, <1>2, <1>3, <1>4, <1>5, <1>6, <1>7, StepKinds, ApartIs DEF StreamStep

LEMMA LastStep ==
  ASSUME Core, LastRefused, [Next]_vars
  PROVE  LastRefused'
  <1>1. toClient \in Seq(Answer) /\ Len(toClient) \in Nat
    BY LenProperties DEF Core, TypeOK
  <1>2. CASE toClient' = toClient \/ toClient' = <<>>
    BY <1>2 DEF LastRefused
  <1>3. CASE toClient # <<>> /\ toClient' = Tail(toClient)
    <2>1. /\ Len(Tail(toClient)) = Len(toClient) - 1
          /\ \A i \in 1..Len(toClient) - 1 : Tail(toClient)[i] = toClient[i + 1]
      BY <1>1, <1>3, TailIs
    <2>2. ASSUME NEW i \in 1..Len(toClient'), toClient'[i].op = "refused"
          PROVE  i = Len(toClient')
      <3>1. i + 1 \in 1..Len(toClient) /\ toClient[i + 1].op = "refused"
        BY <1>1, <1>3, <2>1, <2>2
      <3>2. i + 1 = Len(toClient)
        BY <3>1 DEF LastRefused
      <3>3. Len(toClient') = Len(toClient) - 1 /\ i \in Nat
        BY <1>3, <2>1
      <3>4. QED
        BY <1>1, <3>2, <3>3
    <2>3. QED
      BY <2>2 DEF LastRefused
  <1>4. ASSUME NEW a \in Answer, toClient' = Append(toClient, a), Listens
        PROVE  LastRefused'
    <2>1. /\ Len(toClient') = Len(toClient) + 1
          /\ \A i \in 1..Len(toClient) : toClient'[i] = toClient[i]
      BY <1>1, <1>4, AppendProperties
    <2>2. \A i \in 1..Len(toClient') : i \in 1..Len(toClient) \/ i = Len(toClient')
      BY <1>1, <2>1
    <2>3. QED
      BY <1>4, <2>1, <2>2 DEF LastRefused, Listens
  <1>5. QED
    BY <1>2, <1>3, <1>4, AnswersMove

----------------------------------------------------------------------------
(* How many writes the server has applied on the connection.               *)

LEMMA SentIs ==
  ASSUME Core
  PROVE  /\ ~stream.shaken => Sent = [u \in Owners |-> 0]
         /\ toClient = <<>> => Sent = [u \in Owners |-> 0]
         /\ stream.shaken => Sent = [u \in Owners |-> IF u = user THEN Sent[user] ELSE 0]
         /\ stream.shaken /\ Listens => Sent[user] = Len(toClient)
         /\ stream.shaken /\ ~Listens => Sent[user] = Len(toClient) - 1
  <1>1. user \in Owners
    BY DEF Core, TypeOK
  <1>2. Sent[user] = AppliedNow(user)
    BY <1>1 DEF Sent
  <1>3. ~stream.shaken => \A u \in Owners : AppliedNow(u) = 0
    BY DEF AppliedNow
  <1>4. toClient = <<>> => \A u \in Owners : AppliedNow(u) = 0
    BY DEF AppliedNow, Listens
  <1>5. stream.shaken => \A u \in Owners : AppliedNow(u) = IF u = user THEN Sent[user] ELSE 0
    BY <1>1, <1>2 DEF AppliedNow
  <1>6. QED
    BY <1>2, <1>3, <1>4, <1>5 DEF Sent, AppliedNow

\* The same of the next state.
LEMMA SentThen ==
  ASSUME Core, [Next]_vars
  PROVE  /\ ~stream'.shaken => Sent' = [u \in Owners |-> 0]
         /\ toClient' = <<>> => Sent' = [u \in Owners |-> 0]
         /\ stream'.shaken => Sent' = [u \in Owners |-> IF u = user' THEN Sent'[user'] ELSE 0]
         /\ stream'.shaken /\ Listens' => Sent'[user'] = Len(toClient')
         /\ stream'.shaken /\ ~Listens' => Sent'[user'] = Len(toClient') - 1
  <1>1. user' \in Owners
    BY TypeStep DEF TypeOK
  <1>2. Sent'[user'] = AppliedNow(user)'
    BY <1>1 DEF Sent, AppliedNow
  <1>3. QED
    BY <1>1, <1>2 DEF Sent, AppliedNow, Listens

LEMMA SentStays ==
  ASSUME UNCHANGED <<user, toClient>>, stream'.shaken <=> stream.shaken
  PROVE  Sent' = Sent
  BY DEF Sent, AppliedNow, Listens

----------------------------------------------------------------------------
(* The steps.                                                              *)

\* The promise speaks of the queues, what is sent and the server's copies.
Stutters == UNCHANGED <<queue, Sent, server>>

LEMMA MakeStep ==
  ASSUME Core, WriteMutations
  PROVE  \E u \in Owners : \E b \in Batches : Queue!Make(u, b)
  <1> DEFINE b == Head(workerQ).batch
             q == Append(queue[user], b)
  <1>1. /\ b \in Batches
        /\ \A u \in Owners : \A i \in 1..Len(queue[u]) : queue[u][i] < b
        /\ queue' = [queue EXCEPT ![user] = q]
    BY WriteTaken
  <1>2. Sent' = Sent /\ server' = server
    <2>1. UNCHANGED <<user, toClient, server>> /\ (stream'.shaken <=> stream.shaken)
      BY FillingEffect DEF WriteMutations
    <2>2. QED
      BY <2>1, SentStays
  <1>3. user \in Owners
    BY DEF Core, TypeOK
  <1>4. Queue!Make(user, b)
    BY <1>1, <1>2 DEF Queue!Make, Sent
  <1>5. QED
    BY <1>1, <1>3, <1>4

LEMMA AcknowledgeStep ==
  ASSUME Core, LastRefused, [Next]_vars, MutationResult
  PROVE  \E u \in Owners : Queue!Acknowledge(u)
  <1>1. /\ stream.shaken /\ toClient # <<>> /\ Head(toClient).op = "applied"
        /\ toClient' = Tail(toClient) /\ user' = user /\ server' = server
    BY DEF MutationResult
  <1>2. queue' = [queue EXCEPT ![user] = Tail(queue[user])]
    BY ResultTaken
  <1>3. stream'.shaken
    BY <1>1, FillingEffect
  <1>4. user \in Owners
    BY DEF Core, TypeOK
  <1>5. /\ Len(toClient) \in Nat \ {0} /\ Head(toClient) = toClient[1]
        /\ Len(toClient') = Len(toClient) - 1
        /\ \A i \in 1..Len(toClient) - 1 : toClient'[i] = toClient[i + 1]
    BY <1>1, TailIs DEF Core, TypeOK
  <1>6. Listens <=> Listens'
    <2>1. ASSUME Listens, NEW i \in 1..Len(toClient') PROVE toClient'[i].op # "refused"
      BY <1>5, <2>1 DEF Listens
    <2>2. ASSUME Listens', NEW i \in 1..Len(toClient) PROVE toClient[i].op # "refused"
      <3>1. CASE i = 1
        BY <1>1, <1>5, <3>1
      <3>2. CASE i # 1
        <4> DEFINE j == i - 1
        <4>1. j \in 1..Len(toClient') /\ j \in 1..Len(toClient) - 1 /\ j + 1 = i
          BY <1>5, <3>2
        <4> HIDE DEF j
        <4>2. toClient'[j] = toClient[i]
          BY <1>5, <4>1
        <4>3. QED
          BY <2>2, <4>1, <4>2 DEF Listens
      <3>3. QED
        BY <3>1, <3>2
    <2>3. QED
      BY <2>1, <2>2 DEF Listens
  <1>7. ~Listens => Len(toClient) # 1
    BY <1>1, <1>5 DEF Listens
  <1>8. Sent[user] \in Nat /\ Sent[user] > 0 /\ Sent'[user'] = Sent[user] - 1
    <2>1. CASE Listens
      BY <1>1, <1>3, <1>5, <1>6, <2>1, SentIs, SentThen
    <2>2. CASE ~Listens
      <3>1. Sent[user] = Len(toClient) - 1 /\ Sent'[user'] = Len(toClient) - 1 - 1
        BY <1>1, <1>3, <1>5, <1>6, <2>2, SentIs, SentThen
      <3>2. QED
        BY <1>5, <1>7, <2>2, <3>1
    <2>3. QED
      BY <2>1, <2>2
  <1>9. Sent' = [Sent EXCEPT ![user] = Sent[user] - 1]
    <2>1. Sent = [u \in Owners |-> IF u = user THEN Sent[user] ELSE 0]
      BY <1>1, SentIs
    <2>2. Sent' = [u \in Owners |-> IF u = user THEN Sent[user] - 1 ELSE 0]
      <3>1. Sent' = [u \in Owners |-> IF u = user' THEN Sent'[user'] ELSE 0]
        BY <1>3, SentThen
      <3>2. QED
        BY <1>1, <1>8, <3>1
    <2>3. QED
      BY <1>4, <2>1, <2>2
  <1>10. Queue!Acknowledge(user)
    <2>1. Sent[user] > 0 /\ server' = server
      BY <1>1, <1>8
    <2>2. QED
      BY <1>2, <1>9, <2>1 DEF Queue!Acknowledge, Sent
  <1>11. QED
    BY <1>4, <1>10

LEMMA RetryStep ==
  ASSUME Core, LastRefused, [Next]_vars, Losing, queue' = queue
  PROVE  \E u \in Owners : Queue!Retry(u)
  <1>1. ~stream'.shaken /\ server' = server
    BY LosingEffect DEF Over
  <1>2. Sent' = [u \in Owners |-> 0]
    BY <1>1, SentThen
  <1>3. user \in Owners
    BY DEF Core, TypeOK
  <1>4. Sent' = [Sent EXCEPT ![user] = 0]
    <2>1. \/ Sent = [u \in Owners |-> 0]
          \/ Sent = [u \in Owners |-> IF u = user THEN Sent[user] ELSE 0]
      BY SentIs
    <2>2. CASE Sent = [u \in Owners |-> 0]
      BY <1>2, <1>3, <2>2
    <2>3. CASE Sent = [u \in Owners |-> IF u = user THEN Sent[user] ELSE 0]
      <3>1. /\ [Sent EXCEPT ![user] = 0] = [u \in Owners |-> IF u = user THEN 0 ELSE Sent[u]]
            /\ \A u \in Owners : u # user => Sent[u] = 0
        BY <2>3
      <3>2. QED
        BY <1>2, <3>1
    <2>4. QED
      BY <2>1, <2>2, <2>3
  <1>5. Queue!Retry(user)
    BY <1>1, <1>4 DEF Queue!Retry, Sent
  <1>6. QED
    BY <1>3, <1>5

LEMMA RefuseStep ==
  ASSUME Core, LastRefused, [Next]_vars, WriteRefused
  PROVE  \E u \in Owners : Queue!Refuse(u)
  <1>1. /\ stream.shaken /\ toClient # <<>> /\ Head(toClient).op = "refused"
        /\ CloseStream("permanent")
    BY DEF WriteRefused, StreamEnds
  <1>2. ~stream'.shaken /\ server' = server
    BY LosingEffect DEF Over, Losing
  <1>3. Sent' = [u \in Owners |-> 0]
    BY <1>2, SentThen
  <1>4. user \in Owners
    BY DEF Core, TypeOK
  <1>5. pipeline # <<>>
    BY <1>1, AnswerOfPipeline
  <1>6. queue' = [queue EXCEPT ![user] = Tail(queue[user])] /\ queue[user] # <<>>
    BY <1>1, <1>5, Oldest DEF CloseStream, WriteFailed
  <1>7. Sent[user] = 0
    <2>1. /\ Len(toClient) \in Nat \ {0} /\ Head(toClient) = toClient[1]
      BY <1>1, TailIs DEF Core, TypeOK
    <2>2. 1 \in 1..Len(toClient)
      BY <2>1
    <2>3. Len(toClient) = 1 /\ ~Listens
      BY <1>1, <2>1, <2>2 DEF LastRefused, Listens
    <2>4. QED
      BY <1>1, <2>3, SentIs
  <1>8. Sent = [u \in Owners |-> 0]
    BY <1>1, <1>7, SentIs
  <1>9. Queue!Refuse(user)
    BY <1>2, <1>3, <1>6, <1>7, <1>8 DEF Queue!Refuse, Sent
  <1>10. QED
    BY <1>4, <1>9

LEMMA ApplyStep ==
  ASSUME Core, OwnersInv, [Next]_vars, Apply
  PROVE  \E u \in Owners : Queue!Apply(u)
  <1> DEFINE h == Head(toServer)
  <1>1. /\ toServer # <<>> /\ h # Handshake /\ Listens
        /\ toClient' = Append(toClient, Applied(h))
        /\ server' = [server EXCEPT ![by[h]] = h]
        /\ stream' = stream /\ UNCHANGED <<user, queue>>
    BY DEF Apply, diskVars, streamVars
  <1>2. stream.shaken
    <2>1. 1 \in 1..Len(toServer) /\ h = toServer[1]
      BY <1>1, TailIs DEF Core, TypeOK
    <2>2. QED
      BY <1>1, <2>1, AnswerOfPipeline
  <1>3. Len(toClient) + 1 \in 1..Len(pipeline) /\ h = pipeline[Len(toClient) + 1]
    BY <1>1, <1>2, BehindHandshake
  <1>4. /\ by[h] = user /\ h \in Batches
        /\ Len(toClient) + 1 \in 1..Len(queue[user]) /\ h = queue[user][Len(toClient) + 1]
    BY <1>3, PipelineOwned
  <1>5. user \in Owners /\ toClient \in Seq(Answer) /\ Len(toClient) \in Nat
    BY LenProperties DEF Core, TypeOK
  <1> HIDE DEF h
  <1>6. /\ Len(toClient') = Len(toClient) + 1
        /\ \A i \in 1..Len(toClient) : toClient'[i] = toClient[i]
        /\ toClient'[Len(toClient) + 1] = Applied(h)
    BY <1>1, <1>4, <1>5, AnswerTypes, AppendProperties
  <1>7. Listens'
    <2>1. \A i \in 1..Len(toClient') : i \in 1..Len(toClient) \/ i = Len(toClient) + 1
      BY <1>5, <1>6
    <2>2. Applied(h).op # "refused"
      BY DEF Applied
    <2>3. \A i \in 1..Len(toClient') : toClient'[i].op # "refused"
      BY <1>1, <1>6, <2>1, <2>2 DEF Listens
    <2>4. QED
      BY <2>3 DEF Listens
  <1>8. Sent[user] = Len(toClient) /\ Sent'[user'] = Len(toClient) + 1
    BY <1>1, <1>2, <1>6, <1>7, SentIs, SentThen
  <1>9. Sent' = [Sent EXCEPT ![user] = Sent[user] + 1]
    <2>1. Sent = [u \in Owners |-> IF u = user THEN Sent[user] ELSE 0]
      BY <1>2, SentIs
    <2>2. Sent' = [u \in Owners |-> IF u = user THEN Sent[user] + 1 ELSE 0]
      <3>1. Sent' = [u \in Owners |-> IF u = user' THEN Sent'[user'] ELSE 0]
        BY <1>1, <1>2, SentThen
      <3>2. QED
        BY <1>1, <1>8, <3>1
    <2>3. QED
      BY <1>5, <2>1, <2>2
  <1>10. Queue!Apply(user)
    <2>1. Sent[user] < Len(queue[user])
      BY <1>4, <1>5, <1>8
    <2>2. server' = [server EXCEPT ![user] = queue[user][Sent[user] + 1]]
      BY <1>1, <1>4, <1>8
    <2>3. QED
      BY <1>1, <1>9, <2>1, <2>2 DEF Queue!Apply, Sent
  <1>11. QED
    BY <1>5, <1>10

LEMMA StreamStutters ==
  ASSUME Core, [Next]_vars, StreamStep, ~Apply
  PROVE  Stutters
  <1>1. queue' = queue /\ user' = user
    BY StreamStepIs
  <1>2. server' = server
    BY DEF StreamStep, ResumeStart, HandshakeComplete, BackoffElapsed, IdleTimeout, AcceptStream,
           Refuse
  <1>3. stream \in StreamType
    BY FillTypes DEF Core
  <1>4. CASE ResumeStart /\ Head(workerQ).ok
    <2>1. /\ stream' = [stream EXCEPT !.state = "open", !.user = Head(workerQ).user]
          /\ toClient' = toClient
      BY <1>4 DEF ResumeStart
    <2>2. stream'.shaken <=> stream.shaken
      BY <1>3, <2>1 DEF StreamType
    <2>3. QED
      BY <1>1, <1>2, <2>1, <2>2, SentStays DEF Stutters
  <1>5. CASE HandshakeComplete
    <2>1. toClient # <<>> /\ ~stream.shaken /\ toClient' = Tail(toClient)
      BY <1>5 DEF HandshakeComplete
    <2>2. toClient' = <<>>
      BY <2>1, BeforeHandshake
    <2>3. QED
      BY <1>1, <1>2, <2>1, <2>2, SentIs, SentThen DEF Stutters
  <1>6. CASE BackoffElapsed
    <2>1. stream' = [stream EXCEPT !.state = "starting"] /\ toClient' = toClient
      BY <1>6 DEF BackoffElapsed, wireVars
    <2>2. stream'.shaken <=> stream.shaken
      BY <1>3, <2>1 DEF StreamType
    <2>3. QED
      BY <1>1, <1>2, <2>1, <2>2, SentStays DEF Stutters
  <1>7. CASE IdleTimeout
    <2>1. stream.idle /\ toClient' = <<>>
      BY <1>7 DEF IdleTimeout
    <2>2. stream.shaken /\ pipeline = <<>>
      BY <2>1 DEF Core, IdleIsUnneeded
    <2>3. toClient = <<>>
      BY <2>2, AnswerOfPipeline
    <2>4. QED
      BY <1>1, <1>2, <2>1, <2>3, SentIs, SentThen DEF Stutters
  <1>8. CASE AcceptStream
    <2>1. /\ toServer # <<>> /\ Head(toServer) = Handshake /\ stream' = stream
      BY <1>8 DEF AcceptStream, streamVars
    <2>2. ~stream.shaken
      BY <2>1, BehindHandshake
    <2>3. QED
      BY <1>1, <1>2, <2>1, <2>2, SentIs, SentThen DEF Stutters
  <1>9. CASE Refuse
    <2> DEFINE a == Refused(Head(toServer))
    <2>1. /\ toServer # <<>> /\ Head(toServer) # Handshake /\ Listens /\ stream' = stream
          /\ toClient' = Append(toClient, a)
      BY <1>9 DEF Refuse, streamVars
    <2>2. stream.shaken
      <3>1. 1 \in 1..Len(toServer) /\ Head(toServer) = toServer[1]
        BY <2>1, TailIs DEF Core, TypeOK
      <3>2. QED
        BY <2>1, <3>1, AnswerOfPipeline
    <2>3. a \in Answer /\ a.op = "refused"
      BY <2>1, ServerHead, AnswerTypes DEF Core, Refused
    <2> HIDE DEF a
    <2>4. /\ Len(toClient) \in Nat /\ Len(toClient') = Len(toClient) + 1
          /\ toClient'[Len(toClient) + 1] = a
      BY <2>1, <2>3, AppendProperties, LenProperties DEF Core, TypeOK
    <2>5. ~Listens'
      <3>1. Len(toClient) + 1 \in 1..Len(toClient')
        BY <2>4
      <3>2. QED
        BY <2>3, <2>4, <3>1 DEF Listens
    <2>6. Sent[user] = Len(toClient) /\ Sent'[user'] = Len(toClient)
      <3>1. Len(toClient) + 1 - 1 = Len(toClient)
        BY <2>4
      <3>2. QED
        BY <2>1, <2>2, <2>4, <2>5, <3>1, SentIs, SentThen
    <2>7. Sent' = Sent
      <3>1. Sent = [u \in Owners |-> IF u = user THEN Sent[user] ELSE 0]
        BY <2>2, SentIs
      <3>2. Sent' = [u \in Owners |-> IF u = user' THEN Sent'[user'] ELSE 0]
        BY <2>1, <2>2, SentThen
      <3>3. QED
        BY <1>1, <2>6, <3>1, <3>2
    <2>8. QED
      BY <1>1, <1>2, <2>7 DEF Stutters
  <1>10. QED
    BY <1>4, <1>5, <1>6, <1>7, <1>8, <1>9 DEF StreamStep

LEMMA PromiseStep ==
  ASSUME Owned, LastRefused, [Next]_vars
  PROVE  Queue!Next \/ Stutters
  <1>1. Core /\ OwnersInv
    BY DEF Owned
  <1>2. CASE ApartStep \/ UNCHANGED vars
    <2>1. UNCHANGED <<queue, user, stream, toClient, server>>
      BY <1>2, ApartIs DEF vars, diskVars, streamVars, wireVars
    <2>2. QED
      BY <2>1, SentStays DEF Stutters
  <1>3. CASE Losing
    BY <1>1, <1>3, LosingKinds, RetryStep, RefuseStep DEF Queue!Next
  <1>4. CASE StreamStep
    BY <1>1, <1>4, ApplyStep, StreamStutters DEF Queue!Next
  <1>5. CASE WriteMutations
    BY <1>1, <1>5, MakeStep DEF Queue!Next
  <1>6. CASE MutationResult
    BY <1>1, <1>6, AcknowledgeStep DEF Queue!Next
  <1>7. QED
    BY <1>1, <1>2, <1>3, <1>4, <1>5, <1>6, StepKinds

\* Whatever signs in and out, breaks or is killed, the writes of each user reach
\* the server in the order in which they were made, begin again only at the
\* oldest without an answer, and leave the queue only when they are answered.
THEOREM PromiseOfWrites == Spec => SentInOrder
  <1>1. Init => LastRefused /\ Queue!Init
    <2>1. ASSUME Init PROVE LastRefused
      BY <2>1 DEF Init, LastRefused
    <2>2. ASSUME Init PROVE Queue!Init
      <3>1. /\ queue = [u \in Owners |-> <<>>] /\ server = [u \in Owners |-> 0]
            /\ toClient = <<>>
        BY <2>2 DEF Init
      <3>2. Sent = [u \in Owners |-> 0]
        BY <2>2, <3>1, InitCore, SentIs
      <3>3. QED
        BY <3>1, <3>2 DEF Queue!Init, Sent
    <2>3. QED
      BY <2>1, <2>2
  <1>2. Owned /\ LastRefused /\ [Next]_vars => LastRefused'
    BY LastStep DEF Owned
  <1>3. Owned /\ LastRefused /\ [Next]_vars =>
          [Queue!Next]_<<queue, [u \in Owners |-> AppliedNow(u)], server>>
    BY PromiseStep DEF Stutters, Sent
  <1>4. QED
    BY <1>1, <1>2, <1>3, OwnedInvariant, PTL DEF Spec, SentInOrder, Queue!Spec
=============================================================================
