-------------------------- MODULE WriteStream_proofs --------------------------
(***************************************************************************)
(* Theorems about the write stream, for every set of users, every length   *)
(* of the pipeline and every bound, with their proofs.                     *)
(***************************************************************************)
EXTENDS WriteStream, SequenceTheorems, TLAPS

----------------------------------------------------------------------------
(* Queues of batches.                                                      *)

Ascending(q) == \A i \in 1..Len(q), j \in 1..Len(q) : i < j => q[i] < q[j]

\* p is the head of q.
Heads(p, q) == Len(p) <= Len(q) /\ p = SubSeq(q, 1, Len(p))

LEMMA BatchesAreNumbers ==
  /\ Batches \subseteq Nat \ {0} /\ 0 \notin Batches
  /\ MaxPipeline \in Nat \ {0} /\ MaxWrites \in Nat /\ MaxTurns \in Nat
  /\ Nobody \in Owners /\ Users \subseteq Owners
  BY BoundsAssumption DEF Batches, Owners

LEMMA HeadsIs ==
  ASSUME NEW S, NEW p \in Seq(S), NEW q \in Seq(S)
  PROVE  Heads(p, q) <=> Len(p) <= Len(q) /\ \A i \in 1..Len(p) : p[i] = q[i]
  <1> /\ Len(p) \in Nat /\ Len(q) \in Nat
    BY LenProperties
  <1>1. CASE Len(p) <= Len(q)
    <2>1. /\ SubSeq(q, 1, Len(p)) \in Seq(S) /\ Len(SubSeq(q, 1, Len(p))) = Len(p)
          /\ \A i \in 1..Len(p) : SubSeq(q, 1, Len(p))[i] = q[i]
      <3>1. \A i \in 1..Len(p) : q[i] \in S
        BY <1>1, ElementOfSeq
      <3>2. /\ SubSeq(q, 1, Len(p)) \in Seq(S)
            /\ Len(SubSeq(q, 1, Len(p))) = IF 1 <= Len(p) THEN Len(p) - 1 + 1 ELSE 0
            /\ \A i \in 1..Len(p) - 1 + 1 : SubSeq(q, 1, Len(p))[i] = q[1 + i - 1]
        BY <3>1, SubSeqProperties
      <3>3. QED
        BY <3>2
    <2>2. p = SubSeq(q, 1, Len(p)) <=> \A i \in 1..Len(p) : p[i] = q[i]
      BY <2>1, SeqEqual
    <2>3. QED
      BY <1>1, <2>2 DEF Heads
  <1>2. CASE ~(Len(p) <= Len(q))
    BY <1>2 DEF Heads
  <1>3. QED
    BY <1>1, <1>2

LEMMA MinOfTwo ==
  ASSUME NEW a \in Nat, NEW b \in Nat
  PROVE  /\ Min({a, b}) \in {a, b} /\ Min({a, b}) <= a /\ Min({a, b}) <= b
  <1>1. \E x \in {a, b} : \A y \in {a, b} : x <= y
    BY DEF Min
  <1>2. QED
    BY <1>1 DEF Min

LEMMA SelectFirst ==
  ASSUME NEW n \in Nat, NEW k \in 0..n, NEW I, I = {i \in 1..n : i > k}
  PROVE  /\ I # {} <=> k < n
         /\ k < n => Min(I) = k + 1
  <1>1. I # {} <=> k < n
    <2>1. k < n => k + 1 \in I
      OBVIOUS
    <2>2. QED
      BY <2>1
  <1>2. ASSUME k < n PROVE Min(I) = k + 1
    <2>1. k + 1 \in I /\ \A y \in I : k + 1 <= y
      BY <1>2
    <2>2. \A x \in I : (\A y \in I : x <= y) => x = k + 1
      BY <2>1
    <2>3. QED
      BY <2>1, <2>2 DEF Min
  <1>3. QED
    BY <1>1, <1>2

\* From a head of the queue, the pipeline is filled to its limit.
LEMMA FilledIs ==
  ASSUME NEW q \in Seq(Batches), Ascending(q), NEW p \in Seq(Batches), Heads(p, q),
         Len(p) <= MaxPipeline,
         NEW n, n = Min({MaxPipeline, Len(q)})
  PROVE  Filled(p, q) = SubSeq(q, 1, n) /\ Len(p) <= n /\ n <= Len(q) /\ n <= MaxPipeline
  <1> DEFINE l == Len(q)
             k == Len(p)
             I == {i \in 1..l : \A j \in 1..k : p[j] < q[i]}
  <1>1. /\ l \in Nat /\ k \in Nat /\ k <= l /\ k <= MaxPipeline
        /\ \A j \in 1..k : p[j] = q[j]
    BY HeadsIs, LenProperties DEF Heads
  <1>2. \A i \in 1..l : q[i] \in Nat
    BY ElementOfSeq, BatchesAreNumbers
  <1>3. n \in {MaxPipeline, l} /\ k <= n /\ n <= l /\ n <= MaxPipeline /\ n \in Nat
    BY <1>1, MinOfTwo, BatchesAreNumbers
  <1>4. I = {i \in 1..l : i > k}
    <2>1. ASSUME NEW i \in 1..l, i > k
          PROVE  \A j \in 1..k : p[j] < q[i]
      BY <1>1, <2>1 DEF Ascending
    <2>2. ASSUME NEW i \in 1..l, ~(i > k)
          PROVE  ~\A j \in 1..k : p[j] < q[i]
      <3>1. i \in 1..k /\ p[i] = q[i]
        BY <1>1, <2>2
      <3>2. QED
        BY <1>2, <3>1
    <2>3. QED
      BY <2>1, <2>2
  <1> DEFINE S == {MaxPipeline, l}
  <1>6. ASSUME NEW next \in Nat, next = IF I # {} THEN Min(I) ELSE 0,
               {next - 1 + MaxPipeline - k, l} = S
        PROVE  Filled(p, q) = IF next = 0 THEN p ELSE p \o SubSeq(q, next, Min(S))
    <2> DEFINE R == {next - 1 + MaxPipeline - k, l}
    <2>1. Filled(p, q) = IF next = 0 THEN p ELSE p \o SubSeq(q, next, Min(R))
      BY <1>6 DEF Filled, SelectInSeq
    <2> HIDE DEF R, S
    <2>2. R = S
      BY <1>6 DEF R
    <2>3. QED
      BY <2>1, <2>2
  <1>11. n = Min(S)
    OBVIOUS
  <1> HIDE DEF I
  <1>5. (I # {} <=> k < l) /\ (k < l => Min(I) = k + 1)
    <2>1. l \in Nat /\ k \in 0..l
      BY <1>1
    <2> HIDE DEF l, k
    <2>2. QED
      BY <1>4, <2>1, SelectFirst
  <1> HIDE DEF k, l, S
  <1>7. CASE k < l
    <2>1. Filled(p, q) = p \o SubSeq(q, k + 1, n)
      <3>1. I # {} /\ Min(I) = k + 1 /\ k + 1 # 0
        BY <1>1, <1>5, <1>7
      <3> DEFINE m == k + 1
      <3>2. m \in Nat /\ m # 0 /\ m = IF I # {} THEN Min(I) ELSE 0
        BY <1>1, <3>1
      <3>3. m - 1 + MaxPipeline - k = MaxPipeline
        BY <1>1, BatchesAreNumbers
      <3> HIDE DEF m
      <3>4. {m - 1 + MaxPipeline - k, l} = S
        BY <3>3 DEF S
      <3>5. Filled(p, q) = IF m = 0 THEN p ELSE p \o SubSeq(q, m, Min(S))
        BY <1>6, <3>2, <3>4
      <3>6. Filled(p, q) = p \o SubSeq(q, m, n)
        BY <1>11, <3>2, <3>5
      <3>7. QED
        BY <3>6 DEF m
    <2>3. Filled(p, q) = SubSeq(q, 1, k) \o SubSeq(q, k + 1, n)
      BY <2>1 DEF Heads, k, l
    <2>4. SubSeq(q, 1, k) \o SubSeq(q, k + 1, n) = SubSeq(q, 1, n)
      <3>1. 1 \in 1..Len(q) + 1 /\ k \in 1 - 1..Len(q) /\ n \in k..Len(q)
        BY <1>1, <1>3 DEF l
      <3>2. QED
        BY <3>1, ConcatAdjacentSubSeq
    <2>5. QED
      BY <1>3, <2>3, <2>4 DEF k, l
  <1>8. CASE k = l
    <2>1. Filled(p, q) = p
      <3>1. I = {} /\ ~(I # {})
        BY <1>1, <1>5, <1>8
      <3>2. QED
        BY <3>1 DEF Filled, SelectInSeq, I, k, l
    <2>2. n = k
      BY <1>1, <1>3, <1>8, BatchesAreNumbers
    <2>3. QED
      BY <1>3, <2>1, <2>2 DEF Heads, k, l
  <1>9. k < l \/ k = l
    BY <1>1
  <1>10. QED
    BY <1>7, <1>8, <1>9

LEMMA FilledType ==
  ASSUME NEW q \in Seq(Batches), Ascending(q), NEW p \in Seq(Batches), Heads(p, q),
         Len(p) <= MaxPipeline
  PROVE  LET f == Filled(p, q)
             news == SubSeq(f, Len(p) + 1, Len(f))
         IN  /\ f \in Seq(Batches) /\ Heads(f, q) /\ Len(f) <= MaxPipeline
             /\ q # <<>> => f # <<>>
             /\ news \in Seq(Batches) /\ f = p \o news
  <1> DEFINE n == Min({MaxPipeline, Len(q)})
             f == SubSeq(q, 1, n)
             news == SubSeq(f, Len(p) + 1, Len(f))
  <1>1. Filled(p, q) = f /\ Len(p) <= n /\ n <= Len(q) /\ n <= MaxPipeline
    BY FilledIs
  <1>2. Len(q) \in Nat /\ Len(p) \in Nat /\ n \in Nat
    <2>1. Len(q) \in Nat /\ Len(p) \in Nat
      BY LenProperties
    <2>2. QED
      BY <2>1, MinOfTwo, BatchesAreNumbers
  <1>3. q # <<>> => n # 0
    <2>1. ASSUME q # <<>> PROVE Len(q) # 0
      BY <2>1, EmptySeq
    <2>2. n \in {MaxPipeline, Len(q)}
      BY <1>2, MinOfTwo, BatchesAreNumbers
    <2>3. QED
      BY <2>1, <2>2, BatchesAreNumbers
  <1> HIDE DEF n
  <1>4. f \in Seq(Batches) /\ Len(f) = n /\ \A i \in 1..n : f[i] = q[i]
    <2>1. \A i \in 1..n : q[i] \in Batches
      BY <1>1, <1>2, ElementOfSeq
    <2>2. /\ f \in Seq(Batches) /\ Len(f) = IF 1 <= n THEN n - 1 + 1 ELSE 0
          /\ \A i \in 1..n - 1 + 1 : f[i] = q[1 + i - 1]
      BY <1>2, <2>1, SubSeqProperties
    <2>3. QED
      BY <1>2, <2>2
  <1>5. Heads(f, q)
    BY <1>1, <1>4 DEF Heads
  <1>6. f # <<>> <=> n # 0
    BY <1>4, EmptySeq
  <1> HIDE DEF f
  <1>7. \A i \in 1..Len(p) : p[i] = f[i]
    BY <1>1, <1>2, <1>4, HeadsIs
  <1>8. p = SubSeq(f, 1, Len(p))
    BY <1>1, <1>4, <1>7, HeadsIs DEF Heads
  <1>9. /\ news \in Seq(Batches)
        /\ SubSeq(f, 1, Len(p)) \o news = SubSeq(f, 1, Len(f))
    <2>1. \A i \in Len(p) + 1..Len(f) : f[i] \in Batches
      BY <1>2, <1>4, ElementOfSeq
    <2>2. 1 \in 1..Len(f) + 1 /\ Len(p) \in 1 - 1..Len(f) /\ Len(f) \in Len(p)..Len(f)
      BY <1>1, <1>2, <1>4
    <2>3. news \in Seq(Batches)
      BY <1>2, <1>4, <2>1, SubSeqProperties
    <2>4. QED
      BY <1>4, <2>2, <2>3, ConcatAdjacentSubSeq
  <1>10. f = SubSeq(f, 1, Len(f))
    BY <1>4, SubSeqFull
  <1>11. QED
    BY <1>1, <1>3, <1>4, <1>5, <1>6, <1>8, <1>9, <1>10

----------------------------------------------------------------------------
(* What leaves a queue.                                                    *)

LEMMA RemoveAtIs ==
  ASSUME NEW S, NEW q \in Seq(S), NEW k \in 1..Len(q)
  PROVE  /\ RemoveAt(q, k) \in Seq(S) /\ Len(RemoveAt(q, k)) = Len(q) - 1
         /\ \A i \in 1..Len(q) - 1 : RemoveAt(q, k)[i] = IF i < k THEN q[i] ELSE q[i + 1]
  <1> DEFINE a == SubSeq(q, 1, k - 1)
             b == SubSeq(q, k + 1, Len(q))
  <1>1. Len(q) \in Nat /\ \A i \in 1..Len(q) : q[i] \in S
    BY ElementOfSeq, LenProperties
  <1>2. /\ a \in Seq(S) /\ Len(a) = k - 1
        /\ \A i \in 1..k - 1 : a[i] = q[i]
    <2>1. \A i \in 1..k - 1 : q[i] \in S
      BY <1>1
    <2>2. /\ a \in Seq(S) /\ Len(a) = IF 1 <= k - 1 THEN k - 1 - 1 + 1 ELSE 0
          /\ \A i \in 1..k - 1 - 1 + 1 : a[i] = q[1 + i - 1]
      BY <1>1, <2>1, SubSeqProperties
    <2>3. QED
      BY <1>1, <2>2
  <1>3. /\ b \in Seq(S) /\ Len(b) = Len(q) - k
        /\ \A i \in 1..Len(q) - k : b[i] = q[k + i]
    <2>1. \A i \in k + 1..Len(q) : q[i] \in S
      BY <1>1
    <2>2. /\ b \in Seq(S) /\ Len(b) = IF k + 1 <= Len(q) THEN Len(q) - (k + 1) + 1 ELSE 0
          /\ \A i \in 1..Len(q) - (k + 1) + 1 : b[i] = q[k + 1 + i - 1]
      BY <1>1, <2>1, SubSeqProperties
    <2>3. QED
      BY <1>1, <2>2
  <1>4. RemoveAt(q, k) = a \o b
    BY DEF RemoveAt
  <1> HIDE DEF a, b
  <1>5. /\ a \o b \in Seq(S) /\ Len(a \o b) = Len(a) + Len(b)
        /\ \A i \in 1..Len(a) + Len(b) :
             (a \o b)[i] = IF i <= Len(a) THEN a[i] ELSE b[i - Len(a)]
    BY <1>2, <1>3, ConcatProperties
  <1>6. ASSUME NEW i \in 1..Len(q) - 1
        PROVE  (a \o b)[i] = IF i < k THEN q[i] ELSE q[i + 1]
    <2>1. CASE i < k
      BY <1>1, <1>2, <1>3, <1>5, <2>1
    <2>2. CASE ~(i < k)
      <3> DEFINE j == i - Len(a)
      <3>1. j \in 1..Len(q) - k /\ k + j = i + 1 /\ ~(i <= Len(a)) /\ i \in 1..Len(a) + Len(b)
        BY <1>1, <1>2, <1>3, <2>2
      <3>2. (a \o b)[i] = b[j]
        BY <1>5, <3>1
      <3> HIDE DEF j
      <3>3. b[j] = q[i + 1]
        BY <1>3, <3>1
      <3>4. QED
        BY <2>2, <3>2, <3>3
    <2>3. QED
      BY <2>1, <2>2
  <1>7. QED
    BY <1>1, <1>2, <1>3, <1>4, <1>5, <1>6

\* The oldest batch leaves the queue.
LEMMA WithoutHead ==
  ASSUME NEW q \in Seq(Batches), q # <<>>
  PROVE  Without(q, Head(q)) = Tail(q)
  <1> DEFINE I == {i \in 1..Len(q) : q[i] = Head(q)}
  <1>1. Len(q) \in Nat /\ 1 \in I
    BY EmptySeq, LenProperties
  <1>2. Min(I) = 1
    <2>1. \A y \in I : 1 <= y
      OBVIOUS
    <2>2. \A x \in I : (\A y \in I : x <= y) => x = 1
      BY <1>1, <2>1
    <2> HIDE DEF I
    <2>3. QED
      BY <1>1, <2>1, <2>2 DEF Min
  <1>3. Without(q, Head(q)) = RemoveAt(q, Min(I))
    <2>1. \E i \in 1..Len(q) : q[i] = Head(q)
      BY <1>1
    <2>2. QED
      BY <1>1, <2>1 DEF Without, RemoveFirst, SelectInSeq
  <1>4. RemoveAt(q, 1) = Tail(q)
    <2>1. 1 \in 1..Len(q)
      BY <1>1
    <2>2. /\ RemoveAt(q, 1) \in Seq(Batches) /\ Len(RemoveAt(q, 1)) = Len(q) - 1
          /\ \A i \in 1..Len(q) - 1 : RemoveAt(q, 1)[i] = IF i < 1 THEN q[i] ELSE q[i + 1]
      BY <2>1, RemoveAtIs
    <2>3. /\ Tail(q) \in Seq(Batches) /\ Len(Tail(q)) = Len(q) - 1
          /\ \A i \in 1..Len(Tail(q)) : Tail(q)[i] = q[i + 1]
      BY HeadTailProperties
    <2>4. QED
      BY <1>1, <2>2, <2>3, SeqEqual
  <1>5. QED
    BY <1>2, <1>3, <1>4

IsToken(e) == e.op \in {"token", "resume"}

OneToken(q) == \A i \in 1..Len(q), j \in 1..Len(q) : IsToken(q[i]) /\ IsToken(q[j]) => i = j

NoToken(q) == \A i \in 1..Len(q) : ~IsToken(q[i])

\* The one token of a queue is taken out of it.
LEMMA VoidIs ==
  ASSUME NEW S, NEW q \in Seq(S), OneToken(q)
  PROVE  /\ Void(q) \in Seq(S) /\ NoToken(Void(q))
         /\ \/ NoToken(q) /\ Void(q) = q
            \/ \E k \in 1..Len(q) :
                 /\ IsToken(q[k]) /\ \A i \in 1..Len(q) : IsToken(q[i]) => i = k
                 /\ Len(Void(q)) = Len(q) - 1
                 /\ \A i \in 1..Len(q) - 1 : Void(q)[i] = IF i < k THEN q[i] ELSE q[i + 1]
  <1>1. CASE NoToken(q)
    <2>1. Void(q) = q
      BY <1>1 DEF Void, RemoveFirstMatch, NoToken, IsToken
    <2>2. QED
      BY <1>1, <2>1
  <1>2. ASSUME NEW k \in 1..Len(q), IsToken(q[k])
        PROVE  /\ Void(q) \in Seq(S) /\ NoToken(Void(q))
               /\ \A i \in 1..Len(q) : IsToken(q[i]) => i = k
               /\ Len(Void(q)) = Len(q) - 1
               /\ \A i \in 1..Len(q) - 1 : Void(q)[i] = IF i < k THEN q[i] ELSE q[i + 1]
    <2> DEFINE I == {i \in 1..Len(q) : q[i].op \in {"token", "resume"}}
    <2>1. I = {k} /\ Len(q) \in Nat /\ \A i \in 1..Len(q) : IsToken(q[i]) => i = k
      BY <1>2, LenProperties DEF OneToken, IsToken
    <2>2. Void(q) = RemoveAt(q, Min(I))
      <3>1. \E i \in 1..Len(q) : q[i].op \in {"token", "resume"}
        BY <1>2 DEF IsToken
      <3>2. I # {}
        BY <2>1
      <3>3. QED
        BY <3>1, <3>2 DEF Void, RemoveFirstMatch, SelectInSeq
    <2>3. Min(I) = k
      <3> HIDE DEF I
      <3>1. k <= k
        BY <2>1
      <3>2. QED
        BY <2>1, <3>1 DEF Min
    <2> HIDE DEF I
    <2>4. /\ Void(q) \in Seq(S) /\ Len(Void(q)) = Len(q) - 1
          /\ \A i \in 1..Len(q) - 1 : Void(q)[i] = IF i < k THEN q[i] ELSE q[i + 1]
      BY <2>2, <2>3, RemoveAtIs
    <2>5. NoToken(Void(q))
      <3>1. ASSUME NEW i \in 1..Len(q) - 1
            PROVE  ~IsToken(Void(q)[i])
        <4>1. CASE i < k
          BY <2>1, <2>4, <4>1
        <4>2. CASE ~(i < k)
          BY <2>1, <2>4, <4>2
        <4>3. QED
          BY <4>1, <4>2
      <3>2. QED
        BY <2>1, <2>4, <3>1 DEF NoToken
    <2>6. QED
      BY <2>1, <2>4, <2>5
  <1>3. QED
    BY <1>1, <1>2 DEF NoToken

----------------------------------------------------------------------------
(* Types.                                                                  *)

TokenType  == [at : {"none", "asked", "fetching", "posted"}, user : Owners, fresh : BOOLEAN]
StreamType == [state : {"initial", "starting", "backoff", "open", "error"},
               shaken : BOOLEAN, idle : BOOLEAN, user : Owners]

LEMMA TailIs ==
  ASSUME NEW S, NEW q \in Seq(S), q # <<>>
  PROVE  /\ Len(q) \in Nat \ {0} /\ Head(q) \in S /\ Head(q) = q[1]
         /\ Tail(q) \in Seq(S) /\ Len(Tail(q)) = Len(q) - 1
         /\ \A i \in 1..Len(q) - 1 : Tail(q)[i] = q[i + 1]
  BY EmptySeq, LenProperties, HeadTailProperties

LEMMA ItemTypes ==
  ASSUME NEW u \in Owners, NEW ok \in BOOLEAN
  PROVE  /\ Notify(u) \in MainItem /\ Token(u, ok) \in MainItem
         /\ Resume(u, ok) \in WorkerItem /\ Credentials(u) \in WorkerItem
         /\ Requested \in TokenType /\ NoRequest \in TokenType /\ Closed \in StreamType
  BY BatchesAreNumbers
     DEF Notify, Token, Resume, Credentials, MainItem, WorkerItem, Requested, NoRequest, Closed,
         TokenType, StreamType

LEMMA AnswerTypes ==
  ASSUME NEW b \in Batches
  PROVE  /\ Shaken \in Answer /\ Applied(b) \in Answer /\ Refused(b) \in Answer
         /\ Mutate(b) \in WorkerItem
  BY DEF Shaken, Applied, Refused, Mutate, Answer, WorkerItem

LEMMA WorkerHead ==
  ASSUME TypeOK, workerQ # <<>>
  PROVE  /\ Tail(workerQ) \in Seq(WorkerItem)
         /\ Head(workerQ).op = "credentials" => Head(workerQ).user \in Owners
         /\ Head(workerQ).op = "resume" => /\ Head(workerQ).user \in Owners
                                           /\ Head(workerQ).ok \in BOOLEAN
         /\ Head(workerQ).op = "write" => Head(workerQ).batch \in Batches
  <1>1. Head(workerQ) \in WorkerItem /\ Tail(workerQ) \in Seq(WorkerItem)
    BY TailIs DEF TypeOK
  <1>2. QED
    BY <1>1 DEF WorkerItem

LEMMA MainHead ==
  ASSUME TypeOK, mainQ # <<>>
  PROVE  /\ Tail(mainQ) \in Seq(MainItem)
         /\ Head(mainQ).user \in Owners /\ Head(mainQ).ok \in BOOLEAN
  <1>1. Head(mainQ) \in MainItem /\ Tail(mainQ) \in Seq(MainItem)
    BY TailIs DEF TypeOK
  <1>2. QED
    BY <1>1 DEF MainItem

LEMMA FillTypes ==
  ASSUME TypeOK
  PROVE  /\ stream \in StreamType /\ token \in TokenType
         /\ toServer \in Seq(Batches \cup {Handshake})
         /\ Batches \subseteq Batches \cup {Handshake}
  BY DEF TypeOK, StreamType, TokenType

----------------------------------------------------------------------------
(* The two ways in which the pipeline changes.                             *)

\* An open stream sends the batches news.
SendsOn(news) ==
  /\ stream'.state = "open" /\ token' = token
  /\ toServer' = IF stream.shaken THEN toServer \o news ELSE toServer
  /\ stream'.idle <=> (stream.idle /\ news = <<>>) \/ pipeline' = <<>>

\* A stream that is not open is left, or started.
Starts ==
  /\ toServer' = toServer /\ (stream'.idle <=> stream.idle)
  /\ \/ stream'.state = stream.state /\ token' = token
     \/ /\ stream.state \in {"initial", "error"}
        /\ \/ stream'.state = "starting" /\ token' = Requested
           \/ stream'.state = "backoff" /\ token' = token

LEMMA FillEffect ==
  ASSUME TypeOK, NEW q \in Seq(Batches), Ascending(q), NEW p \in Seq(Batches), Heads(p, q),
         Len(p) <= MaxPipeline, FillWritePipeline(p, q)
  PROVE  /\ pipeline' \in Seq(Batches) /\ Len(pipeline') <= MaxPipeline /\ Heads(pipeline', q)
         /\ q # <<>> => pipeline' # <<>>
         /\ stream' \in StreamType /\ token' \in TokenType
         /\ toServer' \in Seq(Batches \cup {Handshake})
         /\ (stream'.shaken <=> stream.shaken) /\ stream'.user = stream.user
         /\ \E news \in Seq(Batches) :
              /\ pipeline' = p \o news
              /\ IF stream.state = "open" THEN SendsOn(news) ELSE Starts
  <1> DEFINE full == Filled(p, q)
             news == SubSeq(full, Len(p) + 1, Len(full))
  <1>1. /\ full \in Seq(Batches) /\ Heads(full, q) /\ Len(full) <= MaxPipeline
        /\ q # <<>> => full # <<>>
        /\ news \in Seq(Batches) /\ full = p \o news
    BY FilledType
  <1>2. /\ pipeline' = full
        /\ IF stream.state = "open"
             THEN /\ stream' = [stream EXCEPT !.idle = StillIdle(news, full)]
                  /\ toServer' = IF stream.shaken THEN toServer \o news ELSE toServer
                  /\ UNCHANGED token
             ELSE /\ UNCHANGED toServer
                  /\ IF IsStarted THEN UNCHANGED <<stream, token>>
                     ELSE /\ stream' = [stream EXCEPT !.state = Started(@, full)]
                          /\ token' = IF stream'.state = "starting" THEN Requested ELSE token
    BY DEF FillWritePipeline
  <1> HIDE DEF full, news
  <1>3. CASE stream.state = "open"
    <2>1. stream' = [stream EXCEPT !.idle = StillIdle(news, full)]
      BY <1>2, <1>3
    <2>2. StillIdle(news, full) \in BOOLEAN
      BY DEF StillIdle
    <2>3. /\ stream' \in StreamType /\ stream'.state = "open"
          /\ (stream'.shaken <=> stream.shaken) /\ stream'.user = stream.user
          /\ stream'.idle <=> StillIdle(news, full)
      BY <1>3, <2>1, <2>2, FillTypes DEF StreamType
    <2>4. /\ toServer' = IF stream.shaken THEN toServer \o news ELSE toServer
          /\ token' = token
      BY <1>2, <1>3
    <2>5. toServer \o news \in Seq(Batches \cup {Handshake})
      <3>1. news \in Seq(Batches \cup {Handshake})
        BY <1>1, SeqMonotonic, FillTypes
      <3>2. QED
        BY <3>1, FillTypes, ConcatProperties
    <2>6. SendsOn(news)
      BY <1>2, <2>3, <2>4 DEF SendsOn, StillIdle
    <2>7. toServer' \in Seq(Batches \cup {Handshake}) /\ token' \in TokenType
      BY <2>4, <2>5, FillTypes
    <2>8. QED
      BY <1>1, <1>2, <1>3, <2>3, <2>6, <2>7
  <1>4. CASE stream.state # "open"
    <2>1. CASE IsStarted
      <3>1. stream' = stream /\ token' = token /\ toServer' = toServer
        BY <1>2, <1>4, <2>1
      <3>2. Starts
        BY <3>1 DEF Starts
      <3>3. QED
        BY <1>1, <1>2, <1>4, <3>1, <3>2, FillTypes
    <2>2. CASE ~IsStarted
      <3>1. /\ stream' = [stream EXCEPT !.state = Started(stream.state, full)]
            /\ token' = IF stream'.state = "starting" THEN Requested ELSE token
            /\ toServer' = toServer
        BY <1>2, <1>4, <2>2
      <3>2. stream.state \in {"initial", "error"}
        BY <2>2, FillTypes DEF IsStarted, StreamType
      <3>3. Started(stream.state, full) \in {stream.state, "backoff", "starting"}
        BY DEF Started
      <3>4. /\ stream' \in StreamType /\ stream'.state = Started(stream.state, full)
            /\ (stream'.shaken <=> stream.shaken) /\ stream'.user = stream.user
            /\ (stream'.idle <=> stream.idle)
        BY <3>1, <3>2, <3>3, FillTypes DEF StreamType
      <3>5. token' \in TokenType
        BY <3>1, FillTypes, ItemTypes, BatchesAreNumbers
      <3>6. Starts
        BY <3>1, <3>2, <3>3, <3>4 DEF Starts
      <3>7. QED
        BY <1>1, <1>2, <1>4, <3>1, <3>4, <3>5, <3>6, FillTypes
    <2>3. QED
      BY <2>1, <2>2
  <1>5. QED
    BY <1>3, <1>4

\* No stream is open, and nothing is on the wire.
Over ==
  /\ stream' \in StreamType
  /\ stream'.state # "open" /\ ~stream'.shaken /\ ~stream'.idle
  /\ token' \in TokenType
  /\ token'.at # "none" => token'.at = "asked" /\ stream'.state = "starting"
  /\ toServer' = <<>> /\ toClient' = <<>>
  /\ mainQ' \in Seq(MainItem) /\ NoToken(mainQ')

LEMMA EndedEffect ==
  ASSUME TypeOK, OneToken(mainQ), NEW state \in {"initial", "error"}, NEW p, Ended(state, p)
  PROVE  Over /\ pipeline' = p /\ mainQ' = Void(mainQ)
  <1>1. /\ pipeline' = p
        /\ stream' = [Closed EXCEPT !.state = Started(state, p)]
        /\ token' = IF stream'.state = "starting" THEN Requested ELSE NoRequest
        /\ toServer' = <<>> /\ toClient' = <<>> /\ mainQ' = Void(mainQ)
    BY DEF Ended
  <1>2. Started(state, p) \in {"initial", "error", "backoff", "starting"}
    BY DEF Started
  <1>3. /\ stream' \in StreamType /\ stream'.state = Started(state, p)
        /\ ~stream'.shaken /\ ~stream'.idle
    BY <1>1, <1>2, BatchesAreNumbers DEF StreamType, Closed
  <1>4. /\ token' \in TokenType
        /\ token'.at # "none" => token'.at = "asked" /\ stream'.state = "starting"
    BY <1>1, BatchesAreNumbers DEF TokenType, Requested, NoRequest
  <1>5. mainQ' \in Seq(MainItem) /\ NoToken(mainQ')
    BY <1>1, VoidIs DEF TypeOK
  <1>6. QED
    BY <1>1, <1>2, <1>3, <1>4, <1>5 DEF Over

----------------------------------------------------------------------------
(* The invariant of the queues, the pipeline and the stream.               *)

\* The writes that wait for the worker in q are in the order in which they were
\* made, and newer than those of every mutation queue.
Writes(q) ==
  \A i \in 1..Len(q) : q[i].op = "write" =>
    /\ q[i].batch \in 1..Len(by)
    /\ \A u \in Owners : \A k \in 1..Len(queue[u]) : queue[u][k] < q[i].batch
    /\ \A j \in 1..Len(q) : i < j /\ q[j].op = "write" => q[i].batch < q[j].batch

QueueInv ==
  /\ \A u \in Owners : Ascending(queue[u])
  /\ \A u \in Owners : \A i \in 1..Len(queue[u]) : queue[u][i] \in 1..Len(by)
  /\ Writes(workerQ)

\* What is on the wire: its requests and answers.
Expected == IF stream.shaken THEN pipeline
            ELSE IF stream.state = "open" THEN <<Handshake>> ELSE <<>>

FlightInv ==
  /\ Len(toClient) + Len(toServer) = Len(Expected)
  /\ \A i \in 1..Len(toClient) : toClient[i].batch = Expected[i]
  /\ \A i \in 1..Len(toServer) : toServer[i] = Expected[Len(toClient) + i]

\* At most one token is under way, for a stream that waits for it.
TokenInv ==
  /\ token.at # "none" => stream.state = "starting"
  /\ token.at # "posted" => NoToken(mainQ)
  /\ ~NoToken(workerQ) => token.at = "none" /\ stream.state = "starting"
  /\ OneToken(mainQ) /\ OneToken(workerQ)

OpenInv == stream.shaken => stream.state = "open"

Core ==
  /\ TypeOK /\ QueueInv /\ Heads(pipeline, queue[user]) /\ FlightInv
  /\ TokenInv /\ IdleIsUnneeded /\ OpenInv

LEMMA ExpectedType ==
  ASSUME TypeOK
  PROVE  Expected \in Seq(Batches \cup {Handshake})
  <1>1. pipeline \in Seq(Batches \cup {Handshake})
    BY SeqMonotonic, FillTypes DEF TypeOK
  <1>2. <<Handshake>> \in Seq(Batches \cup {Handshake})
    OBVIOUS
  <1>3. <<>> \in Seq(Batches \cup {Handshake})
    OBVIOUS
  <1>4. QED
    BY <1>1, <1>2, <1>3 DEF Expected

LEMMA AnswersAre ==
  ASSUME TypeOK
  PROVE  /\ Len(toClient) \in Nat /\ Len(toServer) \in Nat
         /\ \A i \in 1..Len(toClient) : toClient[i] \in Answer
         /\ \A i \in 1..Len(toClient) : toClient[i].batch \in Batches \cup {Handshake}
         /\ \A i \in 1..Len(toServer) : toServer[i] \in Batches \cup {Handshake}
  <1>1. /\ Len(toClient) \in Nat /\ Len(toServer) \in Nat
        /\ \A i \in 1..Len(toClient) : toClient[i] \in Answer
        /\ \A i \in 1..Len(toServer) : toServer[i] \in Batches \cup {Handshake}
    BY ElementOfSeq, LenProperties DEF TypeOK
  <1>2. \A a \in Answer : a.batch \in Batches \cup {Handshake}
    BY DEF Answer, Shaken
  <1>3. QED
    BY <1>1, <1>2

LEMMA FlightIs ==
  ASSUME TypeOK
  PROVE  InFlight <=> FlightInv
  <1> DEFINE a == [i \in 1..Len(toClient) |-> toClient[i].batch]
             M == Batches \cup {Handshake}
  <1>1. a \in Seq(M) /\ Len(a) = Len(toClient) /\ \A i \in 1..Len(toClient) : a[i] = toClient[i].batch
    <2>1. a \in [1..Len(toClient) -> M]
      BY AnswersAre
    <2>2. a \in Seq(M) /\ Len(a) = Len(toClient)
      BY <2>1, AnswersAre, SeqDef
    <2>3. QED
      BY <2>2
  <1>2. InFlight <=> a \o toServer = Expected
    BY DEF InFlight, Expected
  <1> HIDE DEF a
  <1>3. /\ a \o toServer \in Seq(M) /\ Len(a \o toServer) = Len(a) + Len(toServer)
        /\ \A i \in 1..Len(a) + Len(toServer) :
             (a \o toServer)[i] = IF i <= Len(a) THEN a[i] ELSE toServer[i - Len(a)]
    BY <1>1, FillTypes, ConcatProperties
  <1>4. a \o toServer = Expected <=> /\ Len(a \o toServer) = Len(Expected)
                                     /\ \A i \in 1..Len(a \o toServer) : (a \o toServer)[i] = Expected[i]
    BY <1>3, ExpectedType, SeqEqual
  <1>5. \A i \in 1..Len(toClient) : (a \o toServer)[i] = toClient[i].batch
    BY <1>1, <1>3, AnswersAre
  <1>6. \A i \in 1..Len(toServer) : /\ Len(toClient) + i \in 1..Len(a) + Len(toServer)
                                    /\ (a \o toServer)[Len(toClient) + i] = toServer[i]
    <2>1. ASSUME NEW i \in 1..Len(toServer)
          PROVE  /\ Len(toClient) + i \in 1..Len(a) + Len(toServer)
                 /\ ~(Len(toClient) + i <= Len(a))
                 /\ Len(toClient) + i - Len(a) = i
      BY <1>1, AnswersAre
    <2>2. QED
      BY <1>3, <2>1
  <1>7. ASSUME FlightInv PROVE a \o toServer = Expected
    <2>1. ASSUME NEW i \in 1..Len(a \o toServer)
          PROVE  (a \o toServer)[i] = Expected[i]
      <3>1. CASE i <= Len(toClient)
        BY <1>1, <1>3, <1>5, <1>7, <3>1, AnswersAre DEF FlightInv
      <3>2. CASE ~(i <= Len(toClient))
        <4> DEFINE j == i - Len(toClient)
        <4>1. j \in 1..Len(toServer) /\ i = Len(toClient) + j
          BY <1>1, <1>3, <3>2, AnswersAre
        <4> HIDE DEF j
        <4>2. QED
          BY <1>6, <1>7, <4>1 DEF FlightInv
      <3>3. QED
        BY <3>1, <3>2
    <2>2. Len(a \o toServer) = Len(Expected)
      BY <1>1, <1>3, <1>7 DEF FlightInv
    <2>3. QED
      BY <1>4, <2>1, <2>2
  <1>8. ASSUME a \o toServer = Expected PROVE FlightInv
    <2>1. Len(toClient) + Len(toServer) = Len(Expected)
      BY <1>1, <1>3, <1>8
    <2>2. \A i \in 1..Len(toClient) : toClient[i].batch = Expected[i]
      BY <1>5, <1>8
    <2>3. \A i \in 1..Len(toServer) : toServer[i] = Expected[Len(toClient) + i]
      BY <1>6, <1>8
    <2>4. QED
      BY <2>1, <2>2, <2>3 DEF FlightInv
  <1>9. QED
    BY <1>2, <1>7, <1>8

\* The oldest batch of the pipeline is the oldest of its user's queue.
LEMMA Oldest ==
  ASSUME Core, pipeline # <<>>
  PROVE  /\ queue[user] \in Seq(Batches) /\ queue[user] # <<>> /\ Head(pipeline) \in Batches
         /\ Head(pipeline) = Head(queue[user])
         /\ Without(queue[user], Head(pipeline)) = Tail(queue[user])
         /\ Tail(queue[user]) \in Seq(Batches) /\ Ascending(Tail(queue[user]))
         /\ Tail(pipeline) \in Seq(Batches) /\ Len(Tail(pipeline)) <= MaxPipeline
         /\ Heads(Tail(pipeline), Tail(queue[user]))
  <1> DEFINE q == queue[user]
  <1>1. q \in Seq(Batches) /\ pipeline \in Seq(Batches) /\ Len(pipeline) <= MaxPipeline
    BY DEF Core, TypeOK
  <1>2. Heads(pipeline, q) /\ Ascending(q)
    BY DEF Core, QueueInv, TypeOK
  <1> HIDE DEF q
  <1>3. Len(pipeline) <= Len(q) /\ \A i \in 1..Len(pipeline) : pipeline[i] = q[i]
    BY <1>1, <1>2, HeadsIs
  <1>4. /\ Len(pipeline) \in Nat \ {0} /\ Head(pipeline) \in Batches /\ Head(pipeline) = pipeline[1]
        /\ Tail(pipeline) \in Seq(Batches) /\ Len(Tail(pipeline)) = Len(pipeline) - 1
        /\ \A i \in 1..Len(pipeline) - 1 : Tail(pipeline)[i] = pipeline[i + 1]
    BY <1>1, TailIs
  <1>5. q # <<>>
    BY <1>1, <1>3, <1>4, EmptySeq
  <1>6. /\ Len(q) \in Nat \ {0} /\ Head(q) = q[1]
        /\ Tail(q) \in Seq(Batches) /\ Len(Tail(q)) = Len(q) - 1
        /\ \A i \in 1..Len(q) - 1 : Tail(q)[i] = q[i + 1]
    BY <1>1, <1>5, TailIs
  <1>7. Head(pipeline) = Head(q)
    BY <1>3, <1>4, <1>6
  <1>8. Without(q, Head(pipeline)) = Tail(q)
    BY <1>1, <1>5, <1>7, WithoutHead
  <1>9. Ascending(Tail(q))
    BY <1>2, <1>6 DEF Ascending
  <1>10. Heads(Tail(pipeline), Tail(q))
    <2>1. ASSUME NEW i \in 1..Len(Tail(pipeline))
          PROVE  Tail(pipeline)[i] = Tail(q)[i]
      <3>1. i \in 1..Len(pipeline) - 1 /\ i \in 1..Len(q) - 1 /\ i + 1 \in 1..Len(pipeline)
        BY <1>3, <1>4, <1>6
      <3>2. QED
        BY <1>3, <1>4, <1>6, <3>1
    <2>2. Len(Tail(pipeline)) <= Len(Tail(q))
      BY <1>3, <1>4, <1>6
    <2>3. QED
      BY <1>4, <1>6, <2>1, <2>2, HeadsIs
  <1>11. Len(Tail(pipeline)) <= MaxPipeline
    BY <1>1, <1>4, BatchesAreNumbers
  <1>12. QED
    BY <1>1, <1>4, <1>5, <1>6, <1>7, <1>8, <1>9, <1>10, <1>11 DEF q

----------------------------------------------------------------------------
(* What the steps do to the pipeline and the stream.                       *)

LEMMA AppendAscends ==
  ASSUME NEW q \in Seq(Batches), Ascending(q), NEW b \in Batches,
         \A i \in 1..Len(q) : q[i] < b
  PROVE  /\ Append(q, b) \in Seq(Batches) /\ Append(q, b) # <<>> /\ Ascending(Append(q, b))
         /\ \A p \in Seq(Batches) : Heads(p, q) => Heads(p, Append(q, b))
  <1>1. /\ Append(q, b) \in Seq(Batches) /\ Append(q, b) # <<>>
        /\ Len(q) \in Nat /\ Len(Append(q, b)) = Len(q) + 1
        /\ \A i \in 1..Len(q) : Append(q, b)[i] = q[i]
        /\ Append(q, b)[Len(q) + 1] = b
    BY AppendProperties, LenProperties
  <1>2. Ascending(Append(q, b))
    <2>1. ASSUME NEW i \in 1..Len(q) + 1, NEW j \in 1..Len(q) + 1, i < j
          PROVE  Append(q, b)[i] < Append(q, b)[j]
      <3>1. i \in 1..Len(q)
        BY <1>1, <2>1
      <3>2. CASE j \in 1..Len(q)
        BY <1>1, <2>1, <3>1, <3>2 DEF Ascending
      <3>3. CASE j = Len(q) + 1
        BY <1>1, <3>1, <3>3
      <3>4. QED
        BY <1>1, <3>2, <3>3
    <2>2. QED
      BY <1>1, <2>1 DEF Ascending
  <1>3. ASSUME NEW p \in Seq(Batches), Heads(p, q)
        PROVE  Heads(p, Append(q, b))
    <2>1. Len(p) \in Nat /\ Len(p) <= Len(q) /\ \A i \in 1..Len(p) : p[i] = q[i]
      BY <1>3, HeadsIs, LenProperties
    <2>2. \A i \in 1..Len(p) : p[i] = Append(q, b)[i]
      BY <1>1, <2>1
    <2>3. Append(q, b) \in Seq(Batches) /\ Len(p) <= Len(Append(q, b))
      BY <1>1, <2>1
    <2>4. QED
      BY <2>2, <2>3, HeadsIs
  <1>4. QED
    BY <1>1, <1>2, <1>3

\* The batch the worker takes is newer than those it has.
LEMMA WriteTaken ==
  ASSUME Core, WriteMutations
  PROVE  LET b == Head(workerQ).batch
             q == Append(queue[user], b)
         IN  /\ b \in 1..Len(by) /\ b \in Batches
             /\ \A u \in Owners : \A i \in 1..Len(queue[u]) : queue[u][i] < b
             /\ queue' = [queue EXCEPT ![user] = q] /\ queue'[user] = q
             /\ q \in Seq(Batches) /\ q # <<>> /\ Ascending(q) /\ Heads(pipeline, q)
             /\ FillWritePipeline(pipeline, q)
  <1> DEFINE b == Head(workerQ).batch
             q == Append(queue[user], b)
  <1>1. /\ workerQ # <<>> /\ Head(workerQ).op = "write"
        /\ queue' = [queue EXCEPT ![user] = Append(@, b)]
        /\ FillWritePipeline(pipeline, queue'[user])
    BY DEF WriteMutations, Takes
  <1>2. /\ workerQ \in Seq(WorkerItem) /\ queue \in [Owners -> Seq(Batches)] /\ user \in Owners
        /\ pipeline \in Seq(Batches) /\ TypeOK
    BY DEF Core, TypeOK
  <1>3. Len(workerQ) \in Nat \ {0} /\ Head(workerQ) = workerQ[1]
    BY <1>1, <1>2, TailIs
  <1>4. b \in 1..Len(by) /\ \A u \in Owners : \A i \in 1..Len(queue[u]) : queue[u][i] < b
    BY <1>1, <1>3 DEF Core, QueueInv, Writes
  <1>5. b \in Batches
    BY <1>1, <1>2, WorkerHead
  <1>6. queue[user] \in Seq(Batches) /\ Ascending(queue[user]) /\ Heads(pipeline, queue[user])
    BY <1>2 DEF Core, QueueInv
  <1>7. /\ q \in Seq(Batches) /\ q # <<>> /\ Ascending(q) /\ Heads(pipeline, q)
    BY <1>2, <1>4, <1>5, <1>6, AppendAscends
  <1>8. queue' = [queue EXCEPT ![user] = q] /\ queue'[user] = q
    BY <1>1, <1>2
  <1> HIDE DEF q
  <1>9. FillWritePipeline(pipeline, q)
    BY <1>1, <1>8
  <1>10. QED
    BY <1>4, <1>5, <1>7, <1>8, <1>9 DEF q

\* The answer taken is that to the oldest batch, on an open stream.
LEMMA ResultTaken ==
  ASSUME Core, MutationResult
  PROVE  LET q == Tail(queue[user])
         IN  /\ pipeline # <<>> /\ stream.state = "open" /\ stream.shaken /\ toClient # <<>>
             /\ queue' = [queue EXCEPT ![user] = q] /\ queue'[user] = q
             /\ acked' = acked \cup {Head(pipeline)}
             /\ FillWritePipeline(Tail(pipeline), q)
  <1>1. /\ stream.shaken /\ toClient # <<>>
        /\ queue' = [queue EXCEPT ![user] = Without(queue[user], Head(pipeline))]
        /\ acked' = acked \cup {Head(pipeline)}
        /\ FillWritePipeline(Tail(pipeline), Without(queue[user], Head(pipeline)))
    BY DEF MutationResult
  <1>2. TypeOK /\ FlightInv /\ stream.state = "open"
    BY <1>1 DEF Core, OpenInv
  <1>3. pipeline # <<>>
    <2>1. Len(toClient) \in Nat \ {0} /\ Len(toServer) \in Nat
      BY <1>1, <1>2, AnswersAre, EmptySeq DEF TypeOK
    <2>2. Len(toClient) + Len(toServer) = Len(pipeline)
      BY <1>1, <1>2 DEF FlightInv, Expected
    <2>3. Len(pipeline) # 0
      BY <2>1, <2>2
    <2>4. QED
      BY <1>2, <2>3, EmptySeq DEF TypeOK
  <1>4. Without(queue[user], Head(pipeline)) = Tail(queue[user])
    BY <1>3, Oldest
  <1>5. queue \in [Owners -> Seq(Batches)] /\ user \in Owners
    BY <1>2 DEF TypeOK
  <1>6. QED
    BY <1>1, <1>2, <1>3, <1>4, <1>5

QueuePopped ==
  pipeline # <<>> /\ queue' = [queue EXCEPT ![user] = Tail(queue[user])]

LEMMA FilledAnew ==
  ASSUME Core, NEW u \in Owners
  PROVE  /\ Filled(<<>>, queue[u]) \in Seq(Batches)
         /\ Len(Filled(<<>>, queue[u])) <= MaxPipeline
         /\ Heads(Filled(<<>>, queue[u]), queue[u])
  <1>1. queue[u] \in Seq(Batches) /\ Ascending(queue[u])
    BY DEF Core, TypeOK, QueueInv
  <1>2. <<>> \in Seq(Batches) /\ Len(<<>>) = 0
    OBVIOUS
  <1>3. Heads(<<>>, queue[u])
    <2>1. Len(queue[u]) \in Nat
      BY <1>1, LenProperties
    <2>2. SubSeq(queue[u], 1, 0) = <<>>
      BY SubSeqEmpty
    <2>3. QED
      BY <1>2, <2>1, <2>2 DEF Heads
  <1>4. Len(<<>>) <= MaxPipeline
    BY <1>2, BatchesAreNumbers
  <1>5. QED
    BY <1>1, <1>2, <1>3, <1>4, FilledType

LEMMA ReconnectEffect ==
  ASSUME Core, NEW u \in Owners, Reconnect(u)
  PROVE  /\ Over /\ mainQ' = Void(mainQ)
         /\ pipeline' \in Seq(Batches) /\ Len(pipeline') <= MaxPipeline
         /\ Heads(pipeline', queue[u])
  <1>1. Ended("initial", Filled(<<>>, queue[u]))
    BY DEF Reconnect
  <1>2. Over /\ mainQ' = Void(mainQ) /\ pipeline' = Filled(<<>>, queue[u])
    BY <1>1, EndedEffect DEF Core, TokenInv
  <1>3. QED
    BY <1>2, FilledAnew

LEMMA CloseEffect ==
  ASSUME Core, NEW status, CloseStream(status)
  PROVE  /\ Over /\ mainQ' = Void(mainQ)
         /\ pipeline' \in Seq(Batches) /\ Len(pipeline') <= MaxPipeline
         /\ queue' \in [Owners -> Seq(Batches)] /\ Heads(pipeline', queue'[user])
         /\ \/ queue' = queue /\ dropped' = dropped
            \/ WriteFailed(status) /\ QueuePopped /\ dropped' = dropped \cup {Head(pipeline)}
  <1>1. TypeOK /\ OneToken(mainQ)
    BY DEF Core, TokenInv
  <1>2. CASE WriteFailed(status)
    <2> DEFINE rest == Tail(queue[user])
    <2>1. pipeline # <<>>
      BY <1>2 DEF WriteFailed
    <2>2. /\ queue' = [queue EXCEPT ![user] = rest]
          /\ dropped' = dropped \cup {Head(pipeline)}
          /\ Ended("initial", Filled(Tail(pipeline), rest))
      BY <1>2, <2>1, Oldest DEF CloseStream
    <2>3. rest \in Seq(Batches)
      BY <2>1, Oldest
    <2>4. /\ Filled(Tail(pipeline), rest) \in Seq(Batches)
          /\ Len(Filled(Tail(pipeline), rest)) <= MaxPipeline
          /\ Heads(Filled(Tail(pipeline), rest), rest)
      BY <2>1, Oldest, FilledType
    <2> HIDE DEF rest
    <2>5. Over /\ mainQ' = Void(mainQ) /\ pipeline' = Filled(Tail(pipeline), rest)
      BY <1>1, <2>2, EndedEffect
    <2>6. queue' \in [Owners -> Seq(Batches)] /\ queue'[user] = rest
      BY <1>1, <2>2, <2>3 DEF TypeOK
    <2>7. QueuePopped
      BY <2>1, <2>2 DEF QueuePopped, rest
    <2>8. QED
      BY <1>2, <2>2, <2>4, <2>5, <2>6, <2>7
  <1>3. CASE ~WriteFailed(status)
    <2>1. Ended("error", pipeline) /\ queue' = queue /\ dropped' = dropped
      BY <1>3 DEF CloseStream
    <2>2. Over /\ mainQ' = Void(mainQ) /\ pipeline' = pipeline
      BY <1>1, <2>1, EndedEffect
    <2>3. QED
      BY <2>1, <2>2 DEF Core, TypeOK
  <1>4. QED
    BY <1>2, <1>3

\* What every step does that loses the stream.
Losing ==
  \/ HandleCredentialChange
  \/ ResumeStart /\ ~Head(workerQ).ok
  \/ WriteRefused \/ HandshakeRefused \/ StreamBreaks \/ RestartNetwork
  \/ \E p \in Owners, told \in BOOLEAN : Relaunch(p, told)

\* What stays of the worker queue q.
Kept(q) ==
  \/ workerQ' = Void(q)
  \/ q # <<>> /\ ~IsToken(Head(q)) /\ workerQ' = Void(Tail(q))
  \/ q # <<>> /\ IsToken(Head(q)) /\ workerQ' = Tail(q)
  \/ \E p \in Owners : workerQ' = <<Credentials(p)>>

LEMMA TokensTail ==
  ASSUME NEW S, NEW q \in Seq(S), q # <<>>, OneToken(q)
  PROVE  OneToken(Tail(q)) /\ (IsToken(Head(q)) => NoToken(Tail(q)))
  BY TailIs DEF OneToken, NoToken

LEMMA KeptType ==
  ASSUME Core, Kept(workerQ)
  PROVE  workerQ' \in Seq(WorkerItem) /\ NoToken(workerQ')
  <1>1. workerQ \in Seq(WorkerItem) /\ OneToken(workerQ)
    BY DEF Core, TypeOK, TokenInv
  <1>2. CASE workerQ' = Void(workerQ)
    BY <1>1, <1>2, VoidIs
  <1>3. CASE workerQ # <<>> /\ ~IsToken(Head(workerQ)) /\ workerQ' = Void(Tail(workerQ))
    <2>1. Tail(workerQ) \in Seq(WorkerItem) /\ OneToken(Tail(workerQ))
      BY <1>1, <1>3, TailIs, TokensTail
    <2>2. QED
      BY <1>3, <2>1, VoidIs
  <1>4. CASE workerQ # <<>> /\ IsToken(Head(workerQ)) /\ workerQ' = Tail(workerQ)
    BY <1>1, <1>4, TailIs, TokensTail
  <1>5. ASSUME NEW p \in Owners, workerQ' = <<Credentials(p)>>
        PROVE  workerQ' \in Seq(WorkerItem) /\ NoToken(workerQ')
    <2>1. Credentials(p) \in WorkerItem /\ ~IsToken(Credentials(p))
      BY ItemTypes DEF Credentials, IsToken
    <2>2. QED
      BY <1>5, <2>1 DEF NoToken
  <1>6. QED
    BY <1>2, <1>3, <1>4, <1>5 DEF Kept

LEMMA LosingEffect ==
  ASSUME Core, Losing
  PROVE  /\ Over /\ user' \in Owners
         /\ pipeline' \in Seq(Batches) /\ Len(pipeline') <= MaxPipeline
         /\ queue' \in [Owners -> Seq(Batches)] /\ Heads(pipeline', queue'[user'])
         /\ UNCHANGED <<authUser, server, by, acked, refused>>
         /\ \/ queue' = queue /\ dropped' = dropped
            \/ /\ QueuePopped /\ user' = user /\ dropped' = dropped \cup {Head(pipeline)}
         /\ Kept(workerQ)
  <1> USE DEF Over
  <1>1. TypeOK /\ queue \in [Owners -> Seq(Batches)] /\ user \in Owners
    BY DEF Core, TypeOK
  <1>2. CASE HandleCredentialChange
    <2>1. /\ workerQ # <<>> /\ Head(workerQ).op = "credentials"
          /\ workerQ' = Void(Tail(workerQ))
          /\ user' = Head(workerQ).user
          /\ Reconnect(user')
          /\ UNCHANGED <<authUser, queue, server, by, acked, refused, dropped>>
      BY <1>2 DEF HandleCredentialChange, Takes, authVars, diskVars
    <2>2. user' \in Owners
      BY <1>1, <2>1, WorkerHead
    <2>3. /\ Over /\ pipeline' \in Seq(Batches) /\ Len(pipeline') <= MaxPipeline
          /\ Heads(pipeline', queue[user'])
      <3> DEFINE u == user'
      <3> HIDE DEF u
      <3>1. u \in Owners /\ Reconnect(u)
        BY <2>1, <2>2 DEF u
      <3>2. QED
        BY <3>1, ReconnectEffect DEF u
    <2>4. Kept(workerQ)
      BY <2>1 DEF Kept, IsToken
    <2>5. QED
      BY <1>1, <2>1, <2>2, <2>3, <2>4
  <1>3. CASE ResumeStart /\ ~Head(workerQ).ok
    <2>1. /\ workerQ # <<>> /\ Head(workerQ).op = "resume" /\ workerQ' = Tail(workerQ)
          /\ CloseStream("transient")
          /\ UNCHANGED <<authUser, user, server, by, acked, refused>>
      BY <1>3 DEF ResumeStart, Takes, authVars
    <2>2. ~WriteFailed("transient")
      BY DEF WriteFailed
    <2>3. Kept(workerQ)
      BY <2>1 DEF Kept, IsToken
    <2>4. QED
      BY <1>1, <2>1, <2>2, <2>3, CloseEffect
  <1>4. ASSUME NEW status, StreamEnds(status)
        PROVE  /\ Over /\ user' \in Owners
               /\ pipeline' \in Seq(Batches) /\ Len(pipeline') <= MaxPipeline
               /\ queue' \in [Owners -> Seq(Batches)] /\ Heads(pipeline', queue'[user'])
               /\ UNCHANGED <<authUser, server, by, acked, refused>>
               /\ \/ queue' = queue /\ dropped' = dropped
                  \/ /\ QueuePopped /\ user' = user /\ dropped' = dropped \cup {Head(pipeline)}
               /\ Kept(workerQ)
    <2>1. /\ CloseStream(status) /\ workerQ' = Void(workerQ)
          /\ UNCHANGED <<authUser, user, server, by, acked, refused>>
      BY <1>4 DEF StreamEnds, authVars
    <2>2. Kept(workerQ)
      BY <2>1 DEF Kept
    <2>3. QED
      BY <1>1, <2>1, <2>2, CloseEffect
  <1>5. CASE WriteRefused \/ HandshakeRefused \/ StreamBreaks
    BY <1>4, <1>5 DEF WriteRefused, HandshakeRefused, StreamBreaks
  <1>6. CASE RestartNetwork
    <2>1. /\ Reconnect(user) /\ workerQ' = Void(workerQ)
          /\ UNCHANGED <<authUser, user, queue, server, by, acked, refused, dropped>>
      BY <1>6 DEF RestartNetwork, authVars, diskVars
    <2>2. Kept(workerQ)
      BY <2>1 DEF Kept
    <2>3. QED
      BY <1>1, <2>1, <2>2, ReconnectEffect
  <1>7. ASSUME NEW p \in Owners, NEW told \in BOOLEAN, Relaunch(p, told)
        PROVE  /\ Over /\ user' \in Owners
               /\ pipeline' \in Seq(Batches) /\ Len(pipeline') <= MaxPipeline
               /\ queue' \in [Owners -> Seq(Batches)] /\ Heads(pipeline', queue'[user'])
               /\ UNCHANGED <<authUser, server, by, acked, refused>>
               /\ queue' = queue /\ dropped' = dropped
               /\ Kept(workerQ)
    <2>1. /\ mainQ' = IF told THEN <<>> ELSE <<Notify(authUser)>>
          /\ workerQ' = <<Credentials(p)>>
          /\ user' = Nobody
          /\ pipeline' = <<>> /\ stream' = Closed /\ token' = NoRequest
          /\ toServer' = <<>> /\ toClient' = <<>>
          /\ UNCHANGED <<authUser, queue, server, by, acked, refused, dropped>>
      BY <1>7 DEF Relaunch, Launched, diskVars
    <2>2. /\ stream' \in StreamType /\ stream'.state # "open" /\ ~stream'.shaken /\ ~stream'.idle
          /\ token' \in TokenType /\ token'.at = "none"
      BY <2>1, ItemTypes, BatchesAreNumbers DEF Closed, NoRequest
    <2>3. mainQ' \in Seq(MainItem) /\ NoToken(mainQ')
      <3>1. Notify(authUser) \in MainItem /\ ~IsToken(Notify(authUser))
        BY <1>1, ItemTypes DEF Notify, IsToken, TypeOK
      <3>2. CASE told
        BY <2>1, <3>2 DEF NoToken
      <3>3. CASE ~told
        BY <2>1, <3>1, <3>3 DEF NoToken
      <3>4. QED
        BY <3>2, <3>3
    <2>4. /\ pipeline' \in Seq(Batches) /\ Len(pipeline') <= MaxPipeline
          /\ Heads(pipeline', queue[Nobody])
      <3>1. <<>> \in Seq(Batches) /\ Len(<<>>) = 0 /\ 0 <= MaxPipeline
        BY BatchesAreNumbers
      <3>2. SubSeq(queue[Nobody], 1, 0) = <<>>
        BY SubSeqEmpty
      <3>3. Len(queue[Nobody]) \in Nat
        BY <1>1, BatchesAreNumbers, LenProperties
      <3>4. QED
        BY <2>1, <3>1, <3>2, <3>3 DEF Heads
    <2>5. Kept(workerQ)
      BY <2>1 DEF Kept
    <2>6. QED
      BY <1>1, <2>1, <2>2, <2>3, <2>4, <2>5, BatchesAreNumbers
  <1>8. QED
    BY <1>2, <1>3, <1>5, <1>6, <1>7 DEF Losing

----------------------------------------------------------------------------
(* Types are kept.                                                         *)

LEMMA LosingType ==
  ASSUME Core, Losing
  PROVE  TypeOK'
  <1>1. provider' \in Owners /\ turns' \in 0..MaxTurns
    <2>1. CASE authVars' = authVars
      BY <2>1 DEF authVars, Core, TypeOK
    <2>2. ASSUME NEW p \in Owners, NEW told \in BOOLEAN, Relaunch(p, told)
          PROVE  provider' \in Owners /\ turns' \in 0..MaxTurns
      BY <2>2, BatchesAreNumbers DEF Relaunch, Launched, Core, TypeOK
    <2>3. QED
      BY <2>1, <2>2
         DEF Losing, HandleCredentialChange, ResumeStart, WriteRefused, HandshakeRefused,
             StreamBreaks, StreamEnds, RestartNetwork
  <1>2. TypeOK
    BY DEF Core
  <1>3. dropped' \subseteq Batches
    BY <1>2, LosingEffect, Oldest DEF QueuePopped, TypeOK
  <1>4. workerQ' \in Seq(WorkerItem) /\ toServer' \in Seq(Batches \cup {Handshake})
        /\ toClient' \in Seq(Answer)
    BY LosingEffect, KeptType DEF Over
  <1>5. QED
    BY <1>1, <1>2, <1>3, <1>4, LosingEffect DEF TypeOK, Over, TokenType, StreamType

LEMMA FillingType ==
  ASSUME Core, WriteMutations \/ MutationResult
  PROVE  TypeOK'
  <1>1. TypeOK
    BY DEF Core
  <1>2. CASE WriteMutations
    <2> DEFINE q == Append(queue[user], Head(workerQ).batch)
    <2>1. /\ workerQ # <<>> /\ workerQ' = Tail(workerQ)
          /\ UNCHANGED <<authUser, provider, turns, mainQ, user, acked, dropped, toClient,
                         server, by, refused>>
      BY <1>2 DEF WriteMutations, Takes, authVars
    <2>2. /\ queue' = [queue EXCEPT ![user] = q]
          /\ q \in Seq(Batches) /\ Ascending(q) /\ Heads(pipeline, q)
          /\ FillWritePipeline(pipeline, q)
      BY <1>2, WriteTaken
    <2> HIDE DEF q
    <2>3. pipeline \in Seq(Batches) /\ Len(pipeline) <= MaxPipeline
      BY <1>1 DEF TypeOK
    <2>4. /\ pipeline' \in Seq(Batches) /\ Len(pipeline') <= MaxPipeline
          /\ stream' \in StreamType /\ token' \in TokenType
          /\ toServer' \in Seq(Batches \cup {Handshake})
      BY <1>1, <2>2, <2>3, FillEffect
    <2>5. workerQ' \in Seq(WorkerItem)
      BY <1>1, <2>1, WorkerHead
    <2>6. queue' \in [Owners -> Seq(Batches)]
      BY <1>1, <2>2 DEF TypeOK
    <2>7. QED
      BY <1>1, <2>1, <2>4, <2>5, <2>6 DEF TypeOK, StreamType, TokenType
  <1>3. CASE MutationResult
    <2> DEFINE q == Tail(queue[user])
    <2>1. /\ toClient' = Tail(toClient)
          /\ UNCHANGED <<authUser, provider, turns, mainQ, workerQ, user, dropped, server, by,
                         refused>>
      BY <1>3 DEF MutationResult, authVars
    <2>2. /\ pipeline # <<>> /\ toClient # <<>>
          /\ queue' = [queue EXCEPT ![user] = q]
          /\ acked' = acked \cup {Head(pipeline)}
          /\ FillWritePipeline(Tail(pipeline), q)
      BY <1>3, ResultTaken
    <2>3. /\ q \in Seq(Batches) /\ Ascending(q) /\ Heads(Tail(pipeline), q)
          /\ Tail(pipeline) \in Seq(Batches) /\ Len(Tail(pipeline)) <= MaxPipeline
          /\ Head(pipeline) \in Batches
      BY <2>2, Oldest
    <2> HIDE DEF q
    <2>4. /\ pipeline' \in Seq(Batches) /\ Len(pipeline') <= MaxPipeline
          /\ stream' \in StreamType /\ token' \in TokenType
          /\ toServer' \in Seq(Batches \cup {Handshake})
      BY <1>1, <2>2, <2>3, FillEffect
    <2>5. toClient' \in Seq(Answer)
      BY <1>1, <2>1, <2>2, TailIs DEF TypeOK
    <2>6. queue' \in [Owners -> Seq(Batches)] /\ acked' \subseteq Batches
      BY <1>1, <2>2, <2>3 DEF TypeOK
    <2>7. QED
      BY <1>1, <2>1, <2>4, <2>5, <2>6 DEF TypeOK, StreamType, TokenType
  <1>4. QED
    BY <1>2, <1>3

\* The steps of the Auth queue and the main queue.
LEMMA QueuesType ==
  ASSUME Core,
         \/ \E u \in Owners : AuthChanges(u)
         \/ FetchToken \/ (\E ok \in BOOLEAN : PostToken(ok))
         \/ AuthStateDidChange \/ GotToken \/ Write
  PROVE  TypeOK'
  <1>1. TypeOK
    BY DEF Core
  <1> USE DEF TypeOK
  <1>2. ASSUME NEW u \in Owners, AuthChanges(u) PROVE TypeOK'
    <2>1. mainQ' = Append(mainQ, Notify(u)) /\ Notify(u) \in MainItem
      BY <1>2, ItemTypes DEF AuthChanges
    <2>2. mainQ' \in Seq(MainItem)
      BY <1>1, <2>1, AppendProperties
    <2>3. turns' \in 0..MaxTurns
      BY <1>1, <1>2, BatchesAreNumbers DEF AuthChanges
    <2>4. QED
      BY <1>1, <1>2, <2>2, <2>3 DEF AuthChanges, diskVars, streamVars, wireVars
  <1>3. CASE FetchToken
    <2>1. token' \in TokenType
      BY <1>1, <1>3 DEF FetchToken, TokenType
    <2>2. QED
      BY <1>1, <1>3, <2>1 DEF FetchToken, authVars, diskVars, wireVars, TokenType
  <1>4. ASSUME NEW ok \in BOOLEAN, PostToken(ok) PROVE TypeOK'
    <2>1. mainQ' = Append(mainQ, Token(token.user, ok)) /\ token' = [token EXCEPT !.at = "posted"]
      BY <1>4 DEF PostToken
    <2>2. Token(token.user, ok) \in MainItem
      BY <1>1, ItemTypes
    <2>3. mainQ' \in Seq(MainItem)
      BY <1>1, <2>1, <2>2, AppendProperties
    <2>4. token' \in TokenType
      BY <1>1, <2>1 DEF TokenType
    <2>5. QED
      BY <1>1, <1>4, <2>3, <2>4 DEF PostToken, authVars, diskVars, wireVars, TokenType
  <1>5. CASE AuthStateDidChange
    <2> DEFINE u == Head(mainQ).user
    <2>1. /\ mainQ # <<>> /\ mainQ' = Tail(mainQ) /\ provider' = u
          /\ token' = [token EXCEPT !.fresh = (token.at = "none")]
          /\ workerQ' = Append(workerQ, Credentials(u))
      BY <1>5 DEF AuthStateDidChange
    <2>2. mainQ' \in Seq(MainItem) /\ u \in Owners
      BY <1>1, <2>1, MainHead
    <2> HIDE DEF u
    <2>3. workerQ' \in Seq(WorkerItem)
      BY <1>1, <2>1, <2>2, ItemTypes, AppendProperties
    <2>4. token' \in TokenType
      BY <1>1, <2>1 DEF TokenType
    <2>5. QED
      BY <1>1, <1>5, <2>1, <2>2, <2>3, <2>4
         DEF AuthStateDidChange, diskVars, wireVars, TokenType
  <1>6. CASE GotToken
    <2> DEFINE u == Head(mainQ).user
               ok == Head(mainQ).ok
    <2>1. /\ mainQ # <<>> /\ mainQ' = Tail(mainQ)
          /\ \/ token' = NoRequest /\ workerQ' = Append(workerQ, Resume(u, ok))
             \/ token' = Requested /\ workerQ' = workerQ
          /\ UNCHANGED <<authVars, user, diskVars, pipeline, stream, wireVars, server, by, refused>>
      BY <1>6 DEF GotToken
    <2>2. mainQ' \in Seq(MainItem) /\ u \in Owners /\ ok \in BOOLEAN
      BY <1>1, <2>1, MainHead
    <2> HIDE DEF u, ok
    <2>3. workerQ' \in Seq(WorkerItem)
      <3>1. Resume(u, ok) \in WorkerItem
        BY <2>2, ItemTypes
      <3>2. workerQ \in Seq(WorkerItem)
        BY <1>1
      <3>3. Append(workerQ, Resume(u, ok)) \in Seq(WorkerItem)
        BY <3>1, <3>2, AppendProperties
      <3>4. QED
        BY <2>1, <3>2, <3>3
    <2>4. token' \in TokenType
      BY <2>1, <2>2, ItemTypes
    <2>5. QED
      BY <1>1, <2>1, <2>2, <2>3, <2>4 DEF authVars, diskVars, wireVars, TokenType
  <1>7. CASE Write
    <2>1. /\ by' = Append(by, provider) /\ workerQ' = Append(workerQ, Mutate(Len(by) + 1))
          /\ Len(by) < MaxWrites
          /\ UNCHANGED <<authVars, mainQ, user, diskVars, streamVars, wireVars, server, refused>>
      BY <1>7 DEF Write
    <2>2. by' \in Seq(Owners) /\ Len(by') = Len(by) + 1 /\ Len(by) \in Nat
      BY <1>1, <2>1, AppendProperties, LenProperties
    <2>3. Len(by) + 1 \in Batches
      BY <2>1, <2>2, BatchesAreNumbers DEF Batches
    <2>4. workerQ' \in Seq(WorkerItem)
      BY <1>1, <2>1, <2>3, AnswerTypes, AppendProperties
    <2>5. Len(by') <= MaxWrites
      BY <2>1, <2>2, BatchesAreNumbers
    <2>6. QED
      BY <1>1, <2>1, <2>2, <2>4, <2>5 DEF authVars, diskVars, streamVars, wireVars
  <1>8. QED
    BY <1>2, <1>3, <1>4, <1>5, <1>6, <1>7

\* The steps of the stream and the server that leave the pipeline.
StreamStep ==
  \/ ResumeStart /\ Head(workerQ).ok
  \/ HandshakeComplete \/ BackoffElapsed \/ IdleTimeout
  \/ AcceptStream \/ Apply \/ Refuse

LEMMA ServerHead ==
  ASSUME TypeOK, toServer # <<>>
  PROVE  /\ Tail(toServer) \in Seq(Batches \cup {Handshake})
         /\ Head(toServer) # Handshake => Head(toServer) \in Batches
  BY TailIs DEF TypeOK

LEMMA StreamStepType ==
  ASSUME Core, StreamStep
  PROVE  TypeOK'
  <1>1. TypeOK
    BY DEF Core
  <1> USE DEF TypeOK
  <1>2. CASE ResumeStart /\ Head(workerQ).ok
    <2>1. /\ workerQ # <<>> /\ Head(workerQ).op = "resume" /\ workerQ' = Tail(workerQ)
          /\ stream' = [stream EXCEPT !.state = "open", !.user = Head(workerQ).user]
          /\ toServer' = <<Handshake>>
          /\ UNCHANGED <<mainQ, token, pipeline, toClient, queue, dropped>>
          /\ UNCHANGED <<authVars, user, acked, server, by, refused>>
      BY <1>2 DEF ResumeStart, Takes
    <2>2. workerQ' \in Seq(WorkerItem) /\ Head(workerQ).user \in Owners
      BY <1>1, <2>1, WorkerHead
    <2>3. stream' \in StreamType
      BY <1>1, <2>1, <2>2 DEF StreamType
    <2>4. toServer' \in Seq(Batches \cup {Handshake})
      BY <2>1
    <2>5. QED
      BY <1>1, <2>1, <2>2, <2>3, <2>4 DEF authVars, StreamType
  <1>3. CASE HandshakeComplete
    <2>1. /\ toClient # <<>> /\ stream' = [stream EXCEPT !.shaken = TRUE]
          /\ toServer' = toServer \o pipeline /\ toClient' = Tail(toClient)
          /\ UNCHANGED <<authVars, mainQ, workerQ, user, diskVars, pipeline, token, server, by,
                         refused>>
      BY <1>3 DEF HandshakeComplete
    <2>2. stream' \in StreamType
      BY <1>1, <2>1 DEF StreamType
    <2>3. toServer' \in Seq(Batches \cup {Handshake})
      <3>1. pipeline \in Seq(Batches \cup {Handshake})
        BY <1>1, SeqMonotonic, FillTypes
      <3>2. QED
        BY <1>1, <2>1, <3>1, ConcatProperties
    <2>4. toClient' \in Seq(Answer)
      BY <1>1, <2>1, TailIs
    <2>5. QED
      BY <1>1, <2>1, <2>2, <2>3, <2>4 DEF authVars, diskVars, StreamType
  <1>4. CASE BackoffElapsed
    <2>1. /\ stream' = [stream EXCEPT !.state = "starting"] /\ token' = Requested
          /\ UNCHANGED <<authVars, mainQ, workerQ, user, diskVars, pipeline, wireVars, server, by,
                         refused>>
      BY <1>4 DEF BackoffElapsed
    <2>2. stream' \in StreamType /\ token' \in TokenType
      BY <1>1, <2>1, ItemTypes, BatchesAreNumbers DEF StreamType
    <2>3. QED
      BY <1>1, <2>1, <2>2 DEF authVars, diskVars, wireVars, StreamType, TokenType
  <1>5. CASE IdleTimeout
    <2>1. /\ stream' = Closed /\ toServer' = <<>> /\ toClient' = <<>>
          /\ UNCHANGED <<authVars, mainQ, workerQ, user, diskVars, pipeline, token, server, by,
                         refused>>
      BY <1>5 DEF IdleTimeout
    <2>2. stream' \in StreamType
      BY <2>1, ItemTypes, BatchesAreNumbers
    <2>3. QED
      BY <1>1, <2>1, <2>2 DEF authVars, diskVars, StreamType
  <1>6. CASE AcceptStream \/ Apply \/ Refuse
    <2>1. /\ toServer # <<>> /\ toServer' = Tail(toServer)
          /\ \E a \in Answer : toClient' = Append(toClient, a)
          /\ UNCHANGED <<authVars, mainQ, workerQ, user, diskVars, streamVars, by>>
      BY <1>1, <1>6, ServerHead, AnswerTypes DEF AcceptStream, Apply, Refuse, Answer
    <2>2. toServer' \in Seq(Batches \cup {Handshake}) /\ toClient' \in Seq(Answer)
      BY <1>1, <2>1, ServerHead, AppendProperties
    <2>3. server' \in [Owners -> Batches \cup {0}]
      BY <1>1, <1>6, ServerHead DEF AcceptStream, Apply, Refuse
    <2>4. refused' \subseteq Batches
      BY <1>1, <1>6, ServerHead DEF AcceptStream, Apply, Refuse
    <2>5. QED
      BY <1>1, <2>1, <2>2, <2>3, <2>4 DEF authVars, diskVars, streamVars
  <1>7. QED
    BY <1>2, <1>3, <1>4, <1>5, <1>6 DEF StreamStep

\* Steps that leave the mutation queues, the pipeline, the stream and the wire.
ApartStep ==
  \/ \E u \in Owners : AuthChanges(u)
  \/ FetchToken \/ (\E ok \in BOOLEAN : PostToken(ok))
  \/ AuthStateDidChange \/ GotToken \/ Write

LEMMA StepKinds ==
  ASSUME Core, [Next]_vars
  PROVE  \/ UNCHANGED vars \/ ApartStep \/ WriteMutations \/ MutationResult \/ Losing \/ StreamStep
  BY DEF Next, TokenFails, Main, Worker, Wire, Backend, ApartStep, Losing, StreamStep

LEMMA ApartIs ==
  ASSUME ApartStep
  PROVE  UNCHANGED <<queue, user, pipeline, stream, toServer, toClient, server, acked, refused,
                     dropped>>
  BY DEF ApartStep, AuthChanges, FetchToken, PostToken, AuthStateDidChange, GotToken, Write,
         diskVars, streamVars, wireVars

LEMMA TypeStep ==
  ASSUME Core, [Next]_vars
  PROVE  TypeOK'
  <1>1. CASE UNCHANGED vars
    BY <1>1 DEF vars, Core, TypeOK
  <1>2. CASE ApartStep
    BY <1>2, QueuesType DEF ApartStep
  <1>3. QED
    BY <1>1, <1>2, StepKinds, FillingType, LosingType, StreamStepType

----------------------------------------------------------------------------
(* The order of the writes is kept.                                        *)

LEMMA WritesTail ==
  ASSUME NEW S, NEW q \in Seq(S), q # <<>>, Writes(q)
  PROVE  Writes(Tail(q))
  <1>1. /\ Len(q) \in Nat \ {0} /\ Len(Tail(q)) = Len(q) - 1
        /\ \A i \in 1..Len(q) - 1 : Tail(q)[i] = q[i + 1]
    BY TailIs
  <1>2. \A i \in 1..Len(q) - 1 : i + 1 \in 1..Len(q)
    BY <1>1
  <1>3. QED
    BY <1>1, <1>2 DEF Writes

LEMMA WritesVoid ==
  ASSUME NEW S, NEW q \in Seq(S), OneToken(q), Writes(q)
  PROVE  Writes(Void(q))
  <1> DEFINE v == Void(q)
  <1>1. CASE v = q
    BY <1>1
  <1>2. ASSUME NEW k \in 1..Len(q),
               Len(v) = Len(q) - 1,
               \A i \in 1..Len(q) - 1 : v[i] = IF i < k THEN q[i] ELSE q[i + 1]
        PROVE  Writes(v)
    <2> HIDE DEF v
    <2> DEFINE f(i) == IF i < k THEN i ELSE i + 1
    <2>1. Len(q) \in Nat
      BY LenProperties
    <2>2. ASSUME NEW i \in 1..Len(v)
          PROVE  f(i) \in 1..Len(q) /\ v[i] = q[f(i)]
      BY <1>2, <2>1
    <2>3. ASSUME NEW i \in 1..Len(v), NEW j \in 1..Len(v), i < j
          PROVE  f(i) < f(j)
      BY <1>2, <2>1, <2>3
    <2> HIDE DEF f
    <2>4. QED
      BY <2>2, <2>3 DEF Writes
  <1>3. QED
    BY <1>1, <1>2, VoidIs

LEMMA KeptWrites ==
  ASSUME Core, Kept(workerQ)
  PROVE  Writes(workerQ')
  <1>1. workerQ \in Seq(WorkerItem) /\ OneToken(workerQ) /\ Writes(workerQ)
    BY DEF Core, TypeOK, TokenInv, QueueInv
  <1>2. CASE workerQ' = Void(workerQ)
    BY <1>1, <1>2, WritesVoid
  <1>3. CASE workerQ # <<>> /\ ~IsToken(Head(workerQ)) /\ workerQ' = Void(Tail(workerQ))
    <2>1. Tail(workerQ) \in Seq(WorkerItem) /\ OneToken(Tail(workerQ)) /\ Writes(Tail(workerQ))
      BY <1>1, <1>3, TailIs, TokensTail, WritesTail
    <2>2. QED
      BY <1>3, <2>1, WritesVoid
  <1>4. CASE workerQ # <<>> /\ IsToken(Head(workerQ)) /\ workerQ' = Tail(workerQ)
    BY <1>1, <1>4, WritesTail
  <1>5. ASSUME NEW p \in Owners, workerQ' = <<Credentials(p)>>
        PROVE  Writes(workerQ')
    BY <1>5 DEF Writes, Credentials
  <1>6. QED
    BY <1>2, <1>3, <1>4, <1>5 DEF Kept

\* Batches leave the mutation queues, or none does.
LEMMA QueueLess ==
  ASSUME Core, queue' = queue \/ QueuePopped
  PROVE  /\ \A u \in Owners : Ascending(queue'[u])
         /\ \A u \in Owners : \A i \in 1..Len(queue'[u]) :
              \E k \in 1..Len(queue[u]) : queue'[u][i] = queue[u][k]
  <1>1. CASE queue' = queue
    BY <1>1 DEF Core, QueueInv
  <1>2. CASE QueuePopped
    <2> DEFINE q == Tail(queue[user])
    <2>1. /\ queue' = [queue EXCEPT ![user] = q] /\ Ascending(q)
          /\ queue[user] \in Seq(Batches) /\ queue[user] # <<>>
          /\ queue \in [Owners -> Seq(Batches)]
      BY <1>2, Oldest DEF QueuePopped, Core, TypeOK
    <2>2. \A i \in 1..Len(q) : i + 1 \in 1..Len(queue[user]) /\ q[i] = queue[user][i + 1]
      BY <2>1, TailIs
    <2> HIDE DEF q
    <2>3. ASSUME NEW u \in Owners
          PROVE  /\ Ascending(queue'[u])
                 /\ \A i \in 1..Len(queue'[u]) :
                      \E k \in 1..Len(queue[u]) : queue'[u][i] = queue[u][k]
      <3>1. CASE u = user
        <4>1. queue'[u] = q
          BY <2>1, <3>1
        <4>2. QED
          BY <2>1, <2>2, <3>1, <4>1
      <3>2. CASE u # user
        <4>1. queue'[u] = queue[u]
          BY <2>1, <3>2
        <4>2. QED
          BY <4>1 DEF Core, QueueInv
      <3>3. QED
        BY <3>1, <3>2
    <2>4. QED
      BY <2>3
  <1>3. QED
    BY <1>1, <1>2

LEMMA QueueLessInv ==
  ASSUME Core, queue' = queue \/ QueuePopped, by' = by, Writes(workerQ')
  PROVE  QueueInv'
  <1>1. \A u \in Owners : \A i \in 1..Len(queue'[u]) : queue'[u][i] \in 1..Len(by')
    BY QueueLess DEF Core, QueueInv
  <1>2. Writes(workerQ)'
    <2>1. \A i \in 1..Len(workerQ') : workerQ'[i].op = "write" =>
            \A u \in Owners : \A k \in 1..Len(queue'[u]) : queue'[u][k] < workerQ'[i].batch
      BY QueueLess DEF Writes
    <2>2. QED
      BY <2>1 DEF Writes
  <1>3. QED
    BY <1>1, <1>2, QueueLess DEF QueueInv

LEMMA QueueStep ==
  ASSUME Core, [Next]_vars
  PROVE  QueueInv'
  <1>1. /\ workerQ \in Seq(WorkerItem) /\ Len(workerQ) \in Nat /\ Writes(workerQ)
        /\ QueueInv /\ Len(by) \in Nat
    BY LenProperties DEF Core, QueueInv, TypeOK
  <1>2. ASSUME NEW e \in WorkerItem, e.op # "write", workerQ' = Append(workerQ, e)
        PROVE  Writes(workerQ')
    <2>1. /\ Len(workerQ') = Len(workerQ) + 1 /\ workerQ'[Len(workerQ) + 1] = e
          /\ \A i \in 1..Len(workerQ) : workerQ'[i] = workerQ[i]
      BY <1>1, <1>2, AppendProperties
    <2>2. \A i \in 1..Len(workerQ') : workerQ'[i].op = "write" =>
            i \in 1..Len(workerQ) /\ workerQ'[i] = workerQ[i]
      BY <1>1, <1>2, <2>1
    <2>3. QED
      BY <1>1, <2>2 DEF Writes
  <1>3. CASE ApartStep /\ ~Write
    <2>1. by' = by /\ queue' = queue
      BY <1>3 DEF ApartStep, AuthChanges, FetchToken, PostToken, AuthStateDidChange, GotToken,
                  diskVars
    <2>2. \/ workerQ' = workerQ
          \/ \E e \in WorkerItem : e.op # "write" /\ workerQ' = Append(workerQ, e)
      <3>1. CASE AuthStateDidChange
        <4>1. /\ mainQ # <<>> /\ workerQ' = Append(workerQ, Credentials(Head(mainQ).user))
          BY <3>1 DEF AuthStateDidChange
        <4>2. Credentials(Head(mainQ).user) \in WorkerItem
          BY <4>1, MainHead, ItemTypes DEF Core
        <4>3. QED
          BY <4>1, <4>2 DEF Credentials
      <3>2. CASE GotToken
        <4> DEFINE e == Resume(Head(mainQ).user, Head(mainQ).ok)
        <4>1. mainQ # <<>> /\ (workerQ' = workerQ \/ workerQ' = Append(workerQ, e))
          BY <3>2 DEF GotToken
        <4>2. e \in WorkerItem
          <5>1. Head(mainQ).user \in Owners /\ Head(mainQ).ok \in BOOLEAN
            BY <4>1, MainHead DEF Core
          <5>2. QED
            BY <5>1, ItemTypes
        <4>3. e.op # "write"
          BY DEF Resume
        <4> HIDE DEF e
        <4>4. QED
          BY <4>1, <4>2, <4>3
      <3>3. QED
        BY <1>3, <3>1, <3>2 DEF ApartStep, AuthChanges, FetchToken, PostToken
    <2>3. Writes(workerQ')
      BY <1>1, <1>2, <2>2
    <2>4. QED
      BY <2>1, <2>3, QueueLessInv
  <1>4. CASE Write
    <2> DEFINE n == Len(by) + 1
    <2>1. /\ by' = Append(by, provider) /\ workerQ' = Append(workerQ, Mutate(n))
          /\ queue' = queue /\ Len(by) < MaxWrites
      BY <1>4 DEF Write, diskVars
    <2>2. Len(by') = n
      BY <2>1, AppendProperties DEF Core, TypeOK
    <2>3. n \in 1..n /\ \A b \in 1..Len(by) : b \in 1..n /\ b < n
      BY <1>1
    <2>4. Mutate(n) \in WorkerItem
      <3>1. n \in Batches
        BY <1>1, <2>1, BatchesAreNumbers DEF Batches
      <3>2. QED
        BY <3>1, AnswerTypes
    <2> HIDE DEF n
    <2>5. /\ Len(workerQ') = Len(workerQ) + 1 /\ workerQ'[Len(workerQ) + 1] = Mutate(n)
          /\ \A i \in 1..Len(workerQ) : workerQ'[i] = workerQ[i]
      BY <1>1, <2>1, <2>4, AppendProperties
    <2>6. \A u \in Owners : \A i \in 1..Len(queue'[u]) : queue'[u][i] \in 1..n /\ queue'[u][i] < n
      BY <1>1, <2>1, <2>3 DEF QueueInv
    <2>7. ASSUME NEW i \in 1..Len(workerQ'), workerQ'[i].op = "write"
          PROVE  /\ workerQ'[i].batch \in 1..n
                 /\ \A u \in Owners : \A k \in 1..Len(queue'[u]) : queue'[u][k] < workerQ'[i].batch
                 /\ \A j \in 1..Len(workerQ') :
                      i < j /\ workerQ'[j].op = "write" => workerQ'[i].batch < workerQ'[j].batch
      <3>1. CASE i \in 1..Len(workerQ)
        <4>1. /\ workerQ'[i] = workerQ[i] /\ workerQ[i].batch \in 1..Len(by)
              /\ \A u \in Owners : \A k \in 1..Len(queue'[u]) : queue'[u][k] < workerQ'[i].batch
          BY <1>1, <2>1, <2>5, <2>7, <3>1 DEF Writes
        <4>2. ASSUME NEW j \in 1..Len(workerQ'), i < j, workerQ'[j].op = "write"
              PROVE  workerQ'[i].batch < workerQ'[j].batch
          <5>1. CASE j \in 1..Len(workerQ)
            BY <1>1, <2>5, <2>7, <3>1, <4>2, <5>1 DEF Writes
          <5>2. CASE j = Len(workerQ) + 1
            <6>1. workerQ'[j].batch = n
              BY <2>5, <5>2 DEF Mutate
            <6>2. QED
              BY <2>3, <4>1, <6>1
          <5>3. QED
            BY <1>1, <2>5, <5>1, <5>2
        <4>3. QED
          BY <2>3, <4>1, <4>2
      <3>2. CASE i = Len(workerQ) + 1
        <4>1. workerQ'[i].batch = n
          BY <2>5, <3>2 DEF Mutate
        <4>2. \A j \in 1..Len(workerQ') : ~(i < j)
          BY <1>1, <2>5, <3>2
        <4>3. QED
          BY <2>3, <2>6, <4>1, <4>2
      <3>3. QED
        BY <1>1, <2>5, <3>1, <3>2
    <2>8. QED
      BY <1>1, <2>1, <2>2, <2>6, <2>7 DEF QueueInv, Writes
  <1>5. CASE WriteMutations
    <2> DEFINE b == Head(workerQ).batch
               q == Append(queue[user], b)
    <2>1. workerQ # <<>> /\ Head(workerQ).op = "write" /\ workerQ' = Tail(workerQ) /\ by' = by
      BY <1>5 DEF WriteMutations, Takes
    <2>2. /\ b \in 1..Len(by) /\ b \in Batches
          /\ queue' = [queue EXCEPT ![user] = q] /\ queue'[user] = q /\ Ascending(q)
      BY <1>5, WriteTaken
    <2>3. \A i \in 1..Len(q) : q[i] = b \/ \E k \in 1..Len(queue[user]) : q[i] = queue[user][k]
      <3>1. queue[user] \in Seq(Batches)
        BY DEF Core, TypeOK
      <3>2. QED
        BY <2>2, <3>1, AppendProperties, LenProperties
    <2>4. /\ Len(workerQ) \in Nat \ {0} /\ Head(workerQ) = workerQ[1]
          /\ Len(workerQ') = Len(workerQ) - 1
          /\ \A i \in 1..Len(workerQ) - 1 : workerQ'[i] = workerQ[i + 1]
      BY <1>1, <2>1, TailIs
    <2>5. Writes(workerQ')
      BY <1>1, <2>1, WritesTail
    <2>6. \A i \in 1..Len(workerQ') : workerQ'[i].op = "write" => b < workerQ'[i].batch
      <3>1. ASSUME NEW i \in 1..Len(workerQ'), workerQ'[i].op = "write"
            PROVE  b < workerQ'[i].batch
        <4>1. 1 \in 1..Len(workerQ) /\ i + 1 \in 1..Len(workerQ) /\ 1 < i + 1
          BY <2>4
        <4>2. QED
          BY <1>1, <2>1, <2>4, <3>1, <4>1 DEF Writes
      <3>2. QED
        BY <3>1
    <2> HIDE DEF b, q
    <2>7. ASSUME NEW u \in Owners
          PROVE  /\ Ascending(queue'[u])
                 /\ \A i \in 1..Len(queue'[u]) :
                      queue'[u][i] = b \/ \E k \in 1..Len(queue[u]) : queue'[u][i] = queue[u][k]
      <3>1. CASE u = user
        <4>1. queue'[u] = q
          BY <2>2, <3>1
        <4>2. QED
          BY <2>2, <2>3, <3>1, <4>1
      <3>2. CASE u # user
        <4>1. queue'[u] = queue[u]
          BY <2>2, <3>2
        <4>2. QED
          BY <1>1, <4>1 DEF QueueInv
      <3>3. QED
        BY <3>1, <3>2
    <2>8. \A u \in Owners : \A i \in 1..Len(queue'[u]) : queue'[u][i] \in 1..Len(by')
      BY <1>1, <2>1, <2>2, <2>7 DEF QueueInv
    <2>9. Writes(workerQ)'
      <3>1. \A i \in 1..Len(workerQ') : workerQ'[i].op = "write" =>
              \A u \in Owners : \A k \in 1..Len(queue'[u]) : queue'[u][k] < workerQ'[i].batch
        BY <2>5, <2>6, <2>7 DEF Writes
      <3>2. QED
        BY <2>1, <2>5, <3>1 DEF Writes
    <2>10. QED
      BY <2>7, <2>8, <2>9 DEF QueueInv
  <1>6. CASE MutationResult
    <2>1. QueuePopped /\ by' = by /\ workerQ' = workerQ
      BY <1>6, ResultTaken DEF QueuePopped, MutationResult
    <2>2. QED
      BY <1>1, <2>1, QueueLessInv
  <1>7. CASE Losing
    BY <1>7, LosingEffect, KeptWrites, QueueLessInv
  <1>8. CASE StreamStep
    <2>1. by' = by /\ queue' = queue
      BY <1>8 DEF StreamStep, ResumeStart, HandshakeComplete, BackoffElapsed, IdleTimeout,
                  AcceptStream, Apply, Refuse, diskVars
    <2>2. workerQ' = workerQ \/ (workerQ # <<>> /\ workerQ' = Tail(workerQ))
      BY <1>8 DEF StreamStep, ResumeStart, Takes, HandshakeComplete, BackoffElapsed, IdleTimeout,
                  AcceptStream, Apply, Refuse
    <2>3. Writes(workerQ')
      BY <1>1, <2>2, WritesTail
    <2>4. QED
      BY <2>1, <2>3, QueueLessInv
  <1>9. CASE UNCHANGED vars
    BY <1>1, <1>9, QueueLessInv DEF vars, diskVars
  <1>10. QED
    BY <1>3, <1>4, <1>5, <1>6, <1>7, <1>8, <1>9, StepKinds DEF ApartStep

----------------------------------------------------------------------------
(* The pipeline, what is on the wire, and the state of the stream.         *)

LEMMA StreamStepIs ==
  ASSUME StreamStep
  PROVE  UNCHANGED <<queue, user, pipeline, by, mainQ, acked, dropped, authUser, provider>>
  BY DEF StreamStep, ResumeStart, HandshakeComplete, BackoffElapsed, IdleTimeout, AcceptStream,
         Apply, Refuse, authVars, diskVars, streamVars

\* What the filling steps do, together.
LEMMA FillingEffect ==
  ASSUME Core, WriteMutations \/ MutationResult
  PROVE  /\ Heads(pipeline', queue'[user']) /\ user' = user
         /\ (stream'.shaken <=> stream.shaken) /\ stream'.user = stream.user
         /\ \E p, news \in Seq(Batches) :
              /\ pipeline' = p \o news
              /\ IF stream.state = "open" THEN SendsOn(news) ELSE Starts
              /\ \/ p = pipeline /\ toClient' = toClient /\ pipeline' # <<>>
                 \/ /\ pipeline # <<>> /\ p = Tail(pipeline)
                    /\ stream.state = "open" /\ stream.shaken
                    /\ toClient # <<>> /\ toClient' = Tail(toClient)
  <1>1. TypeOK /\ pipeline \in Seq(Batches) /\ Len(pipeline) <= MaxPipeline
    BY DEF Core, TypeOK
  <1>2. CASE WriteMutations
    <2> DEFINE q == Append(queue[user], Head(workerQ).batch)
    <2>1. user' = user /\ toClient' = toClient
      BY <1>2 DEF WriteMutations
    <2>2. /\ queue'[user] = q /\ q \in Seq(Batches) /\ q # <<>> /\ Ascending(q)
          /\ Heads(pipeline, q) /\ FillWritePipeline(pipeline, q)
      BY <1>2, WriteTaken
    <2> HIDE DEF q
    <2>3. /\ Heads(pipeline', q) /\ pipeline' # <<>>
          /\ (stream'.shaken <=> stream.shaken) /\ stream'.user = stream.user
          /\ \E news \in Seq(Batches) :
               /\ pipeline' = pipeline \o news
               /\ IF stream.state = "open" THEN SendsOn(news) ELSE Starts
      BY <1>1, <2>2, FillEffect
    <2>4. QED
      BY <1>1, <2>1, <2>2, <2>3
  <1>3. CASE MutationResult
    <2> DEFINE q == Tail(queue[user])
               p == Tail(pipeline)
    <2>1. user' = user /\ toClient' = Tail(toClient)
      BY <1>3 DEF MutationResult
    <2>2. /\ pipeline # <<>> /\ stream.state = "open" /\ stream.shaken /\ toClient # <<>>
          /\ queue'[user] = q /\ FillWritePipeline(p, q)
      BY <1>3, ResultTaken
    <2>3. /\ q \in Seq(Batches) /\ Ascending(q) /\ Heads(p, q)
          /\ p \in Seq(Batches) /\ Len(p) <= MaxPipeline
      BY <2>2, Oldest
    <2> HIDE DEF q, p
    <2>4. /\ Heads(pipeline', q)
          /\ (stream'.shaken <=> stream.shaken) /\ stream'.user = stream.user
          /\ \E news \in Seq(Batches) :
               /\ pipeline' = p \o news
               /\ IF stream.state = "open" THEN SendsOn(news) ELSE Starts
      BY <1>1, <2>2, <2>3, FillEffect
    <2>5. PICK news \in Seq(Batches) :
               /\ pipeline' = p \o news
               /\ IF stream.state = "open" THEN SendsOn(news) ELSE Starts
      BY <2>4
    <2>6. p = Tail(pipeline)
      BY DEF p
    <2>7. QED
      BY <2>1, <2>2, <2>3, <2>4, <2>5, <2>6
  <1>4. QED
    BY <1>2, <1>3

LEMMA HeadsStep ==
  ASSUME Core, [Next]_vars
  PROVE  Heads(pipeline', queue'[user'])
  <1>1. CASE UNCHANGED <<pipeline, queue, user>>
    BY <1>1 DEF Core
  <1>2. UNCHANGED vars => UNCHANGED <<pipeline, queue, user>>
    BY DEF vars, diskVars
  <1>3. QED
    BY <1>1, <1>2, StepKinds, ApartIs, StreamStepIs, FillingEffect, LosingEffect

\* Nothing is on the wire of a stream that is not open.
LEMMA WireEmpty ==
  ASSUME Core, stream.state # "open"
  PROVE  ~stream.shaken /\ ~stream.idle /\ toClient = <<>> /\ toServer = <<>>
  <1>1. ~stream.shaken /\ ~stream.idle
    BY DEF Core, OpenInv, IdleIsUnneeded
  <1>2. Expected = <<>>
    BY <1>1 DEF Expected
  <1>3. /\ toClient \in Seq(Answer) /\ toServer \in Seq(Batches \cup {Handshake})
        /\ Len(toClient) \in Nat /\ Len(toServer) \in Nat
        /\ Len(toClient) + Len(toServer) = 0
    BY <1>2, AnswersAre DEF Core, TypeOK, FlightInv
  <1>4. Len(toClient) = 0 /\ Len(toServer) = 0
    BY <1>3
  <1>5. QED
    BY <1>1, <1>3, <1>4, EmptySeq

LEMMA OpenStep ==
  ASSUME Core, [Next]_vars
  PROVE  OpenInv'
  <1>1. CASE UNCHANGED stream
    BY <1>1 DEF Core, OpenInv
  <1>2. UNCHANGED vars => UNCHANGED stream
    BY DEF vars, streamVars
  <1>3. CASE WriteMutations \/ MutationResult
    BY <1>3, FillingEffect DEF Core, OpenInv, SendsOn, Starts
  <1>4. CASE Losing
    BY <1>4, LosingEffect DEF Over, OpenInv
  <1>5. CASE StreamStep
    <2>1. stream \in StreamType
      BY FillTypes DEF Core
    <2>2. CASE ResumeStart /\ Head(workerQ).ok
      BY <2>1, <2>2 DEF ResumeStart, StreamType, OpenInv
    <2>3. CASE HandshakeComplete
      <3>1. stream.state = "open"
        BY <2>3, WireEmpty DEF HandshakeComplete
      <3>2. QED
        BY <2>1, <2>3, <3>1 DEF HandshakeComplete, StreamType, OpenInv
    <2>4. CASE BackoffElapsed
      BY <2>1, <2>4, WireEmpty DEF BackoffElapsed, StreamType, OpenInv
    <2>5. CASE IdleTimeout
      BY <2>5 DEF IdleTimeout, Closed, OpenInv
    <2>6. CASE AcceptStream \/ Apply \/ Refuse
      BY <1>1, <2>6 DEF AcceptStream, Apply, Refuse, streamVars
    <2>7. QED
      BY <1>5, <2>2, <2>3, <2>4, <2>5, <2>6 DEF StreamStep
  <1>6. QED
    BY <1>1, <1>2, <1>3, <1>4, <1>5, StepKinds, ApartIs

LEMMA IdleStep ==
  ASSUME Core, [Next]_vars
  PROVE  IdleIsUnneeded'
  <1>1. CASE UNCHANGED <<stream, pipeline>>
    BY <1>1 DEF Core, IdleIsUnneeded
  <1>2. UNCHANGED vars => UNCHANGED <<stream, pipeline>>
    BY DEF vars, streamVars
  <1>3. CASE WriteMutations \/ MutationResult
    <2>1. PICK p \in Seq(Batches), news \in Seq(Batches) :
              /\ pipeline' = p \o news
              /\ IF stream.state = "open" THEN SendsOn(news) ELSE Starts
              /\ \/ p = pipeline /\ toClient' = toClient /\ pipeline' # <<>>
                 \/ /\ pipeline # <<>> /\ p = Tail(pipeline)
                    /\ stream.state = "open" /\ stream.shaken
                    /\ toClient # <<>> /\ toClient' = Tail(toClient)
      BY <1>3, FillingEffect
    <2>2. stream'.shaken <=> stream.shaken
      BY <1>3, FillingEffect
    <2>3. CASE stream.state # "open"
      BY <2>1, <2>3, WireEmpty DEF Starts, IdleIsUnneeded
    <2>4. CASE stream.state = "open"
      <3>1. stream'.idle <=> (stream.idle /\ news = <<>>) \/ pipeline' = <<>>
        BY <2>1, <2>4 DEF SendsOn
      <3>2. CASE p = pipeline /\ pipeline' # <<>>
        <4>1. stream.idle /\ news = <<>> => pipeline = <<>> /\ pipeline' = <<>>
          BY <2>1, <3>2, ConcatEmptySeq DEF Core, IdleIsUnneeded
        <4>2. QED
          BY <3>1, <3>2, <4>1 DEF IdleIsUnneeded
      <3>3. CASE pipeline # <<>> /\ stream.shaken
        <4>1. ~stream.idle
          BY <3>3 DEF Core, IdleIsUnneeded
        <4>2. QED
          BY <2>2, <3>1, <3>3, <4>1 DEF IdleIsUnneeded
      <3>4. QED
        BY <2>1, <3>2, <3>3
    <2>5. QED
      BY <2>3, <2>4
  <1>4. CASE Losing
    BY <1>4, LosingEffect DEF Over, IdleIsUnneeded
  <1>5. CASE StreamStep
    <2>1. stream \in StreamType /\ pipeline' = pipeline
      BY <1>5, FillTypes, StreamStepIs DEF Core
    <2>2. CASE ResumeStart /\ Head(workerQ).ok
      BY <2>1, <2>2 DEF ResumeStart, StreamType, Core, IdleIsUnneeded
    <2>3. CASE HandshakeComplete
      BY <2>1, <2>3 DEF HandshakeComplete, StreamType, Core, IdleIsUnneeded
    <2>4. CASE BackoffElapsed
      BY <2>1, <2>4 DEF BackoffElapsed, StreamType, Core, IdleIsUnneeded
    <2>5. CASE IdleTimeout
      BY <2>5 DEF IdleTimeout, Closed, IdleIsUnneeded
    <2>6. CASE AcceptStream \/ Apply \/ Refuse
      BY <1>1, <2>6 DEF AcceptStream, Apply, Refuse, streamVars
    <2>7. QED
      BY <1>5, <2>2, <2>3, <2>4, <2>5, <2>6 DEF StreamStep
  <1>6. QED
    BY <1>1, <1>2, <1>3, <1>4, <1>5, StepKinds, ApartIs

----------------------------------------------------------------------------
(* What is on the wire is in the order of the pipeline.                    *)

\* The answers c and the requests s are those of e.
Wired(c, s, e) ==
  /\ Len(c) + Len(s) = Len(e)
  /\ \A i \in 1..Len(c) : c[i].batch = e[i]
  /\ \A i \in 1..Len(s) : s[i] = e[Len(c) + i]

LEMMA Sums ==
  ASSUME NEW k \in Nat, NEW l \in Nat, NEW m \in Nat, k + l = m
  PROVE  /\ \A n \in Nat : k + (l + n) = m + n
         /\ k - 1 + l = m - 1
         /\ \A i \in Nat : ~(i <= l) => ~(k + i <= m) /\ k + i - m = i - l
  OBVIOUS

LEMMA WiredMore ==
  ASSUME NEW S, NEW M, NEW c \in Seq(S), NEW s \in Seq(M), NEW e \in Seq(M),
         NEW news \in Seq(M), Wired(c, s, e)
  PROVE  Wired(c, s \o news, e \o news)
  <1>1. Len(c) \in Nat /\ Len(s) \in Nat /\ Len(e) \in Nat /\ Len(news) \in Nat
    BY LenProperties
  <1>2. /\ Len(s \o news) = Len(s) + Len(news)
        /\ \A i \in 1..Len(s) + Len(news) :
             (s \o news)[i] = IF i <= Len(s) THEN s[i] ELSE news[i - Len(s)]
        /\ Len(e \o news) = Len(e) + Len(news)
        /\ \A i \in 1..Len(e) + Len(news) :
             (e \o news)[i] = IF i <= Len(e) THEN e[i] ELSE news[i - Len(e)]
    BY ConcatProperties
  <1>3. /\ Len(c) + Len(s) = Len(e)
        /\ \A i \in 1..Len(c) : c[i].batch = e[i]
        /\ \A i \in 1..Len(s) : s[i] = e[Len(c) + i]
    BY DEF Wired
  <1>8. Len(c) + Len(s) = Len(e)
    BY <1>3
  <1>4. \A i \in 1..Len(c) : c[i].batch = (e \o news)[i]
    BY <1>1, <1>2, <1>3
  <1>5. ASSUME NEW i \in 1..Len(s \o news)
        PROVE  (s \o news)[i] = (e \o news)[Len(c) + i]
    <2>1. Len(c) + i \in 1..Len(e) + Len(news) /\ i \in 1..Len(s) + Len(news)
      BY <1>1, <1>2, <1>3
    <2>2. CASE i <= Len(s)
      <3>1. Len(c) + i <= Len(e) /\ i \in 1..Len(s)
        BY <1>1, <1>3, <2>1, <2>2
      <3>2. QED
        BY <1>2, <1>3, <2>1, <2>2, <3>1
    <2>3. CASE ~(i <= Len(s))
      <3>1. ~(Len(c) + i <= Len(e)) /\ Len(c) + i - Len(e) = i - Len(s)
        <4>1. i \in Nat /\ Len(c) \in Nat /\ Len(s) \in Nat /\ Len(e) \in Nat
          BY <1>1, <2>1
        <4> DEFINE x == Len(c)
                   y == Len(s)
                   z == Len(e)
        <4>2. /\ i \in Nat /\ x \in Nat /\ y \in Nat /\ z \in Nat
              /\ x + y = z /\ ~(i <= y)
          BY <1>8, <2>3, <4>1
        <4> HIDE DEF x, y, z
        <4>3. ~(x + i <= z) /\ x + i - z = i - y
          BY <4>2
        <4>4. QED
          BY <4>3 DEF x, y, z
      <3>2. (s \o news)[i] = news[i - Len(s)]
        BY <1>2, <2>1, <2>3
      <3>3. (e \o news)[Len(c) + i] = news[Len(c) + i - Len(e)]
        BY <1>2, <2>1, <3>1
      <3>4. QED
        BY <3>1, <3>2, <3>3
    <2>4. QED
      BY <2>2, <2>3
  <1>6. Len(c) + Len(s \o news) = Len(e \o news)
    <2>1. Len(s \o news) = Len(s) + Len(news) /\ Len(e \o news) = Len(e) + Len(news)
      BY <1>2
    <2>2. Len(c) + (Len(s) + Len(news)) = Len(e) + Len(news)
      <3> DEFINE k == Len(c)
                 l == Len(s)
                 m == Len(e)
                 n == Len(news)
      <3>1. k \in Nat /\ l \in Nat /\ m \in Nat /\ n \in Nat /\ k + l = m
        BY <1>1, <1>8
      <3> HIDE DEF k, l, m, n
      <3>2. k + (l + n) = m + n
        BY <3>1
      <3>3. QED
        BY <3>2 DEF k, l, m, n
    <2>3. QED
      BY <2>1, <2>2
  <1>7. QED
    BY <1>4, <1>5, <1>6 DEF Wired

LEMMA WiredTail ==
  ASSUME NEW S, NEW M, NEW c \in Seq(S), NEW s \in Seq(M), NEW e \in Seq(M),
         c # <<>>, e # <<>>, Wired(c, s, e)
  PROVE  Wired(Tail(c), s, Tail(e))
  <1>1. Len(s) \in Nat
    BY LenProperties
  <1>2. /\ Len(c) \in Nat \ {0} /\ Len(Tail(c)) = Len(c) - 1
        /\ \A i \in 1..Len(c) - 1 : Tail(c)[i] = c[i + 1]
    BY TailIs
  <1>3. /\ Len(e) \in Nat \ {0} /\ Len(Tail(e)) = Len(e) - 1
        /\ \A i \in 1..Len(e) - 1 : Tail(e)[i] = e[i + 1]
    BY TailIs
  <1>4. /\ Len(c) + Len(s) = Len(e)
        /\ \A i \in 1..Len(c) : c[i].batch = e[i]
        /\ \A i \in 1..Len(s) : s[i] = e[Len(c) + i]
    BY DEF Wired
  <1>5. ASSUME NEW i \in 1..Len(Tail(c)) PROVE Tail(c)[i].batch = Tail(e)[i]
    <2>1. i \in 1..Len(c) - 1 /\ i \in 1..Len(e) - 1 /\ i + 1 \in 1..Len(c)
      BY <1>1, <1>2, <1>3, <1>4
    <2>2. QED
      BY <1>2, <1>3, <1>4, <2>1
  <1>6. ASSUME NEW i \in 1..Len(s) PROVE s[i] = Tail(e)[Len(Tail(c)) + i]
    <2>1. Len(Tail(c)) + i \in 1..Len(e) - 1 /\ Len(Tail(c)) + i + 1 = Len(c) + i
      BY <1>1, <1>2, <1>3, <1>4
    <2>2. QED
      BY <1>3, <1>4, <2>1
  <1>7. Len(Tail(c)) + Len(s) = Len(Tail(e))
    <2>1. /\ Len(c) \in Nat /\ Len(e) \in Nat /\ Len(c) + Len(s) = Len(e)
          /\ Len(Tail(c)) = Len(c) - 1 /\ Len(Tail(e)) = Len(e) - 1
      BY <1>2, <1>3, <1>4
    <2>2. QED
      BY <1>1, <2>1, Sums
  <1>8. QED
    BY <1>5, <1>6, <1>7 DEF Wired

LEMMA WiredMoved ==
  ASSUME NEW S, NEW M, NEW c \in Seq(S), NEW s \in Seq(M), NEW e \in Seq(M),
         s # <<>>, NEW a \in S, a.batch = Head(s), Wired(c, s, e)
  PROVE  Wired(Append(c, a), Tail(s), e)
  <1>1. /\ Len(c) \in Nat /\ Len(Append(c, a)) = Len(c) + 1
        /\ \A i \in 1..Len(c) : Append(c, a)[i] = c[i]
        /\ Append(c, a)[Len(c) + 1] = a
    BY AppendProperties, LenProperties
  <1>2. /\ Len(s) \in Nat \ {0} /\ Head(s) = s[1] /\ Len(Tail(s)) = Len(s) - 1
        /\ \A i \in 1..Len(s) - 1 : Tail(s)[i] = s[i + 1]
    BY TailIs
  <1>3. /\ Len(c) + Len(s) = Len(e)
        /\ \A i \in 1..Len(c) : c[i].batch = e[i]
        /\ \A i \in 1..Len(s) : s[i] = e[Len(c) + i]
    BY DEF Wired
  <1>4. a.batch = e[Len(c) + 1]
    BY <1>2, <1>3
  <1>5. \A i \in 1..Len(Append(c, a)) : Append(c, a)[i].batch = e[i]
    <2>1. ASSUME NEW i \in 1..Len(c) + 1 PROVE Append(c, a)[i].batch = e[i]
      <3>1. i \in 1..Len(c) \/ i = Len(c) + 1
        BY <1>1
      <3>2. QED
        BY <1>1, <1>3, <1>4, <3>1
    <2>2. QED
      BY <1>1, <2>1
  <1>6. ASSUME NEW i \in 1..Len(Tail(s)) PROVE Tail(s)[i] = e[Len(Append(c, a)) + i]
    <2>1. /\ i \in 1..Len(s) - 1 /\ i + 1 \in 1..Len(s)
          /\ Len(Append(c, a)) + i = Len(c) + (i + 1)
      BY <1>1, <1>2
    <2>2. QED
      BY <1>2, <1>3, <2>1
  <1>7. Len(Append(c, a)) + Len(Tail(s)) = Len(e)
    BY <1>1, <1>2, <1>3
  <1>8. QED
    BY <1>5, <1>6, <1>7 DEF Wired

LEMMA FlightStep ==
  ASSUME Core, [Next]_vars
  PROVE  FlightInv'
  <1> DEFINE M == Batches \cup {Handshake}
  <1>1. /\ toClient \in Seq(Answer) /\ toServer \in Seq(M) /\ Expected \in Seq(M)
        /\ pipeline \in Seq(Batches) /\ pipeline \in Seq(M)
        /\ Wired(toClient, toServer, Expected)
    <2>1. pipeline \in Seq(Batches)
      BY DEF Core, TypeOK
    <2>2. pipeline \in Seq(M)
      BY <2>1, SeqMonotonic, FillTypes DEF Core
    <2>3. QED
      BY <2>1, <2>2, ExpectedType DEF Core, TypeOK, FlightInv, Wired
  <1>2. FlightInv' <=> Wired(toClient', toServer', Expected')
    BY DEF FlightInv, Wired
  <1>3. /\ Expected = IF stream.shaken THEN pipeline
                      ELSE IF stream.state = "open" THEN <<Handshake>> ELSE <<>>
        /\ Expected' = IF stream'.shaken THEN pipeline'
                       ELSE IF stream'.state = "open" THEN <<Handshake>> ELSE <<>>
    BY DEF Expected
  <1> HIDE DEF M
  <1>4. Wired(<<>>, <<>>, <<>>) /\ Wired(<<>>, <<Handshake>>, <<Handshake>>)
    BY DEF Wired
  <1>5. CASE UNCHANGED <<stream, pipeline, toServer, toClient>>
    BY <1>1, <1>2, <1>3, <1>5
  <1>6. UNCHANGED vars => UNCHANGED <<stream, pipeline, toServer, toClient>>
    BY DEF vars, streamVars, wireVars
  <1>7. CASE Losing
    BY <1>2, <1>3, <1>4, <1>7, LosingEffect DEF Over
  <1>8. CASE WriteMutations \/ MutationResult
    <2>1. PICK p \in Seq(Batches), news \in Seq(Batches) :
              /\ pipeline' = p \o news
              /\ IF stream.state = "open" THEN SendsOn(news) ELSE Starts
              /\ \/ p = pipeline /\ toClient' = toClient /\ pipeline' # <<>>
                 \/ /\ pipeline # <<>> /\ p = Tail(pipeline)
                    /\ stream.state = "open" /\ stream.shaken
                    /\ toClient # <<>> /\ toClient' = Tail(toClient)
      BY <1>8, FillingEffect
    <2>2. stream'.shaken <=> stream.shaken
      BY <1>8, FillingEffect
    <2>3. CASE stream.shaken
      <3>1. stream.state = "open" /\ toServer' = toServer \o news
        BY <2>1, <2>3 DEF Core, OpenInv, SendsOn
      <3>2. Wired(toClient', toServer, p)
        <4>1. CASE p = pipeline /\ toClient' = toClient
          BY <1>1, <1>3, <2>3, <4>1
        <4>2. CASE pipeline # <<>> /\ p = Tail(pipeline) /\ toClient # <<>> /\ toClient' = Tail(toClient)
          BY <1>1, <1>3, <2>3, <4>2, WiredTail
        <4>3. QED
          BY <2>1, <4>1, <4>2
      <3>3. toClient' \in Seq(Answer)
        BY <1>1, <2>1, TailIs
      <3>4. p \in Seq(M) /\ news \in Seq(M)
        BY SeqMonotonic, FillTypes DEF M, Core
      <3>5. Wired(toClient', toServer \o news, p \o news)
        BY <1>1, <3>2, <3>3, <3>4, WiredMore
      <3>6. QED
        BY <1>2, <1>3, <2>1, <2>2, <2>3, <3>1, <3>5
    <2>4. CASE ~stream.shaken /\ stream.state = "open"
      <3>1. stream'.state = "open" /\ toServer' = toServer /\ toClient' = toClient
        BY <2>1, <2>4 DEF SendsOn
      <3>2. QED
        BY <1>1, <1>2, <1>3, <2>2, <2>4, <3>1
    <2>5. CASE stream.state # "open"
      <3>1. stream'.state # "open" /\ toServer' = toServer /\ toClient' = toClient
        BY <2>1, <2>5 DEF Starts
      <3>2. ~stream.shaken /\ toClient = <<>> /\ toServer = <<>>
        BY <2>5, WireEmpty
      <3>3. QED
        BY <1>2, <1>3, <1>4, <2>2, <3>1, <3>2
    <2>6. QED
      BY <2>3, <2>4, <2>5
  <1>9. CASE StreamStep
    <2>1. stream \in StreamType /\ pipeline' = pipeline
      BY <1>9, FillTypes, StreamStepIs DEF Core
    <2>2. CASE ResumeStart /\ Head(workerQ).ok
      <3>1. /\ workerQ # <<>> /\ Head(workerQ).op = "resume"
            /\ stream' = [stream EXCEPT !.state = "open", !.user = Head(workerQ).user]
            /\ toServer' = <<Handshake>> /\ toClient' = toClient
        BY <2>2 DEF ResumeStart, Takes
      <3>2. stream.state = "starting"
        <4>1. Len(workerQ) \in Nat \ {0} /\ Head(workerQ) = workerQ[1]
          BY <3>1, TailIs DEF Core, TypeOK
        <4>2. ~NoToken(workerQ)
          BY <3>1, <4>1 DEF NoToken, IsToken
        <4>3. QED
          BY <4>2 DEF Core, TokenInv
      <3>3. toClient = <<>> /\ ~stream.shaken
        BY <3>2, WireEmpty
      <3>4. ~stream'.shaken /\ stream'.state = "open"
        BY <2>1, <3>1, <3>3 DEF StreamType
      <3>5. QED
        BY <1>2, <1>3, <1>4, <3>1, <3>3, <3>4
    <2>3. CASE HandshakeComplete
      <3>1. /\ toClient # <<>> /\ ~stream.shaken
            /\ stream' = [stream EXCEPT !.shaken = TRUE]
            /\ toServer' = toServer \o pipeline /\ toClient' = Tail(toClient)
        BY <2>3 DEF HandshakeComplete
      <3>2. stream.state = "open"
        BY <3>1, WireEmpty
      <3>3. Wired(toClient, toServer, <<Handshake>>)
        BY <1>1, <1>3, <3>1, <3>2
      <3>4. Wired(Tail(toClient), toServer, Tail(<<Handshake>>))
        <4>1. <<Handshake>> \in Seq(M) /\ <<Handshake>> # <<>>
          BY DEF M
        <4>2. QED
          BY <1>1, <3>1, <3>3, <4>1, WiredTail
      <3>5. Tail(<<Handshake>>) = <<>> /\ <<>> \in Seq(M)
        OBVIOUS
      <3>6. Tail(toClient) \in Seq(Answer)
        BY <1>1, <3>1, TailIs
      <3>7. Wired(Tail(toClient), toServer, <<>>)
        BY <3>4, <3>5
      <3>8. Wired(Tail(toClient), toServer \o pipeline, <<>> \o pipeline)
        BY <1>1, <3>5, <3>6, <3>7, WiredMore
      <3>9. <<>> \o pipeline = pipeline
        BY <1>1, ConcatEmptySeq
      <3>10. stream'.shaken
        BY <2>1, <3>1 DEF StreamType
      <3>11. QED
        BY <1>2, <1>3, <2>1, <3>1, <3>8, <3>9, <3>10
    <2>4. CASE BackoffElapsed
      <3>1. /\ stream.state = "backoff" /\ stream' = [stream EXCEPT !.state = "starting"]
            /\ toServer' = toServer /\ toClient' = toClient
        BY <2>4 DEF BackoffElapsed, wireVars
      <3>2. ~stream.shaken /\ toClient = <<>> /\ toServer = <<>>
        BY <3>1, WireEmpty
      <3>3. ~stream'.shaken /\ stream'.state = "starting"
        BY <2>1, <3>1, <3>2 DEF StreamType
      <3>4. QED
        BY <1>2, <1>3, <1>4, <3>1, <3>2, <3>3
    <2>5. CASE IdleTimeout
      BY <1>2, <1>3, <1>4, <2>5 DEF IdleTimeout, Closed
    <2>6. CASE AcceptStream \/ Apply \/ Refuse
      <3>1. /\ toServer # <<>> /\ toServer' = Tail(toServer) /\ stream' = stream
            /\ \E a \in Answer : a.batch = Head(toServer) /\ toClient' = Append(toClient, a)
        <4>1. CASE AcceptStream
          BY <4>1 DEF AcceptStream, streamVars, Shaken, Answer
        <4>2. CASE Apply \/ Refuse
          <5>1. /\ toServer # <<>> /\ Head(toServer) # Handshake
                /\ toServer' = Tail(toServer) /\ stream' = stream
                /\ \/ toClient' = Append(toClient, Applied(Head(toServer)))
                   \/ toClient' = Append(toClient, Refused(Head(toServer)))
            BY <4>2 DEF Apply, Refuse, streamVars
          <5>2. Head(toServer) \in Batches
            BY <5>1, ServerHead DEF Core
          <5>3. /\ Applied(Head(toServer)) \in Answer /\ Refused(Head(toServer)) \in Answer
                /\ Applied(Head(toServer)).batch = Head(toServer)
                /\ Refused(Head(toServer)).batch = Head(toServer)
            BY <5>2, AnswerTypes DEF Applied, Refused
          <5>4. QED
            BY <5>1, <5>3
        <4>3. QED
          BY <2>6, <4>1, <4>2
      <3>2. PICK a \in Answer : a.batch = Head(toServer) /\ toClient' = Append(toClient, a)
        BY <3>1
      <3>3. Wired(Append(toClient, a), Tail(toServer), Expected)
        BY <1>1, <3>1, <3>2, WiredMoved
      <3>4. Expected' = Expected
        BY <1>3, <2>1, <3>1
      <3>5. QED
        BY <1>2, <3>1, <3>2, <3>3, <3>4
    <2>7. QED
      BY <1>9, <2>2, <2>3, <2>4, <2>5, <2>6 DEF StreamStep
  <1>10. QED
    BY <1>5, <1>6, <1>7, <1>8, <1>9, StepKinds, ApartIs

----------------------------------------------------------------------------
(* One token is under way at a time.                                       *)

\* What is added to a queue, and what is taken from it.
LEMMA TokensAppend ==
  ASSUME NEW S, NEW q \in Seq(S), NEW e \in S
  PROVE  /\ OneToken(q) /\ (~IsToken(e) \/ NoToken(q)) => OneToken(Append(q, e))
         /\ NoToken(q) /\ ~IsToken(e) => NoToken(Append(q, e))
         /\ ~NoToken(Append(q, e)) => ~NoToken(q) \/ IsToken(e)
  <1>1. /\ Len(q) \in Nat /\ Len(Append(q, e)) = Len(q) + 1
        /\ \A i \in 1..Len(q) : Append(q, e)[i] = q[i]
        /\ Append(q, e)[Len(q) + 1] = e
    BY AppendProperties, LenProperties
  <1>2. \A i \in 1..Len(Append(q, e)) : i \in 1..Len(q) \/ i = Len(q) + 1
    BY <1>1
  <1>3. QED
    BY <1>1, <1>2 DEF OneToken, NoToken

LEMMA TokensRest ==
  ASSUME NEW S, NEW q \in Seq(S), q # <<>>
  PROVE  /\ NoToken(q) => NoToken(Tail(q)) /\ ~IsToken(Head(q))
         /\ IsToken(Head(q)) => ~NoToken(q)
  <1>1. /\ Len(q) \in Nat \ {0} /\ Head(q) = q[1] /\ Len(Tail(q)) = Len(q) - 1
        /\ \A i \in 1..Len(q) - 1 : Tail(q)[i] = q[i + 1]
    BY TailIs
  <1>2. \A i \in 1..Len(q) - 1 : i + 1 \in 1..Len(q)
    BY <1>1
  <1>3. QED
    BY <1>1, <1>2 DEF NoToken

LEMMA TokenStep ==
  ASSUME Core, [Next]_vars
  PROVE  TokenInv'
  <1>1. /\ token.at # "none" => stream.state = "starting"
        /\ token.at # "posted" => NoToken(mainQ)
        /\ ~NoToken(workerQ) => token.at = "none" /\ stream.state = "starting"
        /\ OneToken(mainQ) /\ OneToken(workerQ)
    BY DEF Core, TokenInv
  <1>2. /\ mainQ \in Seq(MainItem) /\ workerQ \in Seq(WorkerItem)
        /\ stream \in StreamType /\ token \in TokenType /\ authUser \in Owners
    BY FillTypes DEF Core, TypeOK
  <1>3. \A q : NoToken(q) => OneToken(q)
    BY DEF NoToken, OneToken
  <1>4. CASE UNCHANGED <<token, stream, mainQ, workerQ>>
    BY <1>1, <1>4 DEF TokenInv
  <1>5. UNCHANGED vars => UNCHANGED <<token, stream, mainQ, workerQ>>
    BY DEF vars, streamVars
  <1>6. CASE Losing
    <2>1. Over /\ NoToken(workerQ')
      BY <1>6, LosingEffect, KeptType
    <2>2. QED
      BY <1>3, <2>1 DEF Over, TokenInv
  \* A token is asked for only when none is under way.
  <1>7. ASSUME token' = Requested, stream'.state = "starting",
               NoToken(mainQ'), NoToken(workerQ')
        PROVE  TokenInv'
    BY <1>3, <1>7 DEF TokenInv, Requested
  <1>8. stream.state # "starting" => token.at = "none" /\ NoToken(mainQ) /\ NoToken(workerQ)
    BY <1>1
  <1>9. CASE WriteMutations \/ MutationResult
    <2>1. mainQ' = mainQ
      BY <1>9 DEF WriteMutations, MutationResult
    <2>2. \/ workerQ' = workerQ
          \/ workerQ # <<>> /\ ~IsToken(Head(workerQ)) /\ workerQ' = Tail(workerQ)
      BY <1>9 DEF WriteMutations, MutationResult, Takes, IsToken
    <2>3. OneToken(workerQ') /\ (~NoToken(workerQ') => ~NoToken(workerQ))
      BY <1>1, <1>2, <2>2, TokensTail, TokensRest
    <2>4. PICK news \in Seq(Batches) : IF stream.state = "open" THEN SendsOn(news) ELSE Starts
      BY <1>9, FillingEffect
    <2>5. \/ stream'.state = stream.state /\ token' = token
          \/ /\ stream.state \in {"initial", "error"}
             /\ \/ stream'.state = "starting" /\ token' = Requested
                \/ stream'.state = "backoff" /\ token' = token
      BY <2>4 DEF SendsOn, Starts
    <2>6. CASE stream'.state = stream.state /\ token' = token
      BY <1>1, <2>1, <2>3, <2>6 DEF TokenInv
    <2>7. CASE stream.state \in {"initial", "error"}
      <3>1. token.at = "none" /\ NoToken(mainQ') /\ NoToken(workerQ')
        BY <1>8, <2>1, <2>3, <2>7
      <3>2. CASE token' = token
        BY <1>3, <3>1, <3>2 DEF TokenInv
      <3>3. QED
        BY <1>7, <2>5, <2>6, <3>1, <3>2
    <2>8. QED
      BY <2>5, <2>6, <2>7
  <1>10. CASE StreamStep
    <2>1. CASE ResumeStart /\ Head(workerQ).ok
      <3>1. /\ workerQ # <<>> /\ IsToken(Head(workerQ)) /\ workerQ' = Tail(workerQ)
            /\ mainQ' = mainQ /\ token' = token
        BY <2>1 DEF ResumeStart, Takes, IsToken
      <3>2. NoToken(workerQ') /\ token.at = "none"
        BY <1>1, <1>2, <3>1, TokensTail, TokensRest
      <3>3. QED
        BY <1>1, <1>3, <3>1, <3>2 DEF TokenInv
    <2>2. CASE HandshakeComplete
      <3>1. stream' = [stream EXCEPT !.shaken = TRUE] /\ UNCHANGED <<mainQ, workerQ, token>>
        BY <2>2 DEF HandshakeComplete
      <3>2. stream'.state = stream.state
        BY <1>2, <3>1 DEF StreamType
      <3>3. QED
        BY <1>1, <3>1, <3>2 DEF TokenInv
    <2>3. CASE BackoffElapsed
      <3>1. /\ stream.state = "backoff" /\ stream'.state = "starting" /\ token' = Requested
            /\ UNCHANGED <<mainQ, workerQ>>
        BY <1>2, <2>3 DEF BackoffElapsed, StreamType
      <3>2. QED
        BY <1>7, <1>8, <3>1
    <2>4. CASE IdleTimeout
      <3>1. stream.idle /\ stream'.state = "initial" /\ UNCHANGED <<mainQ, workerQ, token>>
        BY <2>4 DEF IdleTimeout, Closed
      <3>2. stream.state = "open"
        BY <3>1 DEF Core, IdleIsUnneeded, OpenInv
      <3>3. token.at = "none" /\ NoToken(mainQ) /\ NoToken(workerQ)
        BY <1>8, <3>2
      <3>4. QED
        BY <1>3, <3>1, <3>3 DEF TokenInv
    <2>5. CASE AcceptStream \/ Apply \/ Refuse
      BY <1>4, <2>5 DEF AcceptStream, Apply, Refuse, streamVars
    <2>6. QED
      BY <1>10, <2>1, <2>2, <2>3, <2>4, <2>5 DEF StreamStep
  <1>11. CASE ApartStep
    <2>1. stream' = stream
      BY <1>11, ApartIs
    <2>2. ASSUME NEW u \in Owners, AuthChanges(u) PROVE TokenInv'
      <3>1. mainQ' = Append(mainQ, Notify(u)) /\ token' = token /\ workerQ' = workerQ
        BY <2>2 DEF AuthChanges, streamVars
      <3>2. Notify(u) \in MainItem /\ ~IsToken(Notify(u))
        BY ItemTypes DEF Notify, IsToken
      <3>3. OneToken(mainQ') /\ (NoToken(mainQ) => NoToken(mainQ'))
        BY <1>1, <1>2, <3>1, <3>2, TokensAppend
      <3>4. QED
        BY <1>1, <2>1, <3>1, <3>3 DEF TokenInv
    <2>3. CASE FetchToken
      <3>1. /\ token.at = "asked" /\ token'.at = "fetching"
            /\ mainQ' = mainQ /\ workerQ' = workerQ
        BY <1>2, <2>3 DEF FetchToken, TokenType
      <3>2. QED
        BY <1>1, <2>1, <3>1 DEF TokenInv
    <2>4. ASSUME NEW ok \in BOOLEAN, PostToken(ok) PROVE TokenInv'
      <3>1. /\ token.at = "fetching" /\ token'.at = "posted"
            /\ mainQ' = Append(mainQ, Token(token.user, ok)) /\ workerQ' = workerQ
        BY <1>2, <2>4 DEF PostToken, TokenType
      <3>2. Token(token.user, ok) \in MainItem
        BY <1>2, ItemTypes DEF TokenType
      <3>3. OneToken(mainQ')
        BY <1>1, <1>2, <3>1, <3>2, TokensAppend
      <3>4. QED
        BY <1>1, <2>1, <3>1, <3>3 DEF TokenInv
    <2>5. CASE AuthStateDidChange
      <3>1. /\ mainQ # <<>> /\ ~IsToken(Head(mainQ)) /\ mainQ' = Tail(mainQ)
            /\ token' = [token EXCEPT !.fresh = (token.at = "none")]
            /\ workerQ' = Append(workerQ, Credentials(Head(mainQ).user))
        BY <2>5 DEF AuthStateDidChange, IsToken
      <3>2. OneToken(mainQ') /\ (NoToken(mainQ) => NoToken(mainQ'))
        BY <1>1, <1>2, <3>1, TokensTail, TokensRest
      <3>3. token'.at = token.at
        BY <1>2, <3>1 DEF TokenType
      <3>4. OneToken(workerQ') /\ (~NoToken(workerQ') => ~NoToken(workerQ))
        <4> DEFINE e == Credentials(Head(mainQ).user)
        <4>1. e \in WorkerItem /\ ~IsToken(e)
          BY <3>1, MainHead, ItemTypes DEF Core, Credentials, IsToken
        <4> HIDE DEF e
        <4>2. OneToken(Append(workerQ, e)) /\ (~NoToken(Append(workerQ, e)) => ~NoToken(workerQ))
          BY <1>1, <1>2, <4>1, TokensAppend
        <4>3. QED
          BY <3>1, <4>2 DEF e
      <3>5. QED
        BY <1>1, <2>1, <3>2, <3>3, <3>4 DEF TokenInv
    <2>6. CASE GotToken
      <3> DEFINE e == Resume(Head(mainQ).user, Head(mainQ).ok)
      <3>1. /\ mainQ # <<>> /\ IsToken(Head(mainQ)) /\ mainQ' = Tail(mainQ)
            /\ \/ token' = NoRequest /\ workerQ' = Append(workerQ, e)
               \/ token' = Requested /\ workerQ' = workerQ
        BY <2>6 DEF GotToken, IsToken
      <3>2. e \in WorkerItem
        <4>1. Head(mainQ).user \in Owners /\ Head(mainQ).ok \in BOOLEAN
          BY <3>1, MainHead DEF Core
        <4>2. QED
          BY <4>1, ItemTypes
      <3> HIDE DEF e
      <3>3. NoToken(mainQ') /\ token.at = "posted"
        BY <1>1, <1>2, <3>1, TokensTail, TokensRest
      <3>4. stream.state = "starting" /\ NoToken(workerQ)
        BY <1>1, <3>3
      <3>5. CASE token' = NoRequest /\ workerQ' = Append(workerQ, e)
        <4>1. OneToken(workerQ') /\ token'.at = "none"
          BY <1>1, <1>2, <3>2, <3>4, <3>5, TokensAppend DEF NoRequest
        <4>2. QED
          BY <1>3, <2>1, <3>3, <3>4, <4>1 DEF TokenInv
      <3>6. CASE token' = Requested /\ workerQ' = workerQ
        BY <1>7, <2>1, <3>3, <3>4, <3>6
      <3>7. QED
        BY <3>1, <3>5, <3>6
    <2>7. CASE Write
      <3> DEFINE e == Mutate(Len(by) + 1)
      <3>1. /\ mainQ' = mainQ /\ token' = token /\ Len(by) < MaxWrites
            /\ workerQ' = Append(workerQ, e)
        BY <2>7 DEF Write, streamVars
      <3>2. e \in WorkerItem /\ ~IsToken(e)
        <4>1. Len(by) \in Nat
          BY LenProperties DEF Core, TypeOK
        <4>2. Len(by) + 1 \in Batches
          BY <3>1, <4>1, BatchesAreNumbers DEF Batches
        <4>3. QED
          BY <4>2, AnswerTypes DEF Mutate, IsToken
      <3> HIDE DEF e
      <3>3. OneToken(workerQ') /\ (~NoToken(workerQ') => ~NoToken(workerQ))
        BY <1>1, <1>2, <3>1, <3>2, TokensAppend
      <3>4. QED
        BY <1>1, <2>1, <3>1, <3>3 DEF TokenInv
    <2>8. QED
      BY <1>11, <2>2, <2>3, <2>4, <2>5, <2>6, <2>7 DEF ApartStep
  <1>12. QED
    BY <1>4, <1>5, <1>6, <1>9, <1>10, <1>11, StepKinds

----------------------------------------------------------------------------
(* The theorems.                                                           *)

LEMMA InitCore ==
  ASSUME Init
  PROVE  Core
  <1>1. /\ authUser \in Owners /\ provider = authUser
        /\ mainQ = <<>> /\ workerQ = <<Credentials(authUser)>>
        /\ user = Nobody
        /\ queue = [u \in Owners |-> <<>>]
        /\ pipeline = <<>> /\ stream = Closed /\ token = NoRequest
        /\ toServer = <<>> /\ toClient = <<>>
        /\ server = [u \in Owners |-> 0]
        /\ turns = 0 /\ by = <<>>
        /\ acked = {} /\ refused = {} /\ dropped = {}
    BY DEF Init
  <1>2. Credentials(authUser) \in WorkerItem
    BY <1>1, ItemTypes
  <1>3. stream \in StreamType /\ token \in TokenType
    BY <1>1, ItemTypes, BatchesAreNumbers
  <1>4. /\ mainQ \in Seq(MainItem) /\ workerQ \in Seq(WorkerItem)
        /\ queue \in [Owners -> Seq(Batches)] /\ pipeline \in Seq(Batches)
        /\ toServer \in Seq(Batches \cup {Handshake}) /\ toClient \in Seq(Answer)
        /\ by \in Seq(Owners)
    BY <1>1, <1>2
  <1>5. Len(by) <= MaxWrites /\ Len(pipeline) <= MaxPipeline /\ turns \in 0..MaxTurns
    BY <1>1, BatchesAreNumbers
  <1>6. TypeOK
    BY <1>1, <1>3, <1>4, <1>5, BatchesAreNumbers DEF TypeOK, StreamType, TokenType
  <1>7. QueueInv
    BY <1>1 DEF QueueInv, Writes, Ascending, Credentials
  <1>8. Heads(pipeline, queue[user])
    <2>1. queue[user] = <<>>
      BY <1>1, BatchesAreNumbers
    <2>2. Len(<<>>) = 0 /\ SubSeq(<<>>, 1, 0) = <<>>
      OBVIOUS
    <2>3. QED
      BY <1>1, <2>1, <2>2 DEF Heads
  <1>9. FlightInv /\ OpenInv /\ IdleIsUnneeded
    BY <1>1 DEF FlightInv, Expected, OpenInv, IdleIsUnneeded, Closed
  <1>10. TokenInv
    BY <1>1 DEF TokenInv, NoToken, OneToken, IsToken, Credentials, NoRequest
  <1>11. QED
    BY <1>6, <1>7, <1>8, <1>9, <1>10 DEF Core

LEMMA Invariant == Spec => []Core
  <1>1. Init => Core
    BY InitCore
  <1>2. Core /\ [Next]_vars => Core'
    BY TypeStep, QueueStep, HeadsStep, FlightStep, TokenStep, IdleStep, OpenStep DEF Core
  <1>3. QED
    BY <1>1, <1>2, PTL DEF Spec

\* Whatever signs in, breaks or is killed, the queues, the streams and the wire
\* hold what they are made for: batches that were made, owners that exist.
THEOREM Typing == Spec => []TypeOK
  <1>1. Core => TypeOK
    BY DEF Core
  <1>2. QED
    BY <1>1, Invariant, PTL

\* The pipeline stays the head of the current user's mutation queue: what an
\* answer removes from the one is at the head of the other.
THEOREM PipelineIsHead == Spec => []PipelineHeadsQueue
  <1>1. Core => PipelineHeadsQueue
    BY DEF Core, Heads, PipelineHeadsQueue
  <1>2. QED
    BY <1>1, Invariant, PTL

\* Answers and requests under way are about the batches of the pipeline, one
\* each and in its order, however often the stream was lost and made anew: the
\* answer that carries no batch is taken for that to the oldest, and is.
THEOREM AnswersMatch == Spec => []InFlight
  <1>1. Core => InFlight
    BY FlightIs DEF Core
  <1>2. QED
    BY <1>1, Invariant, PTL

\* The idle timer runs only on a stream that has nothing to send.
THEOREM IdleIsDone == Spec => []IdleIsUnneeded
  <1>1. Core => IdleIsUnneeded
    BY DEF Core
  <1>2. QED
    BY <1>1, Invariant, PTL

\* A token never reaches a stream that was closed, or opened, since it was asked
\* for: the assertion of ResumeStartWithCredentials is never met.
THEOREM TokenAwaited == Spec => []ResumedWhileStarting
  <1>1. Core => ResumedWhileStarting
    BY DEF Core, TokenInv, NoToken, IsToken, ResumedWhileStarting
  <1>2. QED
    BY <1>1, Invariant, PTL

=============================================================================
