--------------------------- MODULE Filters_proofs ---------------------------
(***************************************************************************)
(* What a filter returns, by induction on the length of what it is given.  *)
(* The induction goes over sets of naturals, since a theorem with an       *)
(* operator for a parameter cannot be used.                                *)
(***************************************************************************)
EXTENDS Filters, Integers, SequenceTheorems, WellFoundedInduction, TLAPS

LEMMA Least ==
  ASSUME NEW T, T \subseteq Nat, T # {}
  PROVE  \E x \in T : \A y \in T : x <= y
  <1> DEFINE R == OpToRel(<, Nat)
  <1>1. IsWellFoundedOn(R, Nat)
    BY NatLessThanWellFounded
  <1>2. \A x, y \in Nat : y < x => <<y, x>> \in R
    BY DEF OpToRel
  <1> HIDE DEF R
  <1>3. PICK x \in T : \A y \in T : ~(<<y, x>> \in R)
    BY <1>1, WFMin, Zenon
  <1>4. \A y \in T : x <= y
    <2>1. ASSUME NEW y \in T PROVE x <= y
      <3>1. x \in Nat /\ y \in Nat /\ ~(y < x)
        BY <1>2, <1>3
      <3>2. QED
        BY <3>1
    <2>2. QED
      BY <2>1
  <1>5. QED
    BY <1>4

LEMMA Induction ==
  ASSUME NEW S, 0 \in S, \A n \in Nat : n \in S => n + 1 \in S
  PROVE  Nat \subseteq S
  <1> DEFINE T == Nat \ S
  <1>1. ASSUME T # {} PROVE FALSE
    <2>1. PICK x \in T : \A y \in T : x <= y
      BY <1>1, Least
    <2>2. x \in Nat /\ x # 0
      BY <2>1
    <2>3. x - 1 \in Nat /\ x - 1 \notin T
      BY <2>1, <2>2
    <2>4. QED
      BY <2>1, <2>2, <2>3
  <1>2. QED
    BY <1>1

----------------------------------------------------------------------------
(* A filter is computed one element after the other.                       *)

\* g holds the steps of Filter(q, S), from the first element on.
Steps(g, q, S) ==
  /\ g[0] = <<>>
  /\ \A i \in 1..Len(q) : g[i] = IF q[i] \in S THEN Append(g[i - 1], q[i]) ELSE g[i - 1]

LEMMA FilterSteps ==
  ASSUME NEW V, NEW q \in Seq(V), NEW S
  PROVE  \E g \in [0..Len(q) -> Seq(V)] : Steps(g, q, S) /\ Filter(q, S) = g[Len(q)]
  <1> DEFINE n == Len(q)
             Step(i, r) == IF q[i] \in S THEN Append(r, q[i]) ELSE r
             Good(h, k) == h = [i \in 0..k |-> IF i = 0 THEN <<>> ELSE Step(i, h[i - 1])]
             K == {k \in Nat : \E h : Good(h, k)}
             g == CHOOSE h : Good(h, n)
  <1>1. n \in Nat
    BY LenProperties
  <1>2. Filter(q, S) = g[n]
    BY Zenon DEF Filter
  <1>3. Nat \subseteq K
    <2>1. 0 \in K
      <3> DEFINE h == [i \in 0..0 |-> <<>>]
      <3>1. \A i \in 0..0 : i = 0
        OBVIOUS
      <3>2. Good(h, 0)
        BY <3>1
      <3>3. QED
        BY <3>2
    <2>2. ASSUME NEW k \in Nat, k \in K PROVE k + 1 \in K
      <3>1. PICK h : Good(h, k)
        BY <2>2
      <3> DEFINE f == [i \in 0..k + 1 |-> IF i = 0 THEN <<>> ELSE Step(i, h[i - 1])]
      <3> HIDE DEF Step
      <3>2. ASSUME NEW i \in 0..k PROVE f[i] = h[i]
        BY <3>1
      <3>3. ASSUME NEW i \in 0..k + 1, i # 0 PROVE f[i - 1] = h[i - 1]
        <4>1. i - 1 \in 0..k
          BY <3>3
        <4> HIDE DEF f
        <4>2. QED
          BY <3>2, <4>1
      <3>4. Good(f, k + 1)
        <4>1. \A i \in 0..k + 1 : (IF i = 0 THEN <<>> ELSE Step(i, h[i - 1]))
                                 = IF i = 0 THEN <<>> ELSE Step(i, f[i - 1])
          BY <3>3
        <4>2. QED
          BY <4>1
      <3> HIDE DEF f, Good
      <3>5. QED
        BY <3>4
    <2> HIDE DEF K
    <2>3. QED
      BY <2>1, <2>2, Induction
  <1>4. Good(g, n)
    <2>1. \E h : Good(h, n)
      BY <1>1, <1>3
    <2> HIDE DEF Good
    <2>2. QED
      BY <2>1
  <1>5. g = [i \in 0..n |-> IF i = 0 THEN <<>> ELSE Step(i, g[i - 1])]
    <2> HIDE DEF g
    <2>1. QED
      BY <1>4
  <1> HIDE DEF g, Good, K
  <1>6. g = [i \in 0..n |-> g[i]]
    <2> HIDE DEF Step
    <2>1. QED
      BY <1>5
  <1>7. g[0] = <<>> /\ \A i \in 1..n : g[i] = Step(i, g[i - 1])
    <2>1. 0 \in 0..n /\ \A i \in 1..n : i \in 0..n /\ i # 0
      BY <1>1
    <2> HIDE DEF Step
    <2>2. QED
      BY <1>5, <2>1
  <1>8. \A i \in 0..n : g[i] \in Seq(V)
    <2> DEFINE I == {i \in Nat : i \in 0..n => g[i] \in Seq(V)}
    <2>1. 0 \in I
      <3>1. <<>> \in Seq(V)
        OBVIOUS
      <3>2. QED
        BY <1>7, <3>1
    <2>2. ASSUME NEW i \in Nat, i \in I PROVE i + 1 \in I
      <3>1. CASE i + 1 \in 1..n
        <4>1. i \in 0..n /\ g[i] \in Seq(V) /\ q[i + 1] \in V
          BY <1>1, <2>2, <3>1, ElementOfSeq
        <4>2. g[i + 1] = IF q[i + 1] \in S THEN Append(g[i], q[i + 1]) ELSE g[i]
          <5>1. (i + 1) - 1 = i
            OBVIOUS
          <5>2. QED
            BY <1>7, <3>1, <5>1
        <4>3. Append(g[i], q[i + 1]) \in Seq(V)
          BY <4>1, AppendProperties
        <4>4. g[i + 1] \in Seq(V)
          BY <4>1, <4>2, <4>3
        <4>5. QED
          BY <4>4
      <3>2. CASE i + 1 \notin 1..n
        BY <1>1, <3>2
      <3>3. QED
        BY <3>1, <3>2
    <2> HIDE DEF I
    <2>3. Nat \subseteq I
      BY <2>1, <2>2, Induction
    <2>4. QED
      BY <1>1, <2>3 DEF I
  <1>9. g \in [0..n -> Seq(V)] /\ Steps(g, q, S)
    BY <1>6, <1>7, <1>8 DEF Steps
  <1>10. QED
    BY <1>2, <1>9

----------------------------------------------------------------------------
(* The steps of a filter agree on what two sequences have in common.       *)

LEMMA SameSteps ==
  ASSUME NEW V, NEW p \in Seq(V), NEW q \in Seq(V), NEW S, NEW n \in 0..Len(q), n <= Len(p),
         \A i \in 1..n : p[i] = q[i],
         NEW g, Steps(g, p, S), NEW h, Steps(h, q, S)
  PROVE  g[n] = h[n]
  <1> DEFINE I == {i \in Nat : i <= n => g[i] = h[i]}
  <1>1. /\ Len(p) \in Nat /\ Len(q) \in Nat /\ n \in Nat
    BY LenProperties
  <1>2. 0 \in I
    BY DEF Steps
  <1>3. ASSUME NEW i \in Nat, i \in I PROVE i + 1 \in I
    <2>1. CASE i + 1 <= n
      <3> DEFINE j == i + 1
      <3>1. j \in 1..Len(p) /\ j \in 1..Len(q) /\ j \in 1..n /\ j - 1 = i /\ g[i] = h[i]
        BY <1>1, <1>3, <2>1
      <3> HIDE DEF j, I
      <3>2. g[j] = IF p[j] \in S THEN Append(g[i], p[j]) ELSE g[i]
        BY <3>1 DEF Steps
      <3>3. h[j] = IF q[j] \in S THEN Append(h[i], q[j]) ELSE h[i]
        BY <3>1 DEF Steps
      <3>4. g[j] = h[j]
        BY <3>1, <3>2, <3>3
      <3>5. QED
        BY <3>4 DEF I, j
    <2>2. CASE ~(i + 1 <= n)
      BY <2>2
    <2>3. QED
      BY <2>1, <2>2
  <1> HIDE DEF I
  <1>4. n \in I
    BY <1>1, <1>2, <1>3, Induction
  <1>5. QED
    BY <1>1, <1>4 DEF I

LEMMA FilterOfNone ==
  ASSUME NEW S
  PROVE  Filter(<<>>, S) = <<>>
  <1>1. <<>> \in Seq({}) /\ Len(<<>>) = 0
    OBVIOUS
  <1>2. PICK g \in [0..Len(<<>>) -> Seq({})] : Steps(g, <<>>, S) /\ Filter(<<>>, S) = g[Len(<<>>)]
    BY <1>1, FilterSteps
  <1>3. QED
    BY <1>1, <1>2 DEF Steps

LEMMA FilterAppend ==
  ASSUME NEW V, NEW q \in Seq(V), NEW e \in V, NEW S
  PROVE  Filter(Append(q, e), S) = IF e \in S THEN Append(Filter(q, S), e) ELSE Filter(q, S)
  <1> DEFINE p == Append(q, e)
             n == Len(q)
  <1>1. /\ p \in Seq(V) /\ Len(p) = n + 1 /\ n \in Nat /\ p[n + 1] = e
        /\ \A i \in 1..n : p[i] = q[i]
    BY AppendProperties, LenProperties
  <1> HIDE DEF p
  <1>2. PICK g : Steps(g, p, S) /\ Filter(p, S) = g[n + 1]
    <2>1. \E g \in [0..Len(p) -> Seq(V)] : Steps(g, p, S) /\ Filter(p, S) = g[Len(p)]
      BY <1>1, FilterSteps, Zenon
    <2>2. QED
      BY <1>1, <2>1, Zenon
  <1>3. PICK h : Steps(h, q, S) /\ Filter(q, S) = h[n]
    <2>1. \E h \in [0..Len(q) -> Seq(V)] : Steps(h, q, S) /\ Filter(q, S) = h[Len(q)]
      BY FilterSteps, Zenon
    <2>2. QED
      BY <2>1, Zenon
  <1>4. g[n] = h[n]
    <2>1. n \in 0..Len(q) /\ n <= Len(p) /\ \A i \in 1..n : p[i] = q[i]
      BY <1>1
    <2>2. Steps(g, p, S) /\ Steps(h, q, S) /\ p \in Seq(V)
      BY <1>1, <1>2, <1>3, Zenon
    <2> HIDE DEF n
    <2>3. QED
      BY <2>1, <2>2, SameSteps
  <1>5. g[n + 1] = IF e \in S THEN Append(g[n], e) ELSE g[n]
    <2>1. n + 1 \in 1..Len(p) /\ (n + 1) - 1 = n
      BY <1>1
    <2>2. QED
      BY <1>1, <1>2, <2>1 DEF Steps
  <1>6. QED
    BY <1>2, <1>3, <1>4, <1>5 DEF p

LEMMA AppendLast ==
  ASSUME NEW V, NEW p \in Seq(V), NEW q \in Seq(V), NEW e \in V,
         NEW s, s = p \o q, NEW r, r = Append(q, e), NEW t, t = p \o r
  PROVE  t = Append(s, e)
  <1>1. r \in Seq(V) /\ Len(r) = Len(q) + 1 /\ r[Len(q) + 1] = e
        /\ \A i \in 1..Len(q) : r[i] = q[i]
    BY AppendProperties
  <1>2. /\ s \in Seq(V) /\ Len(s) = Len(p) + Len(q)
        /\ \A i \in 1..Len(p) + Len(q) : s[i] = IF i <= Len(p) THEN p[i] ELSE q[i - Len(p)]
    BY ConcatProperties
  <1>3. /\ p \o r \in Seq(V) /\ Len(p \o r) = Len(p) + Len(r)
        /\ \A i \in 1..Len(p) + Len(r) : (p \o r)[i] = IF i <= Len(p) THEN p[i] ELSE r[i - Len(p)]
    BY <1>1, ConcatProperties
  <1> DEFINE a == Append(s, e)
  <1>4. /\ a \in Seq(V) /\ Len(a) = Len(s) + 1 /\ a[Len(s) + 1] = e
        /\ \A i \in 1..Len(s) : a[i] = s[i]
    BY <1>2, AppendProperties
  <1> HIDE DEF a
  <1>5. Len(p) \in Nat /\ Len(q) \in Nat
    BY LenProperties
  <1>6. Len(a) = Len(p \o r) /\ Len(a) = Len(p) + Len(q) + 1
    BY <1>1, <1>2, <1>3, <1>4, <1>5
  <1>7. ASSUME NEW i \in 1..Len(a) PROVE a[i] = (p \o r)[i]
    <2>1. CASE i <= Len(p)
      BY <1>1, <1>2, <1>3, <1>4, <1>5, <1>6, <2>1
    <2>2. CASE ~(i <= Len(p)) /\ i <= Len(p) + Len(q)
      <3>1. i - Len(p) \in 1..Len(q) /\ i \in 1..Len(p) + Len(q) /\ i \in 1..Len(p) + Len(r)
        BY <1>1, <1>5, <1>6, <2>2
      <3>2. a[i] = q[i - Len(p)] /\ (p \o r)[i] = r[i - Len(p)]
        BY <1>2, <1>3, <1>4, <2>2, <3>1
      <3>3. QED
        BY <1>1, <3>1, <3>2
    <2>3. CASE i = Len(p) + Len(q) + 1
      <3>1. i - Len(p) = Len(q) + 1 /\ ~(i <= Len(p)) /\ i \in 1..Len(p) + Len(r)
            /\ i = Len(s) + 1
        BY <1>1, <1>2, <1>5, <2>3
      <3>2. QED
        BY <1>1, <1>3, <1>4, <3>1
    <2>4. QED
      BY <1>5, <1>6, <2>1, <2>2, <2>3
  <1>8. QED
    BY <1>3, <1>4, <1>6, <1>7, SeqEqual DEF a

\* When the head goes, it goes from the filter if it is there.
LEMMA FilterTail ==
  ASSUME NEW V, NEW q \in Seq(V), q # <<>>, NEW S
  PROVE  IF Head(q) \in S THEN Filter(q, S) = <<Head(q)>> \o Filter(Tail(q), S)
                          ELSE Filter(q, S) = Filter(Tail(q), S)
  <1>1. PICK t \in Seq(V), n \in Nat :
           /\ t = Tail(q) /\ n = Len(t) /\ Len(q) = n + 1 /\ Head(q) = q[1]
           /\ q[1] \in V /\ \A i \in 1..n : t[i] = q[i + 1] /\ t[i] \in V
    <2>1. /\ Tail(q) \in Seq(V) /\ Len(Tail(q)) \in Nat /\ Len(q) = Len(Tail(q)) + 1
          /\ Head(q) = q[1] /\ q[1] \in V
      BY HeadTailProperties, LenProperties, EmptySeq, ElementOfSeq
    <2>2. \A i \in 1..Len(Tail(q)) : Tail(q)[i] = q[i + 1] /\ Tail(q)[i] \in V
      BY <2>1, HeadTailProperties, ElementOfSeq
    <2>3. QED
      BY <2>1, <2>2
  <1>2. PICK g \in [0..Len(q) -> Seq(V)] : Steps(g, q, S) /\ Filter(q, S) = g[Len(q)]
    BY FilterSteps
  <1>3. PICK h \in [0..n -> Seq(V)] : Steps(h, t, S) /\ Filter(t, S) = h[n]
    <2>1. \E h \in [0..Len(t) -> Seq(V)] : Steps(h, t, S) /\ Filter(t, S) = h[Len(t)]
      BY FilterSteps
    <2>2. n = Len(t)
      BY <1>1
    <2>3. QED
      BY <2>1, <2>2
  <1>4. PICK w \in Seq(V) : w = IF q[1] \in S THEN <<q[1]>> ELSE <<>>
    <2>1. <<q[1]>> \in Seq(V) /\ <<>> \in Seq(V)
      BY <1>1
    <2>2. QED
      BY <2>1
  <1> DEFINE I == {i \in Nat : i <= n => g[i + 1] = w \o h[i]}
  <1>5. g[1] = w \o h[0]
    <2>1. 1 \in 1..Len(q) /\ 1 - 1 = 0
      BY <1>1
    <2>2. g[1] = IF q[1] \in S THEN Append(<<>>, q[1]) ELSE <<>>
      BY <1>2, <2>1 DEF Steps
    <2>3. g[1] = w /\ h[0] = <<>>
      BY <1>1, <1>3, <1>4, <2>2 DEF Steps
    <2>4. w \o <<>> = w
      BY ConcatEmptySeq
    <2>5. QED
      BY <2>3, <2>4
  <1>6. ASSUME NEW i \in Nat, i + 1 <= n, g[i + 1] = w \o h[i]
        PROVE  g[i + 2] = w \o h[i + 1]
    <2>1. PICK e \in V : t[i + 1] = e /\ q[i + 2] = e
      <3>1. i + 1 \in 1..n /\ (i + 1) + 1 = i + 2
        BY <1>6
      <3>2. t[i + 1] = q[i + 2] /\ t[i + 1] \in V
        BY <1>1, <3>1
      <3>3. QED
        BY <3>2
    <2>2. /\ i + 2 \in 1..Len(q) /\ (i + 2) - 1 = i + 1
          /\ i + 1 \in 1..Len(t) /\ (i + 1) - 1 = i /\ i \in 0..n
      BY <1>1, <1>6
    <2>3. g[i + 2] = IF e \in S THEN Append(g[i + 1], e) ELSE g[i + 1]
      BY <1>2, <2>1, <2>2 DEF Steps
    <2>4. h[i + 1] = IF e \in S THEN Append(h[i], e) ELSE h[i]
      BY <1>3, <2>1, <2>2 DEF Steps
    <2>5. h[i] \in Seq(V)
      BY <2>2
    <2>6. Append(w \o h[i], e) = w \o Append(h[i], e)
      <3>1. PICK x \in Seq(V) : x = h[i]
        BY <2>5
      <3>2. PICK y : y = Append(x, e)
        OBVIOUS
      <3>3. PICK z : z = w \o x
        OBVIOUS
      <3>4. PICK v : v = w \o y
        OBVIOUS
      <3>5. v = Append(z, e)
        BY <3>2, <3>3, <3>4, AppendLast, SMTT(40)
      <3>6. QED
        BY <3>1, <3>2, <3>3, <3>4, <3>5, Zenon
    <2>7. QED
      BY <1>6, <2>3, <2>4, <2>5, <2>6
  <1>7. ASSUME NEW i \in Nat, i \in I PROVE i + 1 \in I
    <2>1. CASE i + 1 <= n
      <3>1. i <= n /\ (i + 1) + 1 = i + 2 /\ i + 1 \in Nat
        BY <2>1
      <3>2. g[i + 1] = w \o h[i]
        BY <1>7, <3>1
      <3>3. g[i + 2] = w \o h[i + 1]
        BY <1>6, <2>1, <3>2
      <3>4. QED
        BY <3>1, <3>3
    <2>2. CASE ~(i + 1 <= n)
      BY <2>2
    <2>3. QED
      BY <2>1, <2>2
  <1>8. n \in I
    <2>1. 0 \in I
      BY <1>5
    <2> HIDE DEF I
    <2>2. QED
      BY <1>7, <2>1, Induction
  <1>9. Filter(q, S) = w \o Filter(t, S)
    <2>1. g[n + 1] = w \o h[n]
      BY <1>1, <1>8
    <2>2. QED
      BY <1>1, <1>2, <1>3, <2>1
  <1>10. Filter(t, S) \in Seq(V)
    BY <1>3
  <1>11. <<>> \o Filter(t, S) = Filter(t, S)
    BY <1>10, ConcatEmptySeq
  <1>12. QED
    BY <1>1, <1>4, <1>9, <1>11

----------------------------------------------------------------------------
(* A filter returns the elements of the set, and keeps their order.        *)

\* r is what q holds of S up to the k-th element: f[a] is where r[a] was.
PartOf(f, r, q, k, S) ==
  /\ f \in [1..Len(r) -> 1..k]
  /\ \A a \in 1..Len(r) : r[a] = q[f[a]] /\ r[a] \in S
  /\ \A a, b \in 1..Len(r) : a < b => f[a] < f[b]
  /\ \A i \in 1..k : q[i] \in S => \E a \in 1..Len(r) : f[a] = i

LEMMA PartGrows ==
  ASSUME NEW V, NEW q \in Seq(V), NEW S, NEW k \in Nat, k + 1 <= Len(q),
         NEW r \in Seq(V), NEW f, PartOf(f, r, q, k, S)
  PROVE  IF q[k + 1] \in S THEN \E h : PartOf(h, Append(r, q[k + 1]), q, k + 1, S)
                           ELSE PartOf(f, r, q, k + 1, S)
  <1> DEFINE n == Len(r)
             e == q[k + 1]
             s == Append(r, e)
             h == [a \in 1..n + 1 |-> IF a = n + 1 THEN k + 1 ELSE f[a]]
  <1>1. n \in Nat /\ Len(q) \in Nat /\ k + 1 \in 1..Len(q)
    BY LenProperties
  <1>2. e \in V
    BY <1>1, ElementOfSeq
  <1>3. /\ \A a \in 1..n : f[a] \in 1..k /\ r[a] = q[f[a]] /\ r[a] \in S
        /\ \A a, b \in 1..n : a < b => f[a] < f[b]
        /\ \A i \in 1..k : q[i] \in S => \E a \in 1..n : f[a] = i
    BY DEF PartOf
  <1>4. CASE e \in S
    <2>1. Len(s) = n + 1 /\ s[n + 1] = e /\ \A a \in 1..n : s[a] = r[a]
      BY <1>2, AppendProperties
    <2>2. \A a \in 1..n + 1 : a \in 1..n \/ a = n + 1
      BY <1>1
    <2> HIDE DEF n, s
    <2>3. h \in [1..n + 1 -> 1..k + 1]
      <3>1. \A a \in 1..n + 1 : (IF a = n + 1 THEN k + 1 ELSE f[a]) \in 1..k + 1
        BY <1>1, <1>3, <2>2
      <3>2. QED
        BY <3>1
    <2>4. /\ \A a \in 1..n : a \in 1..n + 1 /\ h[a] = f[a]
          /\ n + 1 \in 1..n + 1 /\ h[n + 1] = k + 1
      BY <1>1
    <2> HIDE DEF h, e
    <2>5. \A a \in 1..n + 1 : s[a] = q[h[a]] /\ s[a] \in S
      BY <1>3, <1>4, <2>1, <2>2, <2>4 DEF e
    <2>6. ASSUME NEW a \in 1..n + 1, NEW b \in 1..n + 1, a < b PROVE h[a] < h[b]
      <3>1. a \in 1..n
        BY <1>1, <2>2, <2>6
      <3>2. CASE b \in 1..n
        BY <1>3, <2>4, <2>6, <3>1, <3>2
      <3>3. CASE b = n + 1
        BY <1>3, <2>4, <3>1, <3>3
      <3>4. QED
        BY <2>2, <3>2, <3>3
    <2>7. ASSUME NEW i \in 1..k + 1, q[i] \in S PROVE \E a \in 1..n + 1 : h[a] = i
      <3>1. CASE i \in 1..k
        BY <1>3, <2>4, <2>7, <3>1
      <3>2. CASE i = k + 1
        BY <2>4, <3>2
      <3>3. QED
        BY <3>1, <3>2
    <2>8. PartOf(h, s, q, k + 1, S)
      BY <2>1, <2>3, <2>5, <2>6, <2>7 DEF PartOf
    <2>9. QED
      BY <1>4, <2>8 DEF s, e
  <1>5. CASE e \notin S
    <2>1. f \in [1..n -> 1..k + 1]
      BY <1>3 DEF PartOf
    <2>2. ASSUME NEW i \in 1..k + 1, q[i] \in S PROVE \E a \in 1..n : f[a] = i
      <3>1. i \in 1..k
        BY <1>5, <2>2
      <3>2. QED
        BY <1>3, <2>2, <3>1
    <2>3. PartOf(f, r, q, k + 1, S)
      BY <1>3, <2>1, <2>2 DEF PartOf
    <2>4. QED
      BY <1>5, <2>3
  <1>6. QED
    BY <1>4, <1>5

LEMMA FilterPart ==
  ASSUME NEW V, NEW q \in Seq(V), NEW S
  PROVE  \E f : PartOf(f, Filter(q, S), q, Len(q), S)
  <1> DEFINE n == Len(q)
  <1>1. n \in Nat
    BY LenProperties
  <1>2. PICK g \in [0..n -> Seq(V)] : Steps(g, q, S) /\ Filter(q, S) = g[n]
    BY FilterSteps
  <1> DEFINE I == {k \in Nat : k <= n => \E f : PartOf(f, g[k], q, k, S)}
  <1>3. 0 \in I
    <2> DEFINE f == [a \in 1..0 |-> 0]
    <2>1. g[0] = <<>> /\ Len(<<>>) = 0 /\ 1..0 = {}
      BY <1>2 DEF Steps
    <2>2. f \in [1..0 -> 1..0]
      OBVIOUS
    <2> HIDE DEF f
    <2>3. PartOf(f, g[0], q, 0, S)
      BY <2>1, <2>2 DEF PartOf
    <2>4. QED
      BY <2>3
  <1>4. ASSUME NEW k \in Nat, k \in I PROVE k + 1 \in I
    <2>1. CASE k + 1 <= n
      <3>1. PICK f : PartOf(f, g[k], q, k, S)
        BY <1>1, <1>4, <2>1
      <3>2. g[k] \in Seq(V)
        BY <1>1, <2>1
      <3>3. g[k + 1] = IF q[k + 1] \in S THEN Append(g[k], q[k + 1]) ELSE g[k]
        <4>1. k + 1 \in 1..Len(q) /\ (k + 1) - 1 = k
          BY <1>1, <2>1
        <4>2. QED
          BY <1>2, <4>1 DEF Steps
      <3> DEFINE r == g[k]
      <3>4. IF q[k + 1] \in S THEN \E h : PartOf(h, Append(r, q[k + 1]), q, k + 1, S)
                              ELSE PartOf(f, r, q, k + 1, S)
        <4>1. r \in Seq(V) /\ PartOf(f, r, q, k, S) /\ k + 1 <= Len(q)
          BY <2>1, <3>1, <3>2
        <4> HIDE DEF r, I, n
        <4>2. QED
          BY <4>1, PartGrows
      <3>5. \E h : PartOf(h, g[k + 1], q, k + 1, S)
        BY <3>3, <3>4
      <3>6. QED
        BY <3>5
    <2>2. CASE ~(k + 1 <= n)
      BY <2>2
    <2>3. QED
      BY <2>1, <2>2
  <1> HIDE DEF I
  <1>5. n \in I
    BY <1>1, <1>3, <1>4, Induction
  <1>6. QED
    BY <1>1, <1>2, <1>5 DEF I

LEMMA FilterType ==
  ASSUME NEW V, NEW q \in Seq(V), NEW S
  PROVE  Filter(q, S) \in Seq(V \cap S) /\ Filter(q, S) \in Seq(V)
  <1> DEFINE r == Filter(q, S)
  <1>1. PICK f : PartOf(f, r, q, Len(q), S)
    BY FilterPart
  <1>2. r \in Seq(V)
    <2>1. PICK g \in [0..Len(q) -> Seq(V)] : Steps(g, q, S) /\ r = g[Len(q)]
      BY FilterSteps
    <2>2. Len(q) \in 0..Len(q)
      BY LenProperties
    <2>3. QED
      BY <2>1, <2>2
  <1> HIDE DEF r
  <1>3. \A a \in 1..Len(r) : r[a] \in V \cap S
    BY <1>1, <1>2, ElementOfSeq DEF PartOf
  <1>4. r \in [1..Len(r) -> V \cap S] /\ Len(r) \in Nat
    BY <1>2, <1>3, LenProperties
  <1>5. r \in Seq(V \cap S)
    BY <1>4, SeqDef
  <1>6. QED
    BY <1>2, <1>5 DEF r

LEMMA FilterElements ==
  ASSUME NEW V, NEW q \in Seq(V), NEW S, NEW e \in S
  PROVE  (\E i \in 1..Len(q) : q[i] = e) <=> \E a \in 1..Len(Filter(q, S)) : Filter(q, S)[a] = e
  <1> DEFINE r == Filter(q, S)
  <1>1. PICK f : PartOf(f, r, q, Len(q), S)
    BY FilterPart
  <1> HIDE DEF r
  <1>2. /\ \A a \in 1..Len(r) : f[a] \in 1..Len(q) /\ r[a] = q[f[a]]
        /\ \A i \in 1..Len(q) : q[i] \in S => \E a \in 1..Len(r) : f[a] = i
    BY <1>1 DEF PartOf
  <1>3. QED
    BY <1>2 DEF r

\* What holds of each two elements, the earlier first, still holds.
LEMMA FilterOrder ==
  ASSUME NEW V, NEW q \in Seq(V), NEW S, NEW R,
         \A i, j \in 1..Len(q) : i < j => <<q[i], q[j]>> \in R
  PROVE  \A a, b \in 1..Len(Filter(q, S)) :
           a < b => <<Filter(q, S)[a], Filter(q, S)[b]>> \in R
  <1> DEFINE r == Filter(q, S)
  <1>1. PICK f : PartOf(f, r, q, Len(q), S)
    BY FilterPart
  <1> HIDE DEF r
  <1>2. ASSUME NEW a \in 1..Len(r), NEW b \in 1..Len(r), a < b
        PROVE  <<r[a], r[b]>> \in R
    <2>1. f[a] \in 1..Len(q) /\ f[b] \in 1..Len(q) /\ f[a] < f[b]
          /\ r[a] = q[f[a]] /\ r[b] = q[f[b]]
      BY <1>1, <1>2 DEF PartOf
    <2>2. QED
      BY <2>1
  <1>3. QED
    BY <1>2 DEF r

\* A filter and the filter of the rest hold all the elements between them.
LEMMA FilterSplit ==
  ASSUME NEW V, NEW q \in Seq(V), NEW S
  PROVE  Len(Filter(q, S)) + Len(Filter(q, V \ S)) = Len(q)
  <1> DEFINE n == Len(q)
  <1>1. n \in Nat
    BY LenProperties
  <1>2. PICK g \in [0..n -> Seq(V)] : Steps(g, q, S) /\ Filter(q, S) = g[n]
    BY FilterSteps
  <1>3. PICK h \in [0..n -> Seq(V)] : Steps(h, q, V \ S) /\ Filter(q, V \ S) = h[n]
    BY FilterSteps
  <1> DEFINE I == {i \in Nat : i <= n => Len(g[i]) + Len(h[i]) = i}
  <1>4. 0 \in I
    <2>1. g[0] = <<>> /\ h[0] = <<>> /\ Len(<<>>) = 0
      BY <1>2, <1>3 DEF Steps
    <2>2. QED
      BY <2>1
  <1>5. ASSUME NEW i \in Nat, i \in I PROVE i + 1 \in I
    <2>1. CASE i + 1 <= n
      <3>1. PICK x \in Seq(V), y \in Seq(V), e \in V :
               x = g[i] /\ y = h[i] /\ e = q[i + 1]
        <4>1. i \in 0..n /\ i + 1 \in 1..n
          BY <1>1, <2>1
        <4>2. g[i] \in Seq(V) /\ h[i] \in Seq(V) /\ q[i + 1] \in V
          BY <4>1, ElementOfSeq
        <4>3. QED
          BY <4>2
      <3>2. Len(x) + Len(y) = i
        BY <1>1, <1>5, <2>1, <3>1
      <3>3. /\ g[i + 1] = IF e \in S THEN Append(x, e) ELSE x
            /\ h[i + 1] = IF e \in S THEN y ELSE Append(y, e)
        <4>1. i + 1 \in 1..Len(q) /\ (i + 1) - 1 = i
          BY <1>1, <2>1
        <4>2. QED
          BY <1>2, <1>3, <3>1, <4>1 DEF Steps
      <3>4. /\ Len(x) \in Nat /\ Len(y) \in Nat
            /\ Len(Append(x, e)) = Len(x) + 1 /\ Len(Append(y, e)) = Len(y) + 1
        BY AppendProperties, LenProperties
      <3>5. /\ Len(g[i + 1]) = IF e \in S THEN Len(x) + 1 ELSE Len(x)
            /\ Len(h[i + 1]) = IF e \in S THEN Len(y) ELSE Len(y) + 1
        BY <3>3, <3>4, Zenon
      <3>6. Len(g[i + 1]) + Len(h[i + 1]) = i + 1
        BY <3>2, <3>4, <3>5
      <3>7. QED
        BY <3>6
    <2>2. CASE ~(i + 1 <= n)
      BY <2>2
    <2>3. QED
      BY <2>1, <2>2
  <1> HIDE DEF I
  <1>6. n \in I
    BY <1>1, <1>4, <1>5, Induction
  <1>7. QED
    BY <1>1, <1>2, <1>3, <1>6 DEF I
=============================================================================
