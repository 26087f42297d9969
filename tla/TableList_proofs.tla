-------------------------- MODULE TableList_proofs --------------------------
(***************************************************************************)
(* Theorems about the list, for every finite set of users, every set of    *)
(* places, every distance and every number of reads, with their proofs.    *)
(***************************************************************************)
EXTENDS TableList, TableStore_proofs, Filters_proofs, FiniteSetTheorems

----------------------------------------------------------------------------
(* Inserting a row.                                                        *)

\* r may come before s.
Nearer == {p \in Row \X Row : p[1].id # p[2].id /\ Distance[p[1].at] <= Distance[p[2].at]}

Sorted(rows) == \A i, j \in 1..Len(rows) : i < j => <<rows[i], rows[j]>> \in Nearer

LEMMA DistanceIsNat ==
  \A r \in Row : Distance[r.at] \in Nat /\ r.id \in Users
  BY DistanceAssumption DEF Row

LEMMA InOrder ==
  ASSUME NEW r \in Row, NEW s \in Row, r.id # s.id,
         Distance[r.at] < Distance[s.at] \/ ~(Distance[s.at] < Distance[r.at])
  PROVE  <<r, s>> \in Nearer
  <1>1. Distance[r.at] \in Nat /\ Distance[s.at] \in Nat
    BY DistanceIsNat
  <1>2. Distance[r.at] <= Distance[s.at]
    BY <1>1
  <1>3. QED
    BY <1>2 DEF Nearer

\* The rows of a filter come from what is filtered.
LEMMA FilterIds ==
  ASSUME NEW rows \in Seq(Row), NEW S, NEW f, f = Filter(rows, S)
  PROVE  /\ f \in Seq(Row)
         /\ \A i \in 1..Len(f) : /\ f[i] \in Row /\ f[i] \in S
                                /\ \E j \in 1..Len(rows) : rows[j] = f[i]
         /\ Sorted(rows) => Sorted(f)
  <1>1. f \in Seq(Row) /\ f \in Seq(Row \cap S)
    BY FilterType
  <1>2. \A e \in S : (\E i \in 1..Len(rows) : rows[i] = e) <=> \E a \in 1..Len(f) : f[a] = e
    BY FilterElements
  <1>3. Sorted(rows) => Sorted(f)
    <2>1. ASSUME \A i, j \in 1..Len(rows) : i < j => <<rows[i], rows[j]>> \in Nearer
          PROVE  \A a, b \in 1..Len(f) : a < b => <<f[a], f[b]>> \in Nearer
      BY <2>1, FilterOrder
    <2>2. QED
      BY <2>1 DEF Sorted
  <1>4. \A i \in 1..Len(f) : f[i] \in Row \cap S
    BY <1>1, ElementOfSeq
  <1>5. \A i \in 1..Len(f) : \E j \in 1..Len(rows) : rows[j] = f[i]
    BY <1>2, <1>4
  <1>6. QED
    BY <1>1, <1>3, <1>4, <1>5

\* What stands where, when e is put between two sequences.
LEMMA Between ==
  ASSUME NEW V, NEW p \in Seq(V), NEW e \in V, NEW q \in Seq(V),
         NEW m, m = Len(p), NEW n, n = Len(q), NEW w, w = p \o <<e>> \o q
  PROVE  /\ w \in Seq(V) /\ Len(w) = m + 1 + n
         /\ \A k \in 1..m + 1 + n :
              \/ k \in 1..m /\ w[k] = p[k]
              \/ k = m + 1 /\ w[k] = e
              \/ k > m + 1 /\ k - (m + 1) \in 1..n /\ w[k] = q[k - (m + 1)]
  <1>1. m \in Nat /\ n \in Nat
    BY LenProperties
  <1>2. <<e>> \in Seq(V) /\ Len(<<e>>) = 1 /\ <<e>>[1] = e
    OBVIOUS
  <1>3. PICK o : o = <<e>>
    OBVIOUS
  <1>4. PICK v : v = p \o o
    OBVIOUS
  <1>5. /\ v \in Seq(V) /\ Len(v) = m + 1
        /\ \A k \in 1..m + 1 : v[k] = IF k <= m THEN p[k] ELSE o[k - m]
    BY <1>2, <1>3, <1>4, ConcatProperties
  <1>6. /\ w \in Seq(V) /\ Len(w) = m + 1 + n
        /\ \A k \in 1..m + 1 + n : w[k] = IF k <= m + 1 THEN v[k] ELSE q[k - (m + 1)]
    BY <1>3, <1>4, <1>5, ConcatProperties
  <1>7. ASSUME NEW k \in 1..m + 1 + n
        PROVE  \/ k \in 1..m /\ w[k] = p[k]
               \/ k = m + 1 /\ w[k] = e
               \/ k > m + 1 /\ k - (m + 1) \in 1..n /\ w[k] = q[k - (m + 1)]
    <2>1. CASE k \in 1..m
      BY <1>1, <1>5, <1>6, <2>1
    <2>2. CASE k = m + 1
      BY <1>1, <1>2, <1>3, <1>5, <1>6, <2>2
    <2>3. CASE k > m + 1
      BY <1>1, <1>6, <2>3
    <2>4. QED
      BY <1>1, <2>1, <2>2, <2>3
  <1>8. QED
    BY <1>6, <1>7

\* A row that is new finds its place among rows that are sorted.
LEMMA Inserting ==
  ASSUME NEW rows \in Seq(Row), Sorted(rows), NEW r \in Row, r.id \notin Ids(rows)
  PROVE  /\ Insert(rows, r) \in Seq(Row) /\ Sorted(Insert(rows, r))
         /\ Ids(Insert(rows, r)) = Ids(rows) \cup {r.id}
         /\ Len(Insert(rows, r)) = Len(rows) + 1
  <1>1. PICK N : N = {s \in Row : Distance[s.at] < Distance[r.at]}
    OBVIOUS
  <1>2. PICK F : F = Row \ N
    OBVIOUS
  <1>3. PICK p : p = Filter(rows, N)
    OBVIOUS
  <1>4. PICK q : q = Filter(rows, F)
    OBVIOUS
  <1>5. PICK w : w = p \o <<r>> \o q
    OBVIOUS
  <1>6. Insert(rows, r) = w
    BY <1>1, <1>2, <1>3, <1>4, <1>5 DEF Insert
  <1>7. PICK m \in Nat, n \in Nat : m = Len(p) /\ n = Len(q) /\ m + n = Len(rows)
    <2>1. p \in Seq(Row) /\ q \in Seq(Row)
      BY <1>3, <1>4, FilterIds
    <2>2. Len(p) + Len(q) = Len(rows)
      BY <1>2, <1>3, <1>4, FilterSplit
    <2>3. Len(p) \in Nat /\ Len(q) \in Nat
      BY <2>1, LenProperties
    <2>4. QED
      BY <2>2, <2>3
  <1>8. /\ p \in Seq(Row) /\ Sorted(p)
        /\ \A k \in 1..m : /\ p[k] \in Row /\ p[k] \in N
                           /\ \E j \in 1..Len(rows) : rows[j] = p[k]
    <2>1. /\ Sorted(p) /\ p \in Seq(Row)
          /\ \A k \in 1..Len(p) : /\ p[k] \in Row /\ p[k] \in N
                                 /\ \E j \in 1..Len(rows) : rows[j] = p[k]
      BY <1>3, FilterIds
    <2>2. QED
      BY <1>7, <2>1
  <1>9. /\ q \in Seq(Row) /\ Sorted(q)
        /\ \A k \in 1..n : /\ q[k] \in Row /\ q[k] \in F
                           /\ \E j \in 1..Len(rows) : rows[j] = q[k]
    <2>1. /\ Sorted(q) /\ q \in Seq(Row)
          /\ \A k \in 1..Len(q) : /\ q[k] \in Row /\ q[k] \in F
                                 /\ \E j \in 1..Len(rows) : rows[j] = q[k]
      BY <1>4, FilterIds
    <2>2. QED
      BY <1>7, <2>1
  <1>10. /\ w \in Seq(Row) /\ Len(w) = m + 1 + n
         /\ \A k \in 1..m + 1 + n :
              \/ k \in 1..m /\ w[k] = p[k]
              \/ k = m + 1 /\ w[k] = r
              \/ k > m + 1 /\ k - (m + 1) \in 1..n /\ w[k] = q[k - (m + 1)]
    BY <1>5, <1>7, <1>8, <1>9, Between
  <1>11. /\ \A k \in 1..m : p[k].id # r.id /\ Distance[p[k].at] < Distance[r.at]
         /\ \A k \in 1..n : q[k].id # r.id /\ ~(Distance[q[k].at] < Distance[r.at])
    <2>1. \A s \in Row : s \in N <=> Distance[s.at] < Distance[r.at]
      BY <1>1
    <2>2. \A j \in 1..Len(rows) : rows[j].id # r.id
      BY DEF Ids
    <2>3. \A k \in 1..m : p[k].id # r.id
      BY <1>8, <2>2
    <2>4. \A k \in 1..n : q[k].id # r.id
      BY <1>9, <2>2
    <2>5. \A k \in 1..m : Distance[p[k].at] < Distance[r.at]
      BY <1>8, <2>1
    <2>6. \A k \in 1..n : ~(Distance[q[k].at] < Distance[r.at])
      BY <1>2, <1>9, <2>1
    <2>7. QED
      BY <2>3, <2>4, <2>5, <2>6
  <1>12. ASSUME NEW a \in 1..m, NEW b \in 1..n
         PROVE  <<p[a], q[b]>> \in Nearer
    <2>1. p[a] # q[b]
      BY <1>2, <1>8, <1>9
    <2>2. PICK i \in 1..Len(rows) : rows[i] = p[a]
      BY <1>8
    <2>3. PICK j \in 1..Len(rows) : rows[j] = q[b]
      BY <1>9
    <2>4. Len(rows) \in Nat /\ (i < j \/ j < i)
      BY <1>7, <2>1, <2>2, <2>3
    <2>5. <<rows[i], rows[j]>> \in Nearer \/ <<rows[j], rows[i]>> \in Nearer
      BY <2>4 DEF Sorted
    <2>6. p[a].id # q[b].id
      BY <2>2, <2>3, <2>5 DEF Nearer
    <2>7. PICK s \in Row, t \in Row : s = p[a] /\ t = q[b]
      BY <1>8, <1>9
    <2>8. /\ Distance[s.at] < Distance[r.at] /\ ~(Distance[t.at] < Distance[r.at])
          /\ Distance[s.at] \in Nat /\ Distance[t.at] \in Nat /\ Distance[r.at] \in Nat
      BY <1>11, <2>7, DistanceIsNat
    <2>9. Distance[s.at] < Distance[t.at]
      BY <2>8
    <2>10. QED
      BY <2>6, <2>7, <2>9, InOrder
  <1>13. /\ \A a \in 1..m : <<p[a], r>> \in Nearer
         /\ \A b \in 1..n : <<r, q[b]>> \in Nearer
    <2>1. ASSUME NEW a \in 1..m PROVE <<p[a], r>> \in Nearer
      <3>1. p[a] \in Row /\ p[a].id # r.id /\ Distance[p[a].at] < Distance[r.at]
        BY <1>8, <1>11
      <3>2. QED
        BY <3>1, InOrder
    <2>2. ASSUME NEW b \in 1..n PROVE <<r, q[b]>> \in Nearer
      <3>1. q[b] \in Row /\ r.id # q[b].id /\ ~(Distance[q[b].at] < Distance[r.at])
        BY <1>9, <1>11
      <3>2. QED
        BY <3>1, InOrder
    <2>3. QED
      BY <2>1, <2>2
  <1>14. Sorted(w)
    <2>1. SUFFICES ASSUME NEW i \in 1..m + 1 + n, NEW j \in 1..m + 1 + n, i < j
                   PROVE  <<w[i], w[j]>> \in Nearer
      BY <1>10 DEF Sorted
    <2>2. CASE i \in 1..m /\ j \in 1..m
      <3>1. w[i] = p[i] /\ w[j] = p[j]
        BY <1>10, <2>2
      <3>2. <<p[i], p[j]>> \in Nearer
        BY <1>7, <1>8, <2>1, <2>2 DEF Sorted
      <3>3. QED
        BY <3>1, <3>2
    <2>3. CASE i \in 1..m /\ ~(j \in 1..m)
      <3>1. w[i] = p[i]
        BY <1>10, <2>3
      <3>2. \/ j = m + 1 /\ w[j] = r
            \/ j - (m + 1) \in 1..n /\ w[j] = q[j - (m + 1)]
        BY <1>10, <2>3
      <3>3. QED
        BY <1>12, <1>13, <2>3, <3>1, <3>2
    <2>4. CASE i = m + 1
      <3>1. w[i] = r
        BY <1>10, <2>4
      <3>2. j - (m + 1) \in 1..n /\ w[j] = q[j - (m + 1)]
        BY <1>10, <2>1, <2>4
      <3>3. QED
        BY <1>13, <3>1, <3>2
    <2>5. CASE i > m + 1
      <3>1. i - (m + 1) \in 1..n /\ w[i] = q[i - (m + 1)]
        BY <1>10, <2>5
      <3>2. j - (m + 1) \in 1..n /\ w[j] = q[j - (m + 1)]
        BY <1>10, <2>1, <2>5
      <3>3. PICK a \in 1..n, b \in 1..n : a < b /\ w[i] = q[a] /\ w[j] = q[b]
        <4>1. i - (m + 1) < j - (m + 1)
          BY <2>1
        <4>2. QED
          BY <3>1, <3>2, <4>1
      <3>4. QED
        BY <1>7, <1>9, <3>3 DEF Sorted
    <2>6. QED
      BY <2>2, <2>3, <2>4, <2>5
  <1>15. \A i \in 1..Len(rows) : \E k \in 1..Len(w) : w[k] = rows[i]
    <2>1. SUFFICES ASSUME NEW i \in 1..Len(rows), NEW e \in Row, e = rows[i]
                   PROVE  \E k \in 1..Len(w) : w[k] = e
      BY ElementOfSeq
    <2>2. CASE e \in N
      <3>1. PICK a \in 1..m : p[a] = e
        <4>1. \E a \in 1..Len(Filter(rows, N)) : Filter(rows, N)[a] = e
          BY <2>1, <2>2, FilterElements
        <4>2. QED
          BY <1>3, <1>7, <4>1
      <3>2. a \in 1..m + 1 + n /\ w[a] = e
        BY <1>10, <3>1
      <3>3. QED
        BY <1>10, <3>2
    <2>3. CASE e \in F
      <3>1. PICK b \in 1..n : q[b] = e
        <4>1. \E b \in 1..Len(Filter(rows, F)) : Filter(rows, F)[b] = e
          BY <2>1, <2>3, FilterElements
        <4>2. QED
          BY <1>4, <1>7, <4>1
      <3>2. PICK k \in 1..m + 1 + n : k - (m + 1) = b
        <4>1. m + 1 + b \in 1..m + 1 + n /\ (m + 1 + b) - (m + 1) = b
          OBVIOUS
        <4>2. QED
          BY <4>1
      <3>3. w[k] = e
        BY <1>10, <3>1, <3>2
      <3>4. QED
        BY <1>10, <3>3
    <2>4. QED
      BY <1>2, <2>2, <2>3
  <1>16. \A k \in 1..Len(w) : w[k] = r \/ \E i \in 1..Len(rows) : w[k] = rows[i]
    BY <1>8, <1>9, <1>10
  <1>17. \E k \in 1..Len(w) : w[k] = r
    <2>1. m + 1 \in 1..m + 1 + n
      OBVIOUS
    <2>2. QED
      BY <1>10, <2>1
  <1>18. Ids(w) = Ids(rows) \cup {r.id}
    <2>1. Ids(w) \subseteq Ids(rows) \cup {r.id}
      BY <1>16 DEF Ids
    <2>2. Ids(rows) \subseteq Ids(w)
      BY <1>15 DEF Ids
    <2>3. r.id \in Ids(w)
      BY <1>17 DEF Ids
    <2>4. QED
      BY <2>1, <2>2, <2>3
  <1>19. Len(w) = Len(rows) + 1
    BY <1>7, <1>10
  <1>20. QED
    BY <1>6, <1>10, <1>14, <1>18, <1>19, Zenon

----------------------------------------------------------------------------
(* A fetch: the tables of a finite set of owners join, one after another.  *)

LEMMA Bounded ==
  ASSUME NEW T, T \subseteq Nat, IsFiniteSet(T)
  PROVE  \E b \in Nat : \A x \in T : x < b
  <1>1. PICK n \in Nat : \E f : f \in Surjection(1..n, T)
    <2>1. PICK n \in Nat : ExistsSurjection(1..n, T)
      BY FS_NatSurjection
    <2>2. \E f : f \in Surjection(1..n, T)
      BY <2>1 DEF ExistsSurjection
    <2>3. QED
      BY <2>2
  <1>2. PICK f : f \in Surjection(1..n, T)
    BY <1>1
  <1>3. /\ \A i \in 1..n : f[i] \in T
        /\ \A x \in T : \E i \in 1..n : f[i] = x
    BY <1>2 DEF Surjection
  <1> DEFINE I == {k \in Nat : k <= n => \E b \in Nat : \A i \in 1..k : f[i] < b}
  <1>4. 0 \in I
    OBVIOUS
  <1>5. ASSUME NEW k \in Nat, k \in I PROVE k + 1 \in I
    <2>1. CASE k + 1 <= n
      <3>1. PICK b \in Nat : \A i \in 1..k : f[i] < b
        BY <1>5, <2>1
      <3>2. PICK x \in Nat : x = f[k + 1]
        <4>1. k + 1 \in 1..n
          BY <2>1
        <4>2. QED
          BY <1>3, <4>1
      <3>3. PICK c \in Nat : b <= c /\ x < c
        <4>1. b + x + 1 \in Nat /\ b <= b + x + 1 /\ x < b + x + 1
          OBVIOUS
        <4>2. QED
          BY <4>1
      <3>4. ASSUME NEW i \in 1..k + 1 PROVE f[i] < c
        <4>1. CASE i \in 1..k
          <5>1. i \in 1..n
            BY <2>1, <4>1
          <5>2. f[i] \in Nat /\ f[i] < b
            BY <1>3, <3>1, <4>1, <5>1
          <5>3. QED
            BY <3>3, <5>2
        <4>2. CASE i = k + 1
          BY <3>2, <3>3, <4>2
        <4>3. QED
          BY <4>1, <4>2
      <3>5. QED
        BY <3>4
    <2>2. CASE ~(k + 1 <= n)
      BY <2>2
    <2>3. QED
      BY <2>1, <2>2
  <1> HIDE DEF I
  <1>6. n \in I
    BY <1>4, <1>5, Induction
  <1>7. PICK b \in Nat : \A i \in 1..n : f[i] < b
    BY <1>6 DEF I
  <1>8. QED
    BY <1>3, <1>7

LEMMA Largest ==
  ASSUME NEW T, T \subseteq Nat, T # {}, NEW b \in Nat, \A x \in T : x <= b
  PROVE  Max(T) \in T /\ \A y \in T : y <= Max(T)
  <1> DEFINE B == {n \in Nat : \A x \in T : x <= n}
  <1>1. PICK m \in B : \A n \in B : m <= n
    <2>1. B \subseteq Nat /\ b \in B
      OBVIOUS
    <2> HIDE DEF B
    <2>2. QED
      BY <2>1, Least
  <1>2. m \in T
    <2>1. ASSUME m \notin T PROVE FALSE
      <3>1. \A x \in T : x < m
        BY <1>1, <2>1
      <3>2. m # 0
        <4>1. PICK x \in T : TRUE
          OBVIOUS
        <4>2. x \in Nat /\ x < m
          BY <3>1, <4>1
        <4>3. QED
          BY <4>2
      <3>3. m - 1 \in Nat /\ \A x \in T : x <= m - 1
        BY <1>1, <3>1, <3>2
      <3>4. QED
        BY <1>1, <3>3
    <2>2. QED
      BY <2>1
  <1>3. m \in T /\ \A y \in T : m >= y
    BY <1>1, <1>2
  <1>4. QED
    BY <1>3 DEF Max

LEMMA Below ==
  ASSUME NEW T, T \subseteq Nat, NEW k \in Nat, NEW s, s \subseteq {x \in T : x < k + 1}, s # {}
  PROVE  Max(s) \in s /\ s \ {Max(s)} \subseteq {x \in T : x < k}
  <1>1. s \subseteq Nat /\ \A x \in s : x \in T /\ x <= k
    OBVIOUS
  <1>2. PICK m : m = Max(s)
    OBVIOUS
  <1>3. m \in s /\ \A x \in s : x <= m
    BY <1>1, <1>2, Largest
  <1>4. ASSUME NEW x \in s, x # m PROVE x < k
    <2>1. x \in Nat /\ m \in Nat /\ x <= m /\ m <= k
      BY <1>1, <1>3
    <2>2. QED
      BY <1>4, <2>1
  <1>5. QED
    BY <1>1, <1>2, <1>3, <1>4

\* What has joined once the owners in s have, r being the rows there are.
Joins(h, rows, docs, us) ==
  /\ h[{}] = rows
  /\ \A s \in SUBSET us :
       s # {} => h[s] = Insert(h[s \ {Max(s)}], [id |-> Max(s), at |-> docs[Max(s)]])

LEMMA JoinedSteps ==
  ASSUME NEW rows, NEW docs, NEW us \in SUBSET Users
  PROVE  \E h : Joins(h, rows, docs, us) /\ Joined(rows, docs, us) = h[us]
  <1> DEFINE Step(s, v) == Insert(v, [id |-> Max(s), at |-> docs[Max(s)]])
             Some(k) == {x \in us : x < k}
             Good(h, S) == h = [s \in SUBSET S |-> IF s = {} THEN rows ELSE Step(s, h[s \ {Max(s)}])]
             K == {k \in Nat : \E h : Good(h, Some(k))}
             iter == CHOOSE h : Good(h, us)
  <1>1. us \subseteq Nat /\ IsFiniteSet(us)
    BY UsersAssumption, FiniteAssumption, FS_Subset
  <1>2. Joined(rows, docs, us) = iter[us]
    BY Zenon DEF Joined, MapThenFoldSet
  <1>3. Nat \subseteq K
    <2>1. 0 \in K
      <3>1. Some(0) = {}
        <4>1. \A x \in us : ~(x < 0)
          <5>1. \A x \in Nat : ~(x < 0)
            OBVIOUS
          <5>2. QED
            BY <1>1, <5>1
        <4>2. QED
          BY <4>1
      <3> DEFINE h == [s \in SUBSET {} |-> rows]
      <3>2. Good(h, {})
        <4>1. \A s \in SUBSET {} : s = {}
          OBVIOUS
        <4>2. QED
          BY <4>1
      <3>3. QED
        BY <3>1, <3>2
    <2>2. ASSUME NEW k \in Nat, k \in K PROVE k + 1 \in K
      <3>1. PICK h : Good(h, Some(k))
        BY <2>2
      <3> DEFINE S == Some(k + 1)
                 f == [s \in SUBSET S |-> IF s = {} THEN rows ELSE Step(s, h[s \ {Max(s)}])]
      <3>2. ASSUME NEW s \in SUBSET S, s # {}
            PROVE  f[s \ {Max(s)}] = h[s \ {Max(s)}]
        <4> DEFINE t == s \ {Max(s)}
        <4>1. t \subseteq Some(k)
          BY <1>1, <3>2, Below
        <4>2. t \in SUBSET Some(k) /\ t \in SUBSET S
          BY <4>1
        <4> HIDE DEF t, Step, Some, S
        <4>3. h[t] = IF t = {} THEN rows ELSE Step(t, h[t \ {Max(t)}])
          BY <3>1, <4>2
        <4>4. f[t] = IF t = {} THEN rows ELSE Step(t, h[t \ {Max(t)}])
          BY <4>2
        <4>5. QED
          BY <4>3, <4>4 DEF t
      <3>3. Good(f, S)
        <4> HIDE DEF Step, S
        <4>1. \A s \in SUBSET S :
                (IF s = {} THEN rows ELSE Step(s, h[s \ {Max(s)}]))
                = IF s = {} THEN rows ELSE Step(s, f[s \ {Max(s)}])
          BY <3>2
        <4>2. QED
          BY <4>1
      <3> HIDE DEF f, Good, Some
      <3>4. QED
        BY <3>3
    <2> HIDE DEF K
    <2>3. QED
      BY <2>1, <2>2, Induction
  <1>4. Good(iter, us)
    <2>1. PICK b \in Nat : \A x \in us : x < b
      BY <1>1, Bounded
    <2>2. Some(b) = us
      BY <2>1
    <2>3. b \in K
      BY <1>3
    <2> HIDE DEF Good
    <2>4. QED
      BY <2>2, <2>3
  <1>5. \A s \in SUBSET us : iter[s] = IF s = {} THEN rows ELSE Step(s, iter[s \ {Max(s)}])
    <2> HIDE DEF iter, Step
    <2>1. QED
      BY <1>4
  <1> HIDE DEF iter
  <1>6. Joins(iter, rows, docs, us)
    BY <1>5 DEF Joins
  <1>7. QED
    BY <1>2, <1>6

\* Owners who have a table and no row get one, in its place.
LEMMA Joining ==
  ASSUME NEW rows \in Seq(Row), Sorted(rows), NEW docs \in Docs,
         NEW us \in SUBSET {u \in Users \ Ids(rows) : docs[u] # NoTable}
  PROVE  /\ Joined(rows, docs, us) \in Seq(Row) /\ Sorted(Joined(rows, docs, us))
         /\ Ids(Joined(rows, docs, us)) = Ids(rows) \cup us
         /\ Len(Joined(rows, docs, us)) >= Len(rows)
         /\ us = {} => Joined(rows, docs, us) = rows
  <1> DEFINE P(v, s) == /\ v \in Seq(Row) /\ Sorted(v)
                        /\ Ids(v) = Ids(rows) \cup s
                        /\ Len(v) >= Len(rows)
  <1>1. PICK h : Joins(h, rows, docs, us) /\ Joined(rows, docs, us) = h[us]
    BY JoinedSteps
  <1>2. us \subseteq Nat /\ IsFiniteSet(us)
    BY UsersAssumption, FiniteAssumption, FS_Subset
  <1> DEFINE Some(k) == {x \in us : x < k}
             I == {k \in Nat : \A s \in SUBSET Some(k) : P(h[s], s)}
  <1>3. P(h[{}], {})
    BY <1>1, LenProperties DEF Joins
  <1>4. 0 \in I
    <2>1. \A x \in Nat : ~(x < 0)
      OBVIOUS
    <2>2. Some(0) = {}
      BY <1>2, <2>1
    <2> HIDE DEF P
    <2>3. QED
      BY <1>3, <2>2
  <1>5. ASSUME NEW k \in Nat, k \in I PROVE k + 1 \in I
    <2>1. ASSUME NEW s \in SUBSET Some(k + 1), s # {} PROVE P(h[s], s)
      <3>1. PICK m, t : m = Max(s) /\ t = s \ {m}
        OBVIOUS
      <3>2. m \in s /\ t \subseteq Some(k)
        BY <1>2, <2>1, <3>1, Below
      <3>3. PICK v : v = h[t]
        OBVIOUS
      <3>4. P(v, t)
        <4>1. t \in SUBSET Some(k)
          BY <3>2
        <4> HIDE DEF P, Some
        <4>2. QED
          BY <1>5, <3>3, <4>1
      <3>5. PICK r : r = [id |-> m, at |-> docs[m]]
        OBVIOUS
      <3>6. m \in us /\ m \in Users /\ m \notin Ids(rows) /\ docs[m] \in Spots
        BY <3>2 DEF Docs, Places
      <3>7. r \in Row /\ r.id = m /\ r.id \notin Ids(v)
        BY <3>1, <3>4, <3>5, <3>6 DEF Row
      <3>8. h[s] = Insert(v, r)
        <4>1. s \in SUBSET us
          OBVIOUS
        <4>2. QED
          BY <1>1, <2>1, <3>1, <3>3, <3>5, <4>1 DEF Joins
      <3>9. /\ Insert(v, r) \in Seq(Row) /\ Sorted(Insert(v, r))
            /\ Ids(Insert(v, r)) = Ids(v) \cup {r.id}
            /\ Len(Insert(v, r)) = Len(v) + 1
        BY <3>4, <3>7, Inserting
      <3>10. Ids(v) \cup {r.id} = Ids(rows) \cup s
        BY <3>1, <3>2, <3>4, <3>7
      <3>11. Len(v) + 1 >= Len(rows)
        BY <3>4, LenProperties
      <3>12. QED
        BY <3>8, <3>9, <3>10, <3>11
    <2> HIDE DEF P, Some
    <2>2. ASSUME NEW s \in SUBSET Some(k + 1) PROVE P(h[s], s)
      <3>1. CASE s = {}
        BY <1>3, <3>1
      <3>2. CASE s # {}
        BY <2>1, <3>2
      <3>3. QED
        BY <3>1, <3>2
    <2>3. QED
      BY <2>2
  <1> HIDE DEF I, P
  <1>6. P(h[us], us)
    <2>1. PICK b \in Nat : \A x \in us : x < b
      BY <1>2, Bounded
    <2>2. Some(b) = us
      BY <2>1
    <2>3. b \in I
      BY <1>4, <1>5, Induction
    <2>4. QED
      BY <2>2, <2>3 DEF I
  <1>7. us = {} => h[us] = rows
    BY <1>1 DEF Joins
  <1>8. QED
    BY <1>1, <1>6, <1>7 DEF P

\* What a fetch does to the rows.
LEMMA Fetching ==
  ASSUME NEW rows \in Seq(Row), Sorted(rows), NEW docs \in Docs
  PROVE  /\ Fetch(rows, docs) \in Seq(Row) /\ Sorted(Fetch(rows, docs))
         /\ {u \in Users : docs[u] # NoTable} \subseteq Ids(Fetch(rows, docs))
         /\ Len(Fetch(rows, docs)) >= Len(rows)
         /\ docs = NoDocs => Fetch(rows, docs) = rows
  <1>1. PICK us : us = {u \in Users \ Ids(rows) : docs[u] # NoTable}
    OBVIOUS
  <1>2. Fetch(rows, docs) = Joined(rows, docs, us)
    BY <1>1 DEF Fetch
  <1>3. docs = NoDocs => us = {}
    BY <1>1 DEF NoDocs
  <1>4. {u \in Users : docs[u] # NoTable} \subseteq Ids(rows) \cup us
    BY <1>1
  <1>5. us \in SUBSET {u \in Users \ Ids(rows) : docs[u] # NoTable}
    BY <1>1
  <1>6. /\ Joined(rows, docs, us) \in Seq(Row) /\ Sorted(Joined(rows, docs, us))
        /\ Ids(Joined(rows, docs, us)) = Ids(rows) \cup us
        /\ Len(Joined(rows, docs, us)) >= Len(rows)
        /\ us = {} => Joined(rows, docs, us) = rows
    BY <1>5, Joining
  <1>7. QED
    BY <1>2, <1>3, <1>4, <1>6

----------------------------------------------------------------------------
(* Rows and cells.                                                         *)

\* The rows are sorted, and no cell is without a row.
RowsInv == Sorted(tables) /\ CellsHaveRows

LEMMA AnswerType ==
  ASSUME StoreTypeOK, NEW c \in 1..Len(calls), NEW docs,
         docs = IF reply[c].ok THEN reply[c].docs ELSE NoDocs
  PROVE  docs \in Docs /\ c \in Calls
  <1>1. c \in Calls
    BY LenProperties, MaxCallsAssumption DEF StoreTypeOK, Calls
  <1>2. reply[c].docs \in Docs /\ NoDocs \in Docs
    BY <1>1, BlankTypes DEF StoreTypeOK, Reply
  <1>3. QED
    BY <1>1, <1>2

\* A completion adds rows, and shows them or leaves the screen alone.
LEMMA fetchAnsweredRows ==
  ASSUME TypeOK, RowsInv, NEW c \in 1..Len(calls), fetchAnswered(c)
  PROVE  /\ TypeOK' /\ RowsInv'
         /\ cells' = tables' \/ (cells' = cells /\ (reloads[c] => tables' = tables))
         /\ found' \subseteq Ids(tables')
  <1>1. PICK docs : docs = IF reply[c].ok THEN reply[c].docs ELSE NoDocs
    OBVIOUS
  <1>2. docs \in Docs /\ c \in Calls
    BY <1>1, AnswerType DEF TypeOK
  <1>3. /\ tables' = Fetch(tables, docs)
        /\ cells' = IF reloads[c] /\ docs # NoDocs THEN tables' ELSE cells
        /\ found' = IF reply[c].ok THEN {u \in Users : docs[u] # NoTable} ELSE {}
        /\ Complete(c, <<>>)
        /\ UNCHANGED <<timer, reloads, text, screen, tapped>>
    BY <1>1 DEF fetchAnswered
  <1>4. /\ tables' \in Seq(Row) /\ Sorted(tables')
        /\ {u \in Users : docs[u] # NoTable} \subseteq Ids(tables')
        /\ Len(tables') >= Len(tables)
        /\ docs = NoDocs => tables' = tables
    BY <1>2, <1>3, Fetching DEF TypeOK, RowsInv
  <1>5. StoreTypeOK' /\ calls' = calls
    <2>1. <<>> \in Seq(Op)
      OBVIOUS
    <2>2. QED
      BY <1>3, <2>1, CompleteType DEF TypeOK, Complete
  <1>6. cells' \in Seq(Row) /\ found' \subseteq Users
    BY <1>3, <1>4 DEF TypeOK
  <1>7. TypeOK'
    BY <1>3, <1>4, <1>5, <1>6 DEF TypeOK
  <1>8. Len(cells') <= Len(tables')
    <2>1. Len(cells) \in Nat /\ Len(tables) \in Nat /\ Len(tables') \in Nat
      BY <1>4, LenProperties DEF TypeOK
    <2>2. Len(cells) <= Len(tables)
      BY DEF RowsInv, CellsHaveRows
    <2>3. CASE cells' = tables'
      BY <2>1, <2>3
    <2>4. CASE cells' = cells
      BY <1>4, <2>1, <2>2, <2>4
    <2>5. QED
      BY <1>3, <2>3, <2>4
  <1>9. RowsInv'
    BY <1>4, <1>8 DEF RowsInv, CellsHaveRows, Sorted
  <1>10. cells' = tables' \/ (cells' = cells /\ (reloads[c] => tables' = tables))
    BY <1>3, <1>4
  <1>11. found' \subseteq Ids(tables')
    BY <1>3, <1>4
  <1>12. QED
    BY <1>7, <1>9, <1>10, <1>11

\* A letter typed keeps some of the rows, and shows them.
LEMMA textDidChangeRows ==
  ASSUME TypeOK, RowsInv, NEW t \in SUBSET Users, textDidChange(t)
  PROVE  TypeOK' /\ RowsInv'
  <1>1. PICK S : S = [id : t, at : Spots]
    OBVIOUS
  <1>2. /\ tables' = Filter(tables, S) /\ cells' = tables' /\ text' = t /\ timer' = FALSE
        /\ Ask(<<>>, <<Users>>) /\ reloads' = Append(reloads, FALSE)
        /\ UNCHANGED <<screen, tapped, found>>
    BY <1>1 DEF textDidChange
  <1>3. tables' \in Seq(Row) /\ Sorted(tables')
    BY <1>2, FilterIds DEF TypeOK, RowsInv
  <1>4. StoreTypeOK' /\ Len(calls') = Len(calls) + 1
    BY <1>2, AskOneType DEF TypeOK
  <1>5. reloads' \in Seq(BOOLEAN) /\ Len(reloads') = Len(calls')
    BY <1>2, <1>4, AppendProperties DEF TypeOK
  <1>6. TypeOK'
    BY <1>2, <1>3, <1>4, <1>5 DEF TypeOK
  <1>7. Len(cells') <= Len(tables')
    <2>1. Len(tables') \in Nat
      BY <1>3, LenProperties
    <2>2. QED
      BY <1>2, <2>1
  <1>8. QED
    BY <1>3, <1>6, <1>7 DEF RowsInv, CellsHaveRows, Sorted

\* A cell has a row at its place.
LEMMA CellRow ==
  ASSUME TypeOK, RowsInv, NEW i \in 1..Len(cells)
  PROVE  cells[i] \in Row /\ tables[i] \in Row /\ i \in DOMAIN cells
  <1>1. Len(cells) \in Nat /\ Len(tables) \in Nat /\ Len(cells) <= Len(tables)
    BY LenProperties DEF TypeOK, RowsInv, CellsHaveRows
  <1>2. i \in 1..Len(tables)
    BY <1>1
  <1>3. QED
    BY <1>2, ElementOfSeq DEF TypeOK

LEMMA cellForRowAtRows ==
  ASSUME TypeOK, RowsInv, NEW i \in 1..Len(cells), cellForRowAt(i)
  PROVE  TypeOK' /\ RowsInv'
  <1>1. tables[i] \in Row /\ i \in DOMAIN cells
    BY CellRow
  <1>2. cells' \in Seq(Row) /\ Len(cells') = Len(cells)
    BY <1>1, ExceptSeq DEF TypeOK, cellForRowAt
  <1>3. QED
    BY <1>2 DEF cellForRowAt, TypeOK, RowsInv, CellsHaveRows, Sorted, storeVars, StoreTypeOK

LEMMA didSelectRowAtRows ==
  ASSUME TypeOK, RowsInv, NEW i \in 1..Len(cells), didSelectRowAt(i)
  PROVE  TypeOK' /\ RowsInv'
  <1>1. cells[i] \in Row /\ tables[i] \in Row
    BY CellRow
  <1>2. [row |-> cells[i], to |-> tables[i].at] \in [row : Row, to : Spots]
    BY <1>1 DEF Row
  <1>3. tapped' \in [row : Row, to : Spots]
    BY <1>2 DEF didSelectRowAt
  <1>4. QED
    BY <1>3 DEF didSelectRowAt, TypeOK, RowsInv, CellsHaveRows, Sorted, storeVars, StoreTypeOK

LEMMA StepRows ==
  TypeOK /\ RowsInv /\ [Next]_vars => TypeOK' /\ RowsInv'
  <1> SUFFICES ASSUME TypeOK, RowsInv, [Next]_vars PROVE TypeOK' /\ RowsInv'
    OBVIOUS
  <1>1. ASSUME NEW t \in SUBSET Users, textDidChange(t) PROVE TypeOK' /\ RowsInv'
    BY <1>1, textDidChangeRows
  <1>2. ASSUME NEW i \in 1..Len(cells), cellForRowAt(i) \/ didSelectRowAt(i)
        PROVE  TypeOK' /\ RowsInv'
    BY <1>2, cellForRowAtRows, didSelectRowAtRows
  <1>3. CASE Dismiss
    BY <1>3 DEF Dismiss, TypeOK, RowsInv, CellsHaveRows, Sorted, storeVars, StoreTypeOK
  <1>4. CASE toggleData
    <2>1. Len(tables) \in Nat
      BY LenProperties DEF TypeOK
    <2>2. QED
      BY <1>4, <2>1 DEF toggleData, TypeOK, RowsInv, CellsHaveRows, Sorted, storeVars, StoreTypeOK
  <1>5. ASSUME NEW c \in 1..Len(calls), fetchAnswered(c) PROVE TypeOK' /\ RowsInv'
    BY <1>5, fetchAnsweredRows
  <1>6. ASSUME StoreTypeOK', calls' = calls, UNCHANGED listVars PROVE TypeOK' /\ RowsInv'
    BY <1>6 DEF listVars, TypeOK, RowsInv, CellsHaveRows, Sorted
  <1>7. CASE Worker
    <2>1. StoreTypeOK' /\ calls' = calls /\ UNCHANGED listVars
      BY <1>7, WorkerType DEF Worker, TypeOK, TakeListen
    <2>2. QED
      BY <1>6, <2>1
  <1>8. CASE OtherDevice
    <2>1. PICK u \in Users, p \in Places : Elsewhere({u}, p) /\ UNCHANGED listVars
      BY <1>8 DEF OtherDevice
    <2>2. StoreTypeOK'
      BY <2>1, ElsewhereType DEF TypeOK
    <2>3. QED
      BY <1>6, <2>1, <2>2 DEF Elsewhere
  <1>9. CASE Store
    <2>1. UNCHANGED listVars /\ \/ \E D, S : Sync(D, S)
                                \/ \E S : Reject(S)
      BY <1>9 DEF Store
    <2>2. StoreTypeOK' /\ calls' = calls
      BY <2>1, SyncType, RejectType DEF TypeOK, Sync, Reject
    <2>3. QED
      BY <1>6, <2>1, <2>2
  <1>10. CASE UNCHANGED vars
    BY <1>6, <1>10 DEF vars, storeVars, TypeOK, StoreTypeOK
  <1>11. QED
    BY <1>1, <1>2, <1>3, <1>4, <1>5, <1>7, <1>8, <1>9, <1>10 DEF Next, User, Completions

LEMMA InitRows ==
  ASSUME Init
  PROVE  TypeOK /\ RowsInv
  <1>1. 1 \in Calls /\ MaxCalls \in Nat /\ 1 <= MaxCalls
    BY MaxCallsAssumption, FirstReadAssumption DEF Calls
  <1>2. Listen(1) \in Op
    BY <1>1 DEF Listen, Op
  <1>3. /\ calls = <<Users>> /\ workerQ = <<Listen(1)>> /\ pending = <<>>
        /\ tables = <<>> /\ cells = <<>> /\ reloads = <<TRUE>>
    BY DEF Init
  <1>4. StoreTypeOK
    <2>1. workerQ \in Seq(Op) /\ calls \in Seq(SUBSET Users) /\ Len(calls) = 1
          /\ pending \in Seq(Mutation)
      BY <1>2, <1>3
    <2>2. server \in Docs /\ local \in Docs /\ reply \in [Calls -> Reply]
      BY BlankTypes DEF Init
    <2>3. QED
      BY <1>1, <2>1, <2>2 DEF StoreTypeOK
  <1>5. /\ tables \in Seq(Row) /\ cells \in Seq(Row) /\ Len(tables) = 0 /\ Len(cells) = 0
        /\ reloads \in Seq(BOOLEAN) /\ Len(reloads) = Len(calls)
    BY <1>3
  <1>6. TypeOK
    BY <1>4, <1>5 DEF Init, TypeOK
  <1>7. QED
    BY <1>5, <1>6 DEF RowsInv, Sorted, CellsHaveRows

LEMMA RowsAlways == Spec => [](TypeOK /\ RowsInv)
  BY InitRows, StepRows, PTL DEF Spec

\* Every step keeps the types of what the list and the store hold.
THEOREM Typing == Spec => []TypeOK
  BY RowsAlways, PTL

\* A cell that is filled again, or tapped, never indexes the rows out of range.
THEOREM CellsInRange == Spec => []CellsHaveRows
  <1>1. RowsInv => CellsHaveRows
    BY DEF RowsInv
  <1>2. QED
    BY <1>1, RowsAlways, PTL

\* However fetches and searches overlap, no owner is listed twice and the nearest
\* table comes first.
THEOREM SortedRows == Spec => []OneRowEach
  <1>1. RowsInv => OneRowEach
    BY DEF RowsInv, Sorted, Nearer, OneRowEach
  <1>2. QED
    BY <1>1, RowsAlways, PTL

----------------------------------------------------------------------------
(* What the screen shows until the first search.                           *)

\* Until then there is one fetch, the one that reloads.
ShownInv == timer => cells = tables /\ Len(calls) = 1 /\ reloads[1] = TRUE

LEMMA StepShown ==
  TypeOK /\ RowsInv /\ ShownInv /\ [Next]_vars => ShownInv'
  <1> SUFFICES ASSUME TypeOK, RowsInv, ShownInv, [Next]_vars, timer'
               PROVE  cells' = tables' /\ Len(calls') = 1 /\ reloads'[1] = TRUE
    BY DEF ShownInv
  <1>1. ASSUME NEW t \in SUBSET Users, textDidChange(t) PROVE FALSE
    BY <1>1 DEF textDidChange
  <1>2. CASE timer
    <2>1. cells = tables /\ Len(calls) = 1 /\ reloads[1] = TRUE
      BY <1>2 DEF ShownInv
    <2>2. ASSUME NEW i \in 1..Len(cells), cellForRowAt(i) \/ didSelectRowAt(i)
          PROVE  cells' = tables' /\ UNCHANGED <<calls, reloads>>
      <3>1. CASE cellForRowAt(i)
        <4>1. [cells EXCEPT ![i] = cells[i]] = cells
          BY DEF TypeOK
        <4>2. QED
          BY <2>1, <3>1, <4>1 DEF cellForRowAt, storeVars
      <3>2. CASE didSelectRowAt(i)
        BY <2>1, <3>2 DEF didSelectRowAt, storeVars
      <3>3. QED
        BY <2>2, <3>1, <3>2
    <2>3. ASSUME NEW c \in 1..Len(calls), fetchAnswered(c)
          PROVE  cells' = tables' /\ UNCHANGED <<calls, reloads>>
      <3>1. c = 1 /\ reloads[c] = TRUE
        BY <2>1
      <3>2. cells' = tables' \/ (cells' = cells /\ tables' = tables)
        BY <2>3, <3>1, fetchAnsweredRows
      <3>3. QED
        BY <2>1, <2>3, <3>2 DEF fetchAnswered, Complete
    <2>4. CASE UNCHANGED listVars /\ calls' = calls
      BY <2>1, <2>4 DEF listVars
    <2>5. CASE Dismiss \/ toggleData
      BY <2>1, <2>5 DEF Dismiss, toggleData, storeVars
    <2>6. CASE Worker \/ OtherDevice \/ Store
      <3>1. UNCHANGED listVars /\ calls' = calls
        BY <2>6 DEF Worker, TakeListen, OtherDevice, Elsewhere, Store, Sync, Reject
      <3>2. QED
        BY <2>4, <3>1
    <2>7. CASE UNCHANGED vars
      BY <2>4, <2>7 DEF vars, storeVars
    <2>8. QED
      BY <1>1, <2>1, <2>2, <2>3, <2>5, <2>6, <2>7 DEF Next, User, Completions
  <1>3. CASE ~timer
    <2>1. ~timer'
      BY <1>3 DEF Next, User, textDidChange, cellForRowAt, didSelectRowAt, Dismiss, toggleData,
                  Completions, fetchAnswered, Worker, OtherDevice, Store, listVars, vars
    <2>2. QED
      BY <2>1
  <1>4. QED
    BY <1>2, <1>3

\* Until the first search the screen shows exactly the rows known, so a row
\* tapped is the row shown.
THEOREM RowsShown == Spec => []ShownUntilSearch
  <1>1. Init => ShownInv
    BY DEF Init, ShownInv
  <1>2. ShownInv => ShownUntilSearch
    BY DEF ShownInv, ShownUntilSearch
  <1>3. QED
    BY <1>1, <1>2, StepShown, RowsAlways, PTL DEF Spec

----------------------------------------------------------------------------
(* What the answers have brought.                                          *)

\* Only reads that were asked are listened to and answered; once all are
\* answered, the rows hold the last answer.
LostInv ==
  /\ \A i \in 1..Len(workerQ) :
       workerQ[i].op = "listen" => workerQ[i].call \in 1..Len(calls)
  /\ \A c \in Calls : c > Len(calls) => reply[c] = Waiting
  /\ NothingLost

\* Answers are posted: some read waits for its completion, or nothing changed.
LEMMA PostingKeeps ==
  ASSUME TypeOK, LostInv, NEW S, S \subseteq 1..Len(calls),
         NEW docs, NEW ok, Post(S, docs, ok),
         UNCHANGED <<calls, tables, found>>,
         workerQ' = workerQ \/ (workerQ # <<>> /\ workerQ' = Tail(workerQ))
  PROVE  LostInv'
  <1>1. /\ Len(calls) \in Nat /\ Len(calls) <= MaxCalls /\ MaxCalls \in Nat
        /\ workerQ \in Seq(Op) /\ reply \in [Calls -> Reply]
    BY LenProperties, MaxCallsAssumption DEF TypeOK, StoreTypeOK
  <1>2. \A i \in 1..Len(workerQ') :
          workerQ'[i].op = "listen" => workerQ'[i].call \in 1..Len(calls')
    <2>1. CASE workerQ' = workerQ
      BY <2>1 DEF LostInv
    <2>2. CASE workerQ # <<>> /\ workerQ' = Tail(workerQ)
      <3>1. /\ Len(workerQ') = Len(workerQ) - 1 /\ Len(workerQ) \in Nat
            /\ \A i \in 1..Len(workerQ') : workerQ'[i] = workerQ[i + 1]
        BY <1>1, <2>2, HeadTailProperties, LenProperties, EmptySeq
      <3>2. \A i \in 1..Len(workerQ') : i + 1 \in 1..Len(workerQ)
        BY <3>1
      <3>3. QED
        BY <3>1, <3>2 DEF LostInv
    <2>3. QED
      BY <2>1, <2>2
  <1>3. ASSUME NEW c \in Calls, c > Len(calls') PROVE reply'[c] = Waiting
    <2>1. c \notin S /\ c > Len(calls)
      <3>1. c > Len(calls)
        BY <1>3
      <3>2. c \notin 1..Len(calls)
        BY <1>1, <3>1 DEF Calls
      <3>3. QED
        BY <3>1, <3>2
    <2>2. QED
      BY <2>1 DEF Post, LostInv
  <1>4. NothingLost'
    <2>1. SUFFICES ASSUME \A c \in 1..Len(calls) : reply'[c].state = "done"
                   PROVE  found' \subseteq Ids(tables')
      BY DEF NothingLost
    <2>2. 1..Len(calls) \subseteq Calls
      BY <1>1 DEF Calls
    <2>3. ASSUME NEW c \in 1..Len(calls) PROVE reply[c].state = "done"
      <3>1. c \notin S /\ c \in Calls
        BY <2>1, <2>2 DEF Post
      <3>2. reply'[c] = reply[c]
        BY <3>1 DEF Post
      <3>3. QED
        BY <2>1, <3>2
    <2>4. QED
      BY <2>3 DEF LostInv, NothingLost
  <1>5. QED
    BY <1>2, <1>3, <1>4 DEF LostInv

LEMMA textDidChangeKeeps ==
  ASSUME TypeOK, LostInv, NEW t \in SUBSET Users, textDidChange(t)
  PROVE  LostInv'
  <1>1. Ask(<<>>, <<Users>>)
    BY DEF textDidChange
  <1>2. PICK n \in Nat : n = Len(calls)
    BY LenProperties DEF TypeOK, StoreTypeOK
  <1>3. /\ Len(calls') = n + 1 /\ n + 1 \in Calls
        /\ workerQ' = Append(workerQ, Listen(n + 1)) /\ reply' = reply
    BY <1>1, <1>2, AskOneType DEF TypeOK, Ask
  <1>4. ASSUME NEW i \in 1..Len(workerQ'), workerQ'[i].op = "listen"
        PROVE  workerQ'[i].call \in 1..Len(calls')
    <2>1. PICK l \in Op : l = Listen(n + 1)
      BY <1>3 DEF Listen, Op
    <2>2. /\ Len(workerQ') = Len(workerQ) + 1 /\ Len(workerQ) \in Nat
          /\ workerQ'[Len(workerQ) + 1] = l
          /\ \A j \in 1..Len(workerQ) : workerQ'[j] = workerQ[j]
      BY <1>3, <2>1, AppendProperties, LenProperties DEF TypeOK, StoreTypeOK
    <2>3. CASE i \in 1..Len(workerQ)
      <3>1. workerQ[i].call \in 1..n
        BY <1>2, <1>4, <2>2, <2>3 DEF LostInv
      <3>2. QED
        BY <1>3, <2>2, <2>3, <3>1
    <2>4. CASE i = Len(workerQ) + 1
      <3>1. workerQ'[i].call = n + 1
        BY <2>1, <2>2, <2>4 DEF Listen
      <3>2. QED
        BY <1>3, <3>1
    <2>5. QED
      BY <2>2, <2>3, <2>4
  <1>5. \A c \in Calls : c > Len(calls') => reply'[c] = Waiting
    <2>1. \A c \in Calls : c > n + 1 => c > n
      BY MaxCallsAssumption DEF Calls
    <2>2. QED
      BY <1>2, <1>3, <2>1 DEF LostInv
  <1>6. reply'[n + 1].state = "waiting"
    <2>1. n + 1 > n
      OBVIOUS
    <2>2. QED
      BY <1>2, <1>3, <2>1 DEF LostInv, Waiting
  <1>7. NothingLost'
    <2>1. n + 1 \in 1..Len(calls')
      BY <1>3
    <2>2. QED
      BY <1>6, <2>1 DEF NothingLost
  <1>8. QED
    BY <1>4, <1>5, <1>7 DEF LostInv

LEMMA StepLost ==
  TypeOK /\ RowsInv /\ LostInv /\ [Next]_vars => LostInv'
  <1> SUFFICES ASSUME TypeOK, RowsInv, LostInv, [Next]_vars PROVE LostInv'
    OBVIOUS
  <1>1. ASSUME NEW t \in SUBSET Users, textDidChange(t) PROVE LostInv'
    BY <1>1, textDidChangeKeeps
  <1>2. ASSUME UNCHANGED <<calls, workerQ, reply, tables, found>> PROVE LostInv'
    BY <1>2 DEF LostInv, NothingLost, Ids
  <1>3. ASSUME NEW i \in 1..Len(cells), cellForRowAt(i) \/ didSelectRowAt(i) PROVE LostInv'
    BY <1>2, <1>3 DEF cellForRowAt, didSelectRowAt, storeVars
  <1>4. CASE Dismiss \/ toggleData \/ UNCHANGED vars
    BY <1>2, <1>4 DEF Dismiss, toggleData, vars, storeVars, listVars
  <1>5. ASSUME NEW c \in 1..Len(calls), fetchAnswered(c) PROVE LostInv'
    <2>1. found' \subseteq Ids(tables')
      BY <1>5, fetchAnsweredRows
    <2>2. Complete(c, <<>>)
      BY <1>5 DEF fetchAnswered
    <2>3. workerQ' = workerQ /\ calls' = calls /\ reply' = [reply EXCEPT ![c] = Done]
      BY <2>2 DEF Complete, TypeOK, StoreTypeOK
    <2>4. \A d \in Calls : d > Len(calls') => reply'[d] = Waiting
      <3>1. Len(calls) \in Nat /\ MaxCalls \in Nat
        BY LenProperties, MaxCallsAssumption DEF TypeOK, StoreTypeOK
      <3>2. \A d \in Calls : d > Len(calls) => d # c
        BY <3>1 DEF Calls
      <3>3. QED
        BY <2>3, <3>2 DEF LostInv, TypeOK, StoreTypeOK
    <2>5. QED
      BY <2>1, <2>3, <2>4 DEF LostInv, NothingLost
  <1>6. CASE Worker
    <2>1. /\ workerQ # <<>> /\ Head(workerQ).op = "listen" /\ workerQ' = Tail(workerQ)
          /\ \E S \in SUBSET {Head(workerQ).call} : Post(S, local, TRUE)
          /\ UNCHANGED <<calls, tables, found>>
      BY <1>6 DEF Worker, TakeListen, listVars
    <2>2. 1 \in 1..Len(workerQ) /\ Head(workerQ) = workerQ[1]
      BY <2>1, HeadTailProperties, LenProperties, EmptySeq DEF TypeOK, StoreTypeOK
    <2>3. Head(workerQ).call \in 1..Len(calls)
      BY <2>1, <2>2 DEF LostInv
    <2>4. PICK S : S \subseteq 1..Len(calls) /\ Post(S, local, TRUE)
      BY <2>1, <2>3
    <2>5. QED
      BY <2>1, <2>4, PostingKeeps
  <1>7. CASE OtherDevice
    BY <1>2, <1>7 DEF OtherDevice, Elsewhere, listVars
  <1>8. CASE Store
    <2>1. UNCHANGED <<calls, workerQ, tables, found>>
      BY <1>8 DEF Store, Sync, Reject, listVars
    <2>2. Registered \subseteq 1..Len(calls)
      BY DEF Registered
    <2>3. \E S, docs, ok : S \subseteq 1..Len(calls) /\ Post(S, docs, ok)
      BY <1>8, <2>2 DEF Store, Sync, Reject
    <2>4. QED
      BY <2>1, <2>3, PostingKeeps
  <1>9. QED
    BY <1>1, <1>3, <1>4, <1>5, <1>6, <1>7, <1>8 DEF Next, User, Completions

LEMMA InitLost == Init => LostInv
  <1> SUFFICES ASSUME Init PROVE LostInv
    OBVIOUS
  <1>1. workerQ = <<Listen(1)>> /\ Len(calls) = 1 /\ found = {}
        /\ \A c \in Calls : reply[c] = Waiting
    BY DEF Init
  <1>2. \A i \in 1..Len(workerQ) : workerQ[i] = Listen(1)
    BY <1>1
  <1>3. Listen(1).call \in 1..Len(calls)
    BY <1>1 DEF Listen
  <1>4. QED
    BY <1>1, <1>2, <1>3 DEF LostInv, NothingLost

\* When every fetch has been answered, the rows hold each table of the last
\* answer, whatever was searched before.
THEOREM RowsKept == Spec => []NothingLost
  <1>1. LostInv => NothingLost
    BY DEF LostInv
  <1>2. QED
    BY <1>1, InitLost, StepLost, RowsAlways, PTL DEF Spec
=============================================================================
