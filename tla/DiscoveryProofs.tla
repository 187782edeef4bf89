--------------------------- MODULE DiscoveryProofs ---------------------------
(***************************************************************************)
(* Proofs about discovery.  The lists of the routing table are built by    *)
(* recursive functions, so the facts about them need induction: the lemmas *)
(* UpTo (over a set of numbers) and Iteration (a recursive function exists *)
(* and satisfies its equation) provide it.  From there: Keep, FlattenSeq,  *)
(* AddPeer and AddPeers, Evict, RecordFailure and RecordSuccess, Save and  *)
(* Load keep a table a table; DiscoveryInv is preserved by every action;   *)
(* the three properties follow.                                            *)
(***************************************************************************)
EXTENDS Discovery, FiniteSetTheorems, WellFoundedInduction, TLAPS

-----------------------------------------------------------------------------
(* Induction.  A set of numbers stands for the property.                   *)

Below == {p \in Nat \X Nat : p[1] < p[2]}

\* The order of the natural numbers has no infinite descent.
LEMMA BelowWellFounded == IsWellFoundedOn(Below, Nat)
<1>1. Below = OpToRel(<, Nat)
  BY Zenon DEF Below, OpToRel
<1> QED
  BY <1>1, NatLessThanWellFounded, Zenon

\* A set of natural numbers that is not empty has a least element.
LEMMA Least ==
  ASSUME NEW T, T \subseteq Nat, T # {}
  PROVE  \E m \in T : \A k \in T : m <= k
<1>1. \E x \in T : \A y \in T : ~(<<y, x>> \in Below)
  BY WFMin, BelowWellFounded, Zenon
<1>2. PICK x \in T : \A y \in T : ~(<<y, x>> \in Below)
  BY <1>1
<1>3. ASSUME NEW y \in T PROVE x <= y
  <2>1. x \in Nat /\ y \in Nat
    OBVIOUS
  <2>2. y < x => <<y, x>> \in Below
    BY <2>1 DEF Below
  <2> QED
    BY <1>2, <2>1, <2>2
<1> QED
  BY <1>3

\* Induction up to N.
LEMMA UpTo ==
  ASSUME NEW N \in Nat, NEW T, 0 \in T, \A n \in 0..(N - 1) : n \in T => n + 1 \in T
  PROVE  \A n \in 0..N : n \in T
<1> DEFINE U == {n \in 0..N : n \notin T}
<1> SUFFICES ASSUME U # {} PROVE FALSE
  OBVIOUS
<1>1. U \subseteq Nat /\ U # {}
  OBVIOUS
<1>2. \E m \in U : \A k \in U : m <= k
  <2> HIDE DEF U
  <2> QED
    BY <1>1, Least, Zenon
<1>3. PICK m \in U : \A k \in U : m <= k
  BY <1>2
<1>4. m # 0 /\ m - 1 \in 0..(N - 1)
  BY <1>3
<1>5. m - 1 \in T
  BY <1>3, <1>4
<1> QED
  BY <1>3, <1>4, <1>5

Iterates(f, N, X, x0, step) ==
  f \in [0..N -> X] /\ f[0] = x0 /\ \A i \in 1..N : f[i] = step[i][f[i - 1]]

\* A step for every number up to N can be iterated N times.
LEMMA Iteration ==
  ASSUME NEW N \in Nat, NEW X, NEW x0 \in X, NEW step \in [1..N -> [X -> X]]
  PROVE  \E f : Iterates(f, N, X, x0, step)
<1> DEFINE P(n) == \E f \in [0..n -> X] :
                     f[0] = x0 /\ \A i \in 1..n : f[i] = step[i][f[i - 1]]
           T == {n \in 0..N : P(n)}
<1>1. 0 \in T
  <2> DEFINE f == [i \in 0..0 |-> x0]
  <2>1. f \in [0..0 -> X] /\ f[0] = x0
    OBVIOUS
  <2>2. \A i \in 1..0 : f[i] = step[i][f[i - 1]]
    OBVIOUS
  <2> HIDE DEF f
  <2>3. P(0)
    BY <2>1, <2>2
  <2> QED
    BY <2>3
<1>2. ASSUME NEW n \in 0..(N - 1), n \in T PROVE n + 1 \in T
  <2>1. PICK f \in [0..n -> X] : f[0] = x0 /\ \A i \in 1..n : f[i] = step[i][f[i - 1]]
    BY <1>2
  <2> DEFINE g == [i \in 0..(n + 1) |-> IF i = n + 1 THEN step[n + 1][f[n]] ELSE f[i]]
  <2>2. step[n + 1][f[n]] \in X
    OBVIOUS
  <2>3. g \in [0..(n + 1) -> X]
    BY <2>2
  <2>4. g[0] = x0
    BY <2>1
  <2>5. ASSUME NEW i \in 1..(n + 1) PROVE g[i] = step[i][g[i - 1]]
    BY <2>1
  <2>6. P(n + 1)
    BY <2>3, <2>4, <2>5
  <2> QED
    BY <2>6, SMTT(30)
<1>3. N \in T
  <2> HIDE DEF T
  <2>1. \A n \in 0..(N - 1) : n \in T => n + 1 \in T
    BY <1>2
  <2>2. \A n \in 0..N : n \in T
    BY <1>1, <2>1, UpTo, Zenon
  <2> QED
    BY <2>2
<1> QED
  BY <1>3 DEF Iterates
-----------------------------------------------------------------------------
(* Lists of peers.                                                         *)

\* No peer twice.
Distinct(s) == \A i, j \in 1..Len(s) : s[i].id = s[j].id => i = j

KeepRun(f, X, s, S) ==
  /\ f \in [0..Len(s) -> Seq(X)]
  /\ f[0] = <<>>
  /\ \A i \in 1..Len(s) : f[i] = IF s[i] \in S THEN Append(f[i - 1], s[i]) ELSE f[i - 1]
  /\ Keep(s, S) = f[Len(s)]

\* Keep goes through a list entry by entry.
LEMMA KeepSteps ==
  ASSUME NEW X, NEW s \in Seq(X), NEW S
  PROVE  \E f : KeepRun(f, X, s, S)
<1> DEFINE N == Len(s)
           Next1(f, i) == IF i = 0 THEN <<>>
                          ELSE IF s[i] \in S THEN Append(f[i - 1], s[i]) ELSE f[i - 1]
           Eq(f) == f = [i \in 0..Len(s) |-> Next1(f, i)]
           step == [i \in 1..N |-> [t \in Seq(X) |-> IF s[i] \in S THEN Append(t, s[i]) ELSE t]]
<1>1. N \in Nat
  OBVIOUS
<1>2. <<>> \in Seq(X)
  OBVIOUS
<1>3. step \in [1..N -> [Seq(X) -> Seq(X)]]
  OBVIOUS
<1>4. \E f : Iterates(f, N, Seq(X), <<>>, step)
  <2> HIDE DEF N, step
  <2> QED
    BY <1>1, <1>2, <1>3, Iteration
<1>5. PICK f \in [0..N -> Seq(X)] : f[0] = <<>> /\ \A i \in 1..N : f[i] = step[i][f[i - 1]]
  <2> HIDE DEF N, step
  <2> QED
    BY <1>4 DEF Iterates
<1>6. Eq(f)
  <2>1. ASSUME NEW i \in 0..N PROVE f[i] = Next1(f, i)
    <3>1. CASE i = 0
      BY <3>1, <1>5
    <3>2. CASE i # 0
      <4>1. i \in 1..N /\ f[i - 1] \in Seq(X)
        BY <3>2
      <4>2. step[i][f[i - 1]] = IF s[i] \in S THEN Append(f[i - 1], s[i]) ELSE f[i - 1]
        BY <4>1
      <4> QED
        BY <4>1, <4>2, <1>5, <3>2
    <3> QED
      BY <3>1, <3>2
  <2>2. DOMAIN f = 0..N /\ f = [i \in DOMAIN f |-> f[i]]
    OBVIOUS
  <2> HIDE DEF Next1
  <2> QED
    BY <2>1, <2>2, Zenon
<1> DEFINE F == CHOOSE g : Eq(g)
<1>7. Eq(F)
  <2> HIDE DEF Eq
  <2> QED
    BY <1>6
<1>8. Keep(s, S) = F[N]
  BY DEF Keep
<1> HIDE DEF F
<1>9. ASSUME NEW i \in 0..N PROVE F[i] = Next1(F, i)
  <2> HIDE DEF Next1
  <2> QED
    BY <1>7, Zenon
<1>10. DOMAIN F = 0..N /\ F[0] = <<>>
  <2>1. F[0] = Next1(F, 0)
    BY <1>1, <1>9
  <2> QED
    BY <1>7, <2>1
<1>11. ASSUME NEW i \in 1..N
       PROVE  F[i] = IF s[i] \in S THEN Append(F[i - 1], s[i]) ELSE F[i - 1]
  <2>1. F[i] = Next1(F, i)
    BY <1>9
  <2> QED
    BY <2>1
<1>12. \A n \in 0..N : F[n] \in Seq(X)
  <2> DEFINE T == {n \in 0..N : F[n] \in Seq(X)}
  <2>1. 0 \in T
    <3>1. F[0] \in Seq(X)
      BY <1>2, <1>10
    <3> QED
      BY <3>1
  <2>2. ASSUME NEW n \in 0..(N - 1), n \in T PROVE n + 1 \in T
    <3>1. F[n + 1] = IF s[n + 1] \in S THEN Append(F[n], s[n + 1]) ELSE F[n]
      BY <1>11
    <3>2. F[n] \in Seq(X) /\ s[n + 1] \in X
      BY <2>2
    <3>3. F[n + 1] \in Seq(X)
      BY <3>1, <3>2
    <3> QED
      BY <3>3
  <2>3. \A n \in 0..N : n \in T
    <3> HIDE DEF T, N
    <3> QED
      BY <1>1, <2>1, <2>2, UpTo
  <2> QED
    BY <2>3
<1>13. F \in [0..N -> Seq(X)]
  <2>1. F = [i \in DOMAIN F |-> F[i]]
    BY <1>7
  <2> QED
    BY <1>10, <1>12, <2>1
<1> QED
  BY <1>8, <1>10, <1>11, <1>13 DEF KeepRun

\* The list r holds, once each, those of the first n entries of s that are in S.
Kept(r, s, n, S) ==
  /\ Len(r) <= n
  /\ \A k \in 1..Len(r) : \E i \in 1..n : r[k] = s[i] /\ s[i] \in S
  /\ \A i \in 1..n : s[i] \in S => \E k \in 1..Len(r) : r[k] = s[i]
  /\ Distinct(s) => Distinct(r)

\* One entry more.
LEMMA KeptAppend ==
  ASSUME NEW X, NEW s \in Seq(X), NEW S, NEW n \in Nat, n < Len(s),
         NEW r \in Seq(X), Kept(r, s, n, S), s[n + 1] \in S
  PROVE  Kept(Append(r, s[n + 1]), s, n + 1, S)
<1> DEFINE m == n + 1
           q == Append(r, s[m])
<1>1. m \in 1..Len(s) /\ s[m] \in X /\ m \in Nat
  OBVIOUS
<1>2. /\ Len(q) = Len(r) + 1
      /\ \A k \in 1..Len(r) : q[k] = r[k]
      /\ q[Len(r) + 1] = s[m]
  BY <1>1
<1> HIDE DEF q
<1>3. Len(q) <= m
  BY <1>2 DEF Kept
<1>4. ASSUME NEW k \in 1..Len(q) PROVE \E i \in 1..m : q[k] = s[i] /\ s[i] \in S
  <2>1. CASE k = Len(r) + 1
    BY <1>1, <1>2, <2>1
  <2>2. CASE k # Len(r) + 1
    <3>1. k \in 1..Len(r)
      BY <1>2, <2>2
    <3>2. PICK i \in 1..n : r[k] = s[i] /\ s[i] \in S
      BY <3>1 DEF Kept
    <3> QED
      BY <1>2, <3>1, <3>2
  <2> QED
    BY <2>1, <2>2
<1>5. ASSUME NEW i \in 1..m, s[i] \in S PROVE \E k \in 1..Len(q) : q[k] = s[i]
  <2>1. CASE i = m
    BY <1>2, <2>1
  <2>2. CASE i # m
    <3>1. i \in 1..n
      BY <2>2
    <3>2. PICK k \in 1..Len(r) : r[k] = s[i]
      BY <1>5, <3>1 DEF Kept
    <3> QED
      BY <1>2, <3>2
  <2> QED
    BY <2>1, <2>2
<1>6. ASSUME Distinct(s) PROVE Distinct(q)
  <2>1. ASSUME NEW a \in 1..Len(r) PROVE q[a].id # q[Len(r) + 1].id
    <3>1. PICK i \in 1..n : r[a] = s[i]
      BY DEF Kept
    <3>2. i \in 1..Len(s) /\ i # m
      BY <3>1
    <3> QED
      BY <1>1, <1>2, <1>6, <3>1, <3>2 DEF Distinct
  <2>2. ASSUME NEW a \in 1..Len(r), NEW b \in 1..Len(r), q[a].id = q[b].id PROVE a = b
    BY <1>2, <1>6, <2>2 DEF Kept, Distinct
  <2> QED
    BY <1>2, <2>1, <2>2 DEF Distinct
<1> QED
  BY <1>3, <1>4, <1>5, <1>6 DEF Kept, q

\* Keep returns the entries of the list that are in S, and repeats none.
LEMMA KeepFacts ==
  ASSUME NEW X, NEW s \in Seq(X), NEW S
  PROVE  Keep(s, S) \in Seq(X) /\ Kept(Keep(s, S), s, Len(s), S)
<1> DEFINE N == Len(s)
<1>1. PICK f : KeepRun(f, X, s, S)
  BY KeepSteps
<1>2. N \in Nat
  OBVIOUS
<1> DEFINE T == {n \in 0..N : f[n] \in Seq(X) /\ Kept(f[n], s, n, S)}
<1>3. 0 \in T
  <2>1. f[0] = <<>>
    BY <1>1 DEF KeepRun
  <2>2. f[0] \in Seq(X) /\ Kept(f[0], s, 0, S)
    BY <2>1 DEF Kept, Distinct
  <2> QED
    BY <1>2, <2>2
<1>4. ASSUME NEW n \in 0..(N - 1), n \in T PROVE n + 1 \in T
  <2>1. /\ f[n] \in Seq(X) /\ Kept(f[n], s, n, S)
        /\ n \in Nat /\ n < Len(s) /\ n + 1 \in 1..N /\ s[n + 1] \in X
    BY <1>4
  <2>2. f[n + 1] = IF s[n + 1] \in S THEN Append(f[n], s[n + 1]) ELSE f[n]
    BY <1>1, <2>1 DEF KeepRun
  <2>3. CASE s[n + 1] \notin S
    <3>1. f[n + 1] = f[n]
      BY <2>2, <2>3
    <3>2. Kept(f[n + 1], s, n + 1, S)
      BY <2>1, <2>3, <3>1 DEF Kept
    <3> QED
      BY <2>1, <3>1, <3>2
  <2>4. CASE s[n + 1] \in S
    <3>1. f[n + 1] = Append(f[n], s[n + 1])
      BY <2>2, <2>4
    <3>2. Kept(f[n + 1], s, n + 1, S)
      BY <2>1, <2>4, <3>1, KeptAppend
    <3>3. f[n + 1] \in Seq(X)
      BY <2>1, <3>1
    <3> QED
      BY <2>1, <3>2, <3>3
  <2> QED
    BY <2>3, <2>4
<1>5. N \in T
  <2> HIDE DEF T, N
  <2>1. \A n \in 0..N : n \in T
    BY <1>2, <1>3, <1>4, UpTo
  <2> QED
    BY <1>2, <2>1
<1>6. f[N] = Keep(s, S)
  BY <1>1 DEF KeepRun
<1> QED
  BY <1>5, <1>6
-----------------------------------------------------------------------------
(* The table.                                                              *)

Entries ==
  {e \in [id : Ids, onion : UNION Range(OnionsOf), age : Ages, fails : Nat] :
     e.onion \in OnionsOf[e.id]}

BucketLists(b) ==
  {s \in Seq(Entries) : /\ Len(s) <= K
                        /\ Distinct(s)
                        /\ \A i \in 1..Len(s) : CommonPrefixLen(Local, s[i].id) = b}

Tables == {t \in [Buckets -> Seq(Entries)] : \A b \in Buckets : t[b] \in BucketLists(b)}
Trackers == [Ids -> [count : Nat, recent : Nat]]

\* Another identifier differs from this node's, so it has a bucket.
LEMMA PrefixBucket ==
  ASSUME NEW id \in Ids
  PROVE  CommonPrefixLen(Local, id) \in Buckets
<1> DEFINE D == {i \in 1..NumBuckets : Local[i] # id[i]}
<1>1. id # Local /\ NumBuckets \in Nat \ {0}
  BY TableAssumption
<1>2. id \in [1..NumBuckets -> {0, 1}] /\ Local \in [1..NumBuckets -> {0, 1}]
  BY TableAssumption
<1>3. D # {} /\ D \subseteq Nat
  BY <1>1, <1>2
<1> HIDE DEF D
<1>4. \E m \in D : \A k \in D : m <= k
  BY <1>3, Least
<1>5. Min(D) \in D
  BY <1>4 DEF Min
<1>6. Min(D) - 1 \in Buckets
  BY <1>1, <1>5 DEF D, Buckets
<1> QED
  BY <1>1, <1>6 DEF CommonPrefixLen, D

\* The first of the places where something holds is one of them.
LEMMA FirstPlace ==
  ASSUME NEW P, P \subseteq Nat, P # {}
  PROVE  Min(P) \in P
<1>1. \E m \in P : \A k \in P : m <= k
  BY Least
<1> QED
  BY <1>1 DEF Min

\* Taking an entry out of a list closes the gap.
LEMMA RemoveAtFacts ==
  ASSUME NEW X, NEW s \in Seq(X), NEW i \in 1..Len(s)
  PROVE  /\ RemoveAt(s, i) \in Seq(X)
         /\ Len(RemoveAt(s, i)) = Len(s) - 1
         /\ \A k \in 1..(Len(s) - 1) : RemoveAt(s, i)[k] = s[IF k < i THEN k ELSE k + 1]
<1> DEFINE l == SubSeq(s, 1, i - 1)
           r == SubSeq(s, i + 1, Len(s))
<1>1. l \in Seq(X) /\ Len(l) = i - 1 /\ \A k \in 1..(i - 1) : l[k] = s[k]
  OBVIOUS
<1>2. r \in Seq(X) /\ Len(r) = Len(s) - i /\ \A k \in 1..(Len(s) - i) : r[k] = s[i + k]
  OBVIOUS
<1>3. RemoveAt(s, i) = l \o r
  BY DEF RemoveAt
<1> HIDE DEF l, r
<1>4. (l \o r) \in Seq(X) /\ Len(l \o r) = Len(s) - 1
  <2>1. l \in Seq(X) /\ r \in Seq(X) /\ Len(l) = i - 1 /\ Len(r) = Len(s) - i
    BY <1>1, <1>2
  <2>2. (l \o r) \in Seq(X) /\ Len(l \o r) = Len(l) + Len(r)
    BY <2>1
  <2>3. Len(s) \in Nat
    OBVIOUS
  <2> QED
    BY <2>1, <2>2, <2>3
<1>5. ASSUME NEW k \in 1..(Len(s) - 1) PROVE (l \o r)[k] = s[IF k < i THEN k ELSE k + 1]
  <2>1. CASE k < i
    BY <1>1, <1>2, <2>1
  <2>2. CASE ~(k < i)
    <3>1. (l \o r)[k] = r[k - (i - 1)]
      BY <1>1, <1>2, <2>2
    <3>2. k - (i - 1) \in 1..(Len(s) - i) /\ i + (k - (i - 1)) = k + 1
      BY <2>2
    <3> QED
      BY <1>2, <2>2, <3>1, <3>2
  <2> QED
    BY <2>1, <2>2
<1> QED
  BY <1>3, <1>4, <1>5

\* The list q is a bucket b that has e and otherwise entries of s, and lists every peer of s.
Grown(q, s, e, b) ==
  /\ q \in BucketLists(b)
  /\ \A k \in 1..Len(q) : q[k] = e \/ \E j \in 1..Len(s) : q[k] = s[j]
  /\ \A j \in 1..Len(s) : \E k \in 1..Len(q) : q[k].id = s[j].id

\* AddPeer moves a refreshed entry to the tail of its bucket.
LEMMA MovedToTail ==
  ASSUME NEW b, NEW s \in BucketLists(b), NEW i \in 1..Len(s),
         NEW e \in Entries, e.id = s[i].id
  PROVE  Grown(Append(RemoveAt(s, i), e), s, e, b)
<1> DEFINE r == RemoveAt(s, i)
           q == Append(r, e)
           n == Len(s)
<1>1. s \in Seq(Entries) /\ n \in Nat /\ n <= K /\ Distinct(s)
      /\ \A j \in 1..n : CommonPrefixLen(Local, s[j].id) = b
  BY DEF BucketLists
<1>2. r \in Seq(Entries) /\ Len(r) = n - 1
      /\ \A k \in 1..(n - 1) : r[k] = s[IF k < i THEN k ELSE k + 1]
  BY <1>1, RemoveAtFacts
<1> HIDE DEF r
<1>3. q \in Seq(Entries) /\ Len(q) = n /\ q[n] = e /\ \A k \in 1..(n - 1) : q[k] = r[k]
  BY <1>1, <1>2
<1> HIDE DEF q
<1>4. ASSUME NEW k \in 1..n, k # n
      PROVE  \E j \in 1..n : j # i /\ q[k] = s[j] /\ j = IF k < i THEN k ELSE k + 1
  BY <1>1, <1>2, <1>3, <1>4
<1>5. ASSUME NEW k \in 1..n PROVE q[k] = e \/ \E j \in 1..n : q[k] = s[j]
  BY <1>3, <1>4
<1>6. ASSUME NEW j \in 1..n PROVE \E k \in 1..n : q[k].id = s[j].id
  <2>1. CASE j = i
    BY <1>1, <1>3, <2>1
  <2>2. CASE j < i
    <3>1. q[j] = s[j]
      BY <1>1, <1>2, <1>3, <2>2, SMTT(30)
    <3> QED
      BY <3>1
  <2>3. CASE j > i
    <3>1. j - 1 \in 1..(n - 1) /\ ~(j - 1 < i) /\ j - 1 + 1 = j
      BY <1>1, <2>3
    <3>2. q[j - 1] = s[j]
      BY <1>2, <1>3, <3>1
    <3> QED
      BY <3>1, <3>2
  <2> QED
    BY <1>1, <2>1, <2>2, <2>3
<1>7. ASSUME NEW k \in 1..n PROVE CommonPrefixLen(Local, q[k].id) = b
  BY <1>1, <1>5
<1>8. Distinct(q)
  <2>1. ASSUME NEW k \in 1..n, k # n PROVE q[k].id # q[n].id
    <3>1. PICK j \in 1..n : j # i /\ q[k] = s[j]
      BY <1>4, <2>1
    <3> QED
      BY <1>1, <1>3, <3>1 DEF Distinct
  <2>2. ASSUME NEW k \in 1..n, NEW m \in 1..n, k # n, m # n, q[k].id = q[m].id PROVE k = m
    <3>1. PICK j \in 1..n : q[k] = s[j] /\ j = IF k < i THEN k ELSE k + 1
      BY <1>4, <2>2
    <3>2. PICK l \in 1..n : q[m] = s[l] /\ l = IF m < i THEN m ELSE m + 1
      BY <1>4, <2>2
    <3>3. j = l
      BY <1>1, <2>2, <3>1, <3>2 DEF Distinct
    <3> QED
      BY <3>1, <3>2, <3>3
  <2> QED
    BY <1>3, <2>1, <2>2 DEF Distinct
<1>9. q \in BucketLists(b)
  BY <1>1, <1>3, <1>7, <1>8 DEF BucketLists
<1> QED
  BY <1>3, <1>5, <1>6, <1>9 DEF q, r, Grown

\* AddPeer appends a peer that its bucket has room for and does not hold.
LEMMA Appended ==
  ASSUME NEW b, NEW s \in BucketLists(b), NEW e \in Entries,
         CommonPrefixLen(Local, e.id) = b, Len(s) < K,
         \A i \in 1..Len(s) : s[i].id # e.id
  PROVE  Grown(Append(s, e), s, e, b)
<1> DEFINE q == Append(s, e)
           n == Len(s)
<1>1. s \in Seq(Entries) /\ n \in Nat /\ Distinct(s) /\ K \in Nat
      /\ \A j \in 1..n : CommonPrefixLen(Local, s[j].id) = b
  BY TableAssumption DEF BucketLists
<1>2. q \in Seq(Entries) /\ Len(q) = n + 1 /\ q[n + 1] = e /\ \A k \in 1..n : q[k] = s[k]
  BY <1>1
<1> HIDE DEF q
<1>3. Distinct(q)
  BY <1>1, <1>2 DEF Distinct
<1>4. q \in BucketLists(b)
  BY <1>1, <1>2, <1>3 DEF BucketLists
<1>5. \A k \in 1..Len(q) : q[k] = e \/ \E j \in 1..Len(s) : q[k] = s[j]
  BY <1>1, <1>2
<1>6. \A j \in 1..Len(s) : \E k \in 1..Len(q) : q[k].id = s[j].id
  BY <1>1, <1>2
<1> QED
  BY <1>4, <1>5, <1>6 DEF q, Grown

\* A table after one entry e was put into a bucket of the table t: nobody left it, and
\* every other entry is one of t.
Follows(u, t, e) ==
  /\ u \in Tables
  /\ \A b \in Buckets : \A k \in 1..Len(u[b]) :
       u[b][k] = e \/ \E j \in 1..Len(t[b]) : u[b][k] = t[b][j]
  /\ \A b \in Buckets : \A j \in 1..Len(t[b]) :
       \E k \in 1..Len(u[b]) : u[b][k].id = t[b][j].id

\* Replacing one bucket.
LEMMA OneBucket ==
  ASSUME NEW t \in Tables, NEW b \in Buckets, NEW q, NEW e, Grown(q, t[b], e, b)
  PROVE  Follows([t EXCEPT ![b] = q], t, e)
<1> DEFINE u == [t EXCEPT ![b] = q]
<1>1. t \in [Buckets -> Seq(Entries)] /\ \A c \in Buckets : t[c] \in BucketLists(c)
  BY DEF Tables
<1>2. q \in BucketLists(b) /\ q \in Seq(Entries)
  BY DEF Grown, BucketLists
<1>3. u \in [Buckets -> Seq(Entries)] /\ u[b] = q /\ \A c \in Buckets : c # b => u[c] = t[c]
  BY <1>1, <1>2
<1> HIDE DEF u
<1>4. u \in Tables
  BY <1>1, <1>2, <1>3 DEF Tables
<1>5. ASSUME NEW c \in Buckets, NEW k \in 1..Len(u[c])
      PROVE  u[c][k] = e \/ \E j \in 1..Len(t[c]) : u[c][k] = t[c][j]
  <2>1. CASE c = b
    BY <1>3, <2>1, Zenon DEF Grown
  <2>2. CASE c # b
    BY <1>3, <2>2, Zenon
  <2> QED
    BY <2>1, <2>2
<1>6. ASSUME NEW c \in Buckets, NEW j \in 1..Len(t[c])
      PROVE  \E k \in 1..Len(u[c]) : u[c][k].id = t[c][j].id
  <2>1. CASE c = b
    BY <1>3, <2>1, Zenon DEF Grown
  <2>2. CASE c # b
    BY <1>3, <2>2, Zenon
  <2> QED
    BY <2>1, <2>2
<1>7. Follows(u, t, e)
  BY <1>4, <1>5, <1>6 DEF Follows
<1> QED
  BY <1>7 DEF u

\* What AddPeer may leave behind: the entry it inserts is the record it was given, the
\* one it refreshes keeps its identifier and its failures.
LEMMA AddPeerFollows ==
  ASSUME NEW s \in [rt : Tables, sources : Trackers], NEW peer \in Records, NEW source
  PROVE  LET r == AddPeer(s, peer, source)
         IN  /\ r \in [rt : Tables, sources : Trackers]
             /\ \/ r.rt = s.rt
                \/ Follows(r.rt, s.rt, peer) /\ peer \in Entries
                \/ \E b \in Buckets : \E i \in 1..Len(s.rt[b]) : \E e \in Entries :
                     /\ Follows(r.rt, s.rt, e)
                     /\ e.id = s.rt[b][i].id /\ e.fails = s.rt[b][i].fails
<1> DEFINE t == s.rt
           b == CommonPrefixLen(Local, peer.id)
           r == AddPeer(s, peer, source)
<1>1. t \in Tables /\ s.sources \in Trackers /\ t \in [Buckets -> Seq(Entries)]
  BY DEF Tables
<1>2. CASE peer.id = Local
  BY <1>2 DEF AddPeer
<1>3. CASE peer.id # Local /\ Present(t, peer.id)
  <2>1. peer.id \in Ids /\ peer.age \in Ages /\ peer.onion \in OnionsOf[peer.id]
        /\ peer.onion \in UNION Range(OnionsOf)
    BY <1>3 DEF Records
  <2>2. b \in Buckets
    BY <2>1, PrefixBucket
  <2> HIDE DEF b
  <2>3. t[b] \in BucketLists(b) /\ t[b] \in Seq(Entries)
    BY <1>1, <2>2 DEF Tables
  <2> DEFINE P == {j \in 1..Len(t[b]) : t[b][j].id = peer.id}
             i == Min(P)
  <2>4. P # {} /\ P \subseteq Nat
    BY <1>3, <2>3 DEF Present, ToSet, b
  <2>5. i \in P
    <3> HIDE DEF P
    <3> QED
      BY <2>4, FirstPlace
  <2>6. i \in 1..Len(t[b]) /\ t[b][i].id = peer.id /\ t[b][i] \in Entries
    <3>1. i \in 1..Len(t[b]) /\ t[b][i].id = peer.id
      BY <2>5
    <3> HIDE DEF i
    <3> QED
      BY <2>3, <3>1
  <2> DEFINE e == [t[b][i] EXCEPT !.age = peer.age, !.onion = peer.onion]
  <2>7. r = [s EXCEPT !.rt = Refreshed(t, peer)]
    BY <1>3 DEF AddPeer
  <2>8. Refreshed(t, peer) = [t EXCEPT ![b] = Append(RemoveAt(t[b], i), e)]
    BY DEF Refreshed, b
  <2> HIDE DEF i, P
  <2>9. e \in Entries /\ e.id = t[b][i].id /\ e.fails = t[b][i].fails
    BY <2>1, <2>6 DEF Entries
  <2> HIDE DEF e
  <2>10. Follows(Refreshed(t, peer), t, e)
    <3>1. Grown(Append(RemoveAt(t[b], i), e), t[b], e, b)
      BY <2>3, <2>6, <2>9, MovedToTail
    <3>2. Follows([t EXCEPT ![b] = Append(RemoveAt(t[b], i), e)], t, e)
      <4> HIDE DEF t
      <4> QED
        BY <1>1, <2>2, <3>1, OneBucket
    <3> QED
      BY <2>8, <3>2
  <2>11. Refreshed(t, peer) \in Tables
    BY <2>10 DEF Follows
  <2>12. r \in [rt : Tables, sources : Trackers] /\ r.rt = Refreshed(t, peer)
    BY <2>7, <2>11
  <2> QED
    BY <2>2, <2>6, <2>9, <2>10, <2>12
<1>4. CASE /\ peer.id # Local /\ ~Present(t, peer.id)
           /\ checkRateLimit(s.sources[source]) /\ Len(t[b]) < K
  <2>1. peer \in Entries
    BY <1>4 DEF Records, Entries
  <2>2. b \in Buckets
    BY <2>1, PrefixBucket DEF Entries
  <2>3. t[b] \in BucketLists(b) /\ t[b] \in Seq(Entries)
    BY <1>1, <2>2 DEF Tables
  <2>4. \A i \in 1..Len(t[b]) : t[b][i].id # peer.id
    BY <1>4, <2>3 DEF Present, ToSet
  <2> DEFINE u == [t EXCEPT ![b] = Append(t[b], peer)]
             v == [s.sources EXCEPT ![source] = recordInsertion(@)]
  <2>5. r = [rt |-> u, sources |-> v]
    BY <1>4 DEF AddPeer
  <2>6. v \in Trackers
    <3>1. CASE source \in Ids
      BY <1>1, <3>1 DEF Trackers, recordInsertion
    <3>2. CASE source \notin Ids
      <4>1. v = s.sources
        BY <1>1, <3>2 DEF Trackers
      <4> QED
        BY <1>1, <4>1
    <3> QED
      BY <3>1, <3>2
  <2>7. Follows(u, t, peer)
    <3> HIDE DEF b
    <3>1. CommonPrefixLen(Local, peer.id) = b
      BY DEF b
    <3> QED
      <4>1. Grown(Append(t[b], peer), t[b], peer, b)
        BY <1>4, <2>1, <2>3, <2>4, <3>1, Appended
      <4> QED
        BY <1>1, <2>2, <4>1, OneBucket
  <2>8. u \in Tables
    BY <2>7 DEF Follows
  <2> HIDE DEF u, v
  <2>9. r \in [rt : Tables, sources : Trackers] /\ r.rt = u
    BY <2>5, <2>6, <2>8
  <2> QED
    BY <2>1, <2>7, <2>9
<1>5. CASE /\ peer.id # Local /\ ~Present(t, peer.id)
           /\ ~(checkRateLimit(s.sources[source]) /\ Len(t[b]) < K)
  BY <1>5 DEF AddPeer
<1> QED
  BY <1>2, <1>3, <1>4, <1>5

\* Nobody whom t lists is missing from u.
Retains(u, t) ==
  \A b \in Buckets : \A j \in 1..Len(t[b]) : \E k \in 1..Len(u[b]) : u[b][k].id = t[b][j].id

\* The failures counted in the table are backed by failed announcements.
Backed(t, m) ==
  \A b \in Buckets : \A i \in 1..Len(t[b]) :
    t[b][i].fails <= m[t[b][i].id] \/ FailureThreshold <= m[t[b][i].id]

TableStates == [rt : Tables, sources : Trackers]

\* AddPeer loses nobody and counts no failure.
LEMMA AddPeerKeeps ==
  ASSUME NEW s \in TableStates, NEW peer \in Records, NEW source,
         NEW m \in [Ids -> Nat], Backed(s.rt, m)
  PROVE  LET r == AddPeer(s, peer, source)
         IN  r \in TableStates /\ Backed(r.rt, m) /\ Retains(r.rt, s.rt)
<1> DEFINE t == s.rt
           r == AddPeer(s, peer, source)
<1>1. t \in Tables
  BY DEF TableStates
<1>2. /\ r \in TableStates
      /\ \/ r.rt = t
         \/ Follows(r.rt, t, peer) /\ peer \in Entries
         \/ \E b \in Buckets : \E i \in 1..Len(t[b]) : \E e \in Entries :
              Follows(r.rt, t, e) /\ e.id = t[b][i].id /\ e.fails = t[b][i].fails
  BY AddPeerFollows DEF TableStates
<1> HIDE DEF t, r
<1>3. CASE r.rt = t
  <2>1. Retains(t, t)
    BY DEF Retains
  <2>2. Backed(t, m)
    BY DEF t
  <2> QED
    BY <1>2, <1>3, <2>1, <2>2 DEF r, t
<1>4. ASSUME NEW e \in Entries, Follows(r.rt, t, e),
             e.fails <= m[e.id] \/ FailureThreshold <= m[e.id]
      PROVE  Backed(r.rt, m) /\ Retains(r.rt, t)
  <2>1. Retains(r.rt, t)
    BY <1>4 DEF Follows, Retains
  <2>2. Backed(t, m)
    BY DEF t
  <2>3. ASSUME NEW b \in Buckets, NEW k \in 1..Len(r.rt[b])
        PROVE  \/ r.rt[b][k].fails <= m[r.rt[b][k].id]
               \/ FailureThreshold <= m[r.rt[b][k].id]
    <3>1. r.rt[b][k] = e \/ \E j \in 1..Len(t[b]) : r.rt[b][k] = t[b][j]
      BY <1>4 DEF Follows
    <3>2. CASE r.rt[b][k] = e
      BY <1>4, <3>2
    <3>3. ASSUME NEW j \in 1..Len(t[b]), r.rt[b][k] = t[b][j]
          PROVE  \/ r.rt[b][k].fails <= m[r.rt[b][k].id]
                 \/ FailureThreshold <= m[r.rt[b][k].id]
      BY <2>2, <3>3 DEF Backed
    <3> QED
      BY <3>1, <3>2, <3>3
  <2>4. Backed(r.rt, m)
    BY <2>3 DEF Backed
  <2> QED
    BY <2>1, <2>4
<1>5. CASE Follows(r.rt, t, peer) /\ peer \in Entries
  <2>1. peer.fails = 0 /\ m[peer.id] \in Nat
    BY <1>5 DEF Records, Entries
  <2>2. peer.fails <= m[peer.id]
    BY <2>1
  <2> QED
    BY <1>2, <1>4, <1>5, <2>2 DEF r, t
<1>6. ASSUME NEW b \in Buckets, NEW i \in 1..Len(t[b]), NEW e \in Entries,
             Follows(r.rt, t, e), e.id = t[b][i].id, e.fails = t[b][i].fails
      PROVE  Backed(r.rt, m) /\ Retains(r.rt, t)
  <2>1. Backed(t, m)
    BY DEF t
  <2>2. e.fails <= m[e.id] \/ FailureThreshold <= m[e.id]
    BY <1>6, <2>1 DEF Backed
  <2> QED
    BY <1>4, <1>6, <2>2
<1> QED
  BY <1>2, <1>3, <1>5, <1>6 DEF r, t

\* What every insertion preserves, the insertion of a list preserves.
LEMMA AddPeersWithin ==
  ASSUME NEW X, NEW s \in X, NEW peers \in Seq(Records), NEW source,
         \A u \in X : \A i \in 1..Len(peers) : AddPeer(u, peers[i], source[i]) \in X
  PROVE  AddPeers(s, peers, source) \in X
<1> DEFINE N == Len(peers)
           Next1(f, i) == IF i = 0 THEN s ELSE AddPeer(f[i - 1], peers[i], source[i])
           Eq(f) == f = [i \in 0..Len(peers) |-> Next1(f, i)]
           step == [i \in 1..N |-> [u \in X |-> AddPeer(u, peers[i], source[i])]]
<1>1. N \in Nat
  OBVIOUS
<1>2. step \in [1..N -> [X -> X]]
  OBVIOUS
<1>3. \E f : Iterates(f, N, X, s, step)
  <2> HIDE DEF N, step
  <2> QED
    BY <1>1, <1>2, Iteration
<1>4. PICK f \in [0..N -> X] : f[0] = s /\ \A i \in 1..N : f[i] = step[i][f[i - 1]]
  <2> HIDE DEF N, step
  <2> QED
    BY <1>3 DEF Iterates
<1>5. Eq(f)
  <2>1. ASSUME NEW i \in 0..N PROVE f[i] = Next1(f, i)
    <3>1. CASE i = 0
      BY <3>1, <1>4
    <3>2. CASE i # 0
      <4>1. i \in 1..N /\ f[i - 1] \in X
        BY <3>2
      <4>2. step[i][f[i - 1]] = AddPeer(f[i - 1], peers[i], source[i])
        BY <4>1
      <4> QED
        BY <4>1, <4>2, <1>4, <3>2
    <3> QED
      BY <3>1, <3>2
  <2>2. DOMAIN f = 0..N /\ f = [i \in DOMAIN f |-> f[i]]
    OBVIOUS
  <2> HIDE DEF Next1
  <2> QED
    BY <2>1, <2>2, Zenon
<1> DEFINE F == CHOOSE g : Eq(g)
<1>6. Eq(F)
  <2> HIDE DEF Eq
  <2> QED
    BY <1>5
<1>7. AddPeers(s, peers, source) = F[N]
  BY DEF AddPeers
<1> HIDE DEF F
<1>8. ASSUME NEW i \in 0..N PROVE F[i] = Next1(F, i)
  <2> HIDE DEF Next1
  <2> QED
    BY <1>6, Zenon
<1> DEFINE T == {n \in 0..N : F[n] \in X}
<1>9. 0 \in T
  <2>1. F[0] = Next1(F, 0)
    BY <1>1, <1>8
  <2> QED
    BY <1>1, <2>1
<1>10. ASSUME NEW n \in 0..(N - 1), n \in T PROVE n + 1 \in T
  <2>1. n + 1 \in 1..N /\ F[n] \in X
    BY <1>10
  <2>2. F[n + 1] = Next1(F, n + 1)
    BY <1>8, <2>1
  <2>3. F[n + 1] = AddPeer(F[n], peers[n + 1], source[n + 1])
    BY <2>1, <2>2
  <2> QED
    BY <2>1, <2>3
<1>11. \A n \in 0..N : n \in T
  <2> HIDE DEF T, N
  <2> QED
    BY <1>1, <1>9, <1>10, UpTo
<1> QED
  BY <1>1, <1>7, <1>11

\* An answer loses nobody and counts no failure, whoever sent it.
LEMMA AddPeersKeeps ==
  ASSUME NEW s \in TableStates, NEW peers \in Seq(Records), NEW source,
         NEW m \in [Ids -> Nat], Backed(s.rt, m)
  PROVE  LET r == AddPeers(s, peers, source)
         IN  r \in TableStates /\ Backed(r.rt, m) /\ Retains(r.rt, s.rt)
<1> DEFINE X == {u \in TableStates : Backed(u.rt, m) /\ Retains(u.rt, s.rt)}
<1>1. s \in X
  BY DEF Retains
<1>2. ASSUME NEW u \in X, NEW i \in 1..Len(peers) PROVE AddPeer(u, peers[i], source[i]) \in X
  <2> DEFINE v == AddPeer(u, peers[i], source[i])
  <2>1. peers[i] \in Records
    OBVIOUS
  <2>2. v \in TableStates /\ Backed(v.rt, m) /\ Retains(v.rt, u.rt)
    BY <2>1, AddPeerKeeps
  <2> HIDE DEF v
  <2>3. Retains(v.rt, s.rt)
    <3> SUFFICES ASSUME NEW b \in Buckets, NEW j \in 1..Len(s.rt[b])
                 PROVE  \E k \in 1..Len(v.rt[b]) : v.rt[b][k].id = s.rt[b][j].id
      BY DEF Retains
    <3>1. PICK l \in 1..Len(u.rt[b]) : u.rt[b][l].id = s.rt[b][j].id
      BY DEF Retains
    <3>2. PICK k \in 1..Len(v.rt[b]) : v.rt[b][k].id = u.rt[b][l].id
      BY <2>2 DEF Retains
    <3> QED
      BY <3>1, <3>2
  <2>4. v \in X
    BY <2>2, <2>3
  <2> QED
    BY <2>4 DEF v
<1>3. AddPeers(s, peers, source) \in X
  <2> HIDE DEF X
  <2> QED
    BY <1>1, <1>2, AddPeersWithin
<1> QED
  BY <1>3

\* The table u has the entries of t that are in S, and no others.
Sieved(u, t, S) ==
  /\ \A b \in Buckets : \A k \in 1..Len(u[b]) :
       \E i \in 1..Len(t[b]) : u[b][k] = t[b][i] /\ t[b][i] \in S[b]
  /\ \A b \in Buckets : \A i \in 1..Len(t[b]) :
       t[b][i] \in S[b] => \E k \in 1..Len(u[b]) : u[b][k] = t[b][i]

\* Keeping some entries of every bucket leaves a table.
LEMMA KeepTable ==
  ASSUME NEW t \in Tables, NEW S, NEW u, u = [b \in Buckets |-> Keep(t[b], S[b])]
  PROVE  u \in Tables /\ Sieved(u, t, S)
<1>1. ASSUME NEW b \in Buckets
      PROVE  /\ u[b] \in BucketLists(b) /\ u[b] \in Seq(Entries)
             /\ Kept(u[b], t[b], Len(t[b]), S[b])
  <2>1. t[b] \in Seq(Entries) /\ Len(t[b]) <= K /\ Distinct(t[b]) /\ K \in Nat
        /\ \A i \in 1..Len(t[b]) : CommonPrefixLen(Local, t[b][i].id) = b
    BY TableAssumption DEF Tables, BucketLists
  <2>2. u[b] = Keep(t[b], S[b])
    OBVIOUS
  <2>3. u[b] \in Seq(Entries) /\ Kept(u[b], t[b], Len(t[b]), S[b])
    BY <2>1, <2>2, KeepFacts
  <2>4. Len(u[b]) <= K /\ Distinct(u[b])
    BY <2>1, <2>3 DEF Kept
  <2>5. ASSUME NEW k \in 1..Len(u[b]) PROVE CommonPrefixLen(Local, u[b][k].id) = b
    BY <2>1, <2>3, SMTT(30) DEF Kept
  <2> QED
    BY <2>3, <2>4, <2>5 DEF BucketLists
<1>2. u \in Tables
  BY <1>1 DEF Tables
<1> QED
  BY <1>1, <1>2 DEF Kept, Sieved

\* The table t with the entry e in place i of bucket b.
Replaced(t, b, i, e) == [t EXCEPT ![b] = [t[b] EXCEPT ![i] = e]]

\* Replacing an entry by one of the same peer changes nothing else.
LEMMA ReplacedFacts ==
  ASSUME NEW t \in Tables, NEW b \in Buckets, NEW i \in 1..Len(t[b]),
         NEW e \in Entries, e.id = t[b][i].id
  PROVE  LET u == Replaced(t, b, i, e)
         IN  /\ u \in Tables
             /\ \A c \in Buckets : Len(u[c]) = Len(t[c])
             /\ u[b][i] = e
             /\ \A c \in Buckets : \A k \in 1..Len(t[c]) :
                  c # b \/ k # i => u[c][k] = t[c][k]
             /\ \A c \in Buckets : \A k \in 1..Len(t[c]) : u[c][k].id = t[c][k].id
<1> DEFINE q == [t[b] EXCEPT ![i] = e]
           u == [t EXCEPT ![b] = q]
<1>1. t \in [Buckets -> Seq(Entries)] /\ \A c \in Buckets : t[c] \in BucketLists(c)
  BY DEF Tables
<1>2. t[b] \in Seq(Entries) /\ Len(t[b]) <= K /\ Distinct(t[b])
      /\ \A k \in 1..Len(t[b]) : CommonPrefixLen(Local, t[b][k].id) = b
  BY <1>1 DEF BucketLists
<1>3. q \in Seq(Entries) /\ Len(q) = Len(t[b])
  BY <1>2
<1>4. q[i] = e /\ \A k \in 1..Len(t[b]) : k # i => q[k] = t[b][k]
  BY <1>2
<1> HIDE DEF q
<1>5. \A k \in 1..Len(t[b]) : q[k].id = t[b][k].id
  BY <1>4
<1>6. q \in BucketLists(b)
  BY <1>2, <1>3, <1>5 DEF BucketLists, Distinct
<1>7. u \in [Buckets -> Seq(Entries)] /\ u[b] = q /\ \A c \in Buckets : c # b => u[c] = t[c]
  BY <1>1, <1>3
<1>8. u = Replaced(t, b, i, e)
  BY DEF Replaced, q
<1> HIDE DEF u
<1>9. u \in Tables
  BY <1>1, <1>6, <1>7 DEF Tables
<1> QED
  BY <1>3, <1>4, <1>5, <1>7, <1>8, <1>9

\* RecordFailure and RecordSuccess touch one entry that has the onion, if there is one.
LEMMA FailuresSet ==
  ASSUME NEW t \in Tables, NEW o
  PROVE  \/ /\ RecordFailure(t, o) = t /\ RecordSuccess(t, o) = t
            /\ BucketsWith(t, o) = {}
            /\ \A b \in Buckets : \A i \in 1..Len(t[b]) : t[b][i].onion # o
         \/ \E b \in Buckets : \E i \in 1..Len(t[b]) :
              /\ t[b][i].onion = o
              /\ BucketsWith(t, o) # {} /\ FirstWith(t, o) = [bucket |-> b, place |-> i]
              /\ RecordFailure(t, o) = Replaced(t, b, i, [t[b][i] EXCEPT !.fails = @ + 1])
              /\ RecordSuccess(t, o) = Replaced(t, b, i, [t[b][i] EXCEPT !.fails = 0])
<1> DEFINE hits == BucketsWith(t, o)
           b == Min(hits)
           P == {j \in 1..Len(t[b]) : t[b][j].onion = o}
           i == Min(P)
<1>1. t \in [Buckets -> Seq(Entries)]
  BY DEF Tables
<1>2. CASE hits = {}
  <2>1. \A c \in Buckets : \A k \in 1..Len(t[c]) : t[c][k].onion # o
    BY <1>1, <1>2 DEF BucketsWith, ToSet
  <2>2. RecordFailure(t, o) = t /\ RecordSuccess(t, o) = t
    BY <1>2 DEF RecordFailure, RecordSuccess, SetFailures
  <2> QED
    BY <1>2, <2>1, <2>2
<1>3. CASE hits # {}
  <2>1. hits \subseteq Nat
    BY DEF Buckets, BucketsWith
  <2>2. b \in hits
    <3> HIDE DEF hits
    <3> QED
      BY <1>3, <2>1, FirstPlace
  <2>3. b \in Buckets /\ \E e \in ToSet(t[b]) : e.onion = o
    BY <2>2 DEF BucketsWith
  <2>4. FirstWith(t, o) = [bucket |-> b, place |-> i]
    BY DEF FirstWith
  <2>5. /\ RecordFailure(t, o) = Replaced(t, b, i, [t[b][i] EXCEPT !.fails = @ + 1])
        /\ RecordSuccess(t, o) = Replaced(t, b, i, [t[b][i] EXCEPT !.fails = 0])
    BY <1>3, <2>4 DEF RecordFailure, RecordSuccess, SetFailures, Replaced
  <2> HIDE DEF b
  <2>6. P # {} /\ P \subseteq Nat
    BY <1>1, <2>3 DEF ToSet
  <2>7. i \in P
    <3> HIDE DEF P
    <3> QED
      BY <2>6, FirstPlace
  <2>8. i \in 1..Len(t[b]) /\ t[b][i].onion = o
    BY <2>7
  <2> QED
    BY <1>3, <2>3, <2>4, <2>5, <2>8
<1> QED
  BY <1>2, <1>3
-----------------------------------------------------------------------------
(* The file: lists of entries without failures that fit a table.           *)

Places(s, b) == {i \in 1..Len(s) : CommonPrefixLen(Local, s[i].id) = b}

Lists ==
  {s \in Seq(Entries) : /\ \A i \in 1..Len(s) : s[i].fails = 0
                        /\ Distinct(s)
                        /\ \A b \in Buckets : Cardinality(Places(s, b)) <= K}

\* Every x of S has a y of T of its own.
Matches(R, S, T) ==
  /\ \A x \in S : \E y \in T : <<x, y>> \in R
  /\ \A x, z \in S : \A y \in T : <<x, y>> \in R /\ <<z, y>> \in R => x = z

\* A set that is matched with a finite set is no larger.
LEMMA Counting ==
  ASSUME NEW S, NEW T, NEW R, IsFiniteSet(T), Matches(R, S, T)
  PROVE  IsFiniteSet(S) /\ Cardinality(S) <= Cardinality(T)
<1> DEFINE f == [x \in S |-> CHOOSE y \in T : <<x, y>> \in R]
<1>1. ASSUME NEW x \in S PROVE f[x] \in T /\ <<x, f[x]>> \in R
  BY DEF Matches
<1>2. f \in [S -> T]
  BY <1>1
<1>3. DOMAIN f = S
  OBVIOUS
<1> HIDE DEF f
<1>4. ASSUME NEW x \in S, NEW z \in S, f[x] = f[z] PROVE x = z
  BY <1>1, <1>4 DEF Matches
<1>5. f \in Injection(S, T)
  BY <1>2, <1>3, <1>4 DEF Injection, IsInjective
<1> QED
  BY <1>5, FS_Injection

\* The places of a list are finitely many.
LEMMA PlacesFinite ==
  ASSUME NEW X, NEW s \in Seq(X), NEW b
  PROVE  IsFiniteSet(Places(s, b)) /\ Cardinality(Places(s, b)) \in Nat
<1>1. IsFiniteSet(1..Len(s))
  BY FS_Interval
<1>2. Places(s, b) \in SUBSET (1..Len(s))
  BY DEF Places
<1>3. IsFiniteSet(Places(s, b))
  BY <1>1, <1>2, FS_Subset
<1> QED
  BY <1>3, FS_CardinalityType

\* The list c is r and then q.
Joined(c, r, q) ==
  /\ \A k \in 1..Len(c) : \/ \E i \in 1..Len(r) : c[k] = r[i] /\ k = i
                          \/ \E j \in 1..Len(q) : c[k] = q[j] /\ k = Len(r) + j
  /\ \A i \in 1..Len(r) : \E k \in 1..Len(c) : c[k] = r[i]
  /\ \A j \in 1..Len(q) : \E k \in 1..Len(c) : c[k] = q[j]

\* Every entry of r is one of s.
Drawn(r, s) == \A k \in 1..Len(r) : \E i \in 1..Len(s) : r[k] = s[i]

\* No peer is in both lists.
Apart(r, q) == \A i \in 1..Len(r), j \in 1..Len(q) : r[i].id # q[j].id

\* Which entries a concatenation has.
LEMMA ConcatFacts ==
  ASSUME NEW X, NEW r \in Seq(X), NEW q \in Seq(X)
  PROVE  r \o q \in Seq(X) /\ Joined(r \o q, r, q)
<1> DEFINE c == r \o q
<1>1. Len(r) \in Nat /\ Len(q) \in Nat
  OBVIOUS
<1>2. c \in Seq(X) /\ Len(c) = Len(r) + Len(q)
  OBVIOUS
<1>3. \A i \in 1..Len(r) : c[i] = r[i]
  OBVIOUS
<1>4. \A j \in 1..Len(q) : c[Len(r) + j] = q[j]
  OBVIOUS
<1> HIDE DEF c
<1>5. ASSUME NEW k \in 1..Len(c)
      PROVE  \/ \E i \in 1..Len(r) : c[k] = r[i] /\ k = i
             \/ \E j \in 1..Len(q) : c[k] = q[j] /\ k = Len(r) + j
  <2>1. CASE k <= Len(r)
    BY <1>1, <1>3, <2>1
  <2>2. CASE ~(k <= Len(r))
    <3>1. k - Len(r) \in 1..Len(q) /\ Len(r) + (k - Len(r)) = k
      BY <1>1, <1>2, <2>2
    <3> QED
      BY <1>4, <3>1
  <2> QED
    BY <2>1, <2>2
<1>6. ASSUME NEW i \in 1..Len(r) PROVE i \in 1..Len(c)
  BY <1>1, <1>2
<1>7. ASSUME NEW j \in 1..Len(q) PROVE Len(r) + j \in 1..Len(c)
  BY <1>1, <1>2
<1> QED
  BY <1>2, <1>3, <1>4, <1>5, <1>6, <1>7 DEF c, Joined

\* The peers of two lists with no peer in common are different.
LEMMA ConcatDistinct ==
  ASSUME NEW X, NEW r \in Seq(X), NEW q \in Seq(X), Distinct(r), Distinct(q), Apart(r, q)
  PROVE  Distinct(r \o q)
<1> DEFINE c == r \o q
<1>1. \A k \in 1..Len(c) : \/ \E i \in 1..Len(r) : c[k] = r[i] /\ k = i
                           \/ \E j \in 1..Len(q) : c[k] = q[j] /\ k = Len(r) + j
  BY ConcatFacts DEF Joined
<1> HIDE DEF c
<1>2. ASSUME NEW k \in 1..Len(c), NEW l \in 1..Len(c), c[k].id = c[l].id PROVE k = l
  <2>1. CASE \E i \in 1..Len(r) : c[k] = r[i] /\ k = i
    <3>1. PICK i \in 1..Len(r) : c[k] = r[i] /\ k = i
      BY <2>1
    <3>2. \A j \in 1..Len(q) : c[l] # q[j]
      BY <1>2, <3>1 DEF Apart
    <3>3. PICK m \in 1..Len(r) : c[l] = r[m] /\ l = m
      BY <1>1, <3>2
    <3> QED
      BY <1>2, <3>1, <3>3 DEF Distinct
  <2>2. CASE \E j \in 1..Len(q) : c[k] = q[j] /\ k = Len(r) + j
    <3>1. PICK j \in 1..Len(q) : c[k] = q[j] /\ k = Len(r) + j
      BY <2>2
    <3>2. \A i \in 1..Len(r) : c[l] # r[i]
      BY <1>2, <3>1 DEF Apart
    <3>3. PICK m \in 1..Len(q) : c[l] = q[m] /\ l = Len(r) + m
      BY <1>1, <3>2
    <3>4. j = m
      BY <1>2, <3>1, <3>3 DEF Distinct
    <3> QED
      BY <3>1, <3>3, <3>4
  <2> QED
    BY <1>1, <2>1, <2>2
<1> QED
  BY <1>2 DEF Distinct, c

FlatRun(f, X, q) ==
  /\ f \in [1..Len(q) -> Seq(X)]
  /\ f[1] = q[1]
  /\ \A i \in 2..Len(q) : f[i] = f[i - 1] \o q[i]
  /\ FlattenSeq(q) = f[Len(q)]

\* FlattenSeq takes one list after the other.
LEMMA FlattenSteps ==
  ASSUME NEW X, NEW q \in Seq(Seq(X)), Len(q) # 0
  PROVE  \E f : FlatRun(f, X, q)
<1> DEFINE N == Len(q)
           Next1(f, i) == IF i = 1 THEN q[i] ELSE f[i - 1] \o q[i]
           Eq(f) == f = [i \in 1..Len(q) |-> Next1(f, i)]
           step == [i \in 1..N |-> [t \in Seq(X) |-> t \o q[i]]]
<1>1. N \in Nat /\ N > 0 /\ \A i \in 1..N : q[i] \in Seq(X)
  OBVIOUS
<1>2. <<>> \in Seq(X)
  OBVIOUS
<1>3. step \in [1..N -> [Seq(X) -> Seq(X)]]
  BY <1>1
<1>4. \E f : Iterates(f, N, Seq(X), <<>>, step)
  <2> HIDE DEF N, step
  <2> QED
    BY <1>1, <1>2, <1>3, Iteration
<1>5. PICK f \in [0..N -> Seq(X)] : f[0] = <<>> /\ \A i \in 1..N : f[i] = step[i][f[i - 1]]
  <2> HIDE DEF N, step
  <2> QED
    BY <1>4 DEF Iterates
<1> DEFINE g == [i \in 1..N |-> f[i]]
<1>6. Eq(g)
  <2>1. ASSUME NEW i \in 1..N PROVE g[i] = Next1(g, i)
    <3>1. f[i - 1] \in Seq(X) /\ q[i] \in Seq(X)
      <4>1. i - 1 \in 0..N
        BY <1>1
      <4> HIDE DEF N
      <4> QED
        BY <1>1, <4>1, Zenon
    <3>2. g[i] = f[i - 1] \o q[i]
      BY <1>5, <3>1
    <3>3. CASE i = 1
      <4>1. f[i - 1] = <<>> /\ q[1] \in Seq(X)
        BY <1>5, <3>1, <3>3
      <4>2. <<>> \o q[1] = q[1]
        BY <4>1
      <4> QED
        BY <3>2, <3>3, <4>1, <4>2
    <3>4. CASE i # 1
      <4>1. i - 1 \in 1..N
        BY <3>4
      <4> QED
        BY <3>2, <3>4, <4>1
    <3> QED
      BY <3>3, <3>4
  <2>2. DOMAIN g = 1..N /\ g = [i \in DOMAIN g |-> g[i]]
    OBVIOUS
  <2> HIDE DEF Next1, g
  <2> QED
    BY <2>1, <2>2, Zenon
<1> DEFINE F == CHOOSE h : Eq(h)
<1>7. Eq(F)
  <2> HIDE DEF Eq
  <2> QED
    BY <1>6
<1>8. FlattenSeq(q) = F[N]
  BY <1>1 DEF FlattenSeq
<1> HIDE DEF F
<1>9. ASSUME NEW i \in 1..N PROVE F[i] = Next1(F, i)
  <2> HIDE DEF Next1
  <2> QED
    BY <1>7, Zenon
<1>10. F[1] = q[1]
  <2>1. F[1] = Next1(F, 1)
    BY <1>1, <1>9
  <2> QED
    BY <2>1
<1>11. ASSUME NEW i \in 2..N PROVE F[i] = F[i - 1] \o q[i]
  <2>1. F[i] = Next1(F, i)
    BY <1>9
  <2>2. i # 1
    OBVIOUS
  <2> QED
    BY <2>1, <2>2, Zenon
<1> DEFINE T == {n \in 0..N : n = 0 \/ F[n] \in Seq(X)}
<1>12. ASSUME NEW n \in 0..(N - 1), n \in T PROVE n + 1 \in T
  <2>1. CASE n = 0
    <3>1. F[1] \in Seq(X)
      BY <1>1, <1>10
    <3> QED
      BY <1>1, <2>1, <3>1
  <2>2. CASE n # 0
    <3>1. n + 1 \in 2..N /\ F[n] \in Seq(X) /\ q[n + 1] \in Seq(X)
      <4>1. n + 1 \in 2..N /\ n + 1 \in 1..N
        BY <1>1, <2>2
      <4>2. F[n] \in Seq(X)
        BY <1>12, <2>2, Zenon
      <4> HIDE DEF N
      <4> QED
        BY <1>1, <4>1, <4>2, Zenon
    <3>2. F[n + 1] = F[n] \o q[n + 1]
      <4> DEFINE m == n + 1
      <4>1. m \in 2..N /\ n = m - 1
        BY <3>1
      <4> HIDE DEF m, N
      <4>2. F[m] = F[m - 1] \o q[m]
        BY <1>11, <4>1, Zenon
      <4>3. F[m] = F[n] \o q[m]
        BY <4>1, <4>2, Zenon
      <4> QED
        BY <4>3 DEF m
    <3>3. F[n + 1] \in Seq(X)
      BY <3>1, <3>2
    <3> QED
      BY <3>1, <3>3
  <2> QED
    BY <2>1, <2>2
<1>13. \A n \in 0..N : n \in T
  <2>1. 0 \in T
    BY <1>1
  <2> HIDE DEF T, N
  <2> QED
    BY <1>1, <1>12, <2>1, UpTo
<1>14. F \in [1..N -> Seq(X)]
  <2>1. DOMAIN F = 1..N /\ F = [i \in DOMAIN F |-> F[i]]
    BY <1>7
  <2>2. ASSUME NEW i \in 1..N PROVE F[i] \in Seq(X)
    BY <1>1, <1>13
  <2> QED
    BY <2>1, <2>2
<1> QED
  BY <1>8, <1>10, <1>11, <1>14 DEF FlatRun

\* A list of entries from the buckets before n, no peer twice.
From(r, q, n) ==
  /\ \A k \in 1..Len(r) : \E m \in 1..n : \E j \in 1..Len(q[m]) : r[k] = q[m][j]
  /\ Distinct(r)

\* The buckets of a table, numbered from 1, without the failures.
Rows(q) ==
  /\ q \in Seq(Seq(Entries)) /\ Len(q) = NumBuckets
  /\ \A m \in 1..NumBuckets :
       /\ Len(q[m]) <= K /\ Distinct(q[m])
       /\ \A j \in 1..Len(q[m]) :
            q[m][j].fails = 0 /\ CommonPrefixLen(Local, q[m][j].id) = m - 1

\* One bucket after the other repeats no peer.
LEMMA FlattenRows ==
  ASSUME NEW q, Rows(q)
  PROVE  FlattenSeq(q) \in Seq(Entries) /\ From(FlattenSeq(q), q, NumBuckets)
<1> DEFINE N == NumBuckets
<1>1. N \in Nat /\ N > 0
  BY TableAssumption
<1>2. q \in Seq(Seq(Entries)) /\ Len(q) = N /\ \A m \in 1..N : q[m] \in Seq(Entries)
  BY DEF Rows
<1>3. PICK f : FlatRun(f, Entries, q)
  BY <1>1, <1>2, FlattenSteps
<1>4. /\ f \in [1..N -> Seq(Entries)]
      /\ f[1] = q[1] /\ \A i \in 2..N : f[i] = f[i - 1] \o q[i]
      /\ FlattenSeq(q) = f[N]
  BY <1>2, <1>3 DEF FlatRun
<1> DEFINE T == {n \in 0..N : n = 0 \/ From(f[n], q, n)}
<1>5. ASSUME NEW n \in 0..(N - 1), n \in T PROVE n + 1 \in T
  <2>1. CASE n = 0
    <3>1. From(q[1], q, 1)
      BY <1>1 DEF From, Rows
    <3> QED
      BY <1>1, <1>4, <2>1, <3>1
  <2>2. CASE n # 0
    <3> DEFINE m == n + 1
               r == f[n]
               c == r \o q[m]
    <3>1. m \in 2..N /\ m \in 1..N /\ n \in 1..N /\ n = m - 1
      BY <1>1, <2>2
    <3>2. From(r, q, n) /\ f[m] = c
      <4>1. From(r, q, n)
        BY <1>5, <2>2, Zenon
      <4> HIDE DEF N, m
      <4>2. f[m] = f[m - 1] \o q[m]
        BY <1>4, <3>1, Zenon
      <4> QED
        BY <3>1, <4>1, <4>2, Zenon
    <3>3. r \in Seq(Entries) /\ q[m] \in Seq(Entries)
      <4> HIDE DEF N, m
      <4> QED
        BY <1>2, <1>4, <3>1, Zenon
    <3> HIDE DEF r
    <3>4. Distinct(c)
      <4>1. ASSUME NEW i \in 1..Len(r), NEW j \in 1..Len(q[m]) PROVE r[i].id # q[m][j].id
        <5>1. PICK l \in 1..n : \E k \in 1..Len(q[l]) : r[i] = q[l][k]
          BY <3>2 DEF From
        <5>2. PICK k \in 1..Len(q[l]) : r[i] = q[l][k]
          BY <5>1
        <5>3. l \in 1..N /\ m \in 1..N /\ l # m
          BY <1>1, <3>1
        <5>4. CommonPrefixLen(Local, r[i].id) = l - 1
          BY <5>2, <5>3 DEF Rows
        <5>5. CommonPrefixLen(Local, q[m][j].id) = m - 1
          BY <5>3 DEF Rows
        <5> QED
          BY <5>3, <5>4, <5>5
      <4>2. Distinct(r) /\ Distinct(q[m])
        BY <3>1, <3>2 DEF From, Rows
      <4>3. Apart(r, q[m])
        BY <4>1 DEF Apart
      <4> HIDE DEF m
      <4> QED
        BY <3>3, <4>2, <4>3, ConcatDistinct
    <3>5. ASSUME NEW k \in 1..Len(c)
          PROVE  \E l \in 1..m : \E j \in 1..Len(q[l]) : c[k] = q[l][j]
      <4>1. \/ \E i \in 1..Len(r) : c[k] = r[i]
            \/ \E j \in 1..Len(q[m]) : c[k] = q[m][j]
        <5> HIDE DEF m, N
        <5>1. Joined(c, r, q[m])
          BY <3>3, ConcatFacts, Zenon
        <5> HIDE DEF c
        <5> QED
          BY <5>1, Zenon DEF Joined
      <4> HIDE DEF c
      <4>2. CASE \E i \in 1..Len(r) : c[k] = r[i]
        <5>1. PICK i \in 1..Len(r) : c[k] = r[i]
          BY <4>2
        <5>2. PICK l \in 1..n : \E j \in 1..Len(q[l]) : r[i] = q[l][j]
          BY <3>2 DEF From
        <5>3. l \in 1..m
          BY <3>1
        <5> QED
          BY <5>1, <5>2, <5>3
      <4>3. CASE \E j \in 1..Len(q[m]) : c[k] = q[m][j]
        <5>1. m \in 1..m
          BY <3>1
        <5> QED
          BY <4>3, <5>1
      <4> QED
        BY <4>1, <4>2, <4>3
    <3>6. From(c, q, m)
      BY <3>4, <3>5 DEF From
    <3>7. m \in 0..N
      BY <3>1
    <3> HIDE DEF m, N, c
    <3>8. m \in T
      BY <3>2, <3>6, <3>7, Zenon
    <3> QED
      BY <3>8 DEF m
  <2> QED
    BY <2>1, <2>2
<1>6. N \in T
  <2>1. 0 \in T
    BY <1>1
  <2> HIDE DEF T, N
  <2>2. \A n \in 0..N : n \in T
    BY <1>1, <1>5, <2>1, UpTo
  <2> QED
    BY <1>1, <2>2
<1>7. From(f[N], q, N)
  BY <1>1, <1>6
<1>8. f[N] \in Seq(Entries)
  BY <1>1, <1>4
<1> QED
  BY <1>4, <1>7, <1>8

\* Places of a list without duplicates whose entries are at places T of another.
LEMMA Embedded ==
  ASSUME NEW s, Distinct(s), NEW S, S \subseteq 1..Len(s), NEW q, NEW T, IsFiniteSet(T),
         \A x \in S : \E y \in T : s[x] = q[y]
  PROVE  IsFiniteSet(S) /\ Cardinality(S) <= Cardinality(T)
<1> DEFINE R == {p \in S \X T : s[p[1]] = q[p[2]]}
<1>1. \A x \in S : \E y \in T : <<x, y>> \in R
  OBVIOUS
<1>2. ASSUME NEW x \in S, NEW z \in S, NEW y \in T, <<x, y>> \in R, <<z, y>> \in R
      PROVE  x = z
  <2>1. s[x] = q[y] /\ s[z] = q[y]
    BY <1>2
  <2>2. s[x].id = s[z].id /\ x \in 1..Len(s) /\ z \in 1..Len(s)
    BY <2>1
  <2> QED
    BY <2>2 DEF Distinct
<1>3. Matches(R, S, T)
  BY <1>1, <1>2 DEF Matches
<1> HIDE DEF R
<1> QED
  BY <1>3, Counting

\* Save writes a list that fits a table.
LEMMA SavedFits ==
  ASSUME NEW t \in Tables
  PROVE  Saved(t) \in Lists
<1> DEFINE Row(n) == [i \in 1..Len(t[n - 1]) |-> [t[n - 1][i] EXCEPT !.fails = 0]]
           q == [n \in 1..NumBuckets |-> Row(n)]
           s == FlattenSeq(q)
<1>1. NumBuckets \in Nat /\ K \in Nat
  BY TableAssumption
<1>2. ASSUME NEW n \in 1..NumBuckets
      PROVE  /\ Row(n) \in Seq(Entries) /\ Len(Row(n)) <= K /\ Distinct(Row(n))
             /\ \A j \in 1..Len(Row(n)) :
                  Row(n)[j].fails = 0 /\ CommonPrefixLen(Local, Row(n)[j].id) = n - 1
  <2> DEFINE b == n - 1
             r == [i \in 1..Len(t[b]) |-> [t[b][i] EXCEPT !.fails = 0]]
  <2>1. b \in Buckets
    BY <1>1 DEF Buckets
  <2>2. r = Row(n)
    OBVIOUS
  <2> HIDE DEF b
  <2>3. t[b] \in Seq(Entries) /\ Len(t[b]) <= K /\ Distinct(t[b])
        /\ \A i \in 1..Len(t[b]) : CommonPrefixLen(Local, t[b][i].id) = b
    BY <2>1 DEF Tables, BucketLists
  <2>4. ASSUME NEW i \in 1..Len(t[b])
        PROVE  LET e == [t[b][i] EXCEPT !.fails = 0]
               IN  e \in Entries /\ e.fails = 0 /\ e.id = t[b][i].id
    <3>1. t[b][i] \in Entries
      BY <2>3
    <3> QED
      BY <3>1 DEF Entries
  <2>5. Len(t[b]) \in Nat
    BY <2>3
  <2>6. r \in Seq(Entries) /\ Len(r) = Len(t[b])
    BY <2>4, <2>5
  <2>7. \A i \in 1..Len(t[b]) : r[i].fails = 0 /\ r[i].id = t[b][i].id
    BY <2>4
  <2> HIDE DEF r
  <2>8. Distinct(r)
    BY <2>3, <2>6, <2>7 DEF Distinct
  <2>9. \A i \in 1..Len(r) : r[i].fails = 0 /\ CommonPrefixLen(Local, r[i].id) = n - 1
    BY <2>3, <2>6, <2>7 DEF b
  <2>10. Len(r) <= K
    BY <2>3, <2>6
  <2> HIDE DEF Row
  <2> QED
    BY <2>2, <2>6, <2>8, <2>9, <2>10
<1>3. Rows(q)
  <2> HIDE DEF Row
  <2>1. q \in Seq(Seq(Entries)) /\ Len(q) = NumBuckets
    BY <1>1, <1>2
  <2>2. \A m \in 1..NumBuckets : q[m] = Row(m)
    OBVIOUS
  <2> HIDE DEF q
  <2> QED
    BY <1>2, <2>1, <2>2 DEF Rows
<1>4. Saved(t) = s
  BY DEF Saved
<1> HIDE DEF q
<1>5. s \in Seq(Entries) /\ From(s, q, NumBuckets)
  BY <1>3, FlattenRows
<1> HIDE DEF s
<1>6. ASSUME NEW k \in 1..Len(s)
      PROVE  \E m \in 1..NumBuckets : \E j \in 1..Len(q[m]) :
               s[k] = q[m][j] /\ s[k].fails = 0 /\ CommonPrefixLen(Local, s[k].id) = m - 1
  BY <1>3, <1>5, ZenonT(60) DEF From, Rows
<1>7. ASSUME NEW b \in Buckets PROVE Cardinality(Places(s, b)) <= K
  <2> DEFINE m == b + 1
  <2>1. m \in 1..NumBuckets /\ \A l \in 1..NumBuckets : l - 1 = b => l = m
    BY <1>1 DEF Buckets
  <2> HIDE DEF m
  <2>2. Places(s, b) \subseteq 1..Len(s)
    BY DEF Places
  <2>3. ASSUME NEW x \in Places(s, b) PROVE \E y \in 1..Len(q[m]) : s[x] = q[m][y]
    <3>1. x \in 1..Len(s) /\ CommonPrefixLen(Local, s[x].id) = b
      BY DEF Places
    <3>2. PICK l \in 1..NumBuckets : \E j \in 1..Len(q[l]) :
               s[x] = q[l][j] /\ CommonPrefixLen(Local, s[x].id) = l - 1
      BY <1>6, <3>1
    <3>3. l = m
      BY <2>1, <3>1, <3>2
    <3> QED
      BY <3>2, <3>3
  <2>4. Len(q[m]) \in Nat /\ Len(q[m]) <= K
    BY <1>3, <2>1 DEF Rows
  <2>5. IsFiniteSet(1..Len(q[m])) /\ Cardinality(1..Len(q[m])) = Len(q[m])
    BY <2>4, FS_Interval
  <2>6. Distinct(s)
    BY <1>5 DEF From
  <2>7. Cardinality(Places(s, b)) <= Cardinality(1..Len(q[m]))
    BY <2>2, <2>3, <2>5, <2>6, Embedded
  <2>8. Cardinality(Places(s, b)) \in Nat
    BY <1>5, PlacesFinite
  <2> QED
    BY <1>1, <2>4, <2>5, <2>7, <2>8
<1> QED
  BY <1>4, <1>5, <1>6, <1>7 DEF Lists, From

\* Fields read late do not change what fits.
LEMMA SameIdsFit ==
  ASSUME NEW s \in Lists, NEW r \in Seq(Entries), Len(r) = Len(s),
         \A i \in 1..Len(s) : r[i].id = s[i].id /\ r[i].fails = 0
  PROVE  r \in Lists
<1>1. Distinct(r)
  BY DEF Lists, Distinct
<1>2. ASSUME NEW b \in Buckets PROVE Places(r, b) = Places(s, b)
  BY DEF Places
<1> QED
  BY <1>1, <1>2 DEF Lists

\* What an earlier run left fits.
LEMMA FilesFit ==
  ASSUME NEW f \in Files \ {None, Torn}
  PROVE  f \in Lists
<1>1. f \in Seq(Records) /\ FitsTable(f)
  BY RecordAssumption
<1>2. ASSUME NEW i \in 1..Len(f) PROVE f[i] \in Entries /\ f[i].fails = 0
  <2>1. f[i] \in Records /\ f[i] \in ToSet(f)
    BY <1>1 DEF ToSet
  <2>2. f[i].id # Local
    BY <1>1, <2>1 DEF FitsTable
  <2> QED
    BY <2>1, <2>2 DEF Records, Entries
<1>3. f \in Seq(Entries)
  BY <1>1, <1>2
<1>4. Distinct(f)
  <2> DEFINE g == [i \in DOMAIN f |-> f[i].id]
  <2>1. DOMAIN f = 1..Len(f)
    BY <1>1
  <2>2. IsInjective(g) /\ DOMAIN g = DOMAIN f
    BY <1>1 DEF FitsTable
  <2>3. \A i \in DOMAIN f : g[i] = f[i].id
    OBVIOUS
  <2> HIDE DEF g
  <2> QED
    BY <2>1, <2>2, <2>3 DEF IsInjective, Distinct
<1>5. ASSUME NEW b \in Buckets PROVE Cardinality(Places(f, b)) <= K
  <2> DEFINE E == {e \in ToSet(f) : CommonPrefixLen(Local, e.id) = b}
             R == {p \in Places(f, b) \X E : f[p[1]] = p[2]}
  <2>1. IsFiniteSet(1..Len(f))
    BY <1>1, FS_Interval
  <2>2. f \in Surjection(1..Len(f), ToSet(f))
    <3>1. f \in [1..Len(f) -> ToSet(f)]
      BY <1>1 DEF ToSet
    <3>2. \A e \in ToSet(f) : \E i \in 1..Len(f) : f[i] = e
      BY <1>1 DEF ToSet
    <3> QED
      BY <3>1, <3>2, Zenon DEF Surjection
  <2>3. IsFiniteSet(ToSet(f))
    BY <2>1, <2>2, FS_Surjection
  <2>4. IsFiniteSet(E)
    <3>1. E \in SUBSET ToSet(f)
      OBVIOUS
    <3> HIDE DEF E
    <3> QED
      BY <2>3, <3>1, FS_Subset
  <2>5. Cardinality(E) <= K
    BY <1>1 DEF FitsTable
  <2>6. ASSUME NEW x \in Places(f, b) PROVE f[x] \in E /\ <<x, f[x]>> \in R
    BY <1>1 DEF Places, ToSet
  <2>7. ASSUME NEW x \in Places(f, b), NEW z \in Places(f, b), NEW y \in E,
               <<x, y>> \in R, <<z, y>> \in R
        PROVE  x = z
    <3>1. f[x].id = f[z].id /\ x \in 1..Len(f) /\ z \in 1..Len(f)
      BY <2>7 DEF Places
    <3> QED
      BY <1>4, <3>1 DEF Distinct
  <2> HIDE DEF R, E
  <2>8. Matches(R, Places(f, b), E)
    BY <2>6, <2>7 DEF Matches
  <2>9. Cardinality(Places(f, b)) <= Cardinality(E)
    BY <2>4, <2>8, Counting
  <2>10. Cardinality(Places(f, b)) \in Nat /\ Cardinality(E) \in Nat /\ K \in Nat
    BY <1>1, <2>4, PlacesFinite, FS_CardinalityType, TableAssumption
  <2> QED
    BY <2>5, <2>9, <2>10
<1> QED
  BY <1>2, <1>3, <1>4, <1>5 DEF Lists

\* The same entries in another order.
Reordered(r, s) ==
  /\ r \in Seq(Entries)
  /\ Distinct(r)
  /\ Drawn(r, s)
  /\ Drawn(s, r)

AgeIn(r, A) == \A k \in 1..Len(r) : r[k].age \in A

\* The entries of one age, in their order.
OfAgeList(r, s, age) ==
  /\ r \in Seq(Entries)
  /\ Distinct(r)
  /\ Drawn(r, s)
  /\ AgeIn(r, {age})
  /\ \A i \in 1..Len(s) : s[i].age = age => \E k \in 1..Len(r) : r[k] = s[i]

\* Load takes the entries of one age after those of another.
LEMMA OfAgeFacts ==
  ASSUME NEW s \in Seq(Entries), Distinct(s), NEW age
  PROVE  OfAgeList(OfAge(s, age), s, age)
<1> DEFINE S == {e \in ToSet(s) : e.age = age}
           r == Keep(s, S)
<1>1. OfAge(s, age) = r
  BY DEF OfAge
<1>2. \A i \in 1..Len(s) : s[i] \in S <=> s[i].age = age
  BY DEF ToSet
<1> HIDE DEF S
<1>3. r \in Seq(Entries) /\ Kept(r, s, Len(s), S)
  BY KeepFacts
<1> HIDE DEF r
<1> QED
  BY <1>1, <1>2, <1>3, SMTT(30) DEF Kept, OfAgeList, Drawn, AgeIn

\* Entries of different ages are different peers.
LEMMA OtherAge ==
  ASSUME NEW s, Distinct(s), NEW r, NEW q, Drawn(r, s), Drawn(q, s),
         NEW A, NEW B, AgeIn(r, A), AgeIn(q, B), A \cap B = {}
  PROVE  Apart(r, q)
<1> SUFFICES ASSUME NEW i \in 1..Len(r), NEW j \in 1..Len(q), r[i].id = q[j].id PROVE FALSE
  BY DEF Apart
<1>1. PICK k \in 1..Len(s) : r[i] = s[k]
  BY DEF Drawn
<1>2. PICK l \in 1..Len(s) : q[j] = s[l]
  BY DEF Drawn
<1>3. k = l
  BY <1>1, <1>2 DEF Distinct
<1>4. r[i].age \in A /\ q[j].age \in B
  BY DEF AgeIn
<1> QED
  BY <1>1, <1>2, <1>3, <1>4

\* Load sorts: the same entries, the most recently seen first.
LEMMA SortedFacts ==
  ASSUME NEW s \in Seq(Entries), Distinct(s)
  PROVE  Reordered(OfAge(s, "fresh") \o OfAge(s, "expired") \o OfAge(s, "ancient"), s)
<1> DEFINE a == OfAge(s, "fresh")
           b == OfAge(s, "expired")
           c == OfAge(s, "ancient")
           ab == a \o b
           abc == ab \o c
<1>1. OfAgeList(a, s, "fresh") /\ OfAgeList(b, s, "expired") /\ OfAgeList(c, s, "ancient")
  BY OfAgeFacts
<1> HIDE DEF a, b, c
<1>2. a \in Seq(Entries) /\ b \in Seq(Entries) /\ c \in Seq(Entries)
      /\ Distinct(a) /\ Distinct(b) /\ Distinct(c)
  BY <1>1 DEF OfAgeList
<1>3. Apart(a, b)
  <2>1. Drawn(a, s) /\ Drawn(b, s) /\ AgeIn(a, {"fresh"}) /\ AgeIn(b, {"expired"})
    BY <1>1 DEF OfAgeList
  <2>2. {"fresh"} \cap {"expired"} = {}
    OBVIOUS
  <2> QED
    BY <2>1, <2>2, OtherAge
<1>4. Distinct(ab)
  BY <1>2, <1>3, ConcatDistinct
<1>5. ab \in Seq(Entries) /\ Joined(ab, a, b)
  BY <1>2, ConcatFacts
<1> HIDE DEF ab
<1>6. ASSUME NEW k \in 1..Len(ab)
      PROVE  ab[k].age \in {"fresh", "expired"} /\ \E i \in 1..Len(s) : ab[k] = s[i]
  <2>1. CASE \E i \in 1..Len(a) : ab[k] = a[i]
    BY <1>1, <2>1 DEF OfAgeList, Drawn, AgeIn
  <2>2. CASE \E j \in 1..Len(b) : ab[k] = b[j]
    BY <1>1, <2>2 DEF OfAgeList, Drawn, AgeIn
  <2> QED
    BY <1>5, <2>1, <2>2 DEF Joined
<1>7. Apart(ab, c)
  <2>1. Drawn(ab, s) /\ AgeIn(ab, {"fresh", "expired"})
    BY <1>6 DEF Drawn, AgeIn
  <2>2. Drawn(c, s) /\ AgeIn(c, {"ancient"})
    BY <1>1 DEF OfAgeList
  <2>3. {"fresh", "expired"} \cap {"ancient"} = {}
    OBVIOUS
  <2> QED
    BY <2>1, <2>2, <2>3, OtherAge
<1>8. Distinct(abc)
  BY <1>2, <1>4, <1>5, <1>7, ConcatDistinct
<1>9. abc \in Seq(Entries) /\ Joined(abc, ab, c)
  BY <1>2, <1>5, ConcatFacts
<1> HIDE DEF abc
<1>10. ASSUME NEW k \in 1..Len(abc) PROVE \E i \in 1..Len(s) : abc[k] = s[i]
  <2>1. CASE \E i \in 1..Len(ab) : abc[k] = ab[i]
    BY <1>6, <2>1
  <2>2. CASE \E j \in 1..Len(c) : abc[k] = c[j]
    BY <1>1, <2>2 DEF OfAgeList, Drawn
  <2> QED
    BY <1>9, <2>1, <2>2 DEF Joined
<1>11. ASSUME NEW i \in 1..Len(s) PROVE \E k \in 1..Len(abc) : abc[k] = s[i]
  <2>1. s[i].age \in {"fresh", "expired", "ancient"}
    BY DEF Entries, Ages
  <2>2. CASE s[i].age = "ancient"
    <3>1. PICK j \in 1..Len(c) : c[j] = s[i]
      BY <1>1, <2>2 DEF OfAgeList
    <3> QED
      BY <1>9, <3>1 DEF Joined
  <2>3. CASE s[i].age # "ancient"
    <3>1. PICK k \in 1..Len(ab) : ab[k] = s[i]
      <4>1. CASE s[i].age = "fresh"
        <5>1. PICK j \in 1..Len(a) : a[j] = s[i]
          BY <1>1, <4>1 DEF OfAgeList
        <5> QED
          BY <1>5, <5>1 DEF Joined
      <4>2. CASE s[i].age = "expired"
        <5>1. PICK j \in 1..Len(b) : b[j] = s[i]
          BY <1>1, <4>2 DEF OfAgeList
        <5> QED
          BY <1>5, <5>1, ZenonT(40) DEF Joined
      <4> QED
        BY <2>1, <2>3, <4>1, <4>2
    <3> QED
      BY <1>9, <3>1 DEF Joined
  <2> QED
    BY <2>2, <2>3
<1>12. Reordered(abc, s)
  <2>1. Drawn(abc, s) /\ Drawn(s, abc)
    BY <1>10, <1>11 DEF Drawn
  <2> QED
    BY <1>8, <1>9, <2>1 DEF Reordered
<1> QED
  BY <1>12 DEF abc, ab, a, b, c

\* The first min(K, Len) entries of a list that is no longer than K are all of them.
LEMMA WholeList ==
  ASSUME NEW X, NEW s \in Seq(X), Len(s) <= K
  PROVE  SubSeq(s, 1, Min({K, Len(s)})) = s
<1>1. K \in Nat /\ Len(s) \in Nat
  BY TableAssumption
<1> DEFINE P == {K, Len(s)}
<1>2. Len(s) \in P /\ \A y \in P : Len(s) <= y
  BY <1>1
<1>3. ASSUME NEW x \in P, \A y \in P : x <= y PROVE x = Len(s)
  BY <1>1, <1>3
<1> HIDE DEF P
<1>4. Min(P) = Len(s)
  BY <1>2, <1>3 DEF Min
<1>5. SubSeq(s, 1, Len(s)) = s
  OBVIOUS
<1> QED
  BY <1>4, <1>5 DEF P

\* A list that fits a table comes back from Load: a table that holds its entries and no
\* others.
LEMMA LoadFacts ==
  ASSUME NEW s \in Lists
  PROVE  /\ Load(s) \in Tables
         /\ \A b \in Buckets : \A k \in 1..Len(Load(s)[b]) :
              \E i \in 1..Len(s) : Load(s)[b][k] = s[i]
         /\ \A i \in 1..Len(s) : \E b \in Buckets : \E k \in 1..Len(Load(s)[b]) :
              Load(s)[b][k] = s[i]
<1> DEFINE sorted == OfAge(s, "fresh") \o OfAge(s, "expired") \o OfAge(s, "ancient")
           S(b) == {e \in ToSet(sorted) : e.id # Local /\ CommonPrefixLen(Local, e.id) = b}
           mine(b) == Keep(sorted, S(b))
           t == Load(s)
<1>1. s \in Seq(Entries) /\ Distinct(s) /\ \A b \in Buckets : Cardinality(Places(s, b)) <= K
  BY DEF Lists
<1>2. Reordered(sorted, s)
  BY <1>1, SortedFacts
<1>3. t = [b \in Buckets |-> SubSeq(mine(b), 1, Min({K, Len(mine(b))}))]
  BY DEF Load
<1> HIDE DEF sorted, t
<1>4. sorted \in Seq(Entries) /\ Distinct(sorted)
  BY <1>2 DEF Reordered
<1>5. ASSUME NEW b \in Buckets
      PROVE  /\ mine(b) \in BucketLists(b) /\ mine(b) \in Seq(Entries)
             /\ t[b] = mine(b)
             /\ \A k \in 1..Len(mine(b)) : \E i \in 1..Len(s) : mine(b)[k] = s[i]
             /\ \A i \in 1..Len(s) : CommonPrefixLen(Local, s[i].id) = b
                                       => \E k \in 1..Len(mine(b)) : mine(b)[k] = s[i]
  <2> DEFINE m == mine(b)
             B == S(b)
  <2>1. \A i \in 1..Len(sorted) : sorted[i] \in B <=> CommonPrefixLen(Local, sorted[i].id) = b
    <3>1. \A i \in 1..Len(sorted) : sorted[i].id # Local /\ sorted[i] \in ToSet(sorted)
      BY <1>4, TableAssumption DEF Entries, ToSet
    <3> QED
      BY <3>1
  <2>2. m \in Seq(Entries) /\ Kept(m, sorted, Len(sorted), B)
    <3> HIDE DEF B
    <3>1. Keep(sorted, B) \in Seq(Entries) /\ Kept(Keep(sorted, B), sorted, Len(sorted), B)
      BY <1>4, KeepFacts
    <3> QED
      BY <3>1 DEF B
  <2> HIDE DEF m, B
  <2>3. ASSUME NEW k \in 1..Len(m)
        PROVE  \E i \in 1..Len(s) : m[k] = s[i] /\ CommonPrefixLen(Local, s[i].id) = b
    <3>1. PICK j \in 1..Len(sorted) : m[k] = sorted[j] /\ sorted[j] \in B
      BY <2>2 DEF Kept
    <3>2. PICK i \in 1..Len(s) : sorted[j] = s[i]
      BY <1>2 DEF Reordered, Drawn
    <3> QED
      BY <2>1, <3>1, <3>2
  <2>4. ASSUME NEW i \in 1..Len(s), CommonPrefixLen(Local, s[i].id) = b
        PROVE  \E k \in 1..Len(m) : m[k] = s[i]
    <3>1. PICK j \in 1..Len(sorted) : sorted[j] = s[i]
      BY <1>2 DEF Reordered, Drawn
    <3> QED
      BY <2>1, <2>2, <2>4, <3>1 DEF Kept
  <2>5. Distinct(m)
    BY <1>4, <2>2 DEF Kept
  <2>6. Len(m) <= K
    <3>1. IsFiniteSet(Places(s, b)) /\ Cardinality(Places(s, b)) \in Nat
      BY <1>1, PlacesFinite
    <3>2. \A x \in 1..Len(m) : \E y \in Places(s, b) : m[x] = s[y]
      BY <2>3 DEF Places
    <3>3. Cardinality(1..Len(m)) <= Cardinality(Places(s, b))
      <4> DEFINE D == 1..Len(m)
                 T == Places(s, b)
      <4>1. D \subseteq 1..Len(m) /\ IsFiniteSet(T)
        BY <3>1
      <4>2. \A x \in D : \E y \in T : m[x] = s[y]
        BY <3>2
      <4> HIDE DEF D, T
      <4>3. Cardinality(D) <= Cardinality(T)
        BY <2>5, <4>1, <4>2, Embedded, ZenonT(40)
      <4> QED
        BY <4>3 DEF D, T
    <3>4. Len(m) \in Nat /\ Cardinality(1..Len(m)) = Len(m)
      <4>1. Len(m) \in Nat
        BY <2>2
      <4> QED
        BY <4>1, FS_Interval, SMTT(30)
    <3>5. K \in Nat /\ Cardinality(Places(s, b)) <= K
      BY <1>1, TableAssumption
    <3> QED
      BY <3>1, <3>3, <3>4, <3>5
  <2>7. SubSeq(m, 1, Min({K, Len(m)})) = m
    BY <2>2, <2>6, WholeList
  <2>8. t[b] = m
    BY <1>3, <2>7 DEF m
  <2>9. \A k \in 1..Len(m) : CommonPrefixLen(Local, m[k].id) = b
    BY <2>3
  <2>10. m \in BucketLists(b)
    BY <2>2, <2>5, <2>6, <2>9 DEF BucketLists
  <2>11. m = mine(b)
    BY DEF m
  <2> HIDE DEF mine
  <2> QED
    BY <2>2, <2>3, <2>4, <2>8, <2>10, <2>11
<1> HIDE DEF mine
<1>6. DOMAIN t = Buckets /\ t = [b \in Buckets |-> t[b]]
  BY <1>3
<1>7. t \in Tables
  <2>1. \A b \in Buckets : t[b] \in Seq(Entries) /\ t[b] \in BucketLists(b)
    BY <1>5
  <2>2. t \in [Buckets -> Seq(Entries)]
    BY <1>6, <2>1
  <2> QED
    BY <2>1, <2>2 DEF Tables
<1>8. ASSUME NEW i \in 1..Len(s)
      PROVE  \E b \in Buckets : \E k \in 1..Len(t[b]) : t[b][k] = s[i]
  <2> DEFINE b == CommonPrefixLen(Local, s[i].id)
  <2>1. s[i].id \in Ids
    BY <1>1 DEF Entries
  <2>2. b \in Buckets
    BY <2>1, PrefixBucket
  <2>3. CommonPrefixLen(Local, s[i].id) = b
    OBVIOUS
  <2> HIDE DEF b
  <2> QED
    BY <1>5, <2>2, <2>3
<1>9. \A b \in Buckets : \A k \in 1..Len(t[b]) : \E i \in 1..Len(s) : t[b][k] = s[i]
  BY <1>5
<1> QED
  BY <1>7, <1>8, <1>9 DEF t

\* AllPeers lists what the buckets hold.
LEMMA PeerOf ==
  ASSUME NEW t \in Tables
  PROVE  \A e : e \in AllPeers(t) <=> \E b \in Buckets : \E i \in 1..Len(t[b]) : e = t[b][i]
<1>1. \A b \in Buckets : DOMAIN t[b] = 1..Len(t[b])
  BY DEF Tables
<1>2. ASSUME NEW e PROVE e \in AllPeers(t) <=> \E b \in Buckets : e \in ToSet(t[b])
  BY DEF AllPeers
<1>3. ASSUME NEW e, NEW b \in Buckets
      PROVE  e \in ToSet(t[b]) <=> \E i \in 1..Len(t[b]) : e = t[b][i]
  BY <1>1 DEF ToSet
<1> QED
  BY <1>2, <1>3

\* A peer has one entry.
LEMMA OneEntry ==
  ASSUME NEW t \in Tables, NEW b \in Buckets, NEW i \in 1..Len(t[b]),
         NEW c \in Buckets, NEW j \in 1..Len(t[c]), t[b][i].id = t[c][j].id
  PROVE  b = c /\ i = j
<1>1. CommonPrefixLen(Local, t[b][i].id) = b /\ CommonPrefixLen(Local, t[c][j].id) = c
  BY DEF Tables, BucketLists
<1>2. b = c
  BY <1>1
<1>3. Distinct(t[b])
  BY DEF Tables, BucketLists
<1> QED
  BY <1>2, <1>3 DEF Distinct

\* EntryOf finds the entry of a peer.
LEMMA EntryOfFacts ==
  ASSUME NEW t \in Tables, NEW b \in Buckets, NEW i \in 1..Len(t[b])
  PROVE  EntryOf(t, t[b][i].id) = t[b][i]
<1> DEFINE e == t[b][i]
           f == EntryOf(t, e.id)
<1>1. e \in AllPeers(t)
  BY PeerOf
<1>2. f \in AllPeers(t) /\ f.id = e.id
  BY <1>1 DEF EntryOf
<1> HIDE DEF f
<1>3. PICK c \in Buckets : \E j \in 1..Len(t[c]) : f = t[c][j]
  BY <1>2, PeerOf
<1>4. PICK j \in 1..Len(t[c]) : f = t[c][j]
  BY <1>3
<1>5. b = c /\ i = j
  BY <1>2, <1>4, OneEntry
<1> QED
  BY <1>4, <1>5 DEF f

\* The tables are well formed.
LEMMA TablesWellFormed ==
  ASSUME NEW t \in Tables
  PROVE  WellFormed(t)
<1> SUFFICES ASSUME NEW b \in Buckets
             PROVE  /\ Len(t[b]) <= K
                    /\ IsInjective([i \in DOMAIN t[b] |-> t[b][i].id])
                    /\ \A e \in ToSet(t[b]) : e.id # Local /\ CommonPrefixLen(Local, e.id) = b
  BY DEF WellFormed
<1>1. /\ t[b] \in Seq(Entries) /\ Len(t[b]) <= K /\ Distinct(t[b])
      /\ \A i \in 1..Len(t[b]) : CommonPrefixLen(Local, t[b][i].id) = b
      /\ DOMAIN t[b] = 1..Len(t[b])
  BY DEF Tables, BucketLists
<1>2. IsInjective([i \in DOMAIN t[b] |-> t[b][i].id])
  BY <1>1 DEF IsInjective, Distinct
<1>3. ASSUME NEW e \in ToSet(t[b]) PROVE e.id # Local /\ CommonPrefixLen(Local, e.id) = b
  <2>1. PICK i \in 1..Len(t[b]) : e = t[b][i]
    BY <1>1 DEF ToSet
  <2>2. e \in Entries
    BY <1>1, <2>1
  <2> QED
    BY <1>1, <2>1, <2>2, TableAssumption DEF Entries
<1> QED
  BY <1>1, <1>2, <1>3

\* The table u has entries of t, and lacks at most those of S.
Thinned(u, t, S) ==
  /\ u \in Tables
  /\ \A b \in Buckets : \A k \in 1..Len(u[b]) : \E i \in 1..Len(t[b]) : u[b][k] = t[b][i]
  /\ \A b \in Buckets : \A i \in 1..Len(t[b]) :
       t[b][i] \notin S => \E k \in 1..Len(u[b]) : u[b][k] = t[b][i]

\* Evict takes out what is ancient.
LEMMA EvictFacts ==
  ASSUME NEW t \in Tables
  PROVE  Thinned(Evict(t), t, {e \in Entries : e.age = "ancient"})
<1> DEFINE S == [b \in Buckets |-> {e \in ToSet(t[b]) : e.age # "ancient"}]
           u == Evict(t)
<1>1. u = [b \in Buckets |-> Keep(t[b], S[b])]
  BY DEF Evict
<1>2. \A b \in Buckets : \A i \in 1..Len(t[b]) : t[b][i] \in Entries
                                              /\ (t[b][i] \in S[b] <=> t[b][i].age # "ancient")
  BY DEF Tables, ToSet
<1> HIDE DEF S, u
<1>3. u \in Tables /\ Sieved(u, t, S)
  BY <1>1, KeepTable
<1> QED
  BY <1>2, <1>3 DEF Sieved, Thinned, u

\* EvictByFailures takes out what failed threshold times.
LEMMA EvictByFailuresFacts ==
  ASSUME NEW t \in Tables, NEW threshold \in Nat
  PROVE  Thinned(EvictByFailures(t, threshold), t, {e \in Entries : e.fails >= threshold})
<1>1. CASE threshold = 0
  BY <1>1 DEF EvictByFailures, Thinned
<1>2. CASE threshold # 0
  <2> DEFINE S == [b \in Buckets |-> {e \in ToSet(t[b]) : e.fails < threshold}]
             u == EvictByFailures(t, threshold)
  <2>1. u = [b \in Buckets |-> Keep(t[b], S[b])]
    BY <1>2 DEF EvictByFailures
  <2>2. \A b \in Buckets : \A i \in 1..Len(t[b]) :
          t[b][i] \in Entries /\ (t[b][i] \in S[b] <=> t[b][i].fails < threshold)
    BY DEF Tables, ToSet
  <2>3. \A e \in Entries : e.fails \in Nat
    BY DEF Entries
  <2> HIDE DEF S, u
  <2>4. u \in Tables /\ Sieved(u, t, S)
    BY <2>1, KeepTable
  <2>5. \A b \in Buckets : \A i \in 1..Len(t[b]) :
          t[b][i] \notin S[b] => t[b][i] \in {e \in Entries : e.fails >= threshold}
    BY <2>2, <2>3
  <2> QED
    BY <2>4, <2>5 DEF Sieved, Thinned, u
<1> QED
  BY <1>1, <1>2

-----------------------------------------------------------------------------
(* The invariant.                                                          *)

Contacts ==
  {c \in [id : Ids, onion : UNION Range(OnionsOf)] : c.onion \in OnionsOf[c.id]}

JobStates ==
  [pc : {"idle", "announce", "next", "put", "record", "save", "marshal", "write", "boot"},
   ids : Seq({Local, Service}), todo : Seq(Contacts), ok : BOOLEAN, snap : Lists,
   booted : BOOLEAN]

\* The table holds every peer once, and its counts of failures are backed.
TableInv ==
  /\ rt \in Tables
  /\ sources \in Trackers
  /\ misses \in [Ids -> Nat]
  /\ Backed(rt, misses)

\* A job works on copies of entries, and what it is about to write fits a table.
JobInv ==
  /\ job \in [Jobs -> JobStates]
  /\ \A j \in Jobs : job[j].pc = "record" => job[j].todo # <<>>
  /\ idents \subseteq {Service}

FileInv == file \in {None, Torn} \cup Lists

\* Before the daemon is up the start-up job runs alone, on an empty table at first.
BootInv ==
  /\ up \in BOOLEAN /\ crashes \in Nat
  /\ ~up => /\ job[Loop].pc = "idle" /\ job[Add].pc = "idle"
            /\ job[Startup].pc \in {"idle", "save", "marshal", "write"}
  /\ ~up /\ job[Startup].pc = "idle" => rt = EmptyTable

DiscoveryInv == TableInv /\ JobInv /\ FileInv /\ BootInv

\* Who is in t and not in u had a reason to leave.
Cause(t, u, m) ==
  \A id \in Known(t) \ Known(u) :
    EntryOf(t, id).age = "ancient" \/ m[id] >= FailureThreshold

\* A table with the peers of t.
LEMMA KnownOf ==
  ASSUME NEW t \in Tables
  PROVE  \A id : id \in Known(t) <=> \E b \in Buckets : \E i \in 1..Len(t[b]) : id = t[b][i].id
<1>1. \A id : id \in Known(t) <=> \E e \in AllPeers(t) : id = e.id
  BY DEF Known
<1>2. \A e : e \in AllPeers(t) <=> \E b \in Buckets : \E i \in 1..Len(t[b]) : e = t[b][i]
  BY PeerOf
<1> QED
  BY <1>1, <1>2

\* Nobody leaves when nobody is missing.
LEMMA RetainsCause ==
  ASSUME NEW t \in Tables, NEW u \in Tables, Retains(u, t), NEW m
  PROVE  Cause(t, u, m)
<1>1. ASSUME NEW id \in Known(t) PROVE id \in Known(u)
  <2>1. PICK b \in Buckets : \E i \in 1..Len(t[b]) : id = t[b][i].id
    BY KnownOf
  <2>2. PICK i \in 1..Len(t[b]) : id = t[b][i].id
    BY <2>1
  <2>3. PICK k \in 1..Len(u[b]) : u[b][k].id = t[b][i].id
    BY DEF Retains
  <2> QED
    BY <2>2, <2>3, KnownOf
<1> QED
  BY <1>1 DEF Cause

\* Who left a thinned table was in S.
LEMMA ThinnedCause ==
  ASSUME NEW t \in Tables, NEW u, NEW S, Thinned(u, t, S), NEW m,
         \A b \in Buckets : \A i \in 1..Len(t[b]) :
           t[b][i] \in S => t[b][i].age = "ancient" \/ m[t[b][i].id] >= FailureThreshold
  PROVE  Cause(t, u, m)
<1> SUFFICES ASSUME NEW id \in Known(t), id \notin Known(u)
             PROVE  EntryOf(t, id).age = "ancient" \/ m[id] >= FailureThreshold
  BY DEF Cause
<1>1. u \in Tables
  BY DEF Thinned
<1>2. PICK b \in Buckets : \E i \in 1..Len(t[b]) : id = t[b][i].id
  BY KnownOf
<1>3. PICK i \in 1..Len(t[b]) : id = t[b][i].id
  BY <1>2
<1>4. t[b][i] \in S
  <2>1. SUFFICES ASSUME t[b][i] \notin S PROVE FALSE
    OBVIOUS
  <2>2. PICK k \in 1..Len(u[b]) : u[b][k] = t[b][i]
    BY <2>1 DEF Thinned
  <2> QED
    BY <1>1, <1>3, <2>2, KnownOf
<1>5. EntryOf(t, id) = t[b][i]
  BY <1>3, EntryOfFacts
<1> QED
  BY <1>3, <1>4, <1>5

\* Taking entries out leaves the failures of the others backed.
LEMMA ThinnedBacked ==
  ASSUME NEW t, NEW u, NEW S, Thinned(u, t, S), NEW m, Backed(t, m)
  PROVE  Backed(u, m)
<1> SUFFICES ASSUME NEW b \in Buckets, NEW k \in 1..Len(u[b])
             PROVE  u[b][k].fails <= m[u[b][k].id] \/ FailureThreshold <= m[u[b][k].id]
  BY DEF Backed
<1>1. PICK i \in 1..Len(t[b]) : u[b][k] = t[b][i]
  BY DEF Thinned
<1> QED
  BY <1>1 DEF Backed

\* The empty table.
LEMMA EmptyTableFacts ==
  /\ EmptyTable \in Tables
  /\ Known(EmptyTable) = {}
  /\ \A m : Backed(EmptyTable, m)
<1>1. \A b \in Buckets : EmptyTable[b] = <<>>
  BY DEF EmptyTable
<1>2. <<>> \in Seq(Entries) /\ Len(<<>>) = 0 /\ K \in Nat
  BY TableAssumption
<1>3. \A b \in Buckets : <<>> \in BucketLists(b)
  BY <1>2 DEF BucketLists, Distinct
<1>4. EmptyTable \in Tables
  BY <1>1, <1>2, <1>3 DEF Tables, EmptyTable
<1>5. Known(EmptyTable) = {}
  BY <1>1, <1>2, <1>4, KnownOf
<1>6. \A m : Backed(EmptyTable, m)
  BY <1>1, <1>2 DEF Backed
<1> QED
  BY <1>4, <1>5, <1>6

\* What a step makes of the table.
TableStep == TableInv' /\ (crashes' = crashes => Cause(rt, rt', misses))

\* A step that leaves the table alone.
LEMMA TableUntouched ==
  ASSUME TableInv, UNCHANGED <<table, misses>>
  PROVE  TableStep
<1>1. rt' = rt /\ sources' = sources /\ misses' = misses
  BY DEF table
<1>2. TableInv'
  BY <1>1 DEF TableInv
<1>3. Cause(rt, rt', misses)
  BY <1>1 DEF Cause
<1> QED
  BY <1>2, <1>3 DEF TableStep

\* The records of an answer go into the table.
LEMMA TableInsertions ==
  ASSUME TableInv, NEW peers \in Seq(Records), NEW source,
         Becomes(AddPeers(Table, peers, source)), misses' = misses
  PROVE  TableStep
<1> DEFINE r == AddPeers(Table, peers, source)
<1>1. Table \in TableStates /\ Table.rt = rt
  BY DEF TableInv, Table, TableStates
<1>2. misses \in [Ids -> Nat] /\ Backed(Table.rt, misses)
  BY <1>1 DEF TableInv
<1>3. r \in TableStates /\ Backed(r.rt, misses) /\ Retains(r.rt, Table.rt)
  BY <1>1, <1>2, AddPeersKeeps
<1>4. rt' = r.rt /\ sources' = r.sources
  BY DEF Becomes
<1> HIDE DEF r
<1>5. rt' \in Tables /\ sources' \in Trackers
  BY <1>3, <1>4 DEF TableStates
<1>6. TableInv'
  BY <1>2, <1>3, <1>4, <1>5 DEF TableInv
<1>7. Cause(rt, rt', misses)
  BY <1>1, <1>3, <1>4, <1>5, RetainsCause DEF TableInv
<1> QED
  BY <1>6, <1>7 DEF TableStep

\* One record goes into the table.
LEMMA TableInsertion ==
  ASSUME TableInv, NEW peer \in Records, NEW source,
         Becomes(AddPeer(Table, peer, source)), misses' = misses
  PROVE  TableStep
<1> DEFINE r == AddPeer(Table, peer, source)
<1>1. Table \in TableStates /\ Table.rt = rt
  BY DEF TableInv, Table, TableStates
<1>2. misses \in [Ids -> Nat] /\ Backed(Table.rt, misses)
  BY <1>1 DEF TableInv
<1>3. r \in TableStates /\ Backed(r.rt, misses) /\ Retains(r.rt, Table.rt)
  BY <1>1, <1>2, AddPeerKeeps
<1>4. rt' = r.rt /\ sources' = r.sources
  BY DEF Becomes
<1> HIDE DEF r
<1>5. rt' \in Tables /\ sources' \in Trackers
  BY <1>3, <1>4 DEF TableStates
<1>6. TableInv'
  BY <1>2, <1>3, <1>4, <1>5 DEF TableInv
<1>7. Cause(rt, rt', misses)
  BY <1>1, <1>3, <1>4, <1>5, RetainsCause DEF TableInv
<1> QED
  BY <1>6, <1>7 DEF TableStep

\* The table is thinned for a cause.
LEMMA TableEviction ==
  ASSUME TableInv, NEW S, Thinned(rt', rt, S), sources' = sources, misses' = misses,
         \A b \in Buckets : \A i \in 1..Len(rt[b]) :
           rt[b][i] \in S => \/ rt[b][i].age = "ancient"
                             \/ misses[rt[b][i].id] >= FailureThreshold
  PROVE  TableStep
<1>1. rt' \in Tables
  BY DEF Thinned
<1>2. Backed(rt', misses)
  BY ThinnedBacked DEF TableInv
<1>3. TableInv'
  BY <1>1, <1>2 DEF TableInv
<1>4. Cause(rt, rt', misses)
  BY ThinnedCause DEF TableInv
<1> QED
  BY <1>3, <1>4 DEF TableStep

\* The records a peer answers with, all of them, the unexpired ones, or those before one.
LEMMA AnswerFacts ==
  ASSUME NEW answer \in Answers
  PROVE  answer \in Seq(Records) /\ Unexpired(answer) \in Seq(Records)
<1>1. answer \in Seq(Records)
  BY RecordAssumption
<1> QED
  BY <1>1, KeepFacts DEF Unexpired

\* Time passes for one entry: nobody leaves and no count changes.
LEMMA AgeEntryTable ==
  ASSUME TableInv, AgeEntry
  PROVE  TableStep
<1>1. sources' = sources /\ misses' = misses /\ rt \in Tables
  BY DEF AgeEntry, TableInv
<1>2. PICK b \in Buckets : \E i \in DOMAIN rt[b] : rt' = [rt EXCEPT ![b][i].age = Older(@)]
  BY DEF AgeEntry
<1>3. PICK i \in DOMAIN rt[b] : rt' = [rt EXCEPT ![b][i].age = Older(@)]
  BY <1>2
<1> DEFINE e == [rt[b][i] EXCEPT !.age = Older(@)]
<1>4. rt[b] \in Seq(Entries) /\ i \in 1..Len(rt[b]) /\ rt[b][i] \in Entries
  BY <1>1, <1>3 DEF Tables
<1>5. e \in Entries /\ e.id = rt[b][i].id /\ e.fails = rt[b][i].fails
  BY <1>4 DEF Entries, Older, Ages
<1>6. rt' = Replaced(rt, b, i, e)
  BY <1>3 DEF Replaced
<1> HIDE DEF e
<1>7. /\ rt' \in Tables
      /\ \A c \in Buckets : Len(rt'[c]) = Len(rt[c])
      /\ rt'[b][i] = e
      /\ \A c \in Buckets : \A k \in 1..Len(rt[c]) : c # b \/ k # i => rt'[c][k] = rt[c][k]
      /\ \A c \in Buckets : \A k \in 1..Len(rt[c]) : rt'[c][k].id = rt[c][k].id
  BY <1>1, <1>4, <1>5, <1>6, ReplacedFacts
<1>8. Backed(rt', misses)
  <2> SUFFICES ASSUME NEW c \in Buckets, NEW k \in 1..Len(rt'[c])
               PROVE  \/ rt'[c][k].fails <= misses[rt'[c][k].id]
                      \/ FailureThreshold <= misses[rt'[c][k].id]
    BY DEF Backed
  <2>1. k \in 1..Len(rt[c])
    BY <1>7
  <2>2. rt'[c][k].fails = rt[c][k].fails /\ rt'[c][k].id = rt[c][k].id
    <3>1. CASE c = b /\ k = i
      BY <1>5, <1>7, <3>1
    <3>2. CASE c # b \/ k # i
      BY <1>7, <2>1, <3>2
    <3> QED
      BY <3>1, <3>2
  <2> QED
    BY <2>1, <2>2 DEF TableInv, Backed
<1>9. Retains(rt', rt)
  BY <1>7 DEF Retains
<1>10. Cause(rt, rt', misses)
  BY <1>1, <1>7, <1>9, RetainsCause
<1>11. TableInv'
  BY <1>1, <1>7, <1>8 DEF TableInv
<1> QED
  BY <1>10, <1>11 DEF TableStep

\* An insertion falls out of the rate window: the table stays.
LEMMA WindowPassesTable ==
  ASSUME TableInv, WindowPasses
  PROVE  TableStep
<1>1. rt' = rt /\ misses' = misses
  BY DEF WindowPasses
<1>2. PICK s \in Ids : sources[s].recent > 0 /\ sources' = [sources EXCEPT ![s].recent = @ - 1]
  BY DEF WindowPasses
<1>3. sources \in [Ids -> [count : Nat, recent : Nat]]
  BY DEF TableInv, Trackers
<1>4. sources[s].recent - 1 \in Nat
  BY <1>2, <1>3
<1>5. sources' \in Trackers
  BY <1>2, <1>3, <1>4 DEF Trackers
<1>6. TableInv'
  BY <1>1, <1>5 DEF TableInv
<1>7. Cause(rt, rt', misses)
  BY <1>1 DEF Cause
<1> QED
  BY <1>6, <1>7 DEF TableStep

\* A peer announces itself.
LEMMA HandlePutTable ==
  ASSUME TableInv, handlePutRecord
  PROVE  TableStep
<1>1. PICK id \in Ids : \E o \in OnionsOf[id], a \in Ages :
             Becomes(AddPeer(Table, Record(id, o, a), id))
  BY DEF handlePutRecord
<1>2. PICK o \in OnionsOf[id], a \in Ages : Becomes(AddPeer(Table, Record(id, o, a), id))
  BY <1>1
<1>3. o \in UNION Range(OnionsOf)
  <2>1. id \in DOMAIN OnionsOf
    BY RecordAssumption
  <2> QED
    BY <2>1 DEF Range
<1>4. Record(id, o, a) \in Records
  BY <1>3 DEF Record, Records
<1>5. misses' = misses
  BY DEF handlePutRecord
<1> HIDE DEF Record
<1> QED
  BY <1>2, <1>4, <1>5, TableInsertion

\* AddNode takes the unexpired records of the seed.
LEMMA BootstrapTable ==
  ASSUME TableInv, Bootstrap
  PROVE  TableStep
<1>1. PICK answer \in Answers :
        Becomes(AddPeers(Table, Unexpired(answer),
                         [i \in DOMAIN Unexpired(answer) |-> Unexpired(answer)[i].id]))
  BY DEF Bootstrap
<1>2. Unexpired(answer) \in Seq(Records)
  BY AnswerFacts
<1>3. misses' = misses
  BY DEF Bootstrap
<1> QED
  BY <1>1, <1>2, <1>3, TableInsertions

\* The answer to an announcement goes into the table, if there is one.
LEMMA SendPutTable ==
  ASSUME TableInv, NEW j \in Jobs, sendPutRecord(j)
  PROVE  TableStep
<1>1. misses' = misses
  BY DEF sendPutRecord
<1>2. CASE UNCHANGED table
  BY <1>1, <1>2, TableUntouched
<1>3. CASE \E answer \in Answers :
             Becomes(AddPeers(Table, answer, [i \in DOMAIN answer |-> Head(job[j].todo).id]))
  <2>1. PICK answer \in Answers :
          Becomes(AddPeers(Table, answer, [i \in DOMAIN answer |-> Head(job[j].todo).id]))
    BY <1>3
  <2>2. answer \in Seq(Records)
    BY AnswerFacts
  <2> QED
    BY <1>1, <2>1, <2>2, TableInsertions
<1> QED
  BY <1>2, <1>3 DEF sendPutRecord

\* A lookup inserts what a peer answers, up to the record it asked for.
LEMMA QueryPeerTable ==
  ASSUME TableInv, NEW c \in Calls, QueryPeer(c)
  PROVE  TableStep
<1>1. misses' = misses
  BY DEF QueryPeer, otherThanCall
<1>2. CASE UNCHANGED table
  BY <1>1, <1>2, TableUntouched
<1>3. ASSUME NEW answer \in Answers, NEW at, NEW new, NEW source,
             at = SelectInSeq(Unexpired(answer), LAMBDA p : p.id = Target[c]),
             new = IF at = 0 THEN Unexpired(answer) ELSE SubSeq(Unexpired(answer), 1, at - 1),
             Becomes(AddPeers(Table, new, source))
      PROVE  TableStep
  <2> DEFINE peers == Unexpired(answer)
             I == {i \in 1..Len(peers) : peers[i].id = Target[c]}
  <2>1. peers \in Seq(Records)
    BY AnswerFacts
  <2>2. at = IF I # {} THEN Min(I) ELSE 0
    BY <1>3 DEF SelectInSeq
  <2> HIDE DEF peers
  <2>3. I \subseteq Nat
    OBVIOUS
  <2>4. at = 0 \/ at \in 1..Len(peers)
    <3>1. CASE I = {}
      BY <2>2, <3>1
    <3>2. CASE I # {}
      <4>1. Min(I) \in I
        <5> HIDE DEF I
        <5> QED
          BY <2>3, <3>2, FirstPlace
      <4> HIDE DEF I
      <4>2. at \in I
        BY <2>2, <3>2, <4>1
      <4> QED
        BY <4>2 DEF I
    <3> QED
      BY <3>1, <3>2
  <2>5. new = IF at = 0 THEN peers ELSE SubSeq(peers, 1, at - 1)
    BY <1>3 DEF peers
  <2>6. new \in Seq(Records)
    BY <2>1, <2>4, <2>5
  <2> QED
    BY <1>1, <1>3, <2>6, TableInsertions
<1> QED
  BY <1>2, <1>3 DEF QueryPeer

\* A tick evicts what is ancient.
LEMMA EvictStaleTable ==
  ASSUME TableInv, EvictStale
  PROVE  TableStep
<1>1. rt' = Evict(rt) /\ sources' = sources /\ misses' = misses
  BY DEF EvictStale
<1> DEFINE S == {e \in Entries : e.age = "ancient"}
<1>2. Thinned(rt', rt, S)
  BY <1>1, EvictFacts DEF TableInv
<1>3. \A e \in S : e.age = "ancient"
  OBVIOUS
<1> HIDE DEF S
<1> QED
  BY <1>1, <1>2, <1>3, TableEviction

\* The end of an announcement evicts what failed too often, and the count of an entry
\* is not more than the announcements that failed.
LEMMA EvictUnreachableTable ==
  ASSUME TableInv, NEW j \in Jobs, EvictUnreachable(j)
  PROVE  TableStep
<1>1. rt' = EvictByFailures(rt, FailureThreshold) /\ sources' = sources /\ misses' = misses
  BY DEF EvictUnreachable
<1>2. rt \in Tables /\ misses \in [Ids -> Nat] /\ FailureThreshold \in Nat
  BY DiscoveryAssumption DEF TableInv
<1> DEFINE S == {e \in Entries : e.fails >= FailureThreshold}
<1>3. Thinned(rt', rt, S)
  BY <1>1, <1>2, EvictByFailuresFacts
<1>4. ASSUME NEW b \in Buckets, NEW i \in 1..Len(rt[b]), rt[b][i] \in S
      PROVE  misses[rt[b][i].id] >= FailureThreshold
  <2>1. rt[b][i].id \in Ids /\ rt[b][i].fails \in Nat /\ rt[b][i].fails >= FailureThreshold
    BY <1>4 DEF Entries
  <2>2. \/ rt[b][i].fails <= misses[rt[b][i].id]
        \/ FailureThreshold <= misses[rt[b][i].id]
    BY DEF TableInv, Backed
  <2>3. misses[rt[b][i].id] \in Nat
    BY <1>2, <2>1
  <2> QED
    BY <1>2, <2>1, <2>2, <2>3
<1> HIDE DEF S
<1> QED
  BY <1>1, <1>3, <1>4, TableEviction

\* The peer a job has just announced to.
LEMMA PeerInHand ==
  ASSUME JobInv, NEW j \in Jobs, job[j].todo # <<>>
  PROVE  Head(job[j].todo) \in Contacts
<1>1. job[j].todo \in Seq(Contacts)
  BY DEF JobInv, JobStates
<1> QED
  BY <1>1

\* The count of failed announcements goes up to FailureThreshold.
LEMMA MissesUp ==
  ASSUME NEW m \in Nat
  PROVE  LET n == Min({FailureThreshold, m + 1})
         IN  n \in Nat /\ (n = m + 1 \/ FailureThreshold <= n)
<1> DEFINE P == {FailureThreshold, m + 1}
<1>1. FailureThreshold \in Nat
  BY DiscoveryAssumption
<1>2. P \subseteq Nat /\ P # {}
  BY <1>1
<1>3. Min(P) \in P
  <2> HIDE DEF P
  <2> QED
    BY <1>2, FirstPlace
<1> QED
  BY <1>1, <1>3

\* A failed announcement is counted against the first entry that has the onion, and in
\* misses against every peer that may have it; a success clears the entry it finds and
\* the misses of its peer.
LEMMA RecordOutcomeTable ==
  ASSUME TableInv, JobInv, NEW j \in Jobs, RecordOutcome(j)
  PROVE  TableStep
<1> DEFINE o == Head(job[j].todo).onion
           up1(q) == Min({FailureThreshold, misses[q] + 1})
<1>1. /\ rt' = IF job[j].ok THEN RecordSuccess(rt, o) ELSE RecordFailure(rt, o)
      /\ misses' = [q \in Ids |->
                      CASE ~job[j].ok /\ o \in OnionsOf[q] -> up1(q)
                        [] job[j].ok /\ q \in Cleared(o) -> 0
                        [] OTHER -> misses[q]]
      /\ sources' = sources
  BY DEF RecordOutcome
<1>2. rt \in Tables /\ misses \in [Ids -> Nat] /\ Backed(rt, misses) /\ sources \in Trackers
  BY DEF TableInv
<1>3. FailureThreshold \in Nat
  BY DiscoveryAssumption
<1> HIDE DEF o
<1>4. ASSUME NEW q \in Ids
      PROVE  up1(q) \in Nat /\ (up1(q) = misses[q] + 1 \/ FailureThreshold <= up1(q))
  BY <1>2, MissesUp
<1> HIDE DEF up1
<1>5. misses' \in [Ids -> Nat]
  BY <1>1, <1>2, <1>4
<1>6. ASSUME NEW q \in Ids, NEW x \in Nat, x <= misses[q] \/ FailureThreshold <= misses[q],
             ~(job[j].ok /\ q \in Cleared(o))
      PROVE  x <= misses'[q] \/ FailureThreshold <= misses'[q]
  <2>1. misses[q] \in Nat /\ up1(q) \in Nat
    BY <1>2, <1>4
  <2>2. misses'[q] = up1(q) \/ misses'[q] = misses[q]
    BY <1>1, <1>6
  <2> QED
    BY <1>3, <1>4, <1>6, <2>1, <2>2
<1>7. CASE \A b \in Buckets : \A i \in 1..Len(rt[b]) : rt[b][i].onion # o
  <2>1. rt' = rt /\ BucketsWith(rt, o) = {}
    <3>1. RecordFailure(rt, o) = rt /\ RecordSuccess(rt, o) = rt /\ BucketsWith(rt, o) = {}
      BY <1>2, <1>7, FailuresSet, ZenonT(40)
    <3> QED
      BY <1>1, <3>1
  <2>2. Cleared(o) = {}
    BY <2>1 DEF Cleared
  <2>3. ASSUME NEW b \in Buckets, NEW i \in 1..Len(rt[b])
        PROVE  \/ rt[b][i].fails <= misses'[rt[b][i].id]
               \/ FailureThreshold <= misses'[rt[b][i].id]
    <3>1. \/ rt[b][i].fails <= misses[rt[b][i].id]
          \/ FailureThreshold <= misses[rt[b][i].id]
      BY <1>2 DEF Backed
    <3>2. rt[b][i] \in Entries
      BY <1>2 DEF Tables
    <3>3. rt[b][i].id \in Ids /\ rt[b][i].fails \in Nat
      BY <3>2 DEF Entries
    <3> QED
      BY <1>6, <2>2, <3>1, <3>3
  <2>4. Backed(rt', misses')
    BY <2>1, <2>3 DEF Backed
  <2>5. TableInv'
    BY <1>1, <1>2, <1>5, <2>1, <2>4 DEF TableInv
  <2>6. Cause(rt, rt', misses)
    BY <2>1 DEF Cause
  <2> QED
    BY <2>5, <2>6 DEF TableStep
<1>8. ASSUME NEW b \in Buckets, NEW i \in 1..Len(rt[b]), rt[b][i].onion = o,
             BucketsWith(rt, o) # {}, FirstWith(rt, o) = [bucket |-> b, place |-> i],
             RecordFailure(rt, o) = Replaced(rt, b, i, [rt[b][i] EXCEPT !.fails = @ + 1]),
             RecordSuccess(rt, o) = Replaced(rt, b, i, [rt[b][i] EXCEPT !.fails = 0])
      PROVE  TableStep
  <2>1. rt[b][i] \in Entries
    BY <1>2 DEF Tables
  <2>2. /\ rt[b][i].id \in Ids /\ o \in OnionsOf[rt[b][i].id] /\ rt[b][i].fails \in Nat
    BY <1>8, <2>1 DEF Entries
  <2>3. Cleared(o) = {rt[b][i].id}
    BY <1>8 DEF Cleared
  <2> DEFINE p == rt[b][i].id
             x == IF job[j].ok THEN 0 ELSE rt[b][i].fails + 1
             e == [rt[b][i] EXCEPT !.fails = x]
  <2>4. rt' = Replaced(rt, b, i, e)
    BY <1>1, <1>8
  <2>5. x \in Nat
    BY <2>2
  <2>6. x <= misses'[p] \/ FailureThreshold <= misses'[p]
    <3>1. CASE job[j].ok
      BY <1>1, <2>2, <2>3, <3>1
    <3>2. CASE ~job[j].ok
      <4>1. rt[b][i].fails <= misses[p] \/ FailureThreshold <= misses[p]
        BY <1>2 DEF Backed
      <4>2. misses'[p] = up1(p)
        BY <1>1, <2>2, <3>2
      <4>3. misses[p] \in Nat /\ up1(p) \in Nat
        BY <1>2, <1>4, <2>2
      <4>4. up1(p) = misses[p] + 1 \/ FailureThreshold <= up1(p)
        BY <1>4, <2>2
      <4> QED
        BY <1>3, <2>2, <3>2, <4>1, <4>2, <4>3, <4>4
    <3> QED
      BY <3>1, <3>2
  <2> HIDE DEF x
  <2>7. e \in Entries /\ e.id = rt[b][i].id /\ e.fails = x
    BY <2>1, <2>5 DEF Entries
  <2> HIDE DEF e
  <2>8. /\ rt' \in Tables
        /\ \A c \in Buckets : Len(rt'[c]) = Len(rt[c])
        /\ rt'[b][i] = e
        /\ \A c \in Buckets : \A k \in 1..Len(rt[c]) : c # b \/ k # i => rt'[c][k] = rt[c][k]
        /\ \A c \in Buckets : \A k \in 1..Len(rt[c]) : rt'[c][k].id = rt[c][k].id
    BY <1>2, <2>4, <2>7, ReplacedFacts
  <2>9. ASSUME NEW c \in Buckets, NEW k \in 1..Len(rt'[c])
        PROVE  \/ rt'[c][k].fails <= misses'[rt'[c][k].id]
               \/ FailureThreshold <= misses'[rt'[c][k].id]
    <3>1. k \in 1..Len(rt[c])
      BY <2>8
    <3>2. CASE c = b /\ k = i
      BY <2>6, <2>7, <2>8, <3>2
    <3>3. CASE c # b \/ k # i
      <4>1. rt'[c][k] = rt[c][k]
        BY <2>8, <3>1, <3>3
      <4>2. rt[c][k] \in Entries
        BY <1>2, <3>1 DEF Tables
      <4>3. rt[c][k].id \in Ids /\ rt[c][k].fails \in Nat
        BY <4>2 DEF Entries
      <4>4. rt[c][k].id \notin Cleared(o)
        <5>1. rt[c][k].id # rt[b][i].id
          BY <1>2, <3>1, <3>3, OneEntry
        <5> QED
          BY <2>3, <5>1
      <4>5. \/ rt[c][k].fails <= misses[rt[c][k].id]
            \/ FailureThreshold <= misses[rt[c][k].id]
        BY <1>2, <3>1 DEF Backed
      <4> QED
        BY <1>6, <4>1, <4>3, <4>4, <4>5
    <3> QED
      BY <3>2, <3>3
  <2>10. Backed(rt', misses')
    BY <2>9 DEF Backed
  <2>11. TableInv'
    BY <1>1, <1>2, <1>5, <2>8, <2>10 DEF TableInv
  <2>12. Retains(rt', rt)
    BY <2>8 DEF Retains
  <2>13. Cause(rt, rt', misses)
    BY <1>2, <2>8, <2>12, RetainsCause
  <2> QED
    BY <2>11, <2>13 DEF TableStep
<1> QED
  BY <1>2, <1>7, <1>8, FailuresSet

\* A crash empties the table.
LEMMA CrashTable ==
  ASSUME TableInv, BootInv, Crash
  PROVE  TableStep
<1>1. /\ rt' = EmptyTable /\ sources' = [i \in Ids |-> NewTracker]
      /\ misses' = [i \in Ids |-> 0] /\ crashes' = crashes + 1 /\ crashes \in Nat
  BY DEF Crash, BootInv
<1>2. sources' \in Trackers /\ misses' \in [Ids -> Nat]
  BY <1>1 DEF Trackers, NewTracker
<1>3. TableInv'
  BY <1>1, <1>2, EmptyTableFacts DEF TableInv
<1>4. crashes' # crashes
  BY <1>1
<1> QED
  BY <1>3, <1>4 DEF TableStep

\* An empty list fits.
LEMMA EmptyFits == <<>> \in Lists
<1>1. <<>> \in Seq(Entries) /\ Len(<<>>) = 0 /\ K \in Nat
  BY TableAssumption
<1>2. \A b \in Buckets : Places(<<>>, b) = {}
  BY <1>1 DEF Places
<1>3. \A b \in Buckets : Cardinality(Places(<<>>, b)) <= K
  <2>1. Cardinality({}) = 0
    BY FS_EmptySet
  <2> QED
    BY <1>1, <1>2, <2>1
<1> QED
  BY <1>1, <1>3 DEF Lists, Distinct

\* What is on disk can be loaded.
LEMMA OnDiskFits ==
  ASSUME FileInv
  PROVE  OnDisk \in Lists
<1>1. <<>> \in Lists
  BY EmptyFits
<1> QED
  BY <1>1 DEF FileInv, OnDisk

\* A loaded table has no failures, and nobody was in the table before.
LEMMA RestartTable ==
  ASSUME TableInv, FileInv, BootInv, Restart
  PROVE  TableStep
<1> DEFINE t == Load(OnDisk)
<1>1. rt' = Evict(t) /\ sources' = sources /\ misses' = misses /\ rt = EmptyTable
  BY DEF Restart, BootInv
<1>2. OnDisk \in Lists
  BY OnDiskFits
<1>3. t \in Tables /\ \A b \in Buckets : \A k \in 1..Len(t[b]) :
                        \E i \in 1..Len(OnDisk) : t[b][k] = OnDisk[i]
  BY <1>2, LoadFacts
<1> HIDE DEF t
<1>4. Backed(t, misses)
  <2> SUFFICES ASSUME NEW b \in Buckets, NEW k \in 1..Len(t[b])
               PROVE  t[b][k].fails <= misses[t[b][k].id]
    BY DEF Backed
  <2>1. t[b][k].fails = 0
    BY <1>2, <1>3 DEF Lists
  <2>2. t[b][k] \in Entries
    BY <1>3 DEF Tables
  <2>3. misses[t[b][k].id] \in Nat
    BY <2>2 DEF Entries, TableInv
  <2> QED
    BY <2>1, <2>3
<1>5. Thinned(rt', t, {e \in Entries : e.age = "ancient"})
  BY <1>1, <1>3, EvictFacts
<1>6. rt' \in Tables /\ Backed(rt', misses)
  BY <1>4, <1>5, ThinnedBacked DEF Thinned
<1>7. TableInv'
  BY <1>1, <1>6 DEF TableInv
<1>8. Cause(rt, rt', misses)
  BY <1>1, EmptyTableFacts DEF Cause
<1> QED
  BY <1>7, <1>8 DEF TableStep

-----------------------------------------------------------------------------
(* The jobs.                                                               *)

\* A list has finitely many entries.
LEMMA ToSetFinite ==
  ASSUME NEW X, NEW s \in Seq(X)
  PROVE  IsFiniteSet(ToSet(s))
<1>1. IsFiniteSet(1..Len(s))
  BY FS_Interval
<1>2. s \in [1..Len(s) -> ToSet(s)]
  BY DEF ToSet
<1>3. \A e \in ToSet(s) : \E i \in 1..Len(s) : s[i] = e
  BY DEF ToSet
<1>4. s \in Surjection(1..Len(s), ToSet(s))
  BY <1>2, <1>3, Zenon DEF Surjection
<1> QED
  BY <1>1, <1>4, FS_Surjection

\* A table has finitely many peers.
LEMMA SizeNat ==
  ASSUME NEW t \in Tables
  PROVE  Size(t) \in Nat
<1> DEFINE B == {ToSet(t[b]) : b \in Buckets}
           f == [b \in Buckets |-> ToSet(t[b])]
<1>1. IsFiniteSet(Buckets)
  BY TableAssumption, FS_Interval DEF Buckets
<1>2. f \in [Buckets -> B] /\ \A s \in B : \E b \in Buckets : f[b] = s
  OBVIOUS
<1>3. \A s \in B : IsFiniteSet(s)
  <2> SUFFICES ASSUME NEW b \in Buckets PROVE IsFiniteSet(ToSet(t[b]))
    OBVIOUS
  <2>1. t[b] \in Seq(Entries)
    BY DEF Tables
  <2> QED
    BY <2>1, ToSetFinite
<1>4. AllPeers(t) = UNION B
  BY DEF AllPeers
<1> HIDE DEF B, f
<1>5. f \in Surjection(Buckets, B)
  BY <1>2, Zenon DEF Surjection
<1>6. IsFiniteSet(B)
  BY <1>1, <1>5, FS_Surjection
<1>7. IsFiniteSet(UNION B)
  BY <1>3, <1>6, FS_UNION
<1> QED
  BY <1>4, <1>7, FS_CardinalityType DEF Size

\* What FindClosest returns are copies of entries.
LEMMA CopiesFacts ==
  ASSUME NEW t \in Tables, NEW target, NEW peers \in FindClosest(t, target, K)
  PROVE  Copies(peers) \in Seq(Contacts)
<1> DEFINE n == Min({K, Size(t)})
<1>1. K \in Nat /\ Size(t) \in Nat
  BY TableAssumption, SizeNat
<1>2. n \in Nat
  <2> DEFINE P == {K, Size(t)}
  <2>1. P \subseteq Nat /\ P # {}
    BY <1>1
  <2>2. Min(P) \in P
    <3> HIDE DEF P
    <3> QED
      BY <2>1, FirstPlace
  <2> QED
    BY <2>1, <2>2
<1>3. peers \in [1..n -> AllPeers(t)]
  BY DEF FindClosest
<1> HIDE DEF n
<1>4. ASSUME NEW i \in 1..n PROVE [id |-> peers[i].id, onion |-> peers[i].onion] \in Contacts
  <2>1. PICK b \in Buckets : \E k \in 1..Len(t[b]) : peers[i] = t[b][k]
    BY <1>3, PeerOf
  <2>2. peers[i] \in Entries
    BY <2>1 DEF Tables
  <2> QED
    BY <2>2 DEF Entries, Contacts
<1>5. DOMAIN peers = 1..n
  BY <1>3
<1>6. Copies(peers) = [i \in 1..n |-> [id |-> peers[i].id, onion |-> peers[i].onion]]
  BY <1>5 DEF Copies
<1> QED
  BY <1>2, <1>4, <1>6

\* The identities of the node, as a list.
LEMMA IdentsList ==
  ASSUME NEW S, S \subseteq {Service}
  PROVE  <<Local>> \o SetToSeq(S) \in Seq({Local, Service})
<1> DEFINE n == Cardinality(S)
<1>1. n \in Nat /\ \E f \in [1..n -> S] : IsInjective(f)
  <2>1. CASE S = {}
    <3>1. n = 0
      BY <2>1, FS_EmptySet
    <3> DEFINE f == [i \in 1..0 |-> Service]
    <3>2. f \in [1..0 -> S] /\ IsInjective(f)
      BY DEF IsInjective
    <3> HIDE DEF f, n
    <3>3. f \in [1..n -> S]
      BY <3>1, <3>2, Zenon
    <3>4. n \in Nat
      BY <3>1
    <3> QED
      BY <3>2, <3>3, <3>4, Zenon
  <2>2. CASE S = {Service}
    <3>1. n = 1
      <4>1. Cardinality({Service}) = 1
        BY FS_Singleton, Zenon
      <4> QED
        BY <2>2, <4>1
    <3> DEFINE f == [i \in 1..1 |-> Service]
    <3>2. f \in [1..1 -> S] /\ IsInjective(f)
      BY <2>2 DEF IsInjective
    <3> HIDE DEF f
    <3> QED
      BY <3>1, <3>2
  <2> QED
    BY <2>1, <2>2
<1>2. SetToSeq(S) \in [1..n -> S]
  BY <1>1 DEF SetToSeq
<1> HIDE DEF n
<1>3. SetToSeq(S) \in Seq({Local, Service})
  BY <1>1, <1>2
<1>4. <<Local>> \in Seq({Local, Service})
  OBVIOUS
<1> QED
  BY <1>3, <1>4

\* A field read late is that of the entry the peer has now.
LEMMA CurrentFacts ==
  ASSUME NEW e \in Entries, e.fails = 0, rt \in Tables
  PROVE  Current(e) \in Entries /\ Current(e).id = e.id /\ Current(e).fails = 0
<1>1. CASE ~Present(rt, e.id)
  BY <1>1 DEF Current
<1>2. CASE Present(rt, e.id)
  <2> DEFINE b == CommonPrefixLen(Local, e.id)
  <2>1. b \in Buckets
    BY PrefixBucket DEF Entries
  <2>2. \E f \in ToSet(rt[b]) : f.id = e.id
    BY <1>2 DEF Present
  <2> HIDE DEF b
  <2>3. rt[b] \in Seq(Entries)
    BY <2>1 DEF Tables
  <2>4. PICK i \in 1..Len(rt[b]) : rt[b][i].id = e.id
    BY <2>2, <2>3 DEF ToSet
  <2>5. EntryOf(rt, e.id) = rt[b][i]
    BY <2>1, <2>4, EntryOfFacts
  <2>6. rt[b][i] \in Entries
    BY <2>3
  <2>7. Current(e) = [rt[b][i] EXCEPT !.fails = 0]
    BY <1>2, <2>5 DEF Current
  <2> QED
    BY <2>4, <2>6, <2>7 DEF Entries
<1> QED
  BY <1>1, <1>2

\* A step changes one job.
LEMMA JobUpdated ==
  ASSUME JobInv, NEW j \in Jobs, NEW x \in JobStates, x.pc = "record" => x.todo # <<>>,
         job' = [job EXCEPT ![j] = x], idents' = idents
  PROVE  JobInv' /\ job'[j] = x /\ \A i \in Jobs : i # j => job'[i] = job[i]
<1>1. job \in [Jobs -> JobStates]
  BY DEF JobInv
<1>2. job' \in [Jobs -> JobStates] /\ job'[j] = x /\ \A i \in Jobs : i # j => job'[i] = job[i]
  BY <1>1
<1>3. \A i \in Jobs : job'[i].pc = "record" => job'[i].todo # <<>>
  BY <1>2 DEF JobInv
<1> QED
  BY <1>2, <1>3 DEF JobInv

\* While the daemon is up there is nothing to say about its start.
LEMMA BootUp ==
  ASSUME BootInv, up, up' = up, crashes' = crashes
  PROVE  BootInv'
<1> QED
  BY DEF BootInv

\* Before the daemon is up no job announces.
LEMMA Announcing ==
  ASSUME BootInv, NEW j \in Jobs, job[j].pc \notin {"idle", "save", "marshal", "write"}
  PROVE  up
<1> QED
  BY DEF BootInv, Jobs, Startup, Loop, Add

\* What a step makes of the jobs, the file and the start.
RestStep == JobInv' /\ FileInv' /\ BootInv'

\* A step that changes neither the jobs nor the file nor what is up.
LEMMA RestUntouched ==
  ASSUME JobInv, FileInv, BootInv, UNCHANGED <<job, file, daemon>>, idents' \subseteq {Service},
         ~up /\ job[Startup].pc = "idle" => rt' = rt
  PROVE  RestStep
<1>1. job' = job /\ file' = file /\ up' = up /\ crashes' = crashes
  BY DEF daemon
<1>2. JobInv'
  BY <1>1 DEF JobInv
<1>3. FileInv'
  BY <1>1 DEF FileInv
<1>4. BootInv'
  BY <1>1 DEF BootInv
<1> QED
  BY <1>2, <1>3, <1>4 DEF RestStep

\* A job changes while the daemon is up and leaves the file alone.
LEMMA RestJob ==
  ASSUME JobInv, FileInv, BootInv, up, UNCHANGED <<file, daemon, idents>>,
         NEW j \in Jobs, NEW x \in JobStates, x.pc = "record" => x.todo # <<>>,
         job' = [job EXCEPT ![j] = x]
  PROVE  RestStep
<1>1. file' = file /\ up' = up /\ crashes' = crashes /\ idents' = idents
  BY DEF daemon
<1>2. JobInv'
  BY <1>1, JobUpdated
<1>3. FileInv'
  BY <1>1 DEF FileInv
<1>4. BootInv'
  BY <1>1, BootUp
<1> QED
  BY <1>2, <1>3, <1>4 DEF RestStep

\* An entry grows old: before the daemon is up and loads a table there is none.
LEMMA AgeEntryRest ==
  ASSUME JobInv, FileInv, BootInv, AgeEntry
  PROVE  RestStep
<1>1. UNCHANGED <<job, file, daemon>> /\ idents' = idents
  BY DEF AgeEntry
<1>2. ASSUME rt = EmptyTable PROVE FALSE
  <2>1. PICK b \in Buckets : \E i \in DOMAIN rt[b] : TRUE
    BY DEF AgeEntry
  <2>2. rt[b] = <<>>
    BY <1>2 DEF EmptyTable
  <2> QED
    BY <2>1, <2>2
<1>3. idents' \subseteq {Service}
  BY <1>1 DEF JobInv
<1>4. ~up /\ job[Startup].pc = "idle" => rt' = rt
  BY <1>2 DEF BootInv
<1> QED
  BY <1>1, <1>3, <1>4, RestUntouched

\* Steps of other nodes and of the hosted service.
LEMMA WorldRest ==
  ASSUME JobInv, FileInv, BootInv,
         WindowPasses \/ handlePutRecord \/ AddLocalIdentity \/ RemoveLocalIdentity
  PROVE  RestStep
<1>1. UNCHANGED <<job, file, daemon>>
  BY DEF WindowPasses, handlePutRecord, AddLocalIdentity, RemoveLocalIdentity
<1>2. idents' \subseteq {Service}
  BY DEF WindowPasses, handlePutRecord, AddLocalIdentity, RemoveLocalIdentity, JobInv
<1>3. ~up => rt' = rt
  BY DEF WindowPasses, handlePutRecord, AddLocalIdentity, RemoveLocalIdentity, table
<1> QED
  BY <1>1, <1>2, <1>3, RestUntouched

\* Steps of the FindPeer calls and of mDNS.
LEMMA CallRest ==
  ASSUME JobInv, FileInv, BootInv,
         \/ \E c \in Calls : FindPeer(c) \/ CallCancelled(c) \/ QueryPeer(c) \/ CallStep(c)
         \/ Browse \/ InvokeCallback \/ ReceivePeer
  PROVE  RestStep
<1>1. UNCHANGED <<job, file, daemon>> /\ idents' = idents /\ (~up => rt' = rt)
  BY DEF FindPeer, CallCancelled, CallStep, FoundOnLan, MdnsTimeout, RestoreCallback, Lookup,
         LookupRound, SkipQueried, QueryPeer, RoundDone, LookupExhausted, Browse,
         InvokeCallback, ReceivePeer, otherThanCall, table, CallAt
<1>2. idents' \subseteq {Service}
  BY <1>1 DEF JobInv
<1> QED
  BY <1>1, <1>2, RestUntouched

\* A job record with other fields.
LEMMA JobFields ==
  ASSUME NEW x \in JobStates
  PROVE  /\ \A pc \in {"idle", "announce", "next", "put", "record", "save", "boot"} :
              [x EXCEPT !.pc = pc] \in JobStates
         /\ IdleJob \in JobStates
         /\ [IdleJob EXCEPT !.pc = "boot"] \in JobStates
         /\ [x EXCEPT !.pc = "save", !.booted = FALSE] \in JobStates
<1>1. <<>> \in Lists
  BY EmptyFits
<1>2. IdleJob \in JobStates
  BY <1>1 DEF IdleJob, JobStates
<1> QED
  BY <1>1, <1>2 DEF IdleJob, JobStates

\* AddNode, a tick and the start-up announcement.
LEMMA TriggerRest ==
  ASSUME TableInv, JobInv, FileInv, BootInv, Bootstrap \/ EvictStale \/ StartupAnnounce
  PROVE  RestStep
<1>1. job \in [Jobs -> JobStates] /\ Add \in Jobs /\ Loop \in Jobs /\ Startup \in Jobs
      /\ job[Add] \in JobStates /\ job[Loop] \in JobStates
  BY DEF JobInv, Jobs
<1>2. UNCHANGED <<file, daemon, idents>>
  BY DEF Bootstrap, EvictStale, StartupAnnounce, otherThanJob
<1>3. CASE Bootstrap
  <2> DEFINE x == [job[Add] EXCEPT !.pc = "announce"]
  <2>1. up /\ job' = [job EXCEPT ![Add] = x]
    BY <1>3 DEF Bootstrap
  <2>2. x \in JobStates /\ x.pc = "announce"
    BY <1>1 DEF JobStates
  <2> HIDE DEF x
  <2> QED
    BY <1>1, <1>2, <2>1, <2>2, RestJob
<1>4. CASE EvictStale
  <2> DEFINE x == [job[Loop] EXCEPT !.pc = "announce"]
  <2>1. up /\ job' = [job EXCEPT ![Loop] = x]
    BY <1>4 DEF EvictStale
  <2>2. x \in JobStates /\ x.pc = "announce"
    BY <1>1 DEF JobStates
  <2> HIDE DEF x
  <2> QED
    BY <1>1, <1>2, <2>1, <2>2, RestJob
<1>5. CASE StartupAnnounce
  <2> DEFINE x == [job[Startup] EXCEPT
                     !.pc = IF Startup \in active /\ Size(rt) > 0 THEN "announce" ELSE "idle"]
  <2>1. job[Startup].pc = "boot" /\ job' = [job EXCEPT ![Startup] = x]
    BY <1>5 DEF StartupAnnounce, JobAt
  <2>2. up
    BY <1>1, <2>1, Announcing
  <2>3. x \in JobStates /\ x.pc # "record"
    BY <1>1 DEF JobStates
  <2> HIDE DEF x
  <2> QED
    BY <1>1, <1>2, <2>1, <2>2, <2>3, RestJob
<1> QED
  BY <1>3, <1>4, <1>5

\* Announcing: identities, peers, outcomes, evictions.
LEMMA AnnounceRest ==
  ASSUME TableInv, JobInv, FileInv, BootInv, NEW j \in Jobs,
         \/ Announce(j) \/ NextIdentity(j) \/ sendPutRecord(j) \/ RecordOutcome(j)
         \/ IdentityDone(j) \/ EvictUnreachable(j)
  PROVE  RestStep
<1>1. job \in [Jobs -> JobStates] /\ job[j] \in JobStates /\ rt \in Tables
  BY DEF JobInv, TableInv
<1>2. UNCHANGED <<file, daemon, idents>>
  BY DEF Announce, NextIdentity, sendPutRecord, RecordOutcome, IdentityDone,
         EvictUnreachable, otherThanJob
<1>3. job[j].pc \in {"announce", "next", "put", "record"}
  BY DEF Announce, NextIdentity, sendPutRecord, RecordOutcome, IdentityDone,
         EvictUnreachable, JobAt
<1>4. up
  BY <1>3, Announcing
<1>5. ASSUME NEW x \in JobStates, x.pc = "record" => x.todo # <<>>, job' = [job EXCEPT ![j] = x]
      PROVE  RestStep
  BY <1>2, <1>4, <1>5, RestJob
<1>6. CASE Announce(j)
  <2> DEFINE l == <<Local>> \o SetToSeq(idents)
             x == [job[j] EXCEPT !.pc = "next", !.ids = l]
  <2>1. job' = [job EXCEPT ![j] = x]
    BY <1>6 DEF Announce
  <2>2. l \in Seq({Local, Service})
    BY IdentsList DEF JobInv
  <2> HIDE DEF l
  <2>3. x \in JobStates /\ x.pc = "next"
    BY <1>1, <2>2 DEF JobStates
  <2> HIDE DEF x
  <2> QED
    BY <1>5, <2>1, <2>3
<1>7. CASE NextIdentity(j)
  <2>1. PICK closest \in FindClosest(rt, Head(job[j].ids), K) :
          job' = [job EXCEPT ![j].ids = Tail(@), ![j].pc = "put", ![j].todo = Copies(closest)]
    BY <1>7 DEF NextIdentity
  <2>2. Copies(closest) \in Seq(Contacts)
    BY <1>1, CopiesFacts
  <2> DEFINE x == [job[j] EXCEPT !.ids = Tail(@), !.pc = "put", !.todo = Copies(closest)]
  <2>3. job' = [job EXCEPT ![j] = x]
    BY <2>1
  <2>4. job[j].ids # <<>> /\ job[j].ids \in Seq({Local, Service})
    BY <1>1, <1>7 DEF NextIdentity, JobStates
  <2>5. Tail(job[j].ids) \in Seq({Local, Service})
    BY <2>4
  <2>6. x \in JobStates /\ x.pc = "put"
    BY <1>1, <2>2, <2>5 DEF JobStates
  <2> HIDE DEF x
  <2> QED
    BY <1>5, <2>3, <2>6
<1>8. CASE sendPutRecord(j)
  <2>1. PICK ok \in BOOLEAN : job' = [job EXCEPT ![j].pc = "record", ![j].ok = ok]
    BY <1>8 DEF sendPutRecord
  <2> DEFINE x == [job[j] EXCEPT !.pc = "record", !.ok = ok]
  <2>2. job' = [job EXCEPT ![j] = x]
    BY <2>1
  <2>3. job[j].todo # <<>>
    BY <1>8 DEF sendPutRecord
  <2>4. x \in JobStates /\ x.todo = job[j].todo
    BY <1>1 DEF JobStates
  <2> HIDE DEF x
  <2> QED
    BY <1>5, <2>2, <2>3, <2>4
<1>9. CASE RecordOutcome(j)
  <2> DEFINE x == [job[j] EXCEPT !.pc = "put", !.todo = Tail(@), !.ok = FALSE]
  <2>1. job' = [job EXCEPT ![j] = x]
    BY <1>9 DEF RecordOutcome
  <2>2. job[j].todo \in Seq(Contacts) /\ job[j].todo # <<>>
    BY <1>1, <1>9 DEF RecordOutcome, JobAt, JobInv, JobStates
  <2>3. Tail(job[j].todo) \in Seq(Contacts)
    BY <2>2
  <2>4. x \in JobStates /\ x.pc = "put"
    BY <1>1, <2>3 DEF JobStates
  <2> HIDE DEF x
  <2> QED
    BY <1>5, <2>1, <2>4
<1>10. CASE IdentityDone(j)
  <2> DEFINE x == [job[j] EXCEPT !.pc = "next"]
  <2>1. job' = [job EXCEPT ![j] = x]
    BY <1>10 DEF IdentityDone
  <2>2. x \in JobStates /\ x.pc = "next"
    BY <1>1 DEF JobStates
  <2> HIDE DEF x
  <2> QED
    BY <1>5, <2>1, <2>2
<1>11. CASE EvictUnreachable(j)
  <2> DEFINE x == [job[j] EXCEPT !.pc = "save"]
  <2>1. job' = [job EXCEPT ![j] = x]
    BY <1>11 DEF EvictUnreachable
  <2>2. x \in JobStates /\ x.pc = "save"
    BY <1>1 DEF JobStates
  <2> HIDE DEF x
  <2> QED
    BY <1>5, <2>1, <2>2
<1> QED
  BY <1>6, <1>7, <1>8, <1>9, <1>10, <1>11

\* A step of Save before the write: the daemon's start goes on.
LEMMA SaveRest ==
  ASSUME JobInv, FileInv', BootInv, NEW j \in Jobs, job[j].pc \in {"save", "marshal"},
         NEW x \in JobStates, x.pc \in {"marshal", "write"}, job' = [job EXCEPT ![j] = x],
         UNCHANGED <<daemon, idents>>
  PROVE  RestStep
<1>1. up' = up /\ crashes' = crashes /\ idents' = idents
  BY DEF daemon
<1>2. JobInv' /\ job'[j] = x /\ \A i \in Jobs : i # j => job'[i] = job[i]
  BY <1>1, JobUpdated
<1>3. BootInv'
  <2>1. CASE up
    BY <1>1, <2>1, BootUp
  <2>2. CASE ~up
    <3>1. j = Startup
      BY <2>2 DEF BootInv, Jobs, Startup, Loop, Add
    <3>2. job'[Loop] = job[Loop] /\ job'[Add] = job[Add] /\ job'[Startup] = x
      BY <1>2, <3>1 DEF Jobs, Startup, Loop, Add
    <3> QED
      BY <1>1, <2>2, <3>2 DEF BootInv
  <2> QED
    BY <2>1, <2>2 DEF BootInv
<1> QED
  BY <1>2, <1>3 DEF RestStep

\* Save: what is copied, read late and written fits a table.
LEMMA WriteRest ==
  ASSUME TableInv, JobInv, FileInv, BootInv, NEW j \in Jobs,
         Snapshot(j) \/ OpenFile(j) \/ WriteFile(j)
  PROVE  RestStep
<1>1. job \in [Jobs -> JobStates] /\ job[j] \in JobStates /\ rt \in Tables
  BY DEF JobInv, TableInv
<1>2. CASE Snapshot(j)
  <2> DEFINE x == [job[j] EXCEPT !.pc = "marshal", !.snap = Saved(rt)]
  <2>1. job[j].pc = "save" /\ job' = [job EXCEPT ![j] = x] /\ file' = file
        /\ UNCHANGED <<daemon, idents>>
    BY <1>2 DEF Snapshot, JobAt, otherThanJob
  <2>2. Saved(rt) \in Lists
    BY <1>1, SavedFits
  <2>3. x \in JobStates /\ x.pc = "marshal"
    BY <1>1, <2>2 DEF JobStates
  <2>4. FileInv'
    BY <2>1 DEF FileInv
  <2> HIDE DEF x
  <2> QED
    BY <2>1, <2>3, <2>4, SaveRest
<1>3. CASE OpenFile(j)
  <2> DEFINE s == job[j].snap
  <2>1. PICK late \in SUBSET DOMAIN job[j].snap :
          job' = [job EXCEPT ![j].pc = "write",
                    ![j].snap = [i \in DOMAIN @ |-> IF i \in late THEN Current(@[i]) ELSE @[i]]]
    BY <1>3 DEF OpenFile
  <2> DEFINE r == [i \in DOMAIN s |-> IF i \in late THEN Current(s[i]) ELSE s[i]]
             x == [job[j] EXCEPT !.pc = "write", !.snap = r]
  <2>2. job' = [job EXCEPT ![j] = x]
    BY <2>1
  <2>3. job[j].pc = "marshal" /\ file' = Torn /\ UNCHANGED <<daemon, idents>>
    BY <1>3 DEF OpenFile, JobAt, otherThanJob
  <2>4. s \in Lists
    BY <1>1 DEF JobStates
  <2>5. r \in Lists
    <3> HIDE DEF s
    <3>1. s \in Seq(Entries) /\ Len(s) \in Nat /\ DOMAIN s = 1..Len(s)
          /\ \A i \in 1..Len(s) : s[i].fails = 0 /\ s[i] \in Entries
      BY <2>4 DEF Lists
    <3>2. ASSUME NEW i \in 1..Len(s)
          PROVE  r[i] \in Entries /\ r[i].id = s[i].id /\ r[i].fails = 0
      <4>1. s[i] \in Entries /\ s[i].fails = 0
        BY <3>1
      <4>2. Current(s[i]) \in Entries /\ Current(s[i]).id = s[i].id /\ Current(s[i]).fails = 0
        BY <1>1, <4>1, CurrentFacts
      <4>3. r[i] = IF i \in late THEN Current(s[i]) ELSE s[i]
        BY <3>1
      <4> QED
        BY <4>1, <4>2, <4>3
    <3>3. DOMAIN r = 1..Len(s)
      BY <3>1
    <3>4. r \in Seq(Entries) /\ Len(r) = Len(s)
      <4>1. r = [i \in 1..Len(s) |-> r[i]]
        BY <3>1
      <4> HIDE DEF r
      <4> QED
        BY <3>1, <3>2, <4>1
    <3> HIDE DEF r
    <3> QED
      BY <2>4, <3>2, <3>4, SameIdsFit
  <2> HIDE DEF r
  <2>6. x \in JobStates /\ x.pc = "write"
    BY <1>1, <2>5 DEF JobStates
  <2>7. FileInv'
    BY <2>3 DEF FileInv
  <2> HIDE DEF x
  <2> QED
    BY <2>2, <2>3, <2>6, <2>7, SaveRest
<1>4. CASE WriteFile(j)
  <2> DEFINE x == IF job[j].booted THEN IdleJob ELSE [IdleJob EXCEPT !.pc = "boot"]
  <2>1. job' = [job EXCEPT ![j] = x] /\ idents' = idents /\ up' = TRUE /\ crashes' = crashes
    BY <1>4 DEF WriteFile
  <2>2. x \in JobStates /\ x.pc # "record"
    BY <1>1, JobFields DEF IdleJob
  <2> HIDE DEF x
  <2>3. JobInv'
    BY <2>1, <2>2, JobUpdated
  <2>4. file' \in {job[j].snap, Torn}
    BY <1>4 DEF WriteFile
  <2>5. FileInv'
    BY <1>1, <2>4 DEF FileInv, JobStates
  <2>6. BootInv'
    BY <2>1 DEF BootInv
  <2> QED
    BY <2>3, <2>5, <2>6 DEF RestStep
<1> QED
  BY <1>2, <1>3, <1>4

\* The daemon dies and starts again.
LEMMA CrashRest ==
  ASSUME TableInv, JobInv, FileInv, BootInv, Crash \/ Restart
  PROVE  RestStep
<1>1. job \in [Jobs -> JobStates] /\ Startup \in Jobs
  BY DEF JobInv, Jobs
<1>2. job[Startup] \in JobStates
  BY <1>1
<1>3. file' = file
  BY DEF Crash, Restart
<1>4. FileInv'
  BY <1>3 DEF FileInv
<1>5. CASE Crash
  <2>1. /\ job' = [j \in Jobs |-> IdleJob] /\ idents' = {} /\ rt' = EmptyTable
        /\ up' = FALSE /\ crashes' = crashes + 1
    BY <1>5 DEF Crash
  <2>2. IdleJob \in JobStates /\ IdleJob.pc = "idle"
    BY <1>2, JobFields DEF IdleJob
  <2>3. JobInv'
    BY <2>1, <2>2 DEF JobInv
  <2>4. BootInv'
    <3>1. \A j \in Jobs : job'[j] = IdleJob
      BY <2>1
    <3>2. Startup \in Jobs /\ Loop \in Jobs /\ Add \in Jobs
      BY DEF Jobs
    <3>3. job'[Startup] = IdleJob /\ job'[Loop] = IdleJob /\ job'[Add] = IdleJob
      BY <3>1, <3>2
    <3>4. crashes' \in Nat
      BY <2>1 DEF BootInv
    <3>5. job'[Startup].pc = "idle" /\ job'[Loop].pc = "idle" /\ job'[Add].pc = "idle"
      BY <2>2, <3>3
    <3>6. up' \in BOOLEAN /\ rt' = EmptyTable
      BY <2>1
    <3> QED
      BY <3>4, <3>5, <3>6 DEF BootInv
  <2> QED
    BY <1>4, <2>3, <2>4 DEF RestStep
<1>6. CASE Restart
  <2>1. ~up /\ job[Startup].pc = "idle" /\ idents' = idents /\ crashes' = crashes
    BY <1>6 DEF Restart
  <2>2. CASE rt' # Load(OnDisk)
    <3> DEFINE x == [job[Startup] EXCEPT !.pc = "save", !.booted = FALSE]
    <3>1. job' = [job EXCEPT ![Startup] = x] /\ up' = FALSE
      BY <1>6, <2>2 DEF Restart
    <3>2. x \in JobStates /\ x.pc = "save"
      BY <1>2 DEF JobStates
    <3> HIDE DEF x
    <3>3. JobInv' /\ job'[Startup] = x /\ \A i \in Jobs : i # Startup => job'[i] = job[i]
      BY <1>1, <2>1, <3>1, <3>2, JobUpdated
    <3>4. job'[Loop] = job[Loop] /\ job'[Add] = job[Add]
      BY <3>3 DEF Jobs, Startup, Loop, Add
    <3>5. BootInv'
      BY <2>1, <3>1, <3>2, <3>3, <3>4 DEF BootInv
    <3> QED
      BY <1>4, <3>3, <3>5 DEF RestStep
  <2>3. CASE rt' = Load(OnDisk)
    <3> DEFINE x == [job[Startup] EXCEPT !.pc = "boot"]
    <3>1. job' = [job EXCEPT ![Startup] = x] /\ up' = TRUE
      BY <1>6, <2>3 DEF Restart
    <3>2. x \in JobStates /\ x.pc = "boot"
      BY <1>2 DEF JobStates
    <3> HIDE DEF x
    <3>3. JobInv'
      BY <1>1, <2>1, <3>1, <3>2, JobUpdated
    <3>4. BootInv'
      BY <2>1, <3>1 DEF BootInv
    <3> QED
      BY <1>4, <3>3, <3>4 DEF RestStep
  <2> QED
    BY <2>2, <2>3
<1> QED
  BY <1>5, <1>6

-----------------------------------------------------------------------------
(* The theorems.                                                           *)

\* What every step makes of the table.
LEMMA TableNext ==
  ASSUME DiscoveryInv, [Next]_vars
  PROVE  TableStep
<1> USE DEF DiscoveryInv
<1>1. CASE AgeEntry
  BY <1>1, AgeEntryTable
<1>2. CASE WindowPasses
  BY <1>2, WindowPassesTable
<1>3. CASE handlePutRecord
  BY <1>3, HandlePutTable
<1>4. CASE AddLocalIdentity \/ RemoveLocalIdentity
  <2>1. UNCHANGED <<table, misses>>
    BY <1>4 DEF AddLocalIdentity, RemoveLocalIdentity
  <2> QED
    BY <2>1, TableUntouched
<1>5. CASE Bootstrap
  BY <1>5, BootstrapTable
<1>6. CASE EvictStale
  BY <1>6, EvictStaleTable
<1>7. CASE StartupAnnounce
  <2>1. UNCHANGED <<table, misses>>
    BY <1>7 DEF StartupAnnounce
  <2> QED
    BY <2>1, TableUntouched
<1>8. ASSUME NEW j \in Jobs, JobStep(j) PROVE TableStep
  <2>1. CASE sendPutRecord(j)
    BY <2>1, SendPutTable
  <2>2. CASE RecordOutcome(j)
    BY <2>2, RecordOutcomeTable
  <2>3. CASE EvictUnreachable(j)
    BY <2>3, EvictUnreachableTable
  <2>4. CASE \/ Announce(j) \/ NextIdentity(j) \/ IdentityDone(j)
             \/ Snapshot(j) \/ OpenFile(j) \/ WriteFile(j)
    <3>1. UNCHANGED <<table, misses>>
      BY <2>4 DEF Announce, NextIdentity, IdentityDone, Snapshot, OpenFile, WriteFile
    <3> QED
      BY <3>1, TableUntouched
  <2> QED
    BY <1>8, <2>1, <2>2, <2>3, <2>4 DEF JobStep
<1>9. CASE Crash
  BY <1>9, CrashTable
<1>10. CASE Restart
  BY <1>10, RestartTable
<1>11. ASSUME NEW c \in Calls, FindPeer(c) \/ CallCancelled(c) \/ QueryPeer(c) \/ CallStep(c) PROVE TableStep
  <2>1. CASE QueryPeer(c)
    BY <2>1, QueryPeerTable
  <2>2. CASE \/ FindPeer(c) \/ CallCancelled(c) \/ FoundOnLan(c) \/ MdnsTimeout(c)
             \/ RestoreCallback(c) \/ Lookup(c) \/ LookupRound(c) \/ SkipQueried(c)
             \/ RoundDone(c) \/ LookupExhausted(c)
    <3>1. UNCHANGED <<table, misses>>
      BY <2>2 DEF FindPeer, CallCancelled, FoundOnLan, MdnsTimeout, RestoreCallback, Lookup,
                  LookupRound, SkipQueried, RoundDone, LookupExhausted, otherThanCall
    <3> QED
      BY <3>1, TableUntouched
  <2> QED
    BY <1>11, <2>1, <2>2 DEF CallStep
<1>12. CASE Browse \/ InvokeCallback \/ ReceivePeer
  <2>1. UNCHANGED <<table, misses>>
    BY <1>12 DEF Browse, InvokeCallback, ReceivePeer, otherThanCall
  <2> QED
    BY <2>1, TableUntouched
<1>13. CASE UNCHANGED vars
  <2>1. UNCHANGED <<table, misses>>
    BY <1>13 DEF vars, table
  <2> QED
    BY <2>1, TableUntouched
<1> QED
  BY <1>1, <1>2, <1>3, <1>4, <1>5, <1>6, <1>7, <1>8, <1>9, <1>10, <1>11, <1>12, <1>13 DEF Next

\* What every step makes of the jobs and the file.
LEMMA RestNext ==
  ASSUME DiscoveryInv, [Next]_vars
  PROVE  RestStep
<1> USE DEF DiscoveryInv
<1>1. CASE AgeEntry
  BY <1>1, AgeEntryRest
<1>2. CASE WindowPasses \/ handlePutRecord \/ AddLocalIdentity \/ RemoveLocalIdentity
  BY <1>2, WorldRest
<1>3. CASE Bootstrap \/ EvictStale \/ StartupAnnounce
  BY <1>3, TriggerRest
<1>4. ASSUME NEW j \in Jobs, JobStep(j) PROVE RestStep
  <2>1. CASE \/ Announce(j) \/ NextIdentity(j) \/ sendPutRecord(j) \/ RecordOutcome(j)
             \/ IdentityDone(j) \/ EvictUnreachable(j)
    BY <2>1, AnnounceRest
  <2>2. CASE Snapshot(j) \/ OpenFile(j) \/ WriteFile(j)
    BY <2>2, WriteRest
  <2> QED
    BY <1>4, <2>1, <2>2 DEF JobStep
<1>5. CASE Crash \/ Restart
  BY <1>5, CrashRest
<1>6. CASE \/ \E c \in Calls : FindPeer(c) \/ CallCancelled(c) \/ QueryPeer(c) \/ CallStep(c)
           \/ Browse \/ InvokeCallback \/ ReceivePeer
  BY <1>6, CallRest
<1>7. CASE UNCHANGED vars
  <2>1. UNCHANGED <<job, file, daemon>> /\ idents' = idents /\ rt' = rt
    BY <1>7 DEF vars, daemon
  <2>2. idents' \subseteq {Service}
    BY <2>1 DEF JobInv
  <2> QED
    BY <2>1, <2>2, RestUntouched
<1> QED
  BY <1>1, <1>2, <1>3, <1>4, <1>5, <1>6, <1>7 DEF Next

\* The invariant at the start.
LEMMA DiscoveryInit ==
  ASSUME Init
  PROVE  DiscoveryInv
<1>1. sources \in Trackers /\ misses \in [Ids -> Nat]
  BY DEF Init, Trackers, NewTracker
<1>2. TableInv
  BY <1>1, EmptyTableFacts DEF Init, TableInv
<1>3. IdleJob \in JobStates /\ IdleJob.pc = "idle"
  BY EmptyFits DEF IdleJob, JobStates
<1>4. JobInv
  BY <1>3 DEF Init, JobInv
<1>5. FileInv
  BY FilesFit DEF Init, FileInv
<1>6. BootInv
  BY <1>3 DEF Init, BootInv, Jobs
<1> QED
  BY <1>2, <1>4, <1>5, <1>6 DEF DiscoveryInv

\* The invariant holds of every reachable state: handlers, lookups, the three jobs,
\* crashes and restarts interleave as they may (manager.go, dht.go, routing.go).
THEOREM DiscoveryInvariant == Spec => []DiscoveryInv
<1>1. Init => DiscoveryInv
  BY DiscoveryInit
<1>2. DiscoveryInv /\ [Next]_vars => DiscoveryInv'
  <2> SUFFICES ASSUME DiscoveryInv, [Next]_vars PROVE DiscoveryInv'
    OBVIOUS
  <2>1. TableStep
    BY TableNext
  <2>2. RestStep
    BY RestNext
  <2> QED
    BY <2>1, <2>2 DEF TableStep, RestStep, DiscoveryInv
<1> QED
  BY <1>1, <1>2, PTL DEF Spec

\* Every peer is in the table once, in the bucket of its distance, no bucket exceeds K
\* and the node itself is never listed, for identifiers of any length, any bucket size
\* and any answers (AddPeer, Evict, EvictByFailures, Load).
THEOREM TableIsSound == Spec => []TableSound
<1>1. DiscoveryInv => TableSound
  BY TablesWellFormed DEF DiscoveryInv, TableInv, TableSound
<1> QED
  BY <1>1, DiscoveryInvariant, PTL

\* A file that can be read gives back exactly its entries, whatever the table was when
\* Save copied it, however many fields were read late and wherever the daemon died
\* (Save, Load).
THEOREM RestoreIsExact == Spec => []RestoreExact
<1>1. DiscoveryInv => RestoreExact
  <2> SUFFICES ASSUME DiscoveryInv, file \notin {None, Torn}
               PROVE  WellFormed(Load(file)) /\ AllPeers(Load(file)) = ToSet(file)
    BY DEF RestoreExact
  <2> DEFINE t == Load(file)
  <2>1. file \in Lists
    BY DEF DiscoveryInv, FileInv
  <2>2. t \in Tables
    BY <2>1, LoadFacts
  <2>3. \A b \in Buckets : \A k \in 1..Len(t[b]) : \E i \in 1..Len(file) : t[b][k] = file[i]
    BY <2>1, LoadFacts
  <2>4. \A i \in 1..Len(file) : \E b \in Buckets : \E k \in 1..Len(t[b]) : t[b][k] = file[i]
    BY <2>1, LoadFacts
  <2>5. DOMAIN file = 1..Len(file)
    BY <2>1 DEF Lists
  <2> HIDE DEF t
  <2>6. \A e : e \in ToSet(file) <=> \E i \in 1..Len(file) : e = file[i]
    BY <2>5 DEF ToSet
  <2>7. \A e : e \in AllPeers(t) <=> \E b \in Buckets : \E k \in 1..Len(t[b]) : e = t[b][k]
    BY <2>2, PeerOf
  <2>8. AllPeers(t) = ToSet(file)
    <3>1. ASSUME NEW e \in AllPeers(t) PROVE e \in ToSet(file)
      BY <2>3, <2>6, <2>7
    <3>2. ASSUME NEW e \in ToSet(file) PROVE e \in AllPeers(t)
      BY <2>4, <2>6, <2>7
    <3> QED
      BY <3>1, <3>2
  <2> QED
    BY <2>2, <2>8, TablesWellFormed DEF t
<1> QED
  BY <1>1, DiscoveryInvariant, PTL

\* Short of a crash a peer leaves the table only when it is ancient or when
\* FailureThreshold announcements to it failed since a recorded success: no stale copy,
\* no second job and no change of onion makes it less (RecordFailure, RecordSuccess,
\* Evict, EvictByFailures).
THEOREM EvictionsHaveCause == Spec => EvictedForCause
<1>1. DiscoveryInv /\ [Next]_vars =>
        [crashes' = crashes =>
           \A id \in Known(rt) \ Known(rt') :
             EntryOf(rt, id).age = "ancient" \/ misses[id] >= FailureThreshold]_vars
  <2> SUFFICES ASSUME DiscoveryInv, [Next]_vars, crashes' = crashes
               PROVE  \A id \in Known(rt) \ Known(rt') :
                        EntryOf(rt, id).age = "ancient" \/ misses[id] >= FailureThreshold
    OBVIOUS
  <2>1. TableStep
    BY TableNext
  <2> QED
    BY <2>1 DEF TableStep, Cause
<1> QED
  BY <1>1, DiscoveryInvariant, PTL DEF Spec, EvictedForCause
=============================================================================
