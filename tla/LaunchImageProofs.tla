-------------------------- MODULE LaunchImageProofs --------------------------
(***************************************************************************)
(* Proofs about the building of IGVM files, for any firmware, blobs and    *)
(* disks, any page size and any addresses.                                 *)
(***************************************************************************)
EXTENDS LaunchImage, MeasureSnpProofs, FiniteSetTheorems, SequenceTheorems

-----------------------------------------------------------------------------
(* Induction, and functions defined by recursion *)

LEMMA LeastNumber ==
    ASSUME NEW T, T \subseteq Nat, T # {}
    PROVE  \E x \in T : \A y \in T : x <= y
<1>1. PICK x \in T : \A y \in T : ~(<<y, x>> \in OpToRel(<, Nat))
    BY NatLessThanWellFounded, WFMin, Zenon
<1>2. \A y \in T : ~(y < x)
    BY <1>1 DEF OpToRel
<1>3. QED
    BY <1>2

LEMMA ByInduction ==
    ASSUME NEW n \in Nat, NEW T, 0 \in T, \A k \in 1..n : k - 1 \in T => k \in T
    PROVE  \A k \in 0..n : k \in T
<1> SUFFICES ASSUME (0..n) \ T # {} PROVE FALSE
    OBVIOUS
<1> DEFINE D == (0..n) \ T
<1>0. D \subseteq Nat /\ D # {}
    OBVIOUS
<1>1. PICK x \in D : \A y \in D : x <= y
  <2> HIDE DEF D
  <2>1. QED
      BY <1>0, LeastNumber
<1>2. x # 0
    OBVIOUS
<1>3. x \in 1..n /\ x - 1 \in 0..n /\ ~(x <= x - 1)
    BY <1>2
<1>4. x - 1 \in T
    BY <1>1, <1>3
<1>5. QED
    BY <1>3, <1>4

\* f is what a recursion with the step F leads to from a.
IsRecursion(f, n, V, a, F) ==
    /\ f \in [0..n -> V]
    /\ f[0] = a
    /\ \A k \in 1..n : f[k] = F[<<k, f[k - 1]>>]

LEMMA RecursionExists ==
    ASSUME NEW n \in Nat, NEW V, NEW a \in V, NEW F \in [(1..n) \X V -> V]
    PROVE  \E f : IsRecursion(f, n, V, a, F)
<1> DEFINE T == {m \in 0..n : \E f : IsRecursion(f, m, V, a, F)}
<1>1. 0 \in T
  <2> DEFINE f == [k \in 0..0 |-> a]
  <2>1. f \in [0..0 -> V] /\ f[0] = a /\ 1..0 = {}
      OBVIOUS
  <2> HIDE DEF f
  <2>2. IsRecursion(f, 0, V, a, F)
      BY <2>1 DEF IsRecursion
  <2>3. QED
      BY <2>2
<1>2. ASSUME NEW m \in 1..n, m - 1 \in T
      PROVE  m \in T
  <2>1. PICK f : IsRecursion(f, m - 1, V, a, F)
      BY <1>2
  <2>2. /\ f \in [0..(m - 1) -> V] /\ f[0] = a
        /\ \A k \in 1..(m - 1) : f[k] = F[<<k, f[k - 1]>>]
      BY <2>1 DEF IsRecursion
  <2>3. m - 1 \in 0..(m - 1) /\ f[m - 1] \in V
      BY <2>2
  <2>4. F[<<m, f[m - 1]>>] \in V
      BY <2>3
  <2> DEFINE g == [k \in 0..m |-> IF k = m THEN F[<<m, f[m - 1]>>] ELSE f[k]]
  <2>5. \A k \in 0..m : k # m => k \in 0..(m - 1)
      OBVIOUS
  <2>6. g \in [0..m -> V]
      BY <2>2, <2>4, <2>5
  <2>7. 0 \in 0..m /\ 0 # m /\ g[0] = a
      BY <2>2
  <2>8. ASSUME NEW k \in 1..m PROVE g[k] = F[<<k, g[k - 1]>>]
    <3>1. k - 1 \in 0..m /\ k \in 0..m /\ k - 1 # m
        OBVIOUS
    <3>2. g[k - 1] = f[k - 1]
        BY <3>1
    <3>3. CASE k = m
        BY <3>1, <3>2, <3>3
    <3>4. CASE k # m
      <4>1. k \in 1..(m - 1) /\ g[k] = f[k]
          BY <3>1, <3>4
      <4>2. QED
          BY <2>2, <3>2, <4>1
    <3>5. QED
        BY <3>3, <3>4
  <2> HIDE DEF g
  <2>9. IsRecursion(g, m, V, a, F)
      BY <2>6, <2>7, <2>8 DEF IsRecursion
  <2>10. QED
      BY <2>9
<1>3. \A k \in 0..n : k \in T
  <2> HIDE DEF T
  <2>1. QED
      BY <1>1, <1>2, ByInduction
<1>4. QED
    BY <1>3

-----------------------------------------------------------------------------
(* Operators on lists *)

LEMMA SeqFacts ==
    ASSUME NEW S, NEW s \in Seq(S)
    PROVE  Len(s) \in Nat /\ \A k \in 1..Len(s) : s[k] \in S
OBVIOUS

LEMMA SeqIntro ==
    ASSUME NEW S, NEW n \in Nat, NEW s \in [1..n -> S]
    PROVE  s \in Seq(S) /\ Len(s) = n
OBVIOUS

LEMMA ConcatSeq ==
    ASSUME NEW S, NEW s \in Seq(S), NEW t \in Seq(S)
    PROVE  s \o t \in Seq(S)
OBVIOUS

LEMMA AppendSeq ==
    ASSUME NEW S, NEW s \in Seq(S), NEW e \in S
    PROVE  /\ Append(s, e) \in Seq(S) /\ Len(Append(s, e)) = Len(s) + 1
           /\ Append(s, e)[Len(s) + 1] = e
           /\ \A k \in 1..Len(s) : Append(s, e)[k] = s[k]
OBVIOUS

LEMMA SeqMember ==
    ASSUME NEW S, NEW s \in Seq(S), NEW d
    PROVE  d \in ToSet(s) <=> \E k \in 1..Len(s) : s[k] = d
BY DEF ToSet

LEMMA ConcatMembers ==
    ASSUME NEW S, NEW s \in Seq(S), NEW t \in Seq(S)
    PROVE  ToSet(s \o t) = ToSet(s) \union ToSet(t)
<1> DEFINE u == s \o t
<1>1. /\ u \in Seq(S) /\ Len(u) = Len(s) + Len(t) /\ Len(s) \in Nat /\ Len(t) \in Nat
      /\ \A k \in 1..Len(s) : u[k] = s[k]
      /\ \A k \in 1..Len(t) : u[Len(s) + k] = t[k]
  <2>1. /\ u \in Seq(S) /\ Len(u) = Len(s) + Len(t)
        /\ \A i \in 1..(Len(s) + Len(t)) : u[i] = IF i <= Len(s) THEN s[i] ELSE t[i - Len(s)]
      BY ConcatProperties
  <2>2. Len(s) \in Nat /\ Len(t) \in Nat
      BY SeqFacts
  <2> HIDE DEF u
  <2>3. \A k \in 1..Len(s) : u[k] = s[k]
      BY <2>1, <2>2
  <2>4. ASSUME NEW k \in 1..Len(t) PROVE u[Len(s) + k] = t[k]
    <3>1. /\ Len(s) + k \in 1..(Len(s) + Len(t)) /\ ~(Len(s) + k <= Len(s))
          /\ Len(s) + k - Len(s) = k
        BY <2>2
    <3>2. QED
        BY <2>1, <3>1
  <2>5. QED
      BY <2>1, <2>2, <2>3, <2>4
<1> HIDE DEF u
<1>2. ASSUME NEW d \in ToSet(u) PROVE d \in ToSet(s) \union ToSet(t)
  <2>1. PICK k \in 1..Len(u) : u[k] = d
      BY <1>1, <1>2, SeqMember
  <2>2. CASE k <= Len(s)
    <3>1. k \in 1..Len(s) /\ s[k] = d
        BY <1>1, <2>1, <2>2
    <3>2. QED
        BY <3>1, SeqMember
  <2>3. CASE ~(k <= Len(s))
    <3>1. k - Len(s) \in 1..Len(t) /\ Len(s) + (k - Len(s)) = k
        BY <1>1, <2>3
    <3>2. t[k - Len(s)] = d
        BY <1>1, <2>1, <3>1
    <3>3. QED
        BY <3>1, <3>2, SeqMember
  <2>4. QED
      BY <2>2, <2>3
<1>3. ASSUME NEW d \in ToSet(s) PROVE d \in ToSet(u)
  <2>1. PICK k \in 1..Len(s) : s[k] = d
      BY <1>3, SeqMember
  <2>2. k \in 1..Len(u) /\ u[k] = d
      BY <1>1, <2>1
  <2>3. QED
      BY <1>1, <2>2, SeqMember
<1>4. ASSUME NEW d \in ToSet(t) PROVE d \in ToSet(u)
  <2>1. PICK k \in 1..Len(t) : t[k] = d
      BY <1>4, SeqMember
  <2>2. Len(s) + k \in 1..Len(u) /\ u[Len(s) + k] = d
      BY <1>1, <2>1
  <2>3. QED
      BY <1>1, <2>2, SeqMember
<1>5. ToSet(u) = ToSet(s) \union ToSet(t)
    BY <1>2, <1>3, <1>4
<1>6. QED
    BY <1>5 DEF u

\* A list over S whose members are in T is a list over T.
LEMMA NarrowSeq ==
    ASSUME NEW S, NEW s \in Seq(S), NEW T, ToSet(s) \subseteq T
    PROVE  s \in Seq(T)
<1>1. Len(s) \in Nat /\ \A k \in 1..Len(s) : s[k] \in T
    BY SeqFacts, SeqMember
<1>2. s = [k \in 1..Len(s) |-> s[k]]
    OBVIOUS
<1>3. s \in [1..Len(s) -> T]
    BY <1>1, <1>2
<1>4. QED
    BY <1>1, <1>3, SeqIntro

\* kept, of Retain.
IsKept(f, s, K) ==
    f = [k \in 0..Len(s) |->
            IF k = 0 THEN <<>>
            ELSE IF k \in K THEN Append(f[k - 1], s[k]) ELSE f[k - 1]]

LEMMA KeptExists ==
    ASSUME NEW S, NEW s \in Seq(S), NEW K
    PROVE  \E f : IsKept(f, s, K)
<1> DEFINE n == Len(s)
           V == Seq(S)
           F == [p \in (1..n) \X V |-> IF p[1] \in K THEN Append(p[2], s[p[1]]) ELSE p[2]]
<1>1. n \in Nat /\ \A k \in 1..n : s[k] \in S
    BY SeqFacts
<1>2. <<>> \in V
    OBVIOUS
<1>3. F \in [(1..n) \X V -> V]
  <2> SUFFICES ASSUME NEW k \in 1..n, NEW v \in V
               PROVE  (IF k \in K THEN Append(v, s[k]) ELSE v) \in V
    OBVIOUS
  <2>1. s[k] \in S
    BY <1>1
  <2>2. QED
    BY <2>1
<1>4. \A k \in 1..n : \A v \in V : F[<<k, v>>] = IF k \in K THEN Append(v, s[k]) ELSE v
    OBVIOUS
<1> HIDE DEF F, V
<1>5. PICK f : IsRecursion(f, n, V, <<>>, F)
    BY <1>1, <1>2, <1>3, RecursionExists
<1>6. f \in [0..n -> V] /\ f[0] = <<>> /\ \A k \in 1..n : f[k] = F[<<k, f[k - 1]>>]
    BY <1>5 DEF IsRecursion
<1>7. ASSUME NEW k \in 0..n
      PROVE  f[k] = IF k = 0 THEN <<>>
                    ELSE IF k \in K THEN Append(f[k - 1], s[k]) ELSE f[k - 1]
  <2>1. CASE k = 0
      BY <1>6, <2>1
  <2>2. CASE k # 0
    <3>1. k \in 1..n /\ k - 1 \in 0..n
        BY <1>1, <2>2
    <3>2. f[k] = F[<<k, f[k - 1]>>] /\ f[k - 1] \in V
        BY <1>6, <3>1
    <3>3. QED
        BY <1>4, <2>2, <3>1, <3>2
  <2>3. QED
      BY <2>1, <2>2
<1>8. f = [k \in 0..n |-> f[k]]
    BY <1>6
<1>9. IsKept(f, s, K)
    BY <1>7, <1>8 DEF IsKept
<1>10. QED
    BY <1>9

\* What has been kept of the first k elements.
LEMMA KeptMembers ==
    ASSUME NEW S, NEW s \in Seq(S), NEW K, NEW f, IsKept(f, s, K)
    PROVE  \A k \in 0..Len(s) :
              /\ f[k] \in Seq(S)
              /\ \A x \in ToSet(f[k]) : \E i \in 1..k : i \in K /\ s[i] = x
              /\ \A i \in 1..k : i \in K => s[i] \in ToSet(f[k])
<1> DEFINE n == Len(s)
           Upto(k) == {s[i] : i \in {j \in 1..k : j \in K}}
<1>1. n \in Nat /\ \A k \in 1..n : s[k] \in S
    BY SeqFacts
<1>4. \A k \in 0..n : f[k] = IF k = 0 THEN <<>>
                             ELSE IF k \in K THEN Append(f[k - 1], s[k]) ELSE f[k - 1]
    BY DEF IsKept
<1> DEFINE T == {k \in 0..n : f[k] \in Seq(S) /\ ToSet(f[k]) = Upto(k)}
<1>5. 0 \in T
  <2>1. f[0] = <<>>
      BY <1>1, <1>4
  <2>2. <<>> \in Seq(S) /\ ToSet(<<>>) = {} /\ Upto(0) = {}
      BY DEF ToSet
  <2>3. 0 \in 0..n
      BY <1>1
  <2> HIDE DEF Upto, n
  <2>4. QED
      BY <2>1, <2>2, <2>3
<1>6. ASSUME NEW k \in 1..n, k - 1 \in T PROVE k \in T
  <2> DEFINE g == f[k - 1]
  <2>1. g \in Seq(S) /\ ToSet(g) = Upto(k - 1) /\ k \in 0..n /\ s[k] \in S
      BY <1>1, <1>6
  <2>0. f[k] = IF k \in K THEN Append(g, s[k]) ELSE g
      BY <1>1, <1>4, <2>1
  <2>2. \A j : j \in 1..k <=> j \in 1..(k - 1) \/ j = k
      BY <1>1
  <2>3. CASE k \in K
    <3>1. f[k] = Append(g, s[k])
        BY <2>0, <2>3
    <3>2. Upto(k) = Upto(k - 1) \union {s[k]}
        BY <2>2, <2>3
    <3> HIDE DEF g
    <3>3. Append(g, s[k]) \in Seq(S) /\ ToSet(Append(g, s[k])) = ToSet(g) \union {s[k]}
      <4> DEFINE t == <<s[k]>>
      <4>1. Append(g, s[k]) = g \o t
          BY <2>1, AppendIsConcat
      <4>2. t \in Seq(S)
          BY <2>1
      <4>0. ToSet(t) = {s[k]}
          BY DEF ToSet
      <4> HIDE DEF t
      <4>3. g \o t \in Seq(S) /\ ToSet(g \o t) = ToSet(g) \union ToSet(t)
          BY <2>1, <4>2, ConcatMembers, ConcatSeq
      <4>4. QED
          BY <4>0, <4>1, <4>3
    <3>4. QED
        BY <2>1, <3>1, <3>2, <3>3
  <2>4. CASE k \notin K
    <3>1. f[k] = g
        BY <2>0, <2>4
    <3>2. Upto(k) = Upto(k - 1)
        BY <2>2, <2>4
    <3> HIDE DEF g, Upto
    <3>3. QED
        BY <2>1, <3>1, <3>2
  <2>5. QED
      BY <2>3, <2>4
<1>7. \A k \in 0..n : k \in T
  <2> HIDE DEF T, n
  <2>1. QED
      BY <1>1, <1>5, <1>6, ByInduction
<1>8. ASSUME NEW k \in 0..n
      PROVE  /\ f[k] \in Seq(S)
             /\ \A x \in ToSet(f[k]) : \E i \in 1..k : i \in K /\ s[i] = x
             /\ \A i \in 1..k : i \in K => s[i] \in ToSet(f[k])
  <2>1. f[k] \in Seq(S) /\ ToSet(f[k]) = Upto(k)
      BY <1>7
  <2>2. \A x : x \in Upto(k) <=> \E i \in 1..k : i \in K /\ s[i] = x
      OBVIOUS
  <2> HIDE DEF Upto
  <2>3. QED
      BY <2>1, <2>2
<1>9. QED
    BY <1>8

LEMMA RetainIs ==
    ASSUME NEW S, NEW s \in Seq(S), NEW K
    PROVE  \E f : IsKept(f, s, K) /\ Retain(s, K) = f[Len(s)]
<1> DEFINE f == CHOOSE f : IsKept(f, s, K)
<1>1. IsKept(f, s, K)
    BY KeptExists
<1>2. Retain(s, K) = f[Len(s)]
    BY DEF Retain, IsKept
<1> HIDE DEF f
<1>3. QED
    BY <1>1, <1>2

\* Retain drops what is not at a position in K, and nothing else.
LEMMA RetainMembers ==
    ASSUME NEW S, NEW s \in Seq(S), NEW K
    PROVE  /\ Retain(s, K) \in Seq(S)
           /\ ToSet(Retain(s, K)) = {s[i] : i \in {j \in 1..Len(s) : j \in K}}
<1> DEFINE n == Len(s)
<1>1. n \in 0..n
    BY SeqFacts
<1>2. PICK f : IsKept(f, s, K) /\ Retain(s, K) = f[Len(s)]
    BY RetainIs
<1>3. \A k \in 0..Len(s) :
         /\ f[k] \in Seq(S)
         /\ \A x \in ToSet(f[k]) : \E i \in 1..k : i \in K /\ s[i] = x
         /\ \A i \in 1..k : i \in K => s[i] \in ToSet(f[k])
    BY <1>2, KeptMembers
<1>4. QED
    BY <1>1, <1>2, <1>3

\* flatten, of FlattenSeq.
IsFlattened(f, seqs) ==
    f = [i \in 1..Len(seqs) |-> IF i = 1 THEN seqs[i] ELSE f[i - 1] \o seqs[i]]

LEMMA FlattenedExists ==
    ASSUME NEW S, NEW seqs \in Seq(Seq(S)), Len(seqs) # 0
    PROVE  \E f : IsFlattened(f, seqs)
<1> DEFINE n == Len(seqs)
           V == Seq(S)
           F == [p \in (1..(n - 1)) \X V |-> p[2] \o seqs[p[1] + 1]]
<1>1. n \in Nat /\ n - 1 \in Nat /\ \A k \in 1..n : seqs[k] \in V
    BY SeqFacts
<1>2. seqs[1] \in V
    BY <1>1
<1>3. F \in [(1..(n - 1)) \X V -> V]
  <2> SUFFICES ASSUME NEW k \in 1..(n - 1), NEW v \in V PROVE v \o seqs[k + 1] \in V
    OBVIOUS
  <2>1. seqs[k + 1] \in V
    BY <1>1
  <2>2. QED
    BY <2>1, ConcatSeq
<1>4. \A k \in 1..(n - 1) : \A v \in V : F[<<k, v>>] = v \o seqs[k + 1]
    OBVIOUS
<1> HIDE DEF F, V
<1>5. PICK g : IsRecursion(g, n - 1, V, seqs[1], F)
    BY <1>1, <1>2, <1>3, RecursionExists
<1>6. /\ g \in [0..(n - 1) -> V] /\ g[0] = seqs[1]
      /\ \A k \in 1..(n - 1) : g[k] = F[<<k, g[k - 1]>>]
    BY <1>5 DEF IsRecursion
<1> DEFINE f == [i \in 1..n |-> g[i - 1]]
<1>7. ASSUME NEW i \in 1..n
      PROVE  f[i] = IF i = 1 THEN seqs[i] ELSE f[i - 1] \o seqs[i]
  <2>1. CASE i = 1
      BY <1>6, <2>1
  <2>2. CASE i # 1
    <3>1. i - 1 \in 1..(n - 1) /\ i - 1 \in 1..n /\ i - 1 - 1 \in 0..(n - 1) /\ i - 1 + 1 = i
        BY <1>1, <2>2
    <3>2. f[i] = g[i - 1] /\ f[i - 1] = g[i - 1 - 1]
        BY <3>1
    <3>3. g[i - 1] = F[<<i - 1, g[i - 1 - 1]>>] /\ g[i - 1 - 1] \in V
        BY <1>6, <3>1
    <3>4. g[i - 1] = g[i - 1 - 1] \o seqs[i]
        BY <1>4, <3>1, <3>3
    <3>5. QED
        BY <2>2, <3>2, <3>4
  <2>3. QED
      BY <2>1, <2>2
<1>8. f = [i \in 1..n |-> f[i]]
    OBVIOUS
<1> HIDE DEF f
<1>9. IsFlattened(f, seqs)
    BY <1>7, <1>8 DEF IsFlattened
<1>10. QED
    BY <1>9

LEMMA FlattenType ==
    ASSUME NEW S, NEW seqs \in Seq(Seq(S))
    PROVE  FlattenSeq(seqs) \in Seq(S)
<1> DEFINE n == Len(seqs)
<1>1. n \in Nat /\ \A k \in 1..n : seqs[k] \in Seq(S)
    BY SeqFacts
<1>2. CASE n = 0
  <2>1. seqs = <<>>
      BY <1>2
  <2>2. QED
      BY <1>2, <2>1 DEF FlattenSeq
<1>3. CASE n # 0
  <2> DEFINE f == CHOOSE f : IsFlattened(f, seqs)
  <2>1. IsFlattened(f, seqs)
      BY <1>3, FlattenedExists
  <2>2. FlattenSeq(seqs) = f[n]
      BY <1>3 DEF FlattenSeq, IsFlattened
  <2> HIDE DEF f
  <2>3. \A i \in 1..n : f[i] = IF i = 1 THEN seqs[i] ELSE f[i - 1] \o seqs[i]
      BY <2>1 DEF IsFlattened
  <2> DEFINE T == {k \in 0..n : k = 0 \/ f[k] \in Seq(S)}
  <2>4. 0 \in T
      BY <1>1
  <2>5. ASSUME NEW k \in 1..n, k - 1 \in T PROVE k \in T
    <3>1. seqs[k] \in Seq(S) /\ k \in 0..n
        BY <1>1
    <3>2. CASE k = 1
      <4>1. f[k] = seqs[k]
          BY <2>3, <3>2
      <4>2. QED
          BY <3>1, <4>1
    <3>3. CASE k # 1
      <4>1. f[k] = f[k - 1] \o seqs[k]
          BY <2>3, <3>3
      <4>2. k - 1 # 0
          BY <1>1, <3>3
      <4>3. f[k - 1] \in Seq(S)
          BY <2>5, <4>2
      <4>4. f[k - 1] \o seqs[k] \in Seq(S)
          BY <3>1, <4>3, ConcatSeq
      <4>5. f[k] \in Seq(S)
          BY <4>1, <4>4
      <4>6. QED
          BY <3>1, <4>5
    <3>4. QED
        BY <3>2, <3>3
  <2>6. n \in T
    <3>1. n \in 0..n
        BY <1>1
    <3> HIDE DEF T, n
    <3>2. QED
        BY <1>1, <2>4, <2>5, <3>1, ByInduction
  <2>7. QED
      BY <1>3, <2>2, <2>6
<1>4. QED
    BY <1>2, <1>3

-----------------------------------------------------------------------------
(* Sorting *)

LEMMA Interval ==
    ASSUME NEW n \in Nat
    PROVE  IsFiniteSet(1..n) /\ Cardinality(1..n) = n
<1>1. /\ IsFiniteSet(1..n)
      /\ Cardinality(1..n) = IF 1 > n THEN 0 ELSE n - 1 + 1
    BY 1 \in Int, n \in Int, FS_Interval, Zenon
<1>2. (IF 1 > n THEN 0 ELSE n - 1 + 1) = n
    OBVIOUS
<1>3. QED
    BY <1>1, <1>2

LEMMA KeyType ==
    ASSUME NEW d \in Directive
    PROVE  SortKey(d) \in Nat
BY DEF SortKey, Directive

LEMMA BeforeOrder ==
    ASSUME NEW ds \in Seq(Directive),
           NEW i \in 1..Len(ds), NEW j \in 1..Len(ds), NEW k \in 1..Len(ds)
    PROVE  /\ ~Before(ds, i, i)
           /\ Before(ds, i, j) /\ Before(ds, j, k) => Before(ds, i, k)
           /\ i # j => Before(ds, i, j) \/ Before(ds, j, i)
<1> DEFINE a == SortKey(ds[i])
           b == SortKey(ds[j])
           c == SortKey(ds[k])
<1>1. a \in Nat /\ b \in Nat /\ c \in Nat
    BY SeqFacts, KeyType
<1>2. i \in Nat /\ j \in Nat /\ k \in Nat
    BY SeqFacts
<1>3. /\ Before(ds, i, i) <=> a < a \/ (a = a /\ i < i)
      /\ Before(ds, i, j) <=> a < b \/ (a = b /\ i < j)
      /\ Before(ds, j, i) <=> b < a \/ (b = a /\ j < i)
      /\ Before(ds, j, k) <=> b < c \/ (b = c /\ j < k)
      /\ Before(ds, i, k) <=> a < c \/ (a = c /\ i < k)
    BY DEF Before
<1> HIDE DEF a, b, c
<1>4. QED
    BY <1>1, <1>2, <1>3

\* What goes before i.
Ahead(ds, i) == {j \in 1..Len(ds) : Before(ds, j, i)}

LEMMA PlaceRange ==
    ASSUME NEW ds \in Seq(Directive), NEW i \in 1..Len(ds)
    PROVE  /\ IsFiniteSet(Ahead(ds, i))
           /\ Place(ds, i) = Cardinality(Ahead(ds, i)) + 1
           /\ Place(ds, i) \in 1..Len(ds)
<1> DEFINE A == Ahead(ds, i)
           n == Len(ds)
           B == (1..n) \ {i}
<1>1. n \in Nat
    BY SeqFacts
<1>2. IsFiniteSet(1..n) /\ Cardinality(1..n) = n
    BY <1>1, Interval
<1>3. IsFiniteSet(B) /\ Cardinality(B) = n - 1
    BY <1>2, FS_RemoveElement
<1>4. A \in SUBSET B
    BY BeforeOrder DEF Ahead
<1>5. Place(ds, i) = Cardinality(A) + 1
    BY DEF Place, Ahead
<1> HIDE DEF A, B
<1>6. IsFiniteSet(A) /\ Cardinality(A) <= Cardinality(B)
    BY <1>3, <1>4, FS_Subset
<1>7. Cardinality(A) \in Nat
    BY <1>6, FS_CardinalityType
<1>8. Place(ds, i) \in 1..n
    BY <1>1, <1>3, <1>5, <1>6, <1>7
<1>9. QED
    BY <1>5, <1>6, <1>8 DEF A

LEMMA PlaceOrder ==
    ASSUME NEW ds \in Seq(Directive), NEW i \in 1..Len(ds), NEW j \in 1..Len(ds),
           Before(ds, i, j)
    PROVE  Place(ds, i) < Place(ds, j)
<1> DEFINE A == Ahead(ds, i)
           B == Ahead(ds, j)
<1>1. /\ IsFiniteSet(A) /\ IsFiniteSet(B)
      /\ Place(ds, i) = Cardinality(A) + 1 /\ Place(ds, j) = Cardinality(B) + 1
    BY PlaceRange
<1>2. A \in SUBSET B /\ i \in B /\ i \notin A
    BY BeforeOrder DEF Ahead
<1> HIDE DEF A, B
<1>3. Cardinality(A) \in Nat /\ Cardinality(B) \in Nat
    BY <1>1, FS_CardinalityType
<1>4. Cardinality(A) <= Cardinality(B) /\ Cardinality(B) # Cardinality(A)
    BY <1>1, <1>2, FS_Subset
<1>5. QED
    BY <1>1, <1>3, <1>4

\* Every place is taken.
LEMMA PlaceTaken ==
    ASSUME NEW ds \in Seq(Directive), NEW k \in 1..Len(ds)
    PROVE  \E i \in 1..Len(ds) : Place(ds, i) = k
<1> SUFFICES ASSUME \A i \in 1..Len(ds) : Place(ds, i) # k
             PROVE  FALSE
    OBVIOUS
<1> DEFINE n == Len(ds)
           S == 1..n
           T == S \ {k}
           f == [i \in S |-> Place(ds, i)]
<1>1. n \in Nat
    BY SeqFacts
<1>2. IsFiniteSet(S) /\ Cardinality(S) = n
    BY <1>1, Interval
<1>3. IsFiniteSet(T) /\ Cardinality(T) = n - 1
    BY <1>2, FS_RemoveElement
<1>4. f \in [S -> T]
    BY PlaceRange
<1>5. \A x, y \in S : x # y => f[x] # f[y]
  <2> SUFFICES ASSUME NEW x \in S, NEW y \in S, x # y PROVE f[x] # f[y]
    OBVIOUS
  <2>1. Before(ds, x, y) \/ Before(ds, y, x)
    BY BeforeOrder
  <2>2. Place(ds, x) < Place(ds, y) \/ Place(ds, y) < Place(ds, x)
    BY <2>1, PlaceOrder
  <2>3. Place(ds, x) \in Nat /\ Place(ds, y) \in Nat
    <3>1. x \in 1..Len(ds) /\ y \in 1..Len(ds)
      OBVIOUS
    <3> HIDE DEF S, T, f
    <3>2. Place(ds, x) \in 1..n /\ Place(ds, y) \in 1..n
      BY <3>1, PlaceRange
    <3>3. QED
      BY <1>1, <3>2
  <2>4. QED
    BY <2>2, <2>3
<1> HIDE DEF S, T, f
<1>6. Cardinality(T) < Cardinality(S)
    BY <1>1, <1>2, <1>3
<1>7. QED
    BY <1>2, <1>3, <1>4, <1>5, <1>6, FS_PigeonHole

\* Sorting loses nothing and adds nothing.
LEMMA SortedMembers ==
    ASSUME NEW ds \in Seq(Directive)
    PROVE  Sorted(ds) \in Seq(Directive) /\ ToSet(Sorted(ds)) = ToSet(ds)
<1> DEFINE n == Len(ds)
           f == [k \in 1..n |-> CHOOSE i \in 1..n : Place(ds, i) = k]
           s == Sorted(ds)
<1>1. n \in Nat /\ \A k \in 1..n : ds[k] \in Directive
    BY SeqFacts
<1>2. ASSUME NEW k \in 1..n PROVE f[k] \in 1..n /\ Place(ds, f[k]) = k
  <2>1. \E i \in 1..n : Place(ds, i) = k
    BY PlaceTaken
  <2>2. QED
    BY <2>1
<1>3. s = [k \in 1..n |-> ds[f[k]]]
    BY DEF Sorted
<1> HIDE DEF f, s
<1>4. s \in [1..n -> Directive]
    BY <1>1, <1>2, <1>3
<1>5. s \in Seq(Directive) /\ Len(s) = n
    BY <1>1, <1>4, SeqIntro
<1>6. ASSUME NEW d \in ToSet(s) PROVE d \in ToSet(ds)
  <2>1. PICK k \in 1..n : s[k] = d
    BY <1>5, <1>6, SeqMember
  <2>2. f[k] \in 1..n /\ ds[f[k]] = d
    BY <1>2, <1>3, <2>1
  <2>3. QED
    BY <2>2, SeqMember
<1>7. ASSUME NEW d \in ToSet(ds) PROVE d \in ToSet(s)
  <2>1. PICK i \in 1..n : ds[i] = d
    BY <1>7, SeqMember
  <2> DEFINE k == Place(ds, i)
  <2>2. k \in 1..n
    BY PlaceRange
  <2>3. f[k] = i
    <3>1. f[k] \in 1..n /\ Place(ds, f[k]) = k
      BY <1>2, <2>2
    <3>2. ASSUME f[k] # i PROVE FALSE
      <4>1. Before(ds, f[k], i) \/ Before(ds, i, f[k])
        BY <3>1, <3>2, BeforeOrder
      <4>2. Place(ds, f[k]) < Place(ds, i) \/ Place(ds, i) < Place(ds, f[k])
        BY <3>1, <4>1, PlaceOrder
      <4>3. k \in Nat
        BY <1>1, <2>2
      <4>4. QED
        BY <3>1, <4>2, <4>3
    <3>3. QED
      BY <3>2
  <2>4. s[k] = d
    BY <1>3, <2>1, <2>2, <2>3
  <2> HIDE DEF k
  <2>5. QED
    BY <1>5, <2>2, <2>4, SeqMember
<1>8. QED
    BY <1>5, <1>6, <1>7 DEF s


-----------------------------------------------------------------------------
(* Whole pages *)

Whole(a) == a % PageSize = 0

LEMMA WholeQuotient ==
    ASSUME NEW P \in Nat \ {0}, NEW a \in Nat, a % P = 0
    PROVE  a = (a \div P) * P /\ a \div P \in Nat
OBVIOUS

LEMMA WholeProduct ==
    ASSUME NEW P \in Nat \ {0}, NEW q \in Nat
    PROVE  (q * P) % P = 0
<1> DEFINE d == (q * P) \div P
           m == (q * P) % P
<1>1. q * P \in Nat
    OBVIOUS
<1>2. q * P = d * P + m /\ d \in Nat /\ m \in Nat /\ m < P
    BY <1>1
<1> HIDE DEF d, m
<1>3. CASE d < q
  <2>1. PICK e \in Nat : q = d + e + 1
      <3>1. q = d + (q - d - 1) + 1 /\ q - d - 1 \in Nat
          BY <1>2, <1>3
      <3>2. QED
          BY <3>1
  <2>2. q * P = d * P + e * P + P /\ e * P \in Nat
      BY <1>2, <2>1
  <2>3. QED
      BY <1>2, <2>2
<1>4. CASE q < d
  <2>1. PICK e \in Nat : d = q + e + 1
      <3>1. d = q + (d - q - 1) + 1 /\ d - q - 1 \in Nat
          BY <1>2, <1>4
      <3>2. QED
          BY <3>1
  <2>2. d * P = q * P + e * P + P /\ e * P \in Nat
      BY <1>2, <2>1
  <2>3. QED
      BY <1>1, <1>2, <2>2
<1>5. CASE d = q
  <2>1. m = 0
      BY <1>1, <1>2, <1>5
  <2>2. QED
      BY <2>1 DEF m
<1>6. QED
    BY <1>2, <1>3, <1>4, <1>5

LEMMA WholeSum ==
    ASSUME NEW a \in Nat, NEW n \in Nat, Whole(a)
    PROVE  Whole(a + n * PageSize)
<1> DEFINE P == PageSize
           q == a \div P
<1>1. P \in Nat \ {0}
    BY MeasureAssumption
<1>2. a = q * P /\ q \in Nat
    BY <1>1, WholeQuotient DEF Whole
<1> HIDE DEF P, q
<1>3. a + n * P = (q + n) * P /\ q + n \in Nat
    BY <1>1, <1>2
<1>4. ((q + n) * P) % P = 0
    BY <1>1, <1>3, WholeProduct
<1>5. QED
    BY <1>3, <1>4 DEF Whole, P

LEMMA WholeDifference ==
    ASSUME NEW a \in Nat, NEW b \in Nat, Whole(a), b <= a
    PROVE  Whole(a - b) <=> Whole(b)
<1> DEFINE P == PageSize
<1>1. P \in Nat \ {0}
    BY MeasureAssumption
<1>2. ASSUME NEW x \in Nat, NEW y \in Nat, x % P = 0, y % P = 0, y <= x
      PROVE  (x - y) % P = 0
  <2> DEFINE p == x \div P
             q == y \div P
  <2>1. x = p * P /\ y = q * P /\ p \in Nat /\ q \in Nat
      BY <1>1, <1>2, WholeQuotient
  <2> HIDE DEF p, q, P
  <2>2. q <= p
    <3>1. SUFFICES ASSUME p < q PROVE FALSE
        BY <2>1
    <3>2. PICK e \in Nat : q = p + e + 1
      <4>1. q = p + (q - p - 1) + 1 /\ q - p - 1 \in Nat
          BY <2>1, <3>1
      <4>2. QED
          BY <4>1
    <3>3. q * P = p * P + e * P + P /\ e * P \in Nat
        BY <1>1, <2>1, <3>2
    <3>4. QED
        BY <1>1, <1>2, <2>1, <3>3
  <2>3. x - y = (p - q) * P /\ p - q \in Nat
      BY <1>1, <2>1, <2>2
  <2>4. ((p - q) * P) % P = 0
      BY <1>1, <2>3, WholeProduct
  <2>5. QED
      BY <2>3, <2>4
<1>3. a % P = 0 /\ a - b \in Nat /\ a - b <= a /\ a - (a - b) = b
    BY DEF Whole
<1> HIDE DEF P
<1>4. b % P = 0 => (a - b) % P = 0
    BY <1>2, <1>3
<1>5. (a - b) % P = 0 => b % P = 0
  <2>1. ASSUME (a - b) % P = 0 PROVE b % P = 0
    <3>1. (a - (a - b)) % P = 0
        BY <1>2, <1>3, <2>1
    <3>2. QED
        BY <1>3, <3>1
  <2>2. QED
      BY <2>1
<1>6. QED
    BY <1>4, <1>5 DEF Whole, P

LEMMA PagesCover ==
    ASSUME NEW n \in Nat
    PROVE  /\ DivCeil(n, PageSize) \in Nat /\ DivCeil(n, PageSize) * PageSize \in Nat
           /\ n <= DivCeil(n, PageSize) * PageSize
           /\ n # 0 => DivCeil(n, PageSize) # 0
<1> DEFINE P == PageSize
           d == DivCeil(n, PageSize)
           m == (n + P - 1) % P
<1>1. P \in Nat \ {0}
    BY MeasureAssumption
<1>2. d = (n + P - 1) \div P
    BY DEF DivCeil
<1>3. n + P - 1 = d * P + m /\ m \in Nat /\ m < P /\ d \in Nat
    BY <1>1, <1>2
<1> HIDE DEF P, d, m
<1>4. d * P \in Nat
    BY <1>1, <1>3
<1>5. n <= d * P
    BY <1>1, <1>3, <1>4
<1>6. d = 0 => d * P = 0
    BY <1>1
<1>7. n # 0 => d # 0
    BY <1>5, <1>6
<1>8. QED
    BY <1>3, <1>4, <1>5, <1>7 DEF P, d

-----------------------------------------------------------------------------
(* Where the blobs lie *)

LEMMA Addresses ==
    /\ Top1M \in Nat /\ LowMax \in Nat /\ BlobBase \in Nat /\ Top4G \in Nat
    /\ Whole(Top1M) /\ Whole(LowMax) /\ Whole(BlobBase) /\ Whole(Top4G)
    /\ LowMax <= Top1M
BY LaunchAssumption DEF Whole

LEMMA BlobTypesList ==
    /\ Len(BlobTypes) = 6 /\ BlobTypes \in Seq(ToSet(BlobTypes))
    /\ \A t \in ToSet(BlobTypes) : Rank(t) \in 1..6 /\ BlobTypes[Rank(t)] = t
<1> DEFINE types == {"Pk", "Kek", "Db", "Dbx", "Shim", "Kernel"}
<1>1. Len(BlobTypes) = 6 /\ BlobTypes \in Seq(types)
    BY DEF BlobTypes
<1> HIDE DEF types
<1>2. BlobTypes \in Seq(ToSet(BlobTypes))
  <2> HIDE DEF BlobTypes
  <2>1. QED
    BY <1>1, NarrowSeq
<1>3. ASSUME NEW t \in ToSet(BlobTypes)
      PROVE  Rank(t) \in 1..6 /\ BlobTypes[Rank(t)] = t
  <2>1. \E k \in 1..Len(BlobTypes) : BlobTypes[k] = t
    BY <1>1, SeqMember
  <2> HIDE DEF BlobTypes
  <2>2. QED
    BY <1>1, <2>1 DEF Rank
<1>4. QED
    BY <1>1, <1>2, <1>3

\* What the blob of type k takes, in whole pages.
Taken(c, k) ==
    IF BlobTypes[k] \notin DOMAIN c.blobs THEN 0
    ELSE DivCeil(Len(c.blobs[BlobTypes[k]]), PageSize)

LEMMA TakenType ==
    ASSUME NEW c, IsBuildConfig(c), NEW k \in 1..6
    PROVE  /\ Taken(c, k) \in Nat /\ Taken(c, k) * PageSize \in Nat
           /\ BlobTypes[k] \in DOMAIN c.blobs =>
                 Len(c.blobs[BlobTypes[k]]) <= Taken(c, k) * PageSize
<1> DEFINE t == BlobTypes[k]
<1>1. CASE t \in DOMAIN c.blobs
  <2>1. c.blobs[t] \in Seq(Cells)
    BY <1>1 DEF IsBuildConfig
  <2>2. Len(c.blobs[t]) \in Nat
    BY <2>1
  <2>3. Taken(c, k) = DivCeil(Len(c.blobs[t]), PageSize)
    BY <1>1 DEF Taken
  <2> HIDE DEF t
  <2>4. QED
    BY <2>2, <2>3, PagesCover DEF t
<1>2. CASE t \notin DOMAIN c.blobs
  <2>1. Taken(c, k) = 0 /\ 0 * PageSize = 0
    BY <1>2, MeasureAssumption DEF Taken
  <2>2. QED
    BY <1>2, <2>1
<1>3. QED
    BY <1>1, <1>2

\* end, of BlobEnd.
IsEnds(f, c) ==
    f = [k \in 0..Len(BlobTypes) |->
            IF k = 0 THEN BlobBase
            ELSE IF BlobTypes[k] \notin DOMAIN c.blobs THEN f[k - 1]
            ELSE f[k - 1] + DivCeil(Len(c.blobs[BlobTypes[k]]), PageSize) * PageSize]

LEMMA EndsExist ==
    ASSUME NEW c, IsBuildConfig(c)
    PROVE  \E f : IsEnds(f, c)
<1> DEFINE F == [p \in (1..6) \X Nat |-> p[2] + Taken(c, p[1]) * PageSize]
<1>1. F \in [(1..6) \X Nat -> Nat]
  <2> SUFFICES ASSUME NEW k \in 1..6, NEW v \in Nat PROVE v + Taken(c, k) * PageSize \in Nat
    OBVIOUS
  <2>1. Taken(c, k) * PageSize \in Nat
    BY TakenType
  <2> HIDE DEF F
  <2>2. QED
    BY <2>1
<1>2. \A k \in 1..6 : \A v \in Nat : F[<<k, v>>] = v + Taken(c, k) * PageSize
    OBVIOUS
<1> HIDE DEF F
<1>3. PICK f : IsRecursion(f, 6, Nat, BlobBase, F)
    BY <1>1, Addresses, RecursionExists
<1>4. f \in [0..6 -> Nat] /\ f[0] = BlobBase /\ \A k \in 1..6 : f[k] = F[<<k, f[k - 1]>>]
    BY <1>3 DEF IsRecursion
<1>5. ASSUME NEW k \in 0..6
      PROVE  f[k] = IF k = 0 THEN BlobBase
                    ELSE IF BlobTypes[k] \notin DOMAIN c.blobs THEN f[k - 1]
                    ELSE f[k - 1] + DivCeil(Len(c.blobs[BlobTypes[k]]), PageSize) * PageSize
  <2>1. CASE k = 0
      BY <1>4, <2>1
  <2>2. CASE k # 0
    <3>1. k \in 1..6 /\ k - 1 \in 0..6
        BY <2>2
    <3>2. f[k] = F[<<k, f[k - 1]>>] /\ f[k - 1] \in Nat
        BY <1>4, <3>1
    <3>3. f[k] = f[k - 1] + Taken(c, k) * PageSize
        BY <1>2, <3>1, <3>2
    <3>4. CASE BlobTypes[k] \in DOMAIN c.blobs
        BY <2>2, <3>3, <3>4 DEF Taken
    <3>5. CASE BlobTypes[k] \notin DOMAIN c.blobs
      <4>1. Taken(c, k) = 0 /\ 0 * PageSize = 0
          BY <3>5, MeasureAssumption DEF Taken
      <4>2. QED
          BY <2>2, <3>2, <3>3, <3>5, <4>1
    <3>6. QED
        BY <3>4, <3>5
  <2>3. QED
      BY <2>1, <2>2
<1>6. f = [k \in 0..6 |-> f[k]]
    BY <1>4
<1>7. IsEnds(f, c)
    BY <1>5, <1>6, BlobTypesList DEF IsEnds
<1>8. QED
    BY <1>7

LEMMA BlobEnds ==
    ASSUME NEW c, IsBuildConfig(c)
    PROVE  \A k \in 0..6 :
              /\ BlobEnd(c)[k] \in Nat /\ Whole(BlobEnd(c)[k]) /\ BlobEnd(c)[0] = BlobBase
              /\ \A j \in 0..k : BlobEnd(c)[j] <= BlobEnd(c)[k]
              /\ k # 0 => BlobEnd(c)[k] = BlobEnd(c)[k - 1] + Taken(c, k) * PageSize
<1> DEFINE f == CHOOSE f : IsEnds(f, c)
<1>1. IsEnds(f, c)
    BY EndsExist
<1>2. BlobEnd(c) = f
    BY DEF BlobEnd, IsEnds
<1> HIDE DEF f
<1>3. f[0] = BlobBase
    BY <1>1, BlobTypesList DEF IsEnds
<1> DEFINE T == {k \in 0..6 : /\ f[k] \in Nat /\ Whole(f[k])
                              /\ \A j \in 0..k : f[j] \in Nat /\ f[j] <= f[k]
                              /\ k # 0 => f[k] = f[k - 1] + Taken(c, k) * PageSize}
<1>4. 0 \in T
    BY <1>3, Addresses
<1>5. ASSUME NEW k \in 1..6, k - 1 \in T PROVE k \in T
  <2>1. /\ f[k - 1] \in Nat /\ Whole(f[k - 1])
        /\ \A j \in 0..(k - 1) : f[j] \in Nat /\ f[j] <= f[k - 1]
      BY <1>5
  <2>2. Taken(c, k) \in Nat /\ Taken(c, k) * PageSize \in Nat
      BY TakenType
  <2>3. f[k] = f[k - 1] + Taken(c, k) * PageSize
    <3>1. k \in 0..Len(BlobTypes) /\ k # 0
        BY BlobTypesList
    <3>2. f[k] = IF BlobTypes[k] \notin DOMAIN c.blobs THEN f[k - 1]
                 ELSE f[k - 1] + DivCeil(Len(c.blobs[BlobTypes[k]]), PageSize) * PageSize
        BY <1>1, <3>1 DEF IsEnds
    <3>3. CASE BlobTypes[k] \in DOMAIN c.blobs
        BY <3>2, <3>3 DEF Taken
    <3>4. CASE BlobTypes[k] \notin DOMAIN c.blobs
      <4>1. Taken(c, k) = 0 /\ 0 * PageSize = 0
          BY <3>4, MeasureAssumption DEF Taken
      <4>2. QED
          BY <2>1, <3>2, <3>4, <4>1
    <3>5. QED
        BY <3>3, <3>4
  <2>4. Whole(f[k - 1] + Taken(c, k) * PageSize)
      BY <2>1, <2>2, WholeSum
  <2>5. f[k] \in Nat /\ f[k - 1] <= f[k]
      BY <2>1, <2>2, <2>3
  <2>6. ASSUME NEW j \in 0..k PROVE f[j] \in Nat /\ f[j] <= f[k]
    <3>1. CASE j = k
        BY <2>5, <3>1
    <3>2. CASE j # k
      <4>1. j \in 0..(k - 1)
          BY <3>2
      <4>2. f[j] \in Nat /\ f[j] <= f[k - 1]
          BY <2>1, <4>1
      <4>3. QED
          BY <2>1, <2>5, <4>2
    <3>3. QED
        BY <3>1, <3>2
  <2>7. QED
      BY <2>3, <2>4, <2>5, <2>6
<1>6. \A k \in 0..6 : k \in T
  <2> HIDE DEF T
  <2>1. QED
      BY <1>4, <1>5, ByInduction
<1>7. QED
    BY <1>2, <1>3, <1>6

-----------------------------------------------------------------------------
(* Directives *)

\* Page data; that begins at a page, if w.
Pages(w) == {d \in Directive : d.kind = "page" /\ (w => Whole(d.gpa))}

Others == {d \in Directive : d.kind # "page"}

\* Without a directive that needs another.
Plain == {d \in Others : d.kind # "insert"}

\* Nor an area of its own.
Still == {d \in Plain : d.kind # "area"}

LEMMA Widen ==
    ASSUME NEW S, NEW T, S \subseteq T, NEW s \in Seq(S)
    PROVE  s \in Seq(T)
<1>1. Len(s) \in Nat /\ \A k \in 1..Len(s) : s[k] \in T
    BY SeqFacts
<1>2. s = [k \in 1..Len(s) |-> s[k]]
    OBVIOUS
<1>3. s \in [1..Len(s) -> T]
    BY <1>1, <1>2
<1>4. QED
    BY <1>1, <1>3, SeqIntro

LEMMA MembersOf ==
    ASSUME NEW S, NEW s \in Seq(S)
    PROVE  ToSet(s) \subseteq S
BY SeqFacts, SeqMember

LEMMA SubSeqType ==
    ASSUME NEW S, NEW s \in Seq(S), NEW a \in Nat \ {0}, NEW b \in Int, b <= Len(s)
    PROVE  SubSeq(s, a, b) \in Seq(S)
<1>1. \A k \in a..b : s[k] \in S
    BY SeqFacts
<1>2. QED
    BY <1>1, SubSeqProperties

LEMMA BlankType == Blank \in Plain /\ Blank \in Still
<1>1. <<>> \in Seq(Cells)
    OBVIOUS
<1>2. QED
    BY <1>1 DEF Blank, Still, Plain, Others, Directive, Platforms

LEMMA PageType ==
    ASSUME NEW gpa \in Nat, NEW mask \in SUBSET Platforms, NEW unmeasured \in BOOLEAN,
           NEW type \in {"NORMAL", "SECRETS", "CPUID"}, NEW data \in Seq(Cells),
           NEW w \in BOOLEAN, w => Whole(gpa)
    PROVE  Page(gpa, mask, unmeasured, type, data) \in Pages(w)
<1> DEFINE d == Page(gpa, mask, unmeasured, type, data)
<1>1. Blank \in Directive
    BY BlankType DEF Plain, Others
<1>2. d \in Directive
    BY <1>1, Zenon DEF Page, Directive
<1>3. d.kind = "page" /\ d.gpa = gpa
    BY DEF Page, Blank
<1> HIDE DEF d
<1>4. QED
    BY <1>2, <1>3 DEF Pages, d

LEMMA PagesOf ==
    ASSUME NEW base \in Nat, NEW pg \in Nat \ {0}, NEW w \in BOOLEAN, w => Whole(base)
    PROVE  /\ base + (pg - 1) * PageSize \in Nat
           /\ w => Whole(base + (pg - 1) * PageSize)
<1>1. pg - 1 \in Nat
    OBVIOUS
<1>2. QED
    BY <1>1, WholeSum, AddressIsNat

LEMMA EmptyPagesType ==
    ASSUME NEW base \in Nat, NEW size \in Nat, NEW type \in {"NORMAL", "SECRETS", "CPUID"},
           NEW w \in BOOLEAN, w => Whole(base)
    PROVE  EmptyPages(base, size, type) \in Seq(Pages(w))
<1> DEFINE n == DivCeil(size, PageSize)
           s == EmptyPages(base, size, type)
<1>1. n \in Nat
    BY PagesAreNat
<1>2. s = [pg \in 1..n |-> Page(base + (pg - 1) * PageSize, {"snp"}, FALSE, type, <<>>)]
    BY DEF EmptyPages
<1>3. ASSUME NEW pg \in 1..n
      PROVE  Page(base + (pg - 1) * PageSize, {"snp"}, FALSE, type, <<>>) \in Pages(w)
  <2>1. pg \in Nat \ {0}
      BY <1>1
  <2>2. base + (pg - 1) * PageSize \in Nat /\ (w => Whole(base + (pg - 1) * PageSize))
      BY <2>1, PagesOf
  <2>3. {"snp"} \in SUBSET Platforms /\ FALSE \in BOOLEAN /\ <<>> \in Seq(Cells)
      BY DEF Platforms
  <2>4. QED
      BY <2>2, <2>3, PageType
<1> HIDE DEF n, s
<1>4. s \in [1..n -> Pages(w)]
    BY <1>2, <1>3
<1>5. QED
    BY <1>1, <1>4, SeqIntro DEF s

LEMMA DataPagesType ==
    ASSUME NEW base \in Nat, NEW data \in Seq(Cells), NEW unmeasured \in BOOLEAN,
           builder.platforms \in SUBSET Platforms, NEW w \in BOOLEAN, w => Whole(base)
    PROVE  /\ DataPages(base, data, unmeasured) \in Seq(Pages(w))
           /\ Len(data) # 0 =>
                 \E d \in ToSet(DataPages(base, data, unmeasured)) : d.kind = "page" /\ d.gpa = base
<1> DEFINE n == DivCeil(Len(data), PageSize)
           Nth(pg) == Page(base + (pg - 1) * PageSize, Mask, unmeasured, "NORMAL",
                SubSeq(data, (pg - 1) * PageSize + 1, Least(pg * PageSize, Len(data))))
           s == DataPages(base, data, unmeasured)
<1>1. Len(data) \in Nat
    OBVIOUS
<1>2. n \in Nat /\ (Len(data) # 0 => n # 0)
    BY <1>1, PagesCover
<1>3. s = [pg \in 1..n |-> Nth(pg)]
    BY DEF DataPages
<1>4. ASSUME NEW pg \in 1..n
      PROVE  Nth(pg) \in Pages(w) /\ Nth(pg).gpa = base + (pg - 1) * PageSize
  <2>1. pg \in Nat \ {0} /\ pg - 1 \in Nat
      BY <1>2
  <2>2. base + (pg - 1) * PageSize \in Nat /\ (w => Whole(base + (pg - 1) * PageSize))
      BY <2>1, PagesOf
  <2>3. (pg - 1) * PageSize \in Nat /\ pg * PageSize \in Nat
      BY <2>1, MeasureAssumption
  <2>4. /\ (pg - 1) * PageSize + 1 \in Nat \ {0}
        /\ Least(pg * PageSize, Len(data)) \in Int
        /\ Least(pg * PageSize, Len(data)) <= Len(data)
      BY <1>1, <2>3 DEF Least
  <2>5. SubSeq(data, (pg - 1) * PageSize + 1, Least(pg * PageSize, Len(data))) \in Seq(Cells)
      BY <2>4, SubSeqType
  <2>6. Mask \in SUBSET Platforms
      BY DEF Mask
  <2> DEFINE gpa == base + (pg - 1) * PageSize
             part == SubSeq(data, (pg - 1) * PageSize + 1, Least(pg * PageSize, Len(data)))
  <2>7. Nth(pg) = Page(gpa, Mask, unmeasured, "NORMAL", part)
      OBVIOUS
  <2>8. /\ gpa \in Nat /\ (w => Whole(gpa)) /\ part \in Seq(Cells)
        /\ "NORMAL" \in {"NORMAL", "SECRETS", "CPUID"}
      BY <2>2, <2>5
  <2> DEFINE mask == Mask
             type == "NORMAL"
  <2>0. mask \in SUBSET Platforms /\ type \in {"NORMAL", "SECRETS", "CPUID"}
      BY <2>6
  <2> HIDE DEF gpa, part, Nth, mask, type
  <2>9. Page(gpa, mask, unmeasured, type, part) \in Pages(w)
        /\ Page(gpa, mask, unmeasured, type, part).gpa = gpa
    <3>1. gpa \in Nat
        BY <2>8
    <3>2. part \in Seq(Cells)
        BY <2>8
    <3>3. w => Whole(gpa)
        BY <2>8
    <3>4. Page(gpa, mask, unmeasured, type, part) \in Pages(w)
        BY <2>0, <3>1, <3>2, <3>3, PageType
    <3>5. Page(gpa, mask, unmeasured, type, part).gpa = gpa
        BY DEF Page, Blank
    <3>6. QED
        BY <3>4, <3>5
  <2>10. QED
      BY <2>7, <2>9 DEF gpa, mask, type
<1> HIDE DEF n, Nth, s
<1>5. s \in [1..n -> Pages(w)]
    BY <1>3, <1>4
<1>6. s \in Seq(Pages(w)) /\ Len(s) = n
    BY <1>2, <1>5, SeqIntro
<1>7. ASSUME Len(data) # 0
      PROVE  \E d \in ToSet(s) : d.kind = "page" /\ d.gpa = base
  <2>1. 1 \in 1..n
      BY <1>2, <1>7
  <2>2. s[1] \in Pages(w) /\ s[1].gpa = base + (1 - 1) * PageSize
      BY <1>3, <1>4, <2>1
  <2>3. base + (1 - 1) * PageSize = base
      BY MeasureAssumption
  <2>4. s[1] \in ToSet(s)
      BY <1>6, <2>1, SeqMember
  <2>5. s[1].kind = "page"
      BY <2>2 DEF Pages
  <2>6. QED
      BY <2>2, <2>3, <2>4, <2>5
<1>8. QED
    BY <1>6, <1>7 DEF s

LEMMA RegionAt ==
    ASSUME NEW c, IsBuildConfig(c), NEW k \in 1..Len(c.firmware.regions)
    PROVE  c.firmware.regions[k] \in Region
BY DEF IsBuildConfig, Firmware

LEMMA SnpPagesType ==
    ASSUME NEW r \in Region, NEW w \in BOOLEAN,
           w /\ r.type \in SevTypes => Whole(r.base)
    PROVE  SnpPages(r) \in Seq(Pages(w))
<1>1. CASE r.type \in SevTypes
  <2>1. r.base \in Nat /\ r.size \in Nat
      BY DEF Region
  <2>2. PageDataType(r.type) \in {"NORMAL", "SECRETS", "CPUID"}
      BY DEF PageDataType
  <2>3. RegionPages(r) \in Seq(Pages(w))
      BY <1>1, <2>1, <2>2, EmptyPagesType DEF RegionPages
  <2> DEFINE s == RegionPages(r)
             K == {k \in 1..Len(RegionPages(r)) : ~InParamArea(RegionPages(r)[k].gpa)}
  <2>4. SnpPages(r) = Retain(s, K)
      BY <1>1 DEF SnpPages
  <2>5. s \in Seq(Pages(w))
      BY <2>3
  <2> HIDE DEF s, K
  <2>6. Retain(s, K) \in Seq(Pages(w))
      BY <2>5, RetainMembers
  <2>7. QED
      BY <2>4, <2>6
<1>2. CASE r.type \notin SevTypes
  <2>1. SnpPages(r) = <<>>
      BY <1>2 DEF SnpPages
  <2>2. QED
      BY <2>1
<1>3. QED
    BY <1>1, <1>2

LEMMA OvmfSnpPagesType ==
    ASSUME IsBuildConfig(cfg), NEW w \in BOOLEAN,
           \A k \in 1..Len(cfg.firmware.regions) :
              w /\ cfg.firmware.regions[k].type \in SevTypes => Whole(cfg.firmware.regions[k].base)
    PROVE  OvmfSnpPages \in Seq(Pages(w))
<1> DEFINE n == Len(cfg.firmware.regions)
           seqs == [k \in 1..n |-> SnpPages(cfg.firmware.regions[k])]
<1>1. n \in Nat
    BY DEF IsBuildConfig, Firmware
<1>2. \A k \in 1..n : SnpPages(cfg.firmware.regions[k]) \in Seq(Pages(w))
    BY RegionAt, SnpPagesType
<1>3. seqs \in [1..n -> Seq(Pages(w))]
    BY <1>2
<1>4. OvmfSnpPages = FlattenSeq(seqs)
    BY DEF OvmfSnpPages
<1> HIDE DEF n, seqs
<1>5. seqs \in Seq(Seq(Pages(w)))
    BY <1>1, <1>3, SeqIntro
<1>6. QED
    BY <1>4, <1>5, FlattenType

LEMMA VmsaType ==
    ASSUME cfg.boot \in {"real16", "flat32"}, NEW ap \in BOOLEAN
    PROVE  Vmsa(ap) \in Plain /\ Vmsa(ap) \in Still
<1> DEFINE kind == IF ap THEN "ap" ELSE cfg.boot
           data == <<VmsaCell(IF ap THEN "ap" ELSE cfg.boot)>>
           d == Vmsa(ap)
<1>1. kind \in {"real16", "flat32", "ap"}
    OBVIOUS
<1>2. VmsaCell(kind) \in Cells
    BY <1>1, CellsAssumption
<1>3. data \in Seq(Cells)
    BY <1>2
<1>4. d = [Blank EXCEPT !.kind = "vmsa", !.mask = {"snp"}, !.data = data]
    BY DEF Vmsa
<1>5. {"snp"} \in SUBSET Platforms /\ Blank \in Directive
    BY BlankType DEF Platforms, Plain, Others
<1> HIDE DEF d, data
<1>6. d \in Directive
    BY <1>3, <1>4, <1>5, Zenon DEF Directive
<1>7. d.kind = "vmsa"
    BY <1>4 DEF Blank
<1>8. QED
    BY <1>6, <1>7 DEF Still, Plain, Others, d

-----------------------------------------------------------------------------
(* What a list of directives keeps to *)

WholeInputs(c) == Whole(Len(c.firmware.cells)) /\ Whole(Len(c.vars))

\* Page data begins at a page, unless firmware or variables make it begin elsewhere.
Sited(c, D) == WholeInputs(c) => \A d \in D : d.kind = "page" => Whole(d.gpa)

\* Firmware or variables that do not fill their pages are still there.
Astray(c, D) ==
    ~WholeInputs(c) => \E d \in D : d.kind = "page" /\ ~Whole(d.gpa) /\ VarsBase(c) <= d.gpa

\* What is inserted is a parameter area of the file.
Defined(D) ==
    \A d \in D : d.kind = "insert" =>
        d.index = 0 /\ \E a \in D : a.kind = "area" /\ a.index = 0

\* Inserts begin at a page, and parameter areas are whole pages.
Square(D) ==
    \A d \in D : /\ d.kind = "insert" => Whole(d.gpa)
                 /\ d.kind = "area" => Whole(d.size)

Laid(c, D) == Sited(c, D) /\ Astray(c, D) /\ Defined(D) /\ Square(D)

LEMMA FirstRegionType ==
    ASSUME NEW c, IsBuildConfig(c), NEW type, RegionsOf(c.firmware, type) # {}
    PROVE  /\ FirstRegion(c.firmware, type) \in Region
           /\ FirstRegion(c.firmware, type) \in ToSet(c.firmware.regions)
           /\ FirstRegion(c.firmware, type).type = type
<1> DEFINE T == RegionsOf(c.firmware, type)
           k == CHOOSE k \in T : \A l \in T : k <= l
           s == c.firmware.regions
<1>1. s \in Seq(Region) /\ Len(s) \in Nat
    BY DEF IsBuildConfig, Firmware
<1>2. T \subseteq Nat /\ T # {}
    BY <1>1 DEF RegionsOf
<1>3. \A l \in T : l \in 1..Len(s) /\ s[l].type = type
    BY DEF RegionsOf
<1>4. FirstRegion(c.firmware, type) = s[k]
    BY DEF FirstRegion
<1> HIDE DEF T, s
<1>5. k \in T
  <2>1. \E x \in T : \A l \in T : x <= l
    BY <1>2, LeastNumber
  <2>2. QED
    BY <2>1
<1> HIDE DEF k
<1>6. k \in 1..Len(s) /\ s[k].type = type
    BY <1>3, <1>5
<1>7. s[k] \in Region /\ s[k] \in ToSet(s)
    BY <1>1, <1>6, SeqMember
<1>8. QED
    BY <1>4, <1>6, <1>7 DEF s

LEMMA IgvmParamsType ==
    ASSUME IsBuildConfig(cfg), builder.platforms \in SUBSET Platforms
    PROVE  /\ IgvmParams \in Seq(Others) /\ Defined(ToSet(IgvmParams))
           /\ cfg \in Config => Square(ToSet(IgvmParams))
<1> DEFINE none == RegionsOf(cfg.firmware, "IgvmParamArea") = {}
           area == FirstRegion(cfg.firmware, "IgvmParamArea")
           params == RegionsOf(cfg.firmware, "IgvmParamMemoryMap")
                     \union RegionsOf(cfg.firmware, "IgvmParamVpCount")
           a == [Blank EXCEPT !.kind = "area", !.size = area.size]
           m == [k \in 1..Cardinality(params) |-> Blank]
           i == [Blank EXCEPT !.kind = "insert", !.mask = Mask, !.gpa = area.base]
<1>1. CASE none
  <2>1. IgvmParams = <<>>
    BY <1>1 DEF IgvmParams
  <2>2. <<>> \in Seq(Others) /\ ToSet(<<>>) = {}
    BY DEF ToSet
  <2>3. QED
    BY <2>1, <2>2 DEF Defined, Square
<1>2. CASE ~none
  <2>1. IgvmParams = <<a>> \o m \o <<i>>
    BY <1>2 DEF IgvmParams
  <2>2. area.size \in Nat /\ area.base \in Nat
    BY <1>2, FirstRegionType DEF Region
  <2>3. Blank \in Directive /\ Blank \in Others /\ Blank.kind = "other" /\ Blank.index = 0
    <3>1. Blank.kind = "other" /\ Blank.index = 0
      BY DEF Blank
    <3>2. QED
      BY <3>1, BlankType DEF Plain, Others
  <2>4. a \in Others /\ a.kind = "area" /\ a.index = 0 /\ a.size = area.size
    <3>1. a \in Directive
      BY <2>2, <2>3, Zenon DEF Directive
    <3>2. a.kind = "area" /\ a.index = 0 /\ a.size = area.size
      BY DEF Blank
    <3> HIDE DEF a
    <3>3. QED
      BY <3>1, <3>2 DEF Others
  <2>5. i \in Others /\ i.kind = "insert" /\ i.index = 0 /\ i.gpa = area.base
    <3>0. Mask \in SUBSET Platforms
      BY DEF Mask
    <3>1. i \in Directive
      BY <2>2, <2>3, <3>0, Zenon DEF Directive
    <3>2. i.kind = "insert" /\ i.index = 0 /\ i.gpa = area.base
      BY DEF Blank
    <3> HIDE DEF i
    <3>3. QED
      BY <3>1, <3>2 DEF Others
  <2>6. m \in Seq({Blank})
    <3>0. params \in SUBSET (1..Len(cfg.firmware.regions)) /\ Len(cfg.firmware.regions) \in Nat
      BY DEF RegionsOf, IsBuildConfig, Firmware
    <3> HIDE DEF params
    <3>1. IsFiniteSet(params)
      BY <3>0, Interval, FS_Subset
    <3>2. Cardinality(params) \in Nat
      BY <3>1, FS_CardinalityType
    <3>3. m \in [1..Cardinality(params) -> {Blank}]
      OBVIOUS
    <3> HIDE DEF m
    <3>4. QED
      BY <3>2, <3>3, SeqIntro
  <2> HIDE DEF a, m, i
  <2>7. <<a>> \in Seq(Others) /\ <<i>> \in Seq(Others) /\ m \in Seq(Others)
    BY <2>3, <2>4, <2>5, <2>6, Widen
  <2>8. ToSet(<<a>>) = {a} /\ ToSet(<<i>>) = {i} /\ ToSet(m) \subseteq {Blank}
    <3>1. ToSet(<<a>>) = {a} /\ ToSet(<<i>>) = {i}
      BY DEF ToSet
    <3>2. QED
      BY <3>1, <2>6, MembersOf
  <2> DEFINE A == <<a>>
             I == <<i>>
  <2>9. A \in Seq(Others) /\ I \in Seq(Others) /\ ToSet(A) = {a} /\ ToSet(I) = {i}
    BY <2>7, <2>8
  <2>10. IgvmParams = (A \o m) \o I
    BY <2>1
  <2> HIDE DEF A, I
  <2>11. A \o m \in Seq(Others) /\ ToSet(A \o m) = {a} \union ToSet(m)
    BY <2>7, <2>9, ConcatSeq, ConcatMembers
  <2> DEFINE B == A \o m
  <2>12. B \in Seq(Others) /\ ToSet(B) = {a} \union ToSet(m) /\ IgvmParams = B \o I
    BY <2>10, <2>11
  <2> HIDE DEF B
  <2>13. B \o I \in Seq(Others) /\ ToSet(B \o I) = ToSet(B) \union {i}
    BY <2>9, <2>12, ConcatSeq, ConcatMembers
  <2>14. Defined(({a} \union ToSet(m)) \union {i})
    BY <2>3, <2>4, <2>5, <2>8 DEF Defined
  <2>15. ASSUME cfg \in Config PROVE Square(({a} \union ToSet(m)) \union {i})
    <3>1. area \in ToSet(cfg.firmware.regions) /\ area.type = "IgvmParamArea"
      BY <1>2, FirstRegionType
    <3>2. Whole(area.base) /\ Whole(area.size)
      BY <2>15, <3>1, LayoutAssumption DEF Whole
    <3>3. QED
      BY <2>3, <2>4, <2>5, <2>8, <3>2 DEF Square
  <2>16. QED
    BY <2>12, <2>13, <2>14, <2>15
<1>3. QED
    BY <1>1, <1>2

\* What RemovePageDataInRange leaves.
LEMMA RemoveMembers ==
    ASSUME NEW ds \in Seq(Directive), NEW base, NEW size
    PROVE  /\ RemovePageDataInRange(ds, base, size) \in Seq(Directive)
           /\ ToSet(RemovePageDataInRange(ds, base, size))
                = {d \in ToSet(ds) : ~InRange(d, base, size)}
<1> DEFINE K == {k \in 1..Len(ds) : ~InRange(ds[k], base, size)}
           r == RemovePageDataInRange(ds, base, size)
<1>1. r = Retain(ds, K)
    BY DEF RemovePageDataInRange
<1>2. \A k \in 1..Len(ds) : k \in K <=> ~InRange(ds[k], base, size)
    OBVIOUS
<1>3. \A d : d \in ToSet(ds) <=> \E k \in 1..Len(ds) : ds[k] = d
    BY SeqMember
<1> HIDE DEF K, r
<1>4. r \in Seq(Directive) /\ ToSet(r) = {ds[k] : k \in {j \in 1..Len(ds) : j \in K}}
    BY <1>1, RetainMembers
<1>5. ToSet(r) = {d \in ToSet(ds) : ~InRange(d, base, size)}
    BY <1>2, <1>3, <1>4
<1>6. QED
    BY <1>4, <1>5 DEF r

LEMMA LaidRemove ==
    ASSUME NEW c, VarsBase(c) \in Int, NEW ds \in Seq(Directive), Laid(c, ToSet(ds)),
           NEW base \in Nat, NEW size \in Nat,
           base + size <= VarsBase(c), base + PageSize <= VarsBase(c)
    PROVE  Laid(c, ToSet(RemovePageDataInRange(ds, base, size)))
<1> DEFINE D == ToSet(ds)
           E == ToSet(RemovePageDataInRange(ds, base, size))
           V == VarsBase(c)
<1>1. E = {d \in D : ~InRange(d, base, size)}
    BY RemoveMembers
<1>2. \A d \in D : d.kind # "page" => d \in E
    BY <1>1 DEF InRange
<1>3. \A d \in D : d \in Directive
    BY MembersOf
<1>4. ASSUME NEW d \in D, V <= d.gpa PROVE d \in E
  <2>1. d.gpa \in Nat
    BY <1>3 DEF Directive
  <2>2. PageSize \in Nat
    BY MeasureAssumption
  <2> HIDE DEF V
  <2>3. ~(d.gpa < base + (IF size < PageSize THEN PageSize ELSE size))
    BY <1>4, <2>1, <2>2 DEF V
  <2>4. ~InRange(d, base, size)
    BY <2>3 DEF InRange
  <2>5. QED
    BY <1>1, <2>4
<1>5. E \subseteq D
    BY <1>1
<1>6. Laid(c, D)
    OBVIOUS
<1> HIDE DEF D, E, V
<1>7. Sited(c, E)
    BY <1>5, <1>6 DEF Laid, Sited
<1>8. Astray(c, E)
    BY <1>4, <1>6 DEF Laid, Astray, V
<1>9. Defined(E)
  <2> SUFFICES ASSUME NEW d \in E, d.kind = "insert"
               PROVE  d.index = 0 /\ \E a \in E : a.kind = "area" /\ a.index = 0
    BY DEF Defined
  <2>1. d.index = 0 /\ \E a \in D : a.kind = "area" /\ a.index = 0
    BY <1>5, <1>6 DEF Laid, Defined
  <2>2. PICK a \in D : a.kind = "area" /\ a.index = 0
    BY <2>1
  <2>3. a \in E
    BY <1>2, <2>2
  <2>4. QED
    BY <2>1, <2>2, <2>3
<1>10. Square(E)
    BY <1>5, <1>6 DEF Laid, Square
<1>11. QED
    BY <1>7, <1>8, <1>9, <1>10 DEF Laid, E

LEMMA LaidAppend ==
    ASSUME NEW c, NEW ds \in Seq(Directive), Laid(c, ToSet(ds)), NEW s \in Seq(Pages(TRUE))
    PROVE  ds \o s \in Seq(Directive) /\ Laid(c, ToSet(ds \o s))
<1> DEFINE D == ToSet(ds)
           E == ToSet(s)
<1>1. s \in Seq(Directive) /\ E \subseteq Pages(TRUE)
  <2>1. Pages(TRUE) \subseteq Directive
    BY DEF Pages
  <2>2. QED
    BY <2>1, Widen, MembersOf
<1>2. ds \o s \in Seq(Directive) /\ ToSet(ds \o s) = D \union E
    BY <1>1, ConcatSeq, ConcatMembers
<1>3. Laid(c, D)
    OBVIOUS
<1> HIDE DEF D, E
<1>4. Sited(c, D \union E)
    BY <1>1, <1>3 DEF Laid, Sited, Pages
<1>5. Astray(c, D \union E)
    BY <1>3 DEF Laid, Astray
<1>6. Defined(D \union E)
  <2>1. \A d \in E : d.kind # "insert"
    BY <1>1 DEF Pages
  <2>2. QED
    BY <1>3, <2>1 DEF Laid, Defined
<1>7. Square(D \union E)
    BY <1>1, <1>3 DEF Laid, Square, Pages
<1>8. QED
    BY <1>2, <1>4, <1>5, <1>6, <1>7 DEF Laid

-----------------------------------------------------------------------------
(* Placing the blobs *)

\* placed, of PlaceBlobs.
IsPlaced(f, ds, order) ==
    f = [k \in 0..Len(order) |-> IF k = 0 THEN ds ELSE PlaceBlob(f[k - 1], order[k])]

LEMMA BlobsType ==
    ASSUME NEW measured
    PROVE  Blobs(measured) \in Seq(DOMAIN cfg.blobs)
<1> DEFINE K == {k \in 1..Len(BlobTypes) : /\ BlobTypes[k] \in DOMAIN cfg.blobs
                                           /\ IsMeasured(BlobTypes[k]) = measured}
           r == Blobs(measured)
<1>1. r = Retain(BlobTypes, K)
    BY DEF Blobs
<1>2. \A k \in K : BlobTypes[k] \in DOMAIN cfg.blobs
    OBVIOUS
<1> HIDE DEF K, r
<1>3. /\ r \in Seq(ToSet(BlobTypes))
      /\ ToSet(r) = {BlobTypes[i] : i \in {j \in 1..Len(BlobTypes) : j \in K}}
    BY <1>1, BlobTypesList, RetainMembers
<1>4. ToSet(r) \subseteq DOMAIN cfg.blobs
    BY <1>2, <1>3
<1>5. QED
    BY <1>3, <1>4, NarrowSeq DEF r

LEMMA PlacedExists ==
    ASSUME NEW V, NEW ds \in V, NEW B, NEW order \in Seq(B),
           \A v \in V : \A t \in B : PlaceBlob(v, t) \in V
    PROVE  \E f : IsPlaced(f, ds, order)
<1> DEFINE n == Len(order)
           F == [p \in (1..n) \X V |-> PlaceBlob(p[2], order[p[1]])]
<1>1. n \in Nat /\ \A k \in 1..n : order[k] \in B
    BY SeqFacts
<1>2. F \in [(1..n) \X V -> V]
  <2> SUFFICES ASSUME NEW k \in 1..n, NEW v \in V PROVE PlaceBlob(v, order[k]) \in V
    OBVIOUS
  <2>1. QED
    BY <1>1
<1>3. \A k \in 1..n : \A v \in V : F[<<k, v>>] = PlaceBlob(v, order[k])
    OBVIOUS
<1> HIDE DEF F
<1>4. PICK f : IsRecursion(f, n, V, ds, F)
    BY <1>1, <1>2, RecursionExists
<1>5. f \in [0..n -> V] /\ f[0] = ds /\ \A k \in 1..n : f[k] = F[<<k, f[k - 1]>>]
    BY <1>4 DEF IsRecursion
<1>6. ASSUME NEW k \in 0..n
      PROVE  f[k] = IF k = 0 THEN ds ELSE PlaceBlob(f[k - 1], order[k])
  <2>1. CASE k = 0
      BY <1>5, <2>1
  <2>2. CASE k # 0
    <3>1. k \in 1..n /\ k - 1 \in 0..n
        BY <1>1, <2>2
    <3>2. f[k] = F[<<k, f[k - 1]>>] /\ f[k - 1] \in V
        BY <1>5, <3>1
    <3>3. QED
        BY <1>3, <2>2, <3>1, <3>2
  <2>3. QED
      BY <2>1, <2>2
<1>7. f = [k \in 0..n |-> f[k]]
    BY <1>5
<1>8. IsPlaced(f, ds, order)
    BY <1>6, <1>7 DEF IsPlaced
<1>9. QED
    BY <1>8

\* What placing a blob keeps, placing them all keeps.
LEMMA PlacedKeeps ==
    ASSUME NEW V, NEW ds \in V,
           \A v \in V : \A t \in DOMAIN cfg.blobs : PlaceBlob(v, t) \in V
    PROVE  PlaceBlobs(ds) \in V
<1> DEFINE order == Blobs(TRUE) \o Blobs(FALSE)
           B == DOMAIN cfg.blobs
           n == Len(order)
           f == CHOOSE f : IsPlaced(f, ds, order)
<1>1. order \in Seq(B)
    BY BlobsType, ConcatSeq
<1>2. PlaceBlobs(ds) = f[n]
    BY DEF PlaceBlobs, IsPlaced
<1>3. \A v \in V : \A t \in B : PlaceBlob(v, t) \in V
    OBVIOUS
<1> HIDE DEF order, B
<1>4. IsPlaced(f, ds, order)
    BY <1>1, <1>3, PlacedExists
<1> HIDE DEF f
<1>5. n \in Nat /\ \A k \in 1..n : order[k] \in B
    BY <1>1, SeqFacts
<1>6. \A k \in 0..n : f[k] = IF k = 0 THEN ds ELSE PlaceBlob(f[k - 1], order[k])
    BY <1>4 DEF IsPlaced
<1> DEFINE T == {k \in 0..n : f[k] \in V}
<1>7. 0 \in T
    BY <1>5, <1>6
<1>8. ASSUME NEW k \in 1..n, k - 1 \in T PROVE k \in T
  <2>1. k \in 0..n /\ k # 0 /\ f[k - 1] \in V
    BY <1>5, <1>8
  <2>2. f[k] = PlaceBlob(f[k - 1], order[k])
    BY <1>6, <2>1
  <2>3. PlaceBlob(f[k - 1], order[k]) \in V
    BY <1>3, <1>5, <2>1
  <2>4. QED
    BY <2>1, <2>2, <2>3
<1>9. n \in T
  <2>1. n \in 0..n
    BY <1>5
  <2> HIDE DEF T, n
  <2>2. QED
    BY <1>5, <1>7, <1>8, <2>1, ByInduction
<1>10. QED
    BY <1>2, <1>9

\* A blob begins at a page, and ends before the blobs do.
LEMMA BlobPlace ==
    ASSUME NEW c, IsBuildConfig(c), NEW t \in DOMAIN c.blobs
    PROVE  /\ BlobAddr(c, t) \in Nat /\ Whole(BlobAddr(c, t))
           /\ c.blobs[t] \in Seq(Cells) /\ Len(c.blobs[t]) \in Nat
           /\ BlobEnd(c)[6] \in Nat /\ BlobAddr(c, t) <= BlobEnd(c)[6]
           /\ BlobBase <= BlobAddr(c, t)
           /\ BlobAddr(c, t) + Len(c.blobs[t]) <= BlobEnd(c)[6]
<1> DEFINE r == Rank(t)
           e == BlobEnd(c)
           a == e[r - 1]
<1>1. c.blobs[t] \in Seq(Cells) /\ t \in ToSet(BlobTypes)
    BY DEF IsBuildConfig
<1>2. Len(c.blobs[t]) \in Nat
    BY <1>1
<1>3. r \in 1..6 /\ BlobTypes[r] = t
    BY <1>1, BlobTypesList
<1>4. BlobAddr(c, t) = a
    BY DEF BlobAddr
<1> HIDE DEF r
<1>5. r - 1 \in 0..6 /\ r \in 0..6 /\ 6 \in 0..6 /\ r # 0
    BY <1>3
<1>6. a \in Nat /\ Whole(a) /\ a <= e[6] /\ e[r] <= e[6] /\ e[6] \in Nat /\ e[r] \in Nat
    BY <1>5, BlobEnds
<1>7. e[r] = a + Taken(c, r) * PageSize
    BY <1>5, BlobEnds
<1>11. BlobBase <= a
  <2>1. 0 \in 0..(r - 1)
    BY <1>3
  <2>2. QED
    BY <1>5, <2>1, BlobEnds
<1>8. Len(c.blobs[t]) <= Taken(c, r) * PageSize /\ Taken(c, r) * PageSize \in Nat
    BY <1>3, TakenType
<1> HIDE DEF a, e
<1>9. a + Len(c.blobs[t]) <= e[6]
    BY <1>2, <1>6, <1>7, <1>8
<1>10. QED
    BY <1>1, <1>2, <1>4, <1>6, <1>9, <1>11 DEF e

LEMMA PlaceBlobType ==
    ASSUME IsBuildConfig(cfg), builder.platforms \in SUBSET Platforms,
           NEW ds \in Seq(Directive), NEW t \in DOMAIN cfg.blobs
    PROVE  PlaceBlob(ds, t) \in Seq(Directive)
<1> DEFINE a == BlobAddr(cfg, t)
           data == cfg.blobs[t]
           u == ~IsMeasured(t)
           r == RemovePageDataInRange(ds, a, Len(data))
           p == DataPages(a, data, u)
<1>1. PlaceBlob(ds, t) = r \o p
    BY DEF PlaceBlob
<1>2. a \in Nat /\ data \in Seq(Cells) /\ u \in BOOLEAN
    BY BlobPlace
<1>3. r \in Seq(Directive)
    BY RemoveMembers
<1> HIDE DEF a, data, u, r
<1>4. p \in Seq(Pages(FALSE))
    BY <1>2, DataPagesType
<1>5. Pages(FALSE) \subseteq Directive
    BY DEF Pages
<1> HIDE DEF p
<1>6. p \in Seq(Directive)
    BY <1>4, <1>5, Widen
<1>7. QED
    BY <1>1, <1>3, <1>6, ConcatSeq

LEMMA VarsBaseType ==
    ASSUME NEW c, IsBuildConfig(c)
    PROVE  /\ VarsBase(c) \in Nat /\ Len(c.vars) \in Nat /\ Len(c.firmware.cells) \in Nat
           /\ c.vars \in Seq(Cells) /\ c.firmware.cells \in Seq(Cells)
           /\ Len(c.firmware.cells) <= Top4G
           /\ VarsBase(c) = (Top4G - Len(c.firmware.cells)) - Len(c.vars)
           /\ Len(c.vars) <= Top4G - Len(c.firmware.cells)
<1>1. c.vars \in Seq(Cells) /\ c.firmware.cells \in Seq(Cells)
    BY DEF IsBuildConfig, Firmware
<1>2. Len(c.vars) \in Nat /\ Len(c.firmware.cells) \in Nat
    BY <1>1
<1>3. Len(c.vars) + Len(c.firmware.cells) <= Top4G
    BY DEF IsBuildConfig
<1> DEFINE v == Len(c.vars)
           f == Len(c.firmware.cells)
<1>4. v \in Nat /\ f \in Nat /\ v + f <= Top4G /\ VarsBase(c) = Top4G - v - f
    BY <1>2, <1>3 DEF VarsBase
<1>5. Top4G \in Nat
    BY Addresses
<1> HIDE DEF v, f
<1>6. /\ Top4G - v - f \in Nat /\ f <= Top4G /\ v <= Top4G - f
      /\ Top4G - v - f = (Top4G - f) - v
    BY <1>4, <1>5
<1>7. QED
    BY <1>1, <1>4, <1>6 DEF v, f

LEMMA PlaceBlobLaid ==
    ASSUME cfg \in Config, builder.platforms \in SUBSET Platforms,
           NEW ds \in Seq(Directive), Laid(cfg, ToSet(ds)), NEW t \in DOMAIN cfg.blobs
    PROVE  PlaceBlob(ds, t) \in Seq(Directive) /\ Laid(cfg, ToSet(PlaceBlob(ds, t)))
<1> DEFINE a == BlobAddr(cfg, t)
           data == cfg.blobs[t]
           u == ~IsMeasured(t)
           n == Len(data)
           r == RemovePageDataInRange(ds, a, n)
           p == DataPages(a, data, u)
<1>0. IsBuildConfig(cfg)
    BY LaunchAssumption
<1>1. PlaceBlob(ds, t) = r \o p
    BY DEF PlaceBlob
<1>2. /\ a \in Nat /\ Whole(a) /\ data \in Seq(Cells) /\ n \in Nat
      /\ BlobEnd(cfg)[6] \in Nat /\ a <= BlobEnd(cfg)[6] /\ a + n <= BlobEnd(cfg)[6]
    BY <1>0, BlobPlace
<1>3. u \in BOOLEAN
    OBVIOUS
<1>4. BlobEnd(cfg)[6] + PageSize <= VarsBase(cfg)
    BY LayoutAssumption, BlobTypesList
<1>5. VarsBase(cfg) \in Nat /\ PageSize \in Nat
    BY <1>0, VarsBaseType, MeasureAssumption
<1>6. r \in Seq(Directive)
    BY RemoveMembers
<1> HIDE DEF a, n
<1>7. a + n <= VarsBase(cfg) /\ a + PageSize <= VarsBase(cfg)
    BY <1>2, <1>4, <1>5
<1>8. Laid(cfg, ToSet(r))
    BY <1>2, <1>5, <1>7, LaidRemove
<1> HIDE DEF data, u, r
<1>9. p \in Seq(Pages(TRUE))
    BY <1>2, <1>3, DataPagesType
<1> HIDE DEF p
<1>10. r \o p \in Seq(Directive) /\ Laid(cfg, ToSet(r \o p))
    BY <1>6, <1>8, <1>9, LaidAppend
<1>11. QED
    BY <1>1, <1>10

-----------------------------------------------------------------------------
(* The lists the steps of build make *)

LEMMA ConfigIs ==
    ASSUME cfg \in Config
    PROVE  /\ IsBuildConfig(cfg)
           /\ cfg.platform \in SUBSET Platforms /\ cfg.boot \in {"real16", "flat32"}
           /\ cfg.smp \in Nat /\ Hobs(cfg) \in Seq(Cells)
<1>1. IsBuildConfig(cfg)
    BY LaunchAssumption
<1>2. Hobs(cfg) \in Seq(Cells)
    BY CellsAssumption
<1>3. QED
    BY <1>1, <1>2 DEF IsBuildConfig

LEMMA Subsets ==
    /\ \A w \in BOOLEAN : Pages(w) \subseteq Directive
    /\ Still \subseteq Plain /\ Plain \subseteq Others /\ Others \subseteq Directive
BY DEF Pages, Still, Plain, Others

\* What AddPlatforms begins with.
Native == IF "native" \in cfg.platform /\ cfg.boot = "flat32" THEN <<Blank>> ELSE <<>>

Vmsas == [vp \in 1..Processors(cfg) |-> Vmsa(vp > 1)]

LEMMA ProcessorsAre ==
    ASSUME cfg \in Config
    PROVE  Processors(cfg) \in Nat /\ (Processors(cfg) <= MaxVps <=> cfg.smp <= MaxVps)
<1>1. cfg.smp \in Nat
    BY ConfigIs
<1>2. MaxVps \in Nat \ {0}
    BY LaunchAssumption
<1>3. QED
    BY <1>1, <1>2 DEF Processors

LEMMA PlatformLists ==
    ASSUME cfg \in Config, NEW w \in BOOLEAN,
           \A k \in 1..Len(cfg.firmware.regions) :
              w /\ cfg.firmware.regions[k].type \in SevTypes => Whole(cfg.firmware.regions[k].base)
    PROVE  Native \o (IF "snp" \in cfg.platform THEN Vmsas \o OvmfSnpPages ELSE <<>>)
              \in Seq(Still \union Pages(w))
<1> DEFINE S == Still \union Pages(w)
<1>1. Still \subseteq S /\ Pages(w) \subseteq S
    OBVIOUS
<1>2. Blank \in S
    BY BlankType
<1> HIDE DEF S
<1>3. Native \in Seq(S)
    BY <1>2 DEF Native
<1>4. OvmfSnpPages \in Seq(S)
  <2>1. OvmfSnpPages \in Seq(Pages(w))
    BY ConfigIs, OvmfSnpPagesType
  <2>2. QED
    BY <1>1, <2>1, Widen
<1>5. Vmsas \in Seq(S)
  <2> DEFINE n == Processors(cfg)
  <2>1. n \in Nat
    BY ProcessorsAre
  <2>2. ASSUME NEW vp \in 1..n PROVE Vmsa(vp > 1) \in S
    <3>1. (vp > 1) \in BOOLEAN
      OBVIOUS
    <3>2. Vmsa(vp > 1) \in Still
      BY <3>1, ConfigIs, VmsaType
    <3>3. QED
      BY <1>1, <3>2
  <2>3. Vmsas \in [1..n -> S]
    BY <2>2 DEF Vmsas
  <2>4. QED
    BY <2>1, <2>3, SeqIntro
<1>6. Vmsas \o OvmfSnpPages \in Seq(S)
    BY <1>4, <1>5, ConcatSeq
<1> DEFINE snp == IF "snp" \in cfg.platform THEN Vmsas \o OvmfSnpPages ELSE <<>>
<1>7. snp \in Seq(S)
    BY <1>6
<1> HIDE DEF snp
<1>8. Native \o snp \in Seq(S)
    BY <1>3, <1>7, ConcatSeq
<1>9. QED
    BY <1>8 DEF snp, S

\* What AddParamsAndFirmware adds.
Cells4G == cfg.firmware.cells

Low == Least(LowMax, Len(cfg.firmware.cells))

LowCopy ==
    IF cfg.boot = "real16"
    THEN DataPages(Top1M - Low, SubSeq(Cells4G, Len(Cells4G) - Low + 1, Len(Cells4G)), FALSE)
    ELSE <<>>

LEMMA FirmwareLists ==
    ASSUME cfg \in Config, builder.platforms \in SUBSET Platforms, NEW w \in BOOLEAN,
           w => WholeInputs(cfg)
    PROVE  /\ LowCopy \in Seq(Pages(w))
           /\ DataPages(Top4G - Len(Cells4G), Cells4G, FALSE) \in Seq(Pages(w))
           /\ DataPages(VarsBase(cfg), cfg.vars, FALSE) \in Seq(Pages(w))
<1> DEFINE n == Len(Cells4G)
           v == VarsBase(cfg)
<1>1. /\ v \in Nat /\ Len(cfg.vars) \in Nat /\ n \in Nat
      /\ cfg.vars \in Seq(Cells) /\ Cells4G \in Seq(Cells)
      /\ n <= Top4G /\ v = (Top4G - n) - Len(cfg.vars) /\ Len(cfg.vars) <= Top4G - n
    BY ConfigIs, VarsBaseType DEF Cells4G
<1>2. w => Whole(n) /\ Whole(Len(cfg.vars))
    BY DEF WholeInputs, Cells4G
<1>3. Low = Least(LowMax, n)
    BY DEF Low, Cells4G
<1> HIDE DEF n, v
<1>4. Top4G - n \in Nat /\ (w => Whole(Top4G - n))
    BY <1>1, <1>2, Addresses, WholeDifference
<1>5. w => Whole(v)
    BY <1>1, <1>2, <1>4, WholeDifference
<1>6. DataPages(Top4G - n, Cells4G, FALSE) \in Seq(Pages(w))
    BY <1>1, <1>4, DataPagesType
<1>7. DataPages(v, cfg.vars, FALSE) \in Seq(Pages(w))
    BY <1>1, <1>5, DataPagesType
<1>8. LowCopy \in Seq(Pages(w))
  <2>1. CASE cfg.boot = "real16"
    <3> DEFINE b == Top1M - Low
               part == SubSeq(Cells4G, Len(Cells4G) - Low + 1, Len(Cells4G))
    <3>1. Low \in Nat /\ Low <= Top1M /\ Low <= n /\ (Low = LowMax \/ Low = n)
      BY <1>1, <1>3, Addresses DEF Least
    <3>2. w => Whole(Low)
      BY <1>2, <3>1, Addresses
    <3>3. b \in Nat
      BY <3>1, Addresses
    <3>4. w => Whole(b)
      BY <3>1, <3>2, Addresses, WholeDifference
    <3>5. n - Low + 1 \in Nat \ {0} /\ n \in Int /\ n <= Len(Cells4G)
      BY <1>1, <3>1 DEF n
    <3>6. part \in Seq(Cells)
      BY <1>1, <3>5, SubSeqType DEF n
    <3>7. LowCopy = DataPages(b, part, FALSE)
      BY <2>1 DEF LowCopy
    <3> HIDE DEF b, part
    <3>8. DataPages(b, part, FALSE) \in Seq(Pages(w))
      BY <3>3, <3>4, <3>6, DataPagesType
    <3>9. QED
      BY <3>7, <3>8
  <2>2. CASE cfg.boot # "real16"
    BY <2>2 DEF LowCopy
  <2>3. QED
    BY <2>1, <2>2
<1>9. QED
    BY <1>6, <1>7, <1>8 DEF n, v

\* Firmware or variables that do not fill their pages leave a page where none can be.
LEMMA FirmwareAstray ==
    ASSUME cfg \in Config, builder.platforms \in SUBSET Platforms
    PROVE  Astray(cfg, ToSet(DataPages(Top4G - Len(Cells4G), Cells4G, FALSE))
                       \union ToSet(DataPages(VarsBase(cfg), cfg.vars, FALSE)))
<1> DEFINE n == Len(Cells4G)
           m == Len(cfg.vars)
           v == VarsBase(cfg)
           f == Top4G - n
           D == ToSet(DataPages(Top4G - Len(Cells4G), Cells4G, FALSE))
           E == ToSet(DataPages(VarsBase(cfg), cfg.vars, FALSE))
<1> SUFFICES ASSUME ~WholeInputs(cfg)
             PROVE  \E d \in D \union E : d.kind = "page" /\ ~Whole(d.gpa) /\ v <= d.gpa
    BY DEF Astray
<1>1. /\ v \in Nat /\ m \in Nat /\ n \in Nat
      /\ cfg.vars \in Seq(Cells) /\ Cells4G \in Seq(Cells)
      /\ n <= Top4G /\ v = f - m /\ m <= f
    BY ConfigIs, VarsBaseType DEF Cells4G
<1>2. ~Whole(n) \/ ~Whole(m)
    BY DEF WholeInputs, Cells4G
<1>3. Whole(0)
    BY MeasureAssumption DEF Whole
<1>4. f \in Nat
    BY <1>1, Addresses
<1>5. m # 0 => \E d \in E : d.kind = "page" /\ d.gpa = v
  <2>1. FALSE \in BOOLEAN /\ (FALSE => Whole(v))
    OBVIOUS
  <2> HIDE DEF v
  <2>2. QED
    BY <1>1, <2>1, DataPagesType DEF v
<1>6. n # 0 => \E d \in D : d.kind = "page" /\ d.gpa = f
  <2>1. FALSE \in BOOLEAN /\ (FALSE => Whole(f))
    OBVIOUS
  <2>2. QED
    BY <1>1, <1>4, <2>1, DataPagesType
<1> HIDE DEF n, m, v, D, E
<1>7. CASE ~Whole(n)
  <2>1. n # 0
    BY <1>3, <1>7
  <2>2. ~Whole(f)
    BY <1>1, <1>7, Addresses, WholeDifference
  <2>3. v <= f
    BY <1>1, <1>4
  <2> HIDE DEF f
  <2>4. QED
    BY <1>6, <2>1, <2>2, <2>3
<1>8. CASE Whole(n) /\ ~Whole(m)
  <2>1. m # 0
    BY <1>3, <1>8
  <2>2. Whole(f)
    BY <1>1, <1>8, Addresses, WholeDifference
  <2> HIDE DEF f
  <2>3. ~Whole(v)
    BY <1>1, <1>4, <1>8, <2>2, WholeDifference
  <2>4. v <= v
    BY <1>1
  <2>5. QED
    BY <1>5, <2>1, <2>3, <2>4
<1>9. QED
    BY <1>2, <1>7, <1>8

Pages4G == DataPages(Top4G - Len(Cells4G), Cells4G, FALSE)

VarsPages == DataPages(VarsBase(cfg), cfg.vars, FALSE)

Added == IgvmParams \o LowCopy \o Pages4G \o VarsPages

LEMMA AddedMembers ==
    ASSUME cfg \in Config, builder.platforms \in SUBSET Platforms
    PROVE  /\ Added \in Seq(Directive)
           /\ ToSet(Added) = ((ToSet(IgvmParams) \union ToSet(LowCopy)) \union ToSet(Pages4G))
                             \union ToSet(VarsPages)
<1> DEFINE a == IgvmParams
           b == LowCopy
           c == Pages4G
           d == VarsPages
           ab == a \o b
           abc == ab \o c
<1>1. a \in Seq(Directive)
    BY ConfigIs, IgvmParamsType, Subsets, Widen
<1>2. b \in Seq(Pages(FALSE)) /\ c \in Seq(Pages(FALSE)) /\ d \in Seq(Pages(FALSE))
    BY FirmwareLists DEF Pages4G, VarsPages
<1>3. Pages(FALSE) \subseteq Directive
    BY Subsets
<1>4. Added = abc \o d
    BY DEF Added
<1> HIDE DEF a, b, c, d
<1>5. b \in Seq(Directive) /\ c \in Seq(Directive) /\ d \in Seq(Directive)
    BY <1>2, <1>3, Widen
<1>6. ab \in Seq(Directive) /\ ToSet(ab) = ToSet(a) \union ToSet(b)
    BY <1>1, <1>5, ConcatSeq, ConcatMembers
<1> HIDE DEF ab
<1>7. abc \in Seq(Directive) /\ ToSet(abc) = ToSet(ab) \union ToSet(c)
    BY <1>5, <1>6, ConcatSeq, ConcatMembers
<1> HIDE DEF abc
<1>8. abc \o d \in Seq(Directive) /\ ToSet(abc \o d) = ToSet(abc) \union ToSet(d)
    BY <1>5, <1>7, ConcatSeq, ConcatMembers
<1>9. QED
    BY <1>4, <1>6, <1>7, <1>8 DEF a, b, c, d

LEMMA AddedLaid ==
    ASSUME cfg \in Config, builder.platforms \in SUBSET Platforms,
           NEW ds \in Seq(Still \union Pages(TRUE))
    PROVE  ds \o Added \in Seq(Directive) /\ Laid(cfg, ToSet(ds \o Added))
<1> DEFINE A == ToSet(IgvmParams)
           B == ToSet(LowCopy)
           C == ToSet(Pages4G)
           D == ToSet(VarsPages)
           E == ToSet(ds)
<1>1. ds \in Seq(Directive) /\ E \subseteq Still \union Pages(TRUE)
  <2>1. Still \union Pages(TRUE) \subseteq Directive
    BY Subsets
  <2>2. QED
    BY <2>1, Widen, MembersOf
<1>2. Added \in Seq(Directive) /\ ToSet(Added) = ((A \union B) \union C) \union D
    BY AddedMembers
<1>3. /\ ds \o Added \in Seq(Directive)
      /\ ToSet(ds \o Added) = E \union (((A \union B) \union C) \union D)
    BY <1>1, <1>2, ConcatSeq, ConcatMembers
<1>4. A \subseteq Others /\ Defined(A) /\ Square(A)
    BY ConfigIs, IgvmParamsType, MembersOf
<1>5. WholeInputs(cfg) \in BOOLEAN
    BY DEF WholeInputs, Whole
<1>6. B \union C \union D \subseteq Pages(WholeInputs(cfg))
  <2> DEFINE w == WholeInputs(cfg)
  <2>1. w \in BOOLEAN /\ (w => WholeInputs(cfg))
    BY <1>5
  <2> HIDE DEF w
  <2>2. /\ LowCopy \in Seq(Pages(w)) /\ Pages4G \in Seq(Pages(w))
        /\ VarsPages \in Seq(Pages(w))
    BY <2>1, FirmwareLists DEF Pages4G, VarsPages
  <2>3. B \subseteq Pages(w) /\ C \subseteq Pages(w) /\ D \subseteq Pages(w)
    BY <2>2, MembersOf
  <2>4. QED
    BY <2>3 DEF w
<1>7. Astray(cfg, C \union D)
    BY FirmwareAstray DEF Pages4G, VarsPages
<1> HIDE DEF A, B, C, D, E
<1> DEFINE U == E \union (((A \union B) \union C) \union D)
<1>8. \A d \in U : \/ d \in Still \union Pages(TRUE) \/ d \in A
                   \/ d \in Pages(WholeInputs(cfg))
    BY <1>1, <1>6
<1>9. A \subseteq U /\ C \union D \subseteq U
    OBVIOUS
<1> HIDE DEF U
<1>10. Sited(cfg, U)
    BY <1>4, <1>8 DEF Sited, Still, Plain, Others, Pages
<1>11. Astray(cfg, U)
    BY <1>7, <1>9 DEF Astray
<1>12. Defined(U)
  <2>1. \A d \in U : d.kind = "insert" => d \in A
    BY <1>8 DEF Still, Plain, Others, Pages
  <2>2. QED
    BY <1>4, <1>9, <2>1 DEF Defined
<1>13. Square(U)
  <2>1. \A d \in U : d.kind \in {"insert", "area"} => d \in A
    BY <1>8 DEF Still, Plain, Others, Pages
  <2>2. QED
    BY <1>4, <2>1 DEF Square
<1>14. QED
    BY <1>3, <1>10, <1>11, <1>12, <1>13 DEF Laid, U

LEMMA InitMInvNext == (file \in IgvmFile /\ MeasureInit => MInv)'
BY InitMInv, PTL

-----------------------------------------------------------------------------
(* The state has its type *)

Result == [cfg : Config, ok : BOOLEAN, file : IgvmFile, digest : Seq(Entry)]

Building == {"platform", "params", "hob", "finalize", "measure"}

StateInv ==
    /\ todo \in Seq(Config)
    /\ pc \in Building => cfg \in Config
    /\ builder \in [platforms : SUBSET Platforms, directives : Seq(Directive)]
    /\ results \in Seq(Result)
    /\ others \subseteq IgvmFile
    /\ pc \in {"launch", "verify_igvm", "verify_image", "verdict"} => machine \in Files
    /\ pc \in {"verify_igvm", "verify_image", "verdict"} => given \in Files
    /\ changed \in BOOLEAN

ImageInv == MInv /\ StateInv

LEMMA MeasureRestarts ==
    ASSUME NEW f \in IgvmFile, Measure(f)
    PROVE  MInv'
<1>1. (file \in IgvmFile /\ MeasureInit)'
    BY DEF Measure, MeasureInit
<1>2. QED
    BY <1>1, InitMInvNext

LEMMA MeasureQuiet ==
    ASSUME MInv, UNCHANGED measureVars
    PROVE  MInv'
BY StepMInv

LEMMA FileTypes ==
    /\ NoFile \in IgvmFile /\ <<>> \in Seq(Entry)
    /\ MInv => file \in IgvmFile /\ ld \in Seq(Entry)
<1>1. NoFile \in IgvmFile
  <2>1. {} \in SUBSET Platforms /\ <<>> \in Seq(Directive)
    OBVIOUS
  <2>2. QED
    BY <2>1 DEF NoFile, IgvmFile
<1>2. QED
    BY <1>1 DEF MInv, MeasureTypeOK

LEMMA FilesType == StateInv => Files \subseteq IgvmFile
<1> SUFFICES ASSUME StateInv, NEW f \in Files PROVE f \in IgvmFile
    OBVIOUS
<1>1. ToSet(results) \subseteq Result
    BY MembersOf DEF StateInv
<1>2. QED
    BY <1>1 DEF StateInv, Files, Images, Result

\* The end of a build: what was an image still is one.
LEMMA FinishType ==
    ASSUME StateInv, cfg \in Config, NEW ok \in BOOLEAN, NEW f \in IgvmFile,
           NEW digest \in Seq(Entry), Finish(ok, f, digest),
           UNCHANGED <<todo, cfg, builder, others, machine, given, changed>>
    PROVE  /\ StateInv'
           /\ results' = Append(results, [cfg |-> cfg, ok |-> ok, file |-> f, digest |-> digest])
           /\ ToSet(results') = ToSet(results)
                 \union {[cfg |-> cfg, ok |-> ok, file |-> f, digest |-> digest]}
<1> DEFINE r == [cfg |-> cfg, ok |-> ok, file |-> f, digest |-> digest]
<1>1. r \in Result
    BY DEF Result
<1>2. results \in Seq(Result) /\ results' = Append(results, r) /\ pc' = "idle"
    BY DEF StateInv, Finish, Goto
<1> HIDE DEF r
<1>3. /\ results' \in Seq(Result) /\ Len(results') = Len(results) + 1
      /\ results'[Len(results) + 1] = r
      /\ \A k \in 1..Len(results) : results'[k] = results[k]
    BY <1>1, <1>2, AppendSeq
<1>4. Len(results) \in Nat
    BY <1>2, SeqFacts
<1>6. StateInv'
  <2>1. (todo \in Seq(Config))'
    BY DEF StateInv
  <2>2. pc' = "idle" /\ pc' \notin Building
    BY <1>2 DEF Building
  <2>3. (builder \in [platforms : SUBSET Platforms, directives : Seq(Directive)])'
    BY DEF StateInv
  <2>4. others' \subseteq IgvmFile /\ changed' \in BOOLEAN
    BY DEF StateInv
  <2>5. QED
    BY <1>3, <2>1, <2>2, <2>3, <2>4 DEF StateInv
<1>7. ToSet(results') = ToSet(results) \union {r}
  <2>1. \A x : x \in ToSet(results) <=> \E k \in 1..Len(results) : results[k] = x
    BY <1>2, SeqMember
  <2>2. \A x : x \in ToSet(results') <=> \E k \in 1..Len(results') : results'[k] = x
    BY <1>3, SeqMember
  <2>3. \A k : k \in 1..Len(results') <=> k \in 1..Len(results) \/ k = Len(results) + 1
    BY <1>3, <1>4
  <2>4. QED
    BY <1>3, <2>1, <2>2, <2>3
<1>8. QED
    BY <1>2, <1>6, <1>7 DEF r

LEMMA RestKept ==
    ASSUME StateInv, UNCHANGED <<results, others, machine, given, changed>>,
           todo' \in Seq(Config), pc' = pc \/ pc' \in Building,
           pc' \in Building => cfg' \in Config,
           builder' \in [platforms : SUBSET Platforms, directives : Seq(Directive)]
    PROVE  StateInv'
<1>1. Files' = Files
    BY DEF Files, Images
<1>2. QED
    BY <1>1 DEF StateInv, Building

LEMMA EmptyBuilder ==
    [platforms |-> {}, directives |-> <<>>]
        \in [platforms : SUBSET Platforms, directives : Seq(Directive)]
<1>1. {} \in SUBSET Platforms /\ <<>> \in Seq(Directive)
    OBVIOUS
<1>2. QED
    BY <1>1

LEMMA InitImageInv == Init => ImageInv
<1> SUFFICES ASSUME Init PROVE ImageInv
    OBVIOUS
<1>1. file \in IgvmFile
    BY FileTypes, ForeignAssumption DEF Init
<1>2. MInv
    BY <1>1, InitMInv DEF Init
<1>3. todo \in Seq(Config) /\ others \subseteq IgvmFile
  <2>1. (\E w \in Workloads : todo = w.builds /\ others = w.others)
        \/ (todo = <<>> /\ others = {})
    BY DEF Init
  <2>2. \A w \in Workloads : w.builds \in Seq(Config) /\ w.others \subseteq IgvmFile
    BY LaunchAssumption
  <2>3. <<>> \in Seq(Config)
    OBVIOUS
  <2>4. QED
    BY <2>1, <2>2, <2>3
<1>4. results = <<>> /\ results \in Seq(Result)
    BY DEF Init
<1>5. pc \in {"idle", "measure_only"} /\ pc \notin Building /\ changed \in BOOLEAN
    BY DEF Init, Building
<1>6. builder \in [platforms : SUBSET Platforms, directives : Seq(Directive)]
    BY EmptyBuilder DEF Init
<1>7. QED
    BY <1>2, <1>3, <1>4, <1>5, <1>6 DEF ImageInv, StateInv

LEMMA StartBuildType == ImageInv /\ StartBuild => ImageInv'
<1> SUFFICES ASSUME ImageInv, StartBuild PROVE ImageInv'
    OBVIOUS
<1>1. MInv'
    BY MeasureQuiet DEF ImageInv, StartBuild
<1>2. todo \in Seq(Config) /\ todo # <<>>
    BY DEF ImageInv, StateInv, StartBuild
<1>3. Head(todo) \in Config /\ Tail(todo) \in Seq(Config)
    BY <1>2
<1>4. builder' \in [platforms : SUBSET Platforms, directives : Seq(Directive)]
    BY EmptyBuilder DEF StartBuild
<1>5. StateInv'
    BY <1>3, <1>4, RestKept DEF ImageInv, StartBuild, verifyVars, Goto, Building
<1>6. QED
    BY <1>1, <1>5 DEF ImageInv

\* The list AddPlatforms makes.
Started == Native \o (IF "snp" \in cfg.platform THEN Vmsas \o OvmfSnpPages ELSE <<>>)

LEMMA AddPlatformsIs ==
    ASSUME AddPlatforms
    PROVE  builder' = [platforms |-> cfg.platform, directives |-> Started]
BY DEF AddPlatforms, Started, Native, Vmsas

LEMMA AddPlatformsType == ImageInv /\ AddPlatforms => ImageInv'
<1> SUFFICES ASSUME ImageInv, AddPlatforms PROVE ImageInv'
    OBVIOUS
<1>1. MInv'
    BY MeasureQuiet DEF ImageInv, AddPlatforms
<1>2. cfg \in Config
    BY DEF ImageInv, StateInv, AddPlatforms, Building
<1>3. Started \in Seq(Still \union Pages(FALSE))
    BY <1>2, PlatformLists DEF Started
<1>4. Started \in Seq(Directive)
  <2>1. Still \union Pages(FALSE) \subseteq Directive
    BY Subsets
  <2>2. QED
    BY <1>3, <2>1, Widen
<1>5. cfg.platform \in SUBSET Platforms
    BY <1>2, ConfigIs
<1>6. builder' = [platforms |-> cfg.platform, directives |-> Started]
    BY AddPlatformsIs
<1>7. builder' \in [platforms : SUBSET Platforms, directives : Seq(Directive)]
    BY <1>4, <1>5, <1>6
<1>8. todo' \in Seq(Config) /\ cfg' = cfg
    BY DEF ImageInv, StateInv, AddPlatforms
<1>9. StateInv'
    BY <1>2, <1>7, <1>8, RestKept DEF ImageInv, AddPlatforms, verifyVars, Goto, Building
<1>10. QED
    BY <1>1, <1>9 DEF ImageInv

LEMMA BuilderParts ==
    ASSUME StateInv
    PROVE  builder.platforms \in SUBSET Platforms /\ builder.directives \in Seq(Directive)
BY DEF StateInv

LEMMA NewDirectives ==
    ASSUME StateInv, NEW ds \in Seq(Directive), builder' = [builder EXCEPT !.directives = ds]
    PROVE  /\ builder' \in [platforms : SUBSET Platforms, directives : Seq(Directive)]
           /\ builder'.platforms = builder.platforms /\ builder'.directives = ds
BY DEF StateInv

LEMMA AddParamsIs ==
    ASSUME StateInv, AddParamsAndFirmware
    PROVE  builder' = [builder EXCEPT !.directives = builder.directives \o Added]
BY DEF StateInv, AddParamsAndFirmware, Add, Added, LowCopy, Low, Cells4G, Pages4G, VarsPages

LEMMA AddParamsType == ImageInv /\ AddParamsAndFirmware => ImageInv'
<1> SUFFICES ASSUME ImageInv, AddParamsAndFirmware PROVE ImageInv'
    OBVIOUS
<1>1. MInv'
    BY MeasureQuiet DEF ImageInv, AddParamsAndFirmware
<1>2. cfg \in Config /\ StateInv
    BY DEF ImageInv, StateInv, AddParamsAndFirmware, Building
<1>3. Added \in Seq(Directive)
    BY <1>2, BuilderParts, AddedMembers
<1>4. builder.directives \o Added \in Seq(Directive)
    BY <1>2, <1>3, BuilderParts, ConcatSeq
<1>5. builder' = [builder EXCEPT !.directives = builder.directives \o Added]
    BY <1>2, AddParamsIs
<1>6. builder' \in [platforms : SUBSET Platforms, directives : Seq(Directive)]
    BY <1>2, <1>4, <1>5, NewDirectives
<1>7. todo' \in Seq(Config) /\ cfg' = cfg
    BY DEF ImageInv, StateInv, AddParamsAndFirmware
<1>8. StateInv'
    BY <1>2, <1>6, <1>7, RestKept DEF AddParamsAndFirmware, verifyVars, Goto, Building
<1>9. QED
    BY <1>1, <1>8 DEF ImageInv

\* What AddHobData makes of the list.
Cleared ==
    LET hob == FirstRegion(cfg.firmware, "IgvmHobArea")
    IN  RemovePageDataInRange(builder.directives, hob.base, hob.size)

HobPages == DataPages(FirstRegion(cfg.firmware, "IgvmHobArea").base, Hobs(cfg), FALSE)

LEMMA AddHobIs ==
    ASSUME AddHobData
    PROVE  builder' = IF DOMAIN cfg.blobs = {} THEN builder
                      ELSE [builder EXCEPT !.directives = PlaceBlobs(Cleared \o HobPages)]
BY DEF AddHobData, Cleared, HobPages

LEMMA HobType ==
    ASSUME cfg \in Config, StateInv, RegionsOf(cfg.firmware, "IgvmHobArea") # {}
    PROVE  PlaceBlobs(Cleared \o HobPages) \in Seq(Directive)
<1> DEFINE hob == FirstRegion(cfg.firmware, "IgvmHobArea")
           ds == Cleared \o HobPages
           V == Seq(Directive)
<1>1. hob.base \in Nat
    BY ConfigIs, FirstRegionType DEF Region
<1>2. Cleared \in Seq(Directive)
    BY BuilderParts, RemoveMembers DEF Cleared
<1>3. HobPages = DataPages(hob.base, Hobs(cfg), FALSE)
    BY DEF HobPages
<1> HIDE DEF hob
<1>4. HobPages \in Seq(Pages(FALSE))
    BY <1>1, <1>3, ConfigIs, BuilderParts, DataPagesType
<1>5. HobPages \in Seq(Directive)
    BY <1>4, Subsets, Widen
<1>6. ds \in V
    BY <1>2, <1>5, ConcatSeq
<1>7. \A v \in V : \A t \in DOMAIN cfg.blobs : PlaceBlob(v, t) \in V
    BY ConfigIs, BuilderParts, PlaceBlobType
<1> HIDE DEF ds, V
<1>8. PlaceBlobs(ds) \in V
    BY <1>6, <1>7, PlacedKeeps
<1>9. QED
    BY <1>8 DEF ds, V

LEMMA AddHobType == ImageInv /\ AddHobData => ImageInv'
<1> SUFFICES ASSUME ImageInv, AddHobData PROVE ImageInv'
    OBVIOUS
<1>1. MInv'
    BY MeasureQuiet DEF ImageInv, AddHobData
<1>2. cfg \in Config /\ StateInv
    BY DEF ImageInv, StateInv, AddHobData, Building
<1>3. builder' \in [platforms : SUBSET Platforms, directives : Seq(Directive)]
  <2>1. CASE DOMAIN cfg.blobs = {}
    BY <1>2, <2>1, AddHobIs DEF StateInv
  <2>2. CASE DOMAIN cfg.blobs # {}
    <3>1. builder' = [builder EXCEPT !.directives = PlaceBlobs(Cleared \o HobPages)]
      BY <2>2, AddHobIs
    <3>2. RegionsOf(cfg.firmware, "IgvmHobArea") # {}
      BY <2>2 DEF AddHobData
    <3>3. PlaceBlobs(Cleared \o HobPages) \in Seq(Directive)
      BY <1>2, <3>2, HobType
    <3>4. QED
      BY <1>2, <3>1, <3>3, NewDirectives
  <2>3. QED
    BY <2>1, <2>2
<1>4. todo' \in Seq(Config) /\ cfg' = cfg
    BY <1>2 DEF StateInv, AddHobData
<1>5. StateInv'
    BY <1>2, <1>3, <1>4, RestKept DEF AddHobData, verifyVars, Goto, Building
<1>6. QED
    BY <1>1, <1>5 DEF ImageInv

LEMMA FailType ==
    ASSUME ImageInv, NoResetAddr \/ TooManyVps \/ NoHobArea \/ FinalizeFails
    PROVE  /\ ImageInv' /\ cfg \in Config
           /\ ToSet(results') = ToSet(results)
                 \union {[cfg |-> cfg, ok |-> FALSE, file |-> NoFile, digest |-> <<>>]}
<1>1. MInv'
    BY MeasureQuiet DEF ImageInv, NoResetAddr, TooManyVps, NoHobArea, FinalizeFails
<1>2. cfg \in Config /\ StateInv
    BY DEF ImageInv, StateInv, NoResetAddr, TooManyVps, NoHobArea, FinalizeFails, Building
<1>3. /\ Finish(FALSE, NoFile, <<>>)
      /\ UNCHANGED <<todo, cfg, builder, others, machine, given, changed>>
    BY DEF NoResetAddr, TooManyVps, NoHobArea, FinalizeFails, buildVars, verifyVars
<1>4. FALSE \in BOOLEAN /\ NoFile \in IgvmFile /\ <<>> \in Seq(Entry)
    BY FileTypes
<1>5. /\ StateInv'
      /\ ToSet(results') = ToSet(results)
                 \union {[cfg |-> cfg, ok |-> FALSE, file |-> NoFile, digest |-> <<>>]}
    BY <1>2, <1>3, <1>4, FinishType
<1>6. QED
    BY <1>1, <1>2, <1>5 DEF ImageInv

LEMMA FinalizeType == ImageInv /\ Finalize => ImageInv'
<1> SUFFICES ASSUME ImageInv, Finalize PROVE ImageInv'
    OBVIOUS
<1> DEFINE f == [platforms |-> builder.platforms, directives |-> Sorted(builder.directives)]
<1>1. cfg \in Config /\ StateInv
    BY DEF ImageInv, StateInv, Finalize, Building
<1>2. builder.platforms \in SUBSET Platforms /\ Sorted(builder.directives) \in Seq(Directive)
    BY <1>1, BuilderParts, SortedMembers
<1>3. f \in IgvmFile
    BY <1>2 DEF IgvmFile
<1>4. Measure(f)
    BY DEF Finalize
<1> HIDE DEF f
<1>5. MInv'
    BY <1>3, <1>4, MeasureRestarts
<1>6. /\ todo' \in Seq(Config) /\ cfg' = cfg
      /\ builder' \in [platforms : SUBSET Platforms, directives : Seq(Directive)]
    BY <1>1 DEF StateInv, Finalize, buildVars
<1>7. StateInv'
    BY <1>1, <1>6, RestKept DEF Finalize, buildVars, verifyVars, Goto, Building
<1>8. QED
    BY <1>5, <1>7 DEF ImageInv

LEMMA MeasureLoopType == ImageInv /\ MeasureLoop => ImageInv'
<1> SUFFICES ASSUME ImageInv, MeasureLoop PROVE ImageInv'
    OBVIOUS
<1>1. MInv'
    BY StepMInv DEF ImageInv, MeasureLoop
<1>2. /\ StateInv /\ UNCHANGED imageVars
    BY DEF ImageInv, MeasureLoop
<1>3. /\ todo' \in Seq(Config) /\ (pc' \in Building => cfg' \in Config)
      /\ builder' \in [platforms : SUBSET Platforms, directives : Seq(Directive)]
    BY <1>2 DEF StateInv, imageVars, buildVars
<1>4. StateInv'
    BY <1>2, <1>3, RestKept DEF imageVars, buildVars, verifyVars
<1>5. QED
    BY <1>1, <1>4 DEF ImageInv

LEMMA BuiltType ==
    ASSUME ImageInv, Built
    PROVE  /\ ImageInv' /\ cfg \in Config
           /\ \E r : /\ ToSet(results') = ToSet(results) \union {r}
                     /\ r.cfg = cfg /\ r.ok = (mpc = "done")
                     /\ r.ok => r.file = file /\ r.digest = ld
<1> DEFINE ok == mpc = "done"
           f == IF mpc = "done" THEN file ELSE NoFile
           digest == IF mpc = "done" THEN ld ELSE <<>>
           r == [cfg |-> cfg, ok |-> ok, file |-> f, digest |-> digest]
<1>1. MInv'
    BY MeasureQuiet DEF ImageInv, Built
<1>2. cfg \in Config /\ StateInv
    BY DEF ImageInv, StateInv, Built, Building
<1>3. /\ Finish(ok, f, digest)
      /\ UNCHANGED <<todo, cfg, builder, others, machine, given, changed>>
    BY DEF Built, buildVars, verifyVars
<1>4. ok \in BOOLEAN /\ f \in IgvmFile /\ digest \in Seq(Entry)
    BY FileTypes DEF ImageInv
<1>5. r.cfg = cfg /\ r.ok = (mpc = "done") /\ (r.ok => r.file = file /\ r.digest = ld)
    OBVIOUS
<1> HIDE DEF ok, f, digest
<1>6. StateInv' /\ ToSet(results') = ToSet(results) \union {r}
    BY <1>2, <1>3, <1>4, FinishType
<1> HIDE DEF r
<1>7. QED
    BY <1>1, <1>2, <1>5, <1>6 DEF ImageInv

LEMMA VerifyType ==
    ASSUME ImageInv,
           Launch \/ Attest \/ VerifyIgvmMeasurement \/ VerifyImageRoothash \/ ReplaceFile
    PROVE  ImageInv'
<1>1. StateInv /\ UNCHANGED <<todo, cfg, builder, results, others>>
    BY DEF ImageInv, Launch, Attest, VerifyIgvmMeasurement, VerifyImageRoothash, ReplaceFile,
           buildVars
<1>2. pc' \notin Building
    BY DEF Launch, Attest, VerifyIgvmMeasurement, VerifyImageRoothash, ReplaceFile, Goto, Building
<1>3. Files' = Files
    BY <1>1 DEF Files, Images
<1>4. machine' \in Files /\ (pc' # "launch" => given' \in Files)
    BY <1>1 DEF StateInv, Launch, Attest, VerifyIgvmMeasurement, VerifyImageRoothash, ReplaceFile,
                Goto
<1>5. changed' \in BOOLEAN
    BY <1>1 DEF StateInv, Launch, Attest, VerifyIgvmMeasurement, VerifyImageRoothash, ReplaceFile
<1>6. StateInv'
    BY <1>1, <1>2, <1>3, <1>4, <1>5 DEF StateInv
<1>7. MInv'
  <2>1. CASE VerifyIgvmMeasurement \/ VerifyImageRoothash \/ ReplaceFile
    BY <2>1, MeasureQuiet DEF ImageInv, VerifyIgvmMeasurement, VerifyImageRoothash, ReplaceFile
  <2>2. CASE Launch \/ Attest
    <3>1. \E f \in Files : Measure(f)
      BY <2>2 DEF Launch, Attest
    <3>2. QED
      BY <1>1, <3>1, FilesType, MeasureRestarts
  <2>3. QED
    BY <2>1, <2>2
<1>8. QED
    BY <1>6, <1>7 DEF ImageInv

LEMMA StepImageInv == ImageInv /\ [Next]_vars => ImageInv'
<1> SUFFICES ASSUME ImageInv, [Next]_vars PROVE ImageInv'
    OBVIOUS
<1>1. CASE UNCHANGED vars
  <2>1. MInv'
    BY <1>1, MeasureQuiet DEF ImageInv, vars
  <2>2. UNCHANGED imageVars
    BY <1>1 DEF vars
  <2>3. /\ StateInv
        /\ UNCHANGED <<results, others, machine, given, changed, todo, cfg, pc, builder>>
    BY <2>2 DEF ImageInv, imageVars, buildVars, verifyVars
  <2>4. StateInv'
    BY <2>3, RestKept DEF StateInv
  <2>5. QED
    BY <2>1, <2>4 DEF ImageInv
<1>2. QED
    BY <1>1, StartBuildType, AddPlatformsType, AddParamsType, AddHobType, FailType,
       FinalizeType, MeasureLoopType, BuiltType, VerifyType DEF Next

\* The inductive invariant of building, measuring and verifying.
THEOREM ImageInvariant == Spec => []ImageInv
BY InitImageInv, StepImageInv, PTL DEF Spec

\* The state of igvm-tools and of the verifier has its type, for every firmware,
\* blobs and disks, and only a build that succeeded leaves a file to launch from
\* or to verify with (build.rs, builder.rs, commands/verify.rs).
THEOREM ImageTypeCorrect == Spec => []ImageTypeOK
<1>1. ImageInv => ImageTypeOK
    BY BuilderParts DEF ImageInv, MInv, StateInv, ImageTypeOK
<1>2. QED
    BY ImageInvariant, <1>1, PTL

\* In every file that build makes and every file a verifier measures, each page is
\* in the digest or pending, never both and never neither, and the digest holds
\* nothing else (measure_snp, called by build and by verify_igvm_measurement).
THEOREM BuiltMeasuredExactly == Spec => []MeasuredExactly
<1>1. ImageInv => MeasuredExactly
    BY MInvExact DEF ImageInv
<1>2. QED
    BY ImageInvariant, <1>1, PTL

\* The pages of every file that build makes or a verifier measures enter the digest
\* in the order in which finalize sorted them, and the VMSAs last (measure_snp,
\* measure_vmsa_pages).
THEOREM BuiltMeasuredInOrder == Spec => []MeasuredInOrder
<1>1. ImageInv => MeasuredInOrder
    BY MInvOrder DEF ImageInv
<1>2. QED
    BY ImageInvariant, <1>1, PTL

\* In every file that build makes or a verifier measures, a parameter insert
\* overtakes exactly the pages of the batch that is open where it stands
\* (measure_snp).
THEOREM BuiltInsertsOvertake == Spec => []InsertOvertakesOpenBatch
<1>1. ImageInv => InsertOvertakesOpenBatch
    BY DEF ImageInv, MInv
<1>2. QED
    BY ImageInvariant, <1>1, PTL

-----------------------------------------------------------------------------
(* What a build comes to *)

HasHob(c) == DOMAIN c.blobs = {} \/ RegionsOf(c.firmware, "IgvmHobArea") # {}

HasReset(c) == "snp" \in c.platform => c.smp <= 1 \/ c.firmware.reset

HasIndexes(c) == "snp" \in c.platform => c.smp <= MaxVps

\* How far a build has come, and what it has found.
ProgressInv ==
    /\ pc \in {"params", "hob", "finalize", "measure"} =>
          builder.platforms = cfg.platform /\ HasReset(cfg) /\ HasIndexes(cfg)
    /\ pc = "params" => builder.directives \in Seq(Still \union Pages(TRUE))
    /\ pc \in {"hob", "finalize"} => Laid(cfg, ToSet(builder.directives))
    /\ pc \in {"finalize", "measure"} => HasHob(cfg)

\* What is measured is for the platforms of the build, and every insert has its area.
MeasuredInv ==
    pc = "measure" =>
        /\ file.platforms = cfg.platform /\ WholeInputs(cfg) /\ Defined(ToSet(Dirs))
        /\ mpc = "failed" => "snp" \notin cfg.platform
        /\ mpc \in {"loop", "vmsa", "done"} => "snp" \in cfg.platform

OutcomeInv == ProgressInv /\ MeasuredInv /\ BuildOutcome

Fits(c) ==
    "snp" \in c.platform /\ HasIndexes(c) /\ HasReset(c) /\ HasHob(c) /\ WholeInputs(c)

LEMMA OutcomeOf ==
    ASSUME NEW c, IsBuildConfig(c)
    PROVE  Fits(c) <=> /\ "snp" \in c.platform
                       /\ c.smp <= MaxVps
                       /\ c.smp <= 1 \/ c.firmware.reset
                       /\ DOMAIN c.blobs = {}
                          \/ \E g \in ToSet(c.firmware.regions) : g.type = "IgvmHobArea"
                       /\ Len(c.firmware.cells) % PageSize = 0
                       /\ Len(c.vars) % PageSize = 0
<1>1. c.firmware.regions \in Seq(Region)
    BY DEF IsBuildConfig, Firmware
<1>2. RegionsOf(c.firmware, "IgvmHobArea") # {}
      <=> \E g \in ToSet(c.firmware.regions) : g.type = "IgvmHobArea"
    BY <1>1, SeqMember DEF RegionsOf
<1>3. QED
    BY <1>2 DEF Fits, HasReset, HasIndexes, HasHob, WholeInputs, Whole

\* A result that is as it should be keeps BuildOutcome.
LEMMA OutcomeKept ==
    ASSUME BuildOutcome, NEW r, ToSet(results') = ToSet(results) \union {r},
           IsBuildConfig(r.cfg), r.ok <=> Fits(r.cfg)
    PROVE  BuildOutcome'
BY OutcomeOf DEF BuildOutcome

LEMMA OutcomeSame ==
    ASSUME BuildOutcome, results' = results
    PROVE  BuildOutcome'
BY DEF BuildOutcome

LEMMA AlignedIs ==
    ASSUME NEW c, NEW ds \in Seq(Directive), Laid(c, ToSet(ds))
    PROVE  Aligned(ds) <=> WholeInputs(c)
<1>1. \A d : d \in ToSet(ds) <=> \E k \in 1..Len(ds) : ds[k] = d
    BY SeqMember
<1>2. Square(ToSet(ds)) /\ Sited(c, ToSet(ds)) /\ Astray(c, ToSet(ds))
    BY DEF Laid
<1>3. ASSUME WholeInputs(c) PROVE Aligned(ds)
  <2> SUFFICES ASSUME NEW k \in 1..Len(ds)
               PROVE  /\ ds[k].kind \in {"page", "insert"} => Whole(ds[k].gpa)
                      /\ ds[k].kind = "area" => Whole(ds[k].size)
    BY DEF Aligned, Whole
  <2>1. ds[k] \in ToSet(ds)
    BY <1>1
  <2>2. QED
    BY <1>2, <1>3, <2>1 DEF Sited, Square
<1>4. ASSUME ~WholeInputs(c) PROVE ~Aligned(ds)
  <2>1. PICK d \in ToSet(ds) : d.kind = "page" /\ ~Whole(d.gpa)
    BY <1>2, <1>4 DEF Astray
  <2>2. PICK k \in 1..Len(ds) : ds[k] = d
    BY <1>1, <2>1
  <2>3. QED
    BY <2>1, <2>2 DEF Aligned, Whole
<1>5. QED
    BY <1>3, <1>4 DEF Aligned, WholeInputs, Whole

LEMMA RegionsLaid ==
    ASSUME cfg \in Config, NEW k \in 1..Len(cfg.firmware.regions),
           cfg.firmware.regions[k].type \in SevTypes
    PROVE  Whole(cfg.firmware.regions[k].base)
<1> DEFINE r == cfg.firmware.regions[k]
<1>1. cfg.firmware.regions \in Seq(Region)
    BY ConfigIs DEF IsBuildConfig, Firmware
<1>2. r \in ToSet(cfg.firmware.regions)
    BY <1>1, SeqMember
<1>3. QED
    BY <1>2, LayoutAssumption DEF Whole

LEMMA HobLaid ==
    ASSUME cfg \in Config, StateInv, RegionsOf(cfg.firmware, "IgvmHobArea") # {},
           Laid(cfg, ToSet(builder.directives))
    PROVE  Laid(cfg, ToSet(PlaceBlobs(Cleared \o HobPages)))
<1> DEFINE hob == FirstRegion(cfg.firmware, "IgvmHobArea")
           ds == Cleared \o HobPages
           V == {s \in Seq(Directive) : Laid(cfg, ToSet(s))}
<1>0. IsBuildConfig(cfg) /\ Hobs(cfg) \in Seq(Cells)
    BY ConfigIs
<1>1. hob \in Region /\ hob \in ToSet(cfg.firmware.regions) /\ hob.type = "IgvmHobArea"
    BY <1>0, FirstRegionType
<1>2. hob.base \in Nat /\ hob.size \in Nat
    BY <1>1 DEF Region
<1>3. /\ Whole(hob.base)
      /\ hob.base + hob.size <= VarsBase(cfg) /\ hob.base + PageSize <= VarsBase(cfg)
    BY <1>1, LayoutAssumption DEF Whole
<1>4. builder.platforms \in SUBSET Platforms /\ builder.directives \in Seq(Directive)
    BY BuilderParts
<1>5. VarsBase(cfg) \in Int
    BY <1>0, VarsBaseType
<1>6. Cleared = RemovePageDataInRange(builder.directives, hob.base, hob.size)
    BY DEF Cleared
<1>7. HobPages = DataPages(hob.base, Hobs(cfg), FALSE)
    BY DEF HobPages
<1> HIDE DEF hob
<1>8. Cleared \in Seq(Directive) /\ Laid(cfg, ToSet(Cleared))
    BY <1>2, <1>3, <1>4, <1>5, <1>6, RemoveMembers, LaidRemove
<1>9. HobPages \in Seq(Pages(TRUE))
    BY <1>0, <1>2, <1>3, <1>4, <1>7, DataPagesType
<1>10. ds \in Seq(Directive) /\ Laid(cfg, ToSet(ds))
    BY <1>8, <1>9, LaidAppend
<1>11. \A s \in V : \A t \in DOMAIN cfg.blobs : PlaceBlob(s, t) \in V
    BY <1>4, PlaceBlobLaid
<1> HIDE DEF ds
<1>12. ds \in V
    BY <1>10
<1> HIDE DEF V
<1>13. PlaceBlobs(ds) \in V
    BY <1>11, <1>12, PlacedKeeps
<1>14. QED
    BY <1>13 DEF V, ds

LEMMA InitOutcome == Init => OutcomeInv
<1> SUFFICES ASSUME Init PROVE OutcomeInv
    OBVIOUS
<1>1. results = <<>> /\ pc \in {"idle", "measure_only"}
    BY DEF Init
<1>2. ToSet(results) = {}
    BY <1>1 DEF ToSet
<1>3. QED
    BY <1>1, <1>2 DEF OutcomeInv, ProgressInv, MeasuredInv, BuildOutcome

LEMMA AddPlatformsOutcome == ImageInv /\ OutcomeInv /\ AddPlatforms => OutcomeInv'
<1> SUFFICES ASSUME ImageInv, OutcomeInv, AddPlatforms PROVE OutcomeInv'
    OBVIOUS
<1>1. cfg \in Config /\ cfg' = cfg /\ pc' = "params"
    BY DEF ImageInv, StateInv, AddPlatforms, Building, Goto
<1>2. builder' = [platforms |-> cfg.platform, directives |-> Started]
    BY AddPlatformsIs
<1>3. Started \in Seq(Still \union Pages(TRUE))
    BY <1>1, PlatformLists, RegionsLaid DEF Started
<1>4. HasReset(cfg) /\ HasIndexes(cfg)
  <2>1. cfg.smp \in Nat /\ (Processors(cfg) <= MaxVps <=> cfg.smp <= MaxVps)
    BY <1>1, ConfigIs, ProcessorsAre
  <2>2. (NeedsReset => cfg.firmware.reset) /\ IndexesFit
    BY DEF AddPlatforms
  <2>3. QED
    BY <2>1, <2>2 DEF NeedsReset, HasReset, IndexesFit, HasIndexes
<1>5. ProgressInv'
  <2>1. builder'.platforms = cfg.platform /\ builder'.directives = Started
    BY <1>2
  <2>2. QED
    BY <1>1, <1>3, <1>4, <2>1 DEF ProgressInv
<1>6. MeasuredInv'
    BY <1>1 DEF MeasuredInv
<1>7. BuildOutcome'
    BY OutcomeSame DEF OutcomeInv, AddPlatforms
<1>8. QED
    BY <1>5, <1>6, <1>7 DEF OutcomeInv

LEMMA AddParamsOutcome == ImageInv /\ OutcomeInv /\ AddParamsAndFirmware => OutcomeInv'
<1> SUFFICES ASSUME ImageInv, OutcomeInv, AddParamsAndFirmware PROVE OutcomeInv'
    OBVIOUS
<1>1. cfg \in Config /\ cfg' = cfg /\ pc' = "hob" /\ pc = "params" /\ StateInv
    BY DEF ImageInv, StateInv, AddParamsAndFirmware, Building, Goto
<1>2. builder' = [builder EXCEPT !.directives = builder.directives \o Added]
    BY <1>1, AddParamsIs
<1>3. /\ builder.directives \in Seq(Still \union Pages(TRUE))
      /\ builder.platforms = cfg.platform /\ HasReset(cfg) /\ HasIndexes(cfg)
    BY <1>1 DEF OutcomeInv, ProgressInv
<1>4. /\ builder.directives \o Added \in Seq(Directive)
      /\ Laid(cfg, ToSet(builder.directives \o Added))
    BY <1>1, <1>3, BuilderParts, AddedLaid
<1>5. /\ builder'.platforms = builder.platforms
      /\ builder'.directives = builder.directives \o Added
    BY <1>1, <1>2, <1>4, NewDirectives
<1>6. ProgressInv'
    BY <1>1, <1>3, <1>4, <1>5 DEF ProgressInv
<1>7. MeasuredInv'
    BY <1>1 DEF MeasuredInv
<1>8. BuildOutcome'
    BY OutcomeSame DEF OutcomeInv, AddParamsAndFirmware
<1>9. QED
    BY <1>6, <1>7, <1>8 DEF OutcomeInv

LEMMA AddHobOutcome == ImageInv /\ OutcomeInv /\ AddHobData => OutcomeInv'
<1> SUFFICES ASSUME ImageInv, OutcomeInv, AddHobData PROVE OutcomeInv'
    OBVIOUS
<1>1. cfg \in Config /\ cfg' = cfg /\ pc' = "finalize" /\ pc = "hob" /\ StateInv
    BY DEF ImageInv, StateInv, AddHobData, Building, Goto
<1>2. /\ Laid(cfg, ToSet(builder.directives))
      /\ builder.platforms = cfg.platform /\ HasReset(cfg) /\ HasIndexes(cfg)
    BY <1>1 DEF OutcomeInv, ProgressInv
<1>3. HasHob(cfg)
    BY DEF AddHobData, HasHob
<1>4. builder'.platforms = cfg.platform /\ Laid(cfg, ToSet(builder'.directives))
  <2>1. CASE DOMAIN cfg.blobs = {}
    BY <1>2, <2>1, AddHobIs
  <2>2. CASE DOMAIN cfg.blobs # {}
    <3>1. builder' = [builder EXCEPT !.directives = PlaceBlobs(Cleared \o HobPages)]
      BY <2>2, AddHobIs
    <3>2. RegionsOf(cfg.firmware, "IgvmHobArea") # {}
      BY <2>2 DEF AddHobData
    <3>3. /\ PlaceBlobs(Cleared \o HobPages) \in Seq(Directive)
          /\ Laid(cfg, ToSet(PlaceBlobs(Cleared \o HobPages)))
      BY <1>1, <1>2, <3>2, HobType, HobLaid
    <3>4. /\ builder'.platforms = builder.platforms
          /\ builder'.directives = PlaceBlobs(Cleared \o HobPages)
      BY <1>1, <3>1, <3>3, NewDirectives
    <3>5. QED
      BY <1>2, <3>3, <3>4
  <2>3. QED
    BY <2>1, <2>2
<1>5. ProgressInv'
    BY <1>1, <1>2, <1>3, <1>4 DEF ProgressInv
<1>6. MeasuredInv'
    BY <1>1 DEF MeasuredInv
<1>7. BuildOutcome'
    BY OutcomeSame DEF OutcomeInv, AddHobData
<1>8. QED
    BY <1>5, <1>6, <1>7 DEF OutcomeInv

LEMMA FailOutcome ==
    ASSUME ImageInv, OutcomeInv, NoResetAddr \/ TooManyVps \/ NoHobArea \/ FinalizeFails
    PROVE  OutcomeInv'
<1> DEFINE r == [cfg |-> cfg, ok |-> FALSE, file |-> NoFile, digest |-> <<>>]
<1>1. cfg \in Config /\ ToSet(results') = ToSet(results) \union {r}
    BY FailType
<1>2. r.cfg = cfg /\ r.ok = FALSE
    OBVIOUS
<1> HIDE DEF r
<1>3. ~Fits(cfg)
  <2>1. CASE NoResetAddr
    <3>1. "snp" \in cfg.platform /\ cfg.smp > 1 /\ ~cfg.firmware.reset
      BY <2>1 DEF NoResetAddr, NeedsReset
    <3>2. ~(cfg.smp <= 1)
      BY <1>1, <3>1, ConfigIs
    <3>3. QED
      BY <3>1, <3>2 DEF Fits, HasReset
  <2>2. CASE NoHobArea
    BY <2>2 DEF NoHobArea, Fits, HasHob
  <2>3. CASE FinalizeFails
    <3>1. Laid(cfg, ToSet(builder.directives)) /\ ~Aligned(builder.directives)
      BY <2>3 DEF FinalizeFails, OutcomeInv, ProgressInv
    <3>2. builder.directives \in Seq(Directive)
      BY BuilderParts DEF ImageInv
    <3>3. ~WholeInputs(cfg)
      BY <3>1, <3>2, AlignedIs
    <3>4. QED
      BY <3>3 DEF Fits
  <2>4. CASE TooManyVps
    <3>1. "snp" \in cfg.platform /\ ~(Processors(cfg) <= MaxVps)
      BY <2>4 DEF TooManyVps, IndexesFit
    <3>2. QED
      BY <1>1, <3>1, ProcessorsAre DEF Fits, HasIndexes
  <2>5. QED
    BY <2>1, <2>2, <2>3, <2>4
<1>4. BuildOutcome'
    BY <1>1, <1>2, <1>3, ConfigIs, OutcomeKept DEF OutcomeInv
<1>5. pc' = "idle"
    BY DEF NoResetAddr, TooManyVps, NoHobArea, FinalizeFails, Finish, Goto
<1>6. QED
    BY <1>4, <1>5 DEF OutcomeInv, ProgressInv, MeasuredInv

LEMMA FinalizeOutcome == ImageInv /\ OutcomeInv /\ Finalize => OutcomeInv'
<1> SUFFICES ASSUME ImageInv, OutcomeInv, Finalize PROVE OutcomeInv'
    OBVIOUS
<1> DEFINE ds == builder.directives
<1>1. pc = "finalize" /\ pc' = "measure" /\ cfg' = cfg /\ builder' = builder /\ Aligned(ds)
    BY DEF Finalize, Goto, buildVars
<1>2. ds \in Seq(Directive)
    BY BuilderParts DEF ImageInv
<1>3. /\ Laid(cfg, ToSet(ds)) /\ builder.platforms = cfg.platform
      /\ HasReset(cfg) /\ HasIndexes(cfg) /\ HasHob(cfg)
    BY <1>1 DEF OutcomeInv, ProgressInv
<1>4. WholeInputs(cfg)
    BY <1>1, <1>2, <1>3, AlignedIs
<1>5. mpc' = "ready" /\ file' = [platforms |-> builder.platforms, directives |-> Sorted(ds)]
    BY DEF Finalize, Measure
<1>6. file'.platforms = cfg.platform /\ Dirs' = Sorted(ds)
    BY <1>3, <1>5 DEF Dirs
<1>7. Defined(ToSet(Dirs'))
  <2>1. ToSet(Sorted(ds)) = ToSet(ds)
    BY <1>2, SortedMembers
  <2>2. QED
    BY <1>3, <1>6, <2>1 DEF Laid
<1>8. MeasuredInv'
    BY <1>1, <1>4, <1>5, <1>6, <1>7 DEF MeasuredInv
<1>9. ProgressInv'
    BY <1>1, <1>3 DEF ProgressInv
<1>10. BuildOutcome'
    BY OutcomeSame DEF OutcomeInv, Finalize
<1>11. QED
    BY <1>8, <1>9, <1>10 DEF OutcomeInv

LEMMA MeasureLoopOutcome == ImageInv /\ OutcomeInv /\ MeasureLoop => OutcomeInv'
<1> SUFFICES ASSUME ImageInv, OutcomeInv, MeasureLoop PROVE OutcomeInv'
    OBVIOUS
<1>1. UNCHANGED <<pc, cfg, builder, results>> /\ MeasureStep
    BY DEF MeasureLoop, imageVars, buildVars
<1>2. ProgressInv'
    BY <1>1 DEF OutcomeInv, ProgressInv
<1>3. BuildOutcome'
    BY <1>1, OutcomeSame DEF OutcomeInv
<1>4. file' = file
    BY <1>1 DEF MeasureStep, FindSnpCompat, BatchPage, CollectVmsa, MeasureInsert, UnknownArea,
                SkipDirective, FlushRest, MeasureVmsaPages
<1>5. ASSUME pc = "measure" PROVE MeasuredInv'
  <2>1. /\ file.platforms = cfg.platform /\ WholeInputs(cfg) /\ Defined(ToSet(Dirs))
        /\ mpc = "failed" => "snp" \notin cfg.platform
        /\ mpc \in {"loop", "vmsa", "done"} => "snp" \in cfg.platform
    BY <1>5 DEF OutcomeInv, MeasuredInv
  <2>2. ~UnknownArea
    <3> SUFFICES ASSUME UnknownArea PROVE FALSE
      OBVIOUS
    <3>1. dir_idx <= Len(Dirs) /\ Dir.kind = "insert" /\ AreasOf(Dir.index) = {}
      BY DEF UnknownArea, At
    <3>2. Dirs \in Seq(Directive) /\ dir_idx \in 1..Len(Dirs)
      BY <3>1, DirsLength DEF ImageInv, MInv, MeasureTypeOK
    <3>3. Dir \in ToSet(Dirs)
      BY <3>2, SeqMember DEF Dir
    <3>4. PICK a \in ToSet(Dirs) : a.kind = "area" /\ a.index = 0
      BY <2>1, <3>1, <3>3 DEF Defined
    <3>5. PICK i \in 1..Len(Dirs) : Dirs[i] = a
      BY <3>2, <3>4, SeqMember
    <3>6. Dir.index = 0
      BY <2>1, <3>1, <3>3 DEF Defined
    <3>7. i \in AreasOf(Dir.index)
      BY <3>4, <3>5, <3>6 DEF AreasOf
    <3>8. QED
      BY <3>1, <3>7
  <2>3. \/ FindSnpCompat
        \/ mpc = "loop" /\ mpc' \in {"loop", "vmsa"}
        \/ mpc = "vmsa" /\ mpc' = "done"
    BY <1>1, <2>2 DEF MeasureStep, BatchPage, CollectVmsa, MeasureInsert, At,
                      SkipDirective, FlushRest, MeasureVmsaPages
  <2>4. /\ mpc' = "failed" => "snp" \notin cfg.platform
        /\ mpc' \in {"loop", "vmsa", "done"} => "snp" \in cfg.platform
    BY <2>1, <2>3 DEF FindSnpCompat
  <2>5. Dirs' = Dirs
    BY <1>4 DEF Dirs
  <2>6. QED
    BY <1>1, <1>4, <2>1, <2>4, <2>5 DEF MeasuredInv
<1>6. MeasuredInv'
    BY <1>1, <1>5 DEF MeasuredInv
<1>7. QED
    BY <1>2, <1>3, <1>6 DEF OutcomeInv

LEMMA BuiltOutcome == ImageInv /\ OutcomeInv /\ Built => OutcomeInv'
<1> SUFFICES ASSUME ImageInv, OutcomeInv, Built PROVE OutcomeInv'
    OBVIOUS
<1>1. cfg \in Config
    BY BuiltType
<1>2. PICK r : /\ ToSet(results') = ToSet(results) \union {r}
               /\ r.cfg = cfg /\ r.ok = (mpc = "done")
    BY BuiltType
<1>3. pc = "measure" /\ mpc \in {"done", "failed"} /\ pc' = "idle"
    BY DEF Built, Finish, Goto
<1>4. HasReset(cfg) /\ HasIndexes(cfg) /\ HasHob(cfg) /\ WholeInputs(cfg)
    BY <1>3 DEF OutcomeInv, ProgressInv, MeasuredInv
<1>5. mpc = "done" <=> "snp" \in cfg.platform
    BY <1>3 DEF OutcomeInv, MeasuredInv
<1>6. r.ok <=> Fits(r.cfg)
    BY <1>2, <1>4, <1>5 DEF Fits
<1>7. BuildOutcome'
    BY <1>1, <1>2, <1>6, ConfigIs, OutcomeKept DEF OutcomeInv
<1>8. QED
    BY <1>3, <1>7 DEF OutcomeInv, ProgressInv, MeasuredInv

LEMMA OtherOutcome ==
    ASSUME OutcomeInv,
           StartBuild \/ Launch \/ Attest \/ VerifyIgvmMeasurement \/ VerifyImageRoothash
           \/ ReplaceFile
    PROVE  OutcomeInv'
<1>1. /\ results' = results
      /\ pc' \notin {"params", "hob", "finalize", "measure"}
    BY DEF StartBuild, Launch, Attest, VerifyIgvmMeasurement, VerifyImageRoothash, ReplaceFile,
           Goto
<1>2. BuildOutcome'
    BY <1>1, OutcomeSame DEF OutcomeInv
<1>3. QED
    BY <1>1, <1>2 DEF OutcomeInv, ProgressInv, MeasuredInv

LEMMA StepOutcome == ImageInv /\ OutcomeInv /\ [Next]_vars => OutcomeInv'
<1> SUFFICES ASSUME ImageInv, OutcomeInv, [Next]_vars PROVE OutcomeInv'
    OBVIOUS
<1>1. CASE UNCHANGED vars
  <2>1. UNCHANGED <<pc, cfg, builder, results, file, mpc>>
    BY <1>1 DEF vars, imageVars, buildVars, measureVars
  <2>2. BuildOutcome'
    BY <2>1, OutcomeSame DEF OutcomeInv
  <2>3. ProgressInv' /\ MeasuredInv'
    BY <2>1 DEF OutcomeInv, ProgressInv, MeasuredInv, Dirs
  <2>4. QED
    BY <2>2, <2>3 DEF OutcomeInv
<1>2. QED
    BY <1>1, AddPlatformsOutcome, AddParamsOutcome, AddHobOutcome, FailOutcome,
       FinalizeOutcome, MeasureLoopOutcome, BuiltOutcome, OtherOutcome DEF Next

\* For every configuration laid out as the firmware's is: a build comes to a file
\* exactly when it is for SNP, the indexes of its processors fit in 16 bits, its
\* firmware has what the configuration needs, and firmware and variables fill whole
\* pages (build.rs, builder.rs, measure.rs).
THEOREM BuildOutcomeDecided == Spec => []BuildOutcome
<1>1. OutcomeInv => BuildOutcome
    BY DEF OutcomeInv
<1>2. QED
    BY ImageInvariant, InitOutcome, StepOutcome, <1>1, PTL DEF Spec

-----------------------------------------------------------------------------
(* Every page once *)

\* The guest pages a directive covers, whatever the platform, with a parameter
\* area of n cells.
Span(d, n) ==
    IF d.kind = "page" THEN {d.gpa}
    ELSE IF d.kind = "insert"
    THEN {d.gpa + k * PageSize : k \in 0..(DivCeil(n, PageSize) - 1)}
    ELSE {}

Reach(s, n) == UNION {Span(d, n) : d \in ToSet(s)}

Apart(s, n) ==
    \A i, j \in 1..Len(s) : i # j => Span(s[i], n) \intersect Span(s[j], n) = {}

LEMMA ReachAt ==
    ASSUME NEW n, NEW s \in Seq(Directive), NEW x
    PROVE  x \in Reach(s, n) <=> \E k \in 1..Len(s) : x \in Span(s[k], n)
<1>1. \A d : d \in ToSet(s) <=> \E k \in 1..Len(s) : s[k] = d
    BY SeqMember
<1>2. QED
    BY <1>1 DEF Reach

\* The elements of a concatenation.
LEMMA JoinedAt ==
    ASSUME NEW S, NEW s \in Seq(S), NEW t \in Seq(S)
    PROVE  /\ Len(s \o t) = Len(s) + Len(t) /\ Len(s) \in Nat /\ Len(t) \in Nat
           /\ \A k \in 1..Len(s \o t) :
                 \/ k \in 1..Len(s) /\ (s \o t)[k] = s[k]
                 \/ k - Len(s) \in 1..Len(t) /\ (s \o t)[k] = t[k - Len(s)]
<1> DEFINE u == s \o t
<1>1. /\ Len(u) = Len(s) + Len(t)
      /\ \A i \in 1..(Len(s) + Len(t)) : u[i] = IF i <= Len(s) THEN s[i] ELSE t[i - Len(s)]
    BY ConcatProperties
<1>2. Len(s) \in Nat /\ Len(t) \in Nat
    BY SeqFacts
<1> HIDE DEF u
<1>3. ASSUME NEW k \in 1..Len(u)
      PROVE  \/ k \in 1..Len(s) /\ u[k] = s[k]
             \/ k - Len(s) \in 1..Len(t) /\ u[k] = t[k - Len(s)]
  <2>1. k \in 1..(Len(s) + Len(t))
    BY <1>1
  <2>2. CASE k <= Len(s)
    BY <1>1, <1>2, <2>1, <2>2
  <2>3. CASE ~(k <= Len(s))
    BY <1>1, <1>2, <2>1, <2>3
  <2>4. QED
    BY <2>2, <2>3
<1>4. QED
    BY <1>1, <1>2, <1>3 DEF u

LEMMA ApartConcat ==
    ASSUME NEW n, NEW s \in Seq(Directive), NEW t \in Seq(Directive), Apart(s, n), Apart(t, n),
           Reach(s, n) \intersect Reach(t, n) = {}
    PROVE  /\ s \o t \in Seq(Directive) /\ Apart(s \o t, n)
           /\ Reach(s \o t, n) = Reach(s, n) \union Reach(t, n)
<1> DEFINE u == s \o t
           a == Len(s)
           b == Len(t)
<1>1. u \in Seq(Directive) /\ ToSet(u) = ToSet(s) \union ToSet(t)
    BY ConcatSeq, ConcatMembers
<1>2. Reach(u, n) = Reach(s, n) \union Reach(t, n)
    BY <1>1 DEF Reach
<1>3. /\ a \in Nat /\ b \in Nat
      /\ \A k \in 1..Len(u) : \/ k \in 1..a /\ u[k] = s[k]
                              \/ k - a \in 1..b /\ u[k] = t[k - a]
    BY JoinedAt
<1> HIDE DEF u, a, b
<1>4. ASSUME NEW i \in 1..Len(u), NEW j \in 1..Len(u), i # j
      PROVE  Span(u[i], n) \intersect Span(u[j], n) = {}
  <2>1. ASSUME NEW k \in 1..a, NEW l \in 1..b
        PROVE  Span(s[k], n) \intersect Span(t[l], n) = {}
    <3>1. Span(s[k], n) \subseteq Reach(s, n) /\ Span(t[l], n) \subseteq Reach(t, n)
      BY ReachAt DEF a, b
    <3>2. QED
      BY <3>1
  <2>2. CASE i \in 1..a /\ u[i] = s[i]
    <3>1. CASE j \in 1..a /\ u[j] = s[j]
      BY <1>4, <2>2, <3>1 DEF Apart, a
    <3>2. CASE j - a \in 1..b /\ u[j] = t[j - a]
      BY <2>1, <2>2, <3>2
    <3>3. QED
      BY <1>3, <3>1, <3>2
  <2>3. CASE i - a \in 1..b /\ u[i] = t[i - a]
    <3>1. CASE j \in 1..a /\ u[j] = s[j]
      BY <2>1, <2>3, <3>1
    <3>2. CASE j - a \in 1..b /\ u[j] = t[j - a]
      <4>1. i - a # j - a
        BY <1>3, <1>4
      <4>2. QED
        BY <2>3, <3>2, <4>1 DEF Apart, b
    <3>3. QED
      BY <1>3, <3>1, <3>2
  <2>4. QED
    BY <1>3, <2>2, <2>3
<1>5. Apart(u, n)
    BY <1>4 DEF Apart
<1>6. QED
    BY <1>1, <1>2, <1>5 DEF u

LEMMA ApartOne ==
    ASSUME NEW n, NEW d \in Directive
    PROVE  <<d>> \in Seq(Directive) /\ Apart(<<d>>, n) /\ Reach(<<d>>, n) = Span(d, n)
<1> DEFINE s == <<d>>
<1>1. s \in Seq(Directive) /\ Len(s) = 1 /\ s[1] = d
    OBVIOUS
<1> HIDE DEF s
<1>2. \A i \in 1..Len(s) : i = 1
    BY <1>1
<1>3. Apart(s, n)
    BY <1>2 DEF Apart
<1>4. \A x : x \in Reach(s, n) <=> \E k \in 1..Len(s) : x \in Span(s[k], n)
    BY <1>1, ReachAt
<1>5. 1 \in 1..Len(s)
    BY <1>1
<1>6. \A x : x \in Reach(s, n) <=> x \in Span(d, n)
    BY <1>1, <1>2, <1>4, <1>5
<1>7. QED
    BY <1>1, <1>3, <1>6 DEF s

LEMMA ApartRetain ==
    ASSUME NEW n, NEW s \in Seq(Directive), Apart(s, n), NEW K
    PROVE  Retain(s, K) \in Seq(Directive) /\ Apart(Retain(s, K), n)
<1> DEFINE m == Len(s)
<1>1. m \in Nat /\ \A k \in 1..m : s[k] \in Directive
    BY SeqFacts
<1>2. PICK f : IsKept(f, s, K) /\ Retain(s, K) = f[Len(s)]
    BY RetainIs
<1>3. Retain(s, K) = f[m]
    BY <1>2
<1>4. \A k \in 0..m : f[k] = IF k = 0 THEN <<>>
                             ELSE IF k \in K THEN Append(f[k - 1], s[k]) ELSE f[k - 1]
    BY <1>2 DEF IsKept
<1>5. \A k \in 0..m :
         /\ f[k] \in Seq(Directive)
         /\ \A x \in ToSet(f[k]) : \E i \in 1..k : i \in K /\ s[i] = x
         /\ \A i \in 1..k : i \in K => s[i] \in ToSet(f[k])
    BY <1>2, KeptMembers
<1> DEFINE T == {k \in 0..m : Apart(f[k], n)}
<1>6. 0 \in T
  <2>1. f[0] = <<>> /\ 0 \in 0..m
    BY <1>1, <1>4
  <2>2. Apart(<<>>, n)
    BY DEF Apart
  <2>3. QED
    BY <2>1, <2>2
<1>7. ASSUME NEW k \in 1..m, k - 1 \in T PROVE k \in T
  <2> DEFINE g == f[k - 1]
             e == <<s[k]>>
  <2>1. k \in 0..m /\ k # 0 /\ k - 1 \in 0..m /\ Apart(g, n)
    BY <1>1, <1>7
  <2>2. /\ g \in Seq(Directive)
        /\ \A x : x \in ToSet(g) => \E i \in 1..(k - 1) : s[i] = x
    BY <1>5, <2>1
  <2>3. f[k] = IF k \in K THEN Append(g, s[k]) ELSE g
    BY <1>4, <2>1
  <2>4. s[k] \in Directive
    BY <1>1
  <2>5. e \in Seq(Directive) /\ Apart(e, n) /\ Reach(e, n) = Span(s[k], n)
    BY <2>4, ApartOne
  <2>6. Append(g, s[k]) = g \o e
    BY <2>2, <2>4, AppendIsConcat
  <2>7. Reach(g, n) \intersect Span(s[k], n) = {}
    <3>1. ASSUME NEW i \in 1..(k - 1) PROVE Span(s[i], n) \intersect Span(s[k], n) = {}
      <4>1. i \in 1..m /\ i # k
        BY <1>1
      <4>2. QED
        BY <4>1 DEF Apart
    <3> HIDE DEF g
    <3>2. QED
      BY <2>2, <3>1 DEF Reach
  <2> HIDE DEF g, e
  <2>8. Apart(g \o e, n)
    BY <2>1, <2>2, <2>5, <2>7, ApartConcat
  <2>9. Apart(f[k], n)
    BY <2>1, <2>3, <2>6, <2>8
  <2>10. QED
    BY <2>1, <2>9
<1>8. m \in T
  <2>1. m \in 0..m
    BY <1>1
  <2> HIDE DEF T, m
  <2>2. QED
    BY <1>1, <1>6, <1>7, <2>1, ByInduction
<1>9. QED
    BY <1>3, <1>5, <1>8

LEMMA ApartFlatten ==
    ASSUME NEW n, NEW seqs \in Seq(Seq(Directive)),
           \A k \in 1..Len(seqs) : Apart(seqs[k], n),
           \A k, l \in 1..Len(seqs) : k # l => Reach(seqs[k], n) \intersect Reach(seqs[l], n) = {}
    PROVE  /\ FlattenSeq(seqs) \in Seq(Directive) /\ Apart(FlattenSeq(seqs), n)
           /\ \A x \in Reach(FlattenSeq(seqs), n) :
                 \E k \in 1..Len(seqs) : x \in Reach(seqs[k], n)
<1> DEFINE m == Len(seqs)
<1>1. m \in Nat /\ \A k \in 1..m : seqs[k] \in Seq(Directive)
    BY SeqFacts
<1>2. CASE m = 0
  <2>1. seqs = <<>>
      BY <1>2
  <2>2. FlattenSeq(seqs) = <<>>
      BY <1>2, <2>1 DEF FlattenSeq
  <2>3. <<>> \in Seq(Directive) /\ Apart(<<>>, n) /\ Reach(<<>>, n) = {}
      BY DEF Apart, Reach, ToSet
  <2>4. QED
      BY <2>2, <2>3
<1>3. CASE m # 0
  <2> DEFINE f == CHOOSE f : IsFlattened(f, seqs)
             Good(k) == /\ f[k] \in Seq(Directive) /\ Apart(f[k], n)
                        /\ \A x \in Reach(f[k], n) : \E i \in 1..k : x \in Reach(seqs[i], n)
  <2>1. IsFlattened(f, seqs)
      BY <1>3, FlattenedExists
  <2>2. FlattenSeq(seqs) = f[m]
      BY <1>3 DEF FlattenSeq, IsFlattened
  <2> HIDE DEF f
  <2>3. \A i \in 1..m : f[i] = IF i = 1 THEN seqs[i] ELSE f[i - 1] \o seqs[i]
      BY <2>1 DEF IsFlattened
  <2> DEFINE T == {k \in 0..m : k = 0 \/ Good(k)}
  <2>4. 0 \in T
      BY <1>1
  <2>5. ASSUME NEW k \in 1..m, k - 1 \in T PROVE k \in T
    <3>1. seqs[k] \in Seq(Directive) /\ Apart(seqs[k], n) /\ k \in 0..m
        BY <1>1
    <3>2. CASE k = 1
      <4>1. f[k] = seqs[k] /\ k \in 1..k
          BY <2>3, <3>2
      <4>2. Good(k)
          BY <3>1, <4>1
      <4>3. QED
          BY <3>1, <4>2
    <3>3. CASE k # 1
      <4> DEFINE g == f[k - 1]
      <4>1. f[k] = g \o seqs[k]
          BY <2>3, <3>3
      <4>2. k - 1 # 0
          BY <1>1, <3>3
      <4>3. Good(k - 1)
          BY <2>5, <4>2
      <4>4. /\ g \in Seq(Directive) /\ Apart(g, n)
            /\ \A x \in Reach(g, n) : \E i \in 1..(k - 1) : x \in Reach(seqs[i], n)
          BY <4>3
      <4>5. \A i \in 1..(k - 1) : i \in 1..m /\ i # k /\ i \in 1..k
          BY <1>1
      <4> HIDE DEF g
      <4>6. Reach(g, n) \intersect Reach(seqs[k], n) = {}
          BY <4>4, <4>5
      <4>7. /\ g \o seqs[k] \in Seq(Directive) /\ Apart(g \o seqs[k], n)
            /\ Reach(g \o seqs[k], n) = Reach(g, n) \union Reach(seqs[k], n)
          BY <3>1, <4>4, <4>6, ApartConcat
      <4>8. \A x \in Reach(g \o seqs[k], n) : \E i \in 1..k : x \in Reach(seqs[i], n)
        <5>1. k \in 1..k
            BY <1>1
        <5>2. QED
            BY <4>4, <4>5, <4>7, <5>1
      <4>9. Good(k)
          BY <4>1, <4>7, <4>8
      <4>10. QED
          BY <3>1, <4>9
    <3>4. QED
        BY <3>2, <3>3
  <2>6. m \in T
    <3>1. m \in 0..m
        BY <1>1
    <3> HIDE DEF T, m
    <3>2. QED
        BY <1>1, <2>4, <2>5, <3>1, ByInduction
  <2>7. Good(m)
      BY <1>3, <2>6
  <2>8. QED
      BY <2>2, <2>7
<1>4. QED
    BY <1>2, <1>3

\* Sorting moves the directives and does not double any.
LEMMA ApartSorted ==
    ASSUME NEW n, NEW ds \in Seq(Directive), Apart(ds, n)
    PROVE  Apart(Sorted(ds), n)
<1> DEFINE m == Len(ds)
           f == [k \in 1..m |-> CHOOSE i \in 1..m : Place(ds, i) = k]
           s == Sorted(ds)
<1>1. m \in Nat
    BY SeqFacts
<1>2. ASSUME NEW k \in 1..m PROVE f[k] \in 1..m /\ Place(ds, f[k]) = k
  <2>1. \E i \in 1..m : Place(ds, i) = k
    BY PlaceTaken
  <2>2. QED
    BY <2>1
<1>3. s = [k \in 1..m |-> ds[f[k]]]
    BY DEF Sorted
<1> HIDE DEF f, s
<1>4. Len(s) = m
    BY <1>1, <1>3
<1>5. ASSUME NEW i \in 1..m, NEW j \in 1..m, i # j
      PROVE  Span(s[i], n) \intersect Span(s[j], n) = {}
  <2>1. f[i] \in 1..m /\ f[j] \in 1..m /\ f[i] # f[j]
    BY <1>2, <1>5
  <2>2. s[i] = ds[f[i]] /\ s[j] = ds[f[j]]
    BY <1>3
  <2>3. QED
    BY <2>1, <2>2 DEF Apart
<1>6. QED
    BY <1>4, <1>5 DEF Apart, s

-----------------------------------------------------------------------------
(* Runs of pages *)

LEMMA Spaced ==
    ASSUME NEW P \in Nat \ {0}, NEW k \in Nat, NEW l \in Nat, k * P = l * P
    PROVE  k = l
<1>1. ASSUME NEW a \in Nat, NEW b \in Nat, a < b PROVE a * P # b * P
  <2>1. PICK e \in Nat : b = a + e + 1
    <3>1. b = a + (b - a - 1) + 1 /\ b - a - 1 \in Nat
      BY <1>1
    <3>2. QED
      BY <3>1
  <2>2. b * P = a * P + e * P + P /\ e * P \in Nat /\ a * P \in Nat
    BY <2>1
  <2>3. QED
    BY <2>2
<1>2. QED
    BY <1>1

\* The last page begins before the end.
LEMMA PageBegins ==
    ASSUME NEW n \in Nat, NEW k \in 0..(DivCeil(n, PageSize) - 1)
    PROVE  k \in Nat /\ k * PageSize \in Nat /\ k * PageSize < n
<1> DEFINE P == PageSize
           d == DivCeil(n, PageSize)
           m == (n + P - 1) % P
<1>1. P \in Nat \ {0}
    BY MeasureAssumption
<1>2. d = (n + P - 1) \div P
    BY DEF DivCeil
<1>3. n + P - 1 = d * P + m /\ m \in Nat /\ m < P /\ d \in Nat
    BY <1>1, <1>2
<1> HIDE DEF d, m
<1>4. k \in Nat /\ k <= d - 1
    BY <1>3 DEF d
<1> HIDE DEF P
<1>5. PICK e \in Nat : d = k + e + 1
  <2>1. d = k + (d - k - 1) + 1 /\ d - k - 1 \in Nat
    BY <1>3, <1>4
  <2>2. QED
    BY <2>1
<1>6. d * P = k * P + e * P + P /\ e * P \in Nat /\ k * P \in Nat
    BY <1>1, <1>4, <1>5
<1>7. k * P < n
    BY <1>1, <1>3, <1>6
<1>8. QED
    BY <1>4, <1>6, <1>7 DEF P

\* s is a run of pages from base on, as many as size cells need.
IsRun(s, base, size) ==
    /\ s \in Seq(Directive) /\ Len(s) = DivCeil(size, PageSize)
    /\ \A k \in 1..Len(s) : s[k].kind = "page" /\ s[k].gpa = base + (k - 1) * PageSize

LEMMA RunApart ==
    ASSUME NEW n, NEW s, NEW base \in Nat, NEW size \in Nat, IsRun(s, base, size)
    PROVE  /\ Apart(s, n)
           /\ \A x \in Reach(s, n) : x \in Nat /\ base <= x /\ x < base + size
<1> DEFINE m == Len(s)
<1>1. m = DivCeil(size, PageSize) /\ m \in Nat /\ s \in Seq(Directive)
    BY PagesCover DEF IsRun
<1>2. PageSize \in Nat \ {0}
    BY MeasureAssumption
<1>3. \A k \in 1..m : Span(s[k], n) = {base + (k - 1) * PageSize}
    BY DEF IsRun, Span
<1>4. \A k \in 1..m : /\ k - 1 \in Nat /\ (k - 1) * PageSize \in Nat
                      /\ (k - 1) * PageSize < size
  <2> SUFFICES ASSUME NEW k \in 1..m
               PROVE  k - 1 \in Nat /\ (k - 1) * PageSize \in Nat /\ (k - 1) * PageSize < size
    OBVIOUS
  <2>1. k - 1 \in 0..(DivCeil(size, PageSize) - 1)
    BY <1>1
  <2> HIDE DEF m
  <2>2. QED
    BY <2>1, PageBegins
<1> HIDE DEF m
<1>5. ASSUME NEW i \in 1..m, NEW j \in 1..m, i # j
      PROVE  Span(s[i], n) \intersect Span(s[j], n) = {}
  <2>1. i - 1 # j - 1 /\ i - 1 \in Nat /\ j - 1 \in Nat
    BY <1>1, <1>4, <1>5
  <2>2. (i - 1) * PageSize # (j - 1) * PageSize
    BY <1>2, <2>1, Spaced
  <2>3. base + (i - 1) * PageSize # base + (j - 1) * PageSize
    BY <1>4, <2>2
  <2>4. QED
    BY <1>3, <2>3
<1>6. Apart(s, n)
    BY <1>5 DEF Apart, m
<1>7. ASSUME NEW x \in Reach(s, n) PROVE x \in Nat /\ base <= x /\ x < base + size
  <2>1. PICK k \in 1..m : x \in Span(s[k], n)
    BY <1>1, <1>7, ReachAt DEF m
  <2>2. x = base + (k - 1) * PageSize
    BY <1>3, <2>1
  <2>3. QED
    BY <1>4, <2>2
<1>8. QED
    BY <1>6, <1>7

LEMMA PageFields ==
    ASSUME NEW gpa, NEW mask, NEW unmeasured, NEW type, NEW data
    PROVE  /\ Page(gpa, mask, unmeasured, type, data).kind = "page"
           /\ Page(gpa, mask, unmeasured, type, data).gpa = gpa
           /\ Page(gpa, mask, unmeasured, type, data).mask = mask
           /\ Page(gpa, mask, unmeasured, type, data).unmeasured = unmeasured
           /\ Page(gpa, mask, unmeasured, type, data).type = type
           /\ Page(gpa, mask, unmeasured, type, data).data = data
BY DEF Page, Blank

LEMMA DataPagesAre ==
    ASSUME NEW base \in Nat, NEW data \in Seq(Cells), NEW unmeasured \in BOOLEAN,
           builder.platforms \in SUBSET Platforms
    PROVE  /\ IsRun(DataPages(base, data, unmeasured), base, Len(data))
           /\ \A k \in 1..DivCeil(Len(data), PageSize) :
                 LET d == DataPages(base, data, unmeasured)[k]
                 IN  /\ d.mask = builder.platforms /\ d.unmeasured = unmeasured
                     /\ d.type = "NORMAL"
                     /\ d.data = SubSeq(data, (k - 1) * PageSize + 1,
                                        Least(k * PageSize, Len(data)))
<1> DEFINE n == DivCeil(Len(data), PageSize)
           s == DataPages(base, data, unmeasured)
           Nth(k) == Page(base + (k - 1) * PageSize, Mask, unmeasured, "NORMAL",
                       SubSeq(data, (k - 1) * PageSize + 1, Least(k * PageSize, Len(data))))
<1>1. n \in Nat
    BY SeqFacts, PagesCover
<1>2. s \in Seq(Pages(FALSE))
    BY DataPagesType
<1>3. s \in Seq(Directive)
    BY <1>2, Subsets, Widen
<1>4. s = [k \in 1..n |-> Nth(k)]
    BY DEF DataPages
<1>5. \A k \in 1..n : s[k] = Nth(k)
    BY <1>4
<1>6. Len(s) = n
  <2> HIDE DEF Nth, n, s
  <2>1. QED
    BY <1>1, <1>4
<1> HIDE DEF n, s
<1>7. ASSUME NEW k \in 1..n
      PROVE  /\ s[k].kind = "page" /\ s[k].gpa = base + (k - 1) * PageSize
             /\ s[k].mask = builder.platforms /\ s[k].unmeasured = unmeasured
             /\ s[k].type = "NORMAL"
             /\ s[k].data = SubSeq(data, (k - 1) * PageSize + 1, Least(k * PageSize, Len(data)))
  <2> DEFINE gpa == base + (k - 1) * PageSize
             part == SubSeq(data, (k - 1) * PageSize + 1, Least(k * PageSize, Len(data)))
             mask == builder.platforms
             type == "NORMAL"
  <2>1. s[k] = Page(gpa, mask, unmeasured, type, part)
    BY <1>5 DEF Mask
  <2> HIDE DEF gpa, part, mask, type
  <2>2. /\ s[k].kind = "page" /\ s[k].gpa = gpa /\ s[k].mask = mask
        /\ s[k].unmeasured = unmeasured /\ s[k].type = type /\ s[k].data = part
    BY <2>1, PageFields
  <2>3. QED
    BY <2>2 DEF gpa, part, mask, type
<1>8. IsRun(s, base, Len(data))
    BY <1>3, <1>6, <1>7 DEF IsRun, n
<1>9. QED
    BY <1>7, <1>8 DEF n, s

LEMMA EmptyPagesRun ==
    ASSUME NEW base \in Nat, NEW size \in Nat, NEW type \in {"NORMAL", "SECRETS", "CPUID"}
    PROVE  IsRun(EmptyPages(base, size, type), base, size)
<1> DEFINE n == DivCeil(size, PageSize)
           s == EmptyPages(base, size, type)
           Nth(k) == Page(base + (k - 1) * PageSize, {"snp"}, FALSE, type, <<>>)
<1>1. n \in Nat
    BY PagesCover
<1>2. s \in Seq(Pages(FALSE))
    BY EmptyPagesType
<1>3. s \in Seq(Directive)
    BY <1>2, Subsets, Widen
<1>4. s = [k \in 1..n |-> Nth(k)]
    BY DEF EmptyPages
<1>5. \A k \in 1..n : s[k] = Nth(k)
    BY <1>4
<1>6. Len(s) = n
  <2> HIDE DEF Nth, n, s
  <2>1. QED
    BY <1>1, <1>4
<1> HIDE DEF n, s
<1>7. ASSUME NEW k \in 1..n
      PROVE  s[k].kind = "page" /\ s[k].gpa = base + (k - 1) * PageSize
  <2> DEFINE gpa == base + (k - 1) * PageSize
             mask == {"snp"}
             unmeasured == FALSE
             data == <<>>
  <2>1. s[k] = Page(gpa, mask, unmeasured, type, data)
    BY <1>5
  <2> HIDE DEF gpa, mask, unmeasured, data
  <2>2. s[k].kind = "page" /\ s[k].gpa = gpa
    BY <2>1, PageFields
  <2>3. QED
    BY <2>2 DEF gpa
<1>8. QED
    BY <1>3, <1>6, <1>7 DEF IsRun, n, s

-----------------------------------------------------------------------------
(* The directives of a build cover every page once *)

\* The cells of the parameter areas, and the size the insert is given.
ParamCells(c) ==
    {x \in Nat : \E k \in RegionsOf(c.firmware, "IgvmParamArea") :
        c.firmware.regions[k].base <= x
        /\ x < c.firmware.regions[k].base + c.firmware.regions[k].size}

ParamSize(c) == FirstRegion(c.firmware, "IgvmParamArea").size

\* s covers no page twice, its inserts stay inside the parameter areas, and the
\* area is as large as the firmware says.
Tidy(c, s) ==
    /\ s \in Seq(Directive) /\ Apart(s, ParamSize(c))
    /\ \A d \in ToSet(s) : d.kind = "insert" => Span(d, ParamSize(c)) \subseteq ParamCells(c)
    /\ \A d \in ToSet(s) : d.kind = "area" => d.size = ParamSize(c)

LEMMA TidyRemove ==
    ASSUME NEW c, NEW s, Tidy(c, s), NEW base, NEW size
    PROVE  Tidy(c, RemovePageDataInRange(s, base, size))
<1> DEFINE t == RemovePageDataInRange(s, base, size)
           K == {k \in 1..Len(s) : ~InRange(s[k], base, size)}
           n == ParamSize(c)
<1>1. s \in Seq(Directive) /\ Apart(s, n)
    BY DEF Tidy
<1>2. t \in Seq(Directive) /\ ToSet(t) \subseteq ToSet(s)
    BY <1>1, RemoveMembers
<1>3. t = Retain(s, K)
    BY DEF RemovePageDataInRange
<1> HIDE DEF K, t, n
<1>4. Apart(t, n)
    BY <1>1, <1>3, ApartRetain
<1>5. QED
    BY <1>2, <1>4 DEF Tidy, t, n

\* Pages that are put where there is nothing, outside the parameter areas.
LEMMA TidyAppend ==
    ASSUME NEW c, NEW s, Tidy(c, s), NEW t, NEW base \in Nat, NEW size \in Nat,
           IsRun(t, base, size),
           \A d \in ToSet(s) : d.kind = "page" => d.gpa < base \/ d.gpa >= base + size,
           \A x \in ParamCells(c) : x < base \/ x >= base + size
    PROVE  Tidy(c, s \o t)
<1> DEFINE n == ParamSize(c)
           u == s \o t
<1>1. s \in Seq(Directive) /\ Apart(s, n)
    BY DEF Tidy
<1>2. t \in Seq(Directive) /\ \A k \in 1..Len(t) : t[k].kind = "page"
    BY DEF IsRun
<1>3. \A d \in ToSet(t) : d.kind = "page"
    BY <1>2, SeqMember
<1>4. Apart(t, n) /\ \A x \in Reach(t, n) : x \in Nat /\ base <= x /\ x < base + size
    BY RunApart
<1>5. Reach(s, n) \intersect Reach(t, n) = {}
  <2>1. ASSUME NEW d \in ToSet(s), NEW x \in Span(d, n), x \in Reach(t, n) PROVE FALSE
    <3>1. x \in Nat /\ ~(x < base \/ x >= base + size)
      BY <1>4, <2>1
    <3>2. CASE d.kind = "page"
      BY <2>1, <3>1, <3>2 DEF Span
    <3>3. CASE d.kind = "insert"
      BY <2>1, <3>1, <3>3 DEF Tidy
    <3>4. CASE d.kind # "page" /\ d.kind # "insert"
      BY <2>1, <3>4 DEF Span
    <3>5. QED
      BY <3>2, <3>3, <3>4
  <2>2. QED
    BY <2>1 DEF Reach
<1> HIDE DEF n
<1>6. u \in Seq(Directive) /\ Apart(u, n) /\ ToSet(u) = ToSet(s) \union ToSet(t)
    BY <1>1, <1>2, <1>4, <1>5, ApartConcat, ConcatMembers
<1> HIDE DEF u
<1>7. QED
    BY <1>3, <1>6 DEF Tidy, n, u

\* What is in the way is removed first.
LEMMA TidyPut ==
    ASSUME NEW c, NEW s, Tidy(c, s), NEW t, NEW base \in Nat, NEW size \in Nat,
           NEW room \in Nat, size <= room, IsRun(t, base, size),
           \A x \in ParamCells(c) : x < base \/ x >= base + size
    PROVE  Tidy(c, RemovePageDataInRange(s, base, room) \o t)
<1> DEFINE r == RemovePageDataInRange(s, base, room)
<1>1. Tidy(c, r)
    BY TidyRemove
<1>2. s \in Seq(Directive)
    BY DEF Tidy
<1>3. r \in Seq(Directive) /\ ToSet(r) = {d \in ToSet(s) : ~InRange(d, base, room)}
    BY <1>2, RemoveMembers
<1> HIDE DEF r
<1>4. ASSUME NEW d \in ToSet(r), d.kind = "page"
      PROVE  d.gpa < base \/ d.gpa >= base + size
  <2>1. d \in Directive
    BY <1>3, MembersOf
  <2>2. d.gpa \in Nat
    BY <2>1 DEF Directive
  <2>3. ~InRange(d, base, room)
    BY <1>3
  <2>4. QED
    BY <1>4, <2>2, <2>3, MeasureAssumption DEF InRange
<1>5. Tidy(c, r \o t)
    BY <1>1, <1>4, TidyAppend
<1>6. QED
    BY <1>5 DEF r

LEMMA RunMembers ==
    ASSUME NEW t, NEW base \in Nat, NEW size \in Nat, IsRun(t, base, size)
    PROVE  \A d \in ToSet(t) :
              d.kind = "page" /\ d.gpa \in Nat /\ base <= d.gpa /\ d.gpa < base + size
<1> DEFINE n == 0
<1>1. t \in Seq(Directive) /\ \A k \in 1..Len(t) : t[k].kind = "page"
    BY DEF IsRun
<1>2. \A d \in ToSet(t) : d.kind = "page"
    BY <1>1, SeqMember
<1>3. \A x \in Reach(t, n) : x \in Nat /\ base <= x /\ x < base + size
  <2> HIDE DEF n
  <2>1. QED
    BY RunApart
<1>4. ASSUME NEW d \in ToSet(t) PROVE d.gpa \in Reach(t, n)
  <2>1. d.gpa \in Span(d, n)
    BY <1>2 DEF Span
  <2>2. QED
    BY <2>1 DEF Reach
<1>5. QED
    BY <1>2, <1>3, <1>4

\* Regions of the firmware are where SeparationAssumption says.
LEMMA Separated ==
    ASSUME NEW c \in Config
    PROVE  /\ Top1M <= VarsBase(c)
           /\ \A k \in 1..Len(c.firmware.regions) :
                 c.firmware.regions[k].type \in SevTypes \union {"IgvmParamArea"} =>
                    /\ Top1M <= c.firmware.regions[k].base
                    /\ c.firmware.regions[k].base + c.firmware.regions[k].size <= VarsBase(c)
           /\ \A k, l \in 1..Len(c.firmware.regions) :
                 k # l /\ c.firmware.regions[k].type \in SevTypes
                       /\ c.firmware.regions[l].type \in SevTypes =>
                    Clear(c.firmware.regions[k].base, c.firmware.regions[k].size,
                          c.firmware.regions[l].base, c.firmware.regions[l].size)
           /\ \A k, l \in 1..Len(c.firmware.regions) :
                 c.firmware.regions[k].type = "IgvmParamArea"
                 /\ c.firmware.regions[l].type = "IgvmHobArea" =>
                    Clear(c.firmware.regions[k].base, c.firmware.regions[k].size,
                          c.firmware.regions[l].base, c.firmware.regions[l].size)
           /\ \A k \in 1..Len(c.firmware.regions) :
                 c.firmware.regions[k].type = "IgvmParamArea" =>
                    \/ c.firmware.regions[k].base + c.firmware.regions[k].size <= BlobBase
                    \/ BlobEnd(c)[Len(BlobTypes)] <= c.firmware.regions[k].base
           /\ \A l \in 1..Len(c.firmware.regions) :
                 c.firmware.regions[l].type = "IgvmHobArea" =>
                    Len(Hobs(c)) <= c.firmware.regions[l].size
<1> DEFINE rs == c.firmware.regions
           sev == {k \in 1..Len(rs) : rs[k].type \in SevTypes}
           params == RegionsOf(c.firmware, "IgvmParamArea")
           hobs == RegionsOf(c.firmware, "IgvmHobArea")
<1>1. /\ Top1M <= VarsBase(c)
      /\ \A k \in sev \union params :
            Top1M <= rs[k].base /\ rs[k].base + rs[k].size <= VarsBase(c)
      /\ \A k, l \in sev :
            k # l => Clear(rs[k].base, rs[k].size, rs[l].base, rs[l].size)
      /\ \A k \in params :
            /\ \A l \in hobs : Clear(rs[k].base, rs[k].size, rs[l].base, rs[l].size)
            /\ rs[k].base + rs[k].size <= BlobBase
               \/ BlobEnd(c)[Len(BlobTypes)] <= rs[k].base
      /\ \A l \in hobs : Len(Hobs(c)) <= rs[l].size
    BY SeparationAssumption
<1>2. /\ params = {k \in 1..Len(rs) : rs[k].type = "IgvmParamArea"}
      /\ hobs = {k \in 1..Len(rs) : rs[k].type = "IgvmHobArea"}
    BY DEF RegionsOf
<1> HIDE DEF rs, params, hobs
<1>3. \A k \in 1..Len(rs) : rs[k].type \in SevTypes \union {"IgvmParamArea"} =>
         Top1M <= rs[k].base /\ rs[k].base + rs[k].size <= VarsBase(c)
    BY <1>1, <1>2
<1>4. \A k, l \in 1..Len(rs) :
         k # l /\ rs[k].type \in SevTypes /\ rs[l].type \in SevTypes =>
            Clear(rs[k].base, rs[k].size, rs[l].base, rs[l].size)
    BY <1>1
<1>5. \A k, l \in 1..Len(rs) :
         rs[k].type = "IgvmParamArea" /\ rs[l].type = "IgvmHobArea" =>
            Clear(rs[k].base, rs[k].size, rs[l].base, rs[l].size)
    BY <1>1, <1>2
<1>6. \A k \in 1..Len(rs) : rs[k].type = "IgvmParamArea" =>
         rs[k].base + rs[k].size <= BlobBase \/ BlobEnd(c)[Len(BlobTypes)] <= rs[k].base
    BY <1>1, <1>2
<1>7. \A l \in 1..Len(rs) : rs[l].type = "IgvmHobArea" => Len(Hobs(c)) <= rs[l].size
    BY <1>1, <1>2
<1>8. QED
    BY <1>1, <1>3, <1>4, <1>5, <1>6, <1>7 DEF rs

LEMMA ParamsWithin ==
    ASSUME NEW c \in Config, NEW x \in ParamCells(c)
    PROVE  x \in Nat /\ Top1M <= x /\ x < VarsBase(c)
<1>1. IsBuildConfig(c)
    BY LaunchAssumption
<1>2. VarsBase(c) \in Nat /\ Top1M \in Nat
    BY <1>1, VarsBaseType, Addresses
<1>3. PICK k \in RegionsOf(c.firmware, "IgvmParamArea") :
         /\ c.firmware.regions[k].base <= x
         /\ x < c.firmware.regions[k].base + c.firmware.regions[k].size
    BY DEF ParamCells
<1>4. k \in 1..Len(c.firmware.regions) /\ c.firmware.regions[k].type = "IgvmParamArea"
    BY DEF RegionsOf
<1>5. c.firmware.regions[k] \in Region
    BY <1>1, <1>4, RegionAt
<1> DEFINE b == c.firmware.regions[k].base
           z == c.firmware.regions[k].size
<1>6. b \in Nat /\ z \in Nat
    BY <1>5 DEF Region
<1>7. Top1M <= b /\ b + z <= VarsBase(c)
    BY <1>4, Separated
<1>8. b <= x /\ x < b + z /\ x \in Nat
    BY <1>3 DEF ParamCells
<1> HIDE DEF b, z
<1>9. QED
    BY <1>2, <1>6, <1>7, <1>8

LEMMA SnpPagesApart ==
    ASSUME NEW n, NEW r \in Region
    PROVE  /\ SnpPages(r) \in Seq(Directive) /\ Apart(SnpPages(r), n)
           /\ \A x \in Reach(SnpPages(r), n) :
                 /\ r.type \in SevTypes /\ x \in Nat /\ r.base <= x /\ x < r.base + r.size
                 /\ x \notin ParamCells(cfg)
<1>1. CASE r.type \in SevTypes
  <2>1. r.base \in Nat /\ r.size \in Nat
    BY DEF Region
  <2>2. PageDataType(r.type) \in {"NORMAL", "SECRETS", "CPUID"}
    BY DEF PageDataType
  <2> DEFINE s == RegionPages(r)
             K == {k \in 1..Len(RegionPages(r)) : ~InParamArea(RegionPages(r)[k].gpa)}
             t == SnpPages(r)
  <2>3. IsRun(s, r.base, r.size)
    BY <2>1, <2>2, EmptyPagesRun DEF RegionPages
  <2>4. t = Retain(s, K)
    BY <1>1 DEF SnpPages
  <2>5. \A k \in K : k \in 1..Len(s) /\ ~InParamArea(s[k].gpa)
    OBVIOUS
  <2> HIDE DEF s, K, t
  <2>6. s \in Seq(Directive)
    BY <2>3 DEF IsRun
  <2>7. Apart(s, n)
    BY <2>1, <2>3, RunApart
  <2>8. t \in Seq(Directive) /\ Apart(t, n)
    BY <2>4, <2>6, <2>7, ApartRetain
  <2>9. ToSet(t) = {s[i] : i \in {j \in 1..Len(s) : j \in K}}
    BY <2>4, <2>6, RetainMembers
  <2>10. ASSUME NEW x \in Reach(t, n)
         PROVE  /\ x \in Nat /\ r.base <= x /\ x < r.base + r.size
                /\ x \notin ParamCells(cfg)
    <3>1. PICK d \in ToSet(t) : x \in Span(d, n)
      BY <2>10 DEF Reach
    <3>2. PICK i \in 1..Len(s) : i \in K /\ d = s[i]
      BY <2>9, <3>1
    <3>3. d \in ToSet(s)
      BY <2>6, <3>2, SeqMember
    <3>4. d.kind = "page" /\ d.gpa \in Nat /\ r.base <= d.gpa /\ d.gpa < r.base + r.size
      BY <2>1, <2>3, <3>3, RunMembers
    <3>5. x = d.gpa
      BY <3>1, <3>4 DEF Span
    <3>6. ~InParamArea(x)
      BY <2>5, <3>2, <3>5
    <3>7. x \notin ParamCells(cfg)
      BY <3>4, <3>5, <3>6 DEF ParamCells, InParamArea
    <3>8. QED
      BY <3>4, <3>5, <3>7
  <2>11. QED
    BY <1>1, <2>8, <2>10 DEF t
<1>2. CASE r.type \notin SevTypes
  <2>1. SnpPages(r) = <<>>
    BY <1>2 DEF SnpPages
  <2>2. <<>> \in Seq(Directive) /\ Apart(<<>>, n) /\ Reach(<<>>, n) = {}
    BY DEF Apart, Reach, ToSet
  <2>3. QED
    BY <2>1, <2>2
<1>3. QED
    BY <1>1, <1>2

LEMMA OvmfSnpPagesApart ==
    ASSUME NEW n, cfg \in Config
    PROVE  /\ OvmfSnpPages \in Seq(Directive) /\ Apart(OvmfSnpPages, n)
           /\ \A x \in Reach(OvmfSnpPages, n) :
                 x \in Nat /\ Top1M <= x /\ x < VarsBase(cfg) /\ x \notin ParamCells(cfg)
<1> DEFINE m == Len(cfg.firmware.regions)
           R(k) == cfg.firmware.regions[k]
           seqs == [k \in 1..m |-> SnpPages(R(k))]
<1>0. IsBuildConfig(cfg)
    BY ConfigIs
<1>1. m \in Nat /\ \A k \in 1..m : R(k) \in Region
    BY <1>0, RegionAt DEF IsBuildConfig, Firmware
<1>2. \A k \in 1..m : R(k).base \in Nat /\ R(k).size \in Nat
    BY <1>1 DEF Region
<1>3. VarsBase(cfg) \in Nat /\ Top1M \in Nat
    BY <1>0, VarsBaseType, Addresses
<1>4. /\ \A k \in 1..m : R(k).type \in SevTypes =>
            Top1M <= R(k).base /\ R(k).base + R(k).size <= VarsBase(cfg)
      /\ \A k, l \in 1..m : k # l /\ R(k).type \in SevTypes /\ R(l).type \in SevTypes =>
            Clear(R(k).base, R(k).size, R(l).base, R(l).size)
    BY Separated
<1>5. OvmfSnpPages = FlattenSeq(seqs)
    BY DEF OvmfSnpPages
<1> HIDE DEF R, m
<1>6. \A k \in 1..m :
         /\ SnpPages(R(k)) \in Seq(Directive) /\ Apart(SnpPages(R(k)), n)
         /\ \A x \in Reach(SnpPages(R(k)), n) :
               /\ R(k).type \in SevTypes /\ x \in Nat
               /\ R(k).base <= x /\ x < R(k).base + R(k).size /\ x \notin ParamCells(cfg)
    BY <1>1, SnpPagesApart
<1>7. seqs \in [1..m -> Seq(Directive)] /\ \A k \in 1..m : seqs[k] = SnpPages(R(k))
    BY <1>6
<1> HIDE DEF seqs
<1>8. seqs \in Seq(Seq(Directive)) /\ Len(seqs) = m
    BY <1>1, <1>7, SeqIntro
<1>9. ASSUME NEW k \in 1..m, NEW l \in 1..m, k # l
      PROVE  Reach(seqs[k], n) \intersect Reach(seqs[l], n) = {}
  <2>1. ASSUME NEW x \in Reach(SnpPages(R(k)), n), x \in Reach(SnpPages(R(l)), n) PROVE FALSE
    <3>1. /\ R(k).type \in SevTypes /\ x \in Nat
          /\ R(k).base <= x /\ x < R(k).base + R(k).size
      BY <1>6
    <3>2. R(l).type \in SevTypes /\ R(l).base <= x /\ x < R(l).base + R(l).size
      BY <1>6, <2>1
    <3>3. Clear(R(k).base, R(k).size, R(l).base, R(l).size)
      BY <1>4, <1>9, <3>1, <3>2
    <3>4. QED
      BY <1>2, <3>1, <3>2, <3>3 DEF Clear
  <2>2. QED
    BY <1>7, <2>1
<1>10. /\ FlattenSeq(seqs) \in Seq(Directive) /\ Apart(FlattenSeq(seqs), n)
       /\ \A x \in Reach(FlattenSeq(seqs), n) : \E k \in 1..m : x \in Reach(seqs[k], n)
  <2>1. \A k \in 1..Len(seqs) : Apart(seqs[k], n)
    BY <1>6, <1>7, <1>8
  <2>2. \A k, l \in 1..Len(seqs) : k # l => Reach(seqs[k], n) \intersect Reach(seqs[l], n) = {}
    BY <1>8, <1>9
  <2>3. QED
    BY <1>8, <2>1, <2>2, ApartFlatten
<1>11. ASSUME NEW x \in Reach(OvmfSnpPages, n)
       PROVE  x \in Nat /\ Top1M <= x /\ x < VarsBase(cfg) /\ x \notin ParamCells(cfg)
  <2>1. PICK k \in 1..m : x \in Reach(SnpPages(R(k)), n)
    BY <1>5, <1>7, <1>10
  <2>2. /\ R(k).type \in SevTypes /\ x \in Nat
        /\ R(k).base <= x /\ x < R(k).base + R(k).size /\ x \notin ParamCells(cfg)
    BY <1>6, <2>1
  <2>3. QED
    BY <1>2, <1>3, <1>4, <2>2
<1>12. QED
    BY <1>5, <1>10, <1>11

LEMMA ApartPlain ==
    ASSUME NEW n, NEW s \in Seq(Plain)
    PROVE  s \in Seq(Directive) /\ Apart(s, n) /\ Reach(s, n) = {}
<1>1. s \in Seq(Directive)
    BY Subsets, Widen
<1>2. Len(s) \in Nat /\ \A k \in 1..Len(s) : s[k] \in Plain
    BY SeqFacts
<1>3. \A k \in 1..Len(s) : Span(s[k], n) = {}
    BY <1>2 DEF Plain, Others, Span
<1>4. \A x : x \in Reach(s, n) <=> \E k \in 1..Len(s) : x \in Span(s[k], n)
    BY <1>1, ReachAt
<1>5. Reach(s, n) = {}
    BY <1>3, <1>4
<1>6. QED
    BY <1>1, <1>3, <1>5 DEF Apart

\* Lists whose pages lie apart, and that cover none of the same, can be joined.
LEMMA TidyConcat ==
    ASSUME NEW c, NEW s, Tidy(c, s), NEW t, Tidy(c, t),
           Reach(s, ParamSize(c)) \intersect Reach(t, ParamSize(c)) = {}
    PROVE  /\ Tidy(c, s \o t)
           /\ Reach(s \o t, ParamSize(c)) = Reach(s, ParamSize(c)) \union Reach(t, ParamSize(c))
<1> DEFINE n == ParamSize(c)
           u == s \o t
<1>1. s \in Seq(Directive) /\ Apart(s, n) /\ t \in Seq(Directive) /\ Apart(t, n)
    BY DEF Tidy
<1> HIDE DEF n
<1>2. /\ u \in Seq(Directive) /\ Apart(u, n) /\ ToSet(u) = ToSet(s) \union ToSet(t)
      /\ Reach(u, n) = Reach(s, n) \union Reach(t, n)
    BY <1>1, ApartConcat, ConcatMembers DEF n
<1> HIDE DEF u
<1>3. QED
    BY <1>2 DEF Tidy, n, u

\* The directives before the parameters: pages of SEV regions only, outside the
\* parameter areas.
LEMMA StartedTidy ==
    ASSUME cfg \in Config
    PROVE  /\ Tidy(cfg, Started)
           /\ \A x \in Reach(Started, ParamSize(cfg)) :
                 x \in Nat /\ Top1M <= x /\ x < VarsBase(cfg) /\ x \notin ParamCells(cfg)
<1> DEFINE n == ParamSize(cfg)
           S == {s \in Seq(Directive) :
                   /\ Tidy(cfg, s)
                   /\ \A x \in Reach(s, n) :
                         x \in Nat /\ Top1M <= x /\ x < VarsBase(cfg) /\ x \notin ParamCells(cfg)}
<1>1. ASSUME NEW s \in Seq(Still) PROVE s \in S /\ Reach(s, n) = {}
  <2>1. s \in Seq(Plain) /\ ToSet(s) \subseteq Still
    BY Subsets, Widen, MembersOf
  <2>2. s \in Seq(Directive) /\ Apart(s, n) /\ Reach(s, n) = {}
    BY <2>1, ApartPlain
  <2>3. \A d \in ToSet(s) : d.kind # "insert" /\ d.kind # "area"
    BY <2>1 DEF Still, Plain
  <2>4. Tidy(cfg, s)
    BY <2>2, <2>3 DEF Tidy
  <2>5. QED
    BY <2>2, <2>4
<1>2. Native \in Seq(Still)
  BY BlankType DEF Native
<1>3. Vmsas \in Seq(Still)
  <2>1. cfg.boot \in {"real16", "flat32"} /\ Processors(cfg) \in Nat
    BY ConfigIs, ProcessorsAre
  <2>2. ASSUME NEW ap \in BOOLEAN PROVE Vmsa(ap) \in Still
    BY <2>1, VmsaType
  <2>3. \A vp \in 1..Processors(cfg) : (vp > 1) \in BOOLEAN
    OBVIOUS
  <2>4. Vmsas \in [1..Processors(cfg) -> Still]
    BY <2>2, <2>3 DEF Vmsas
  <2>5. QED
    BY <2>1, <2>4, SeqIntro
<1>4. OvmfSnpPages \in S
  <2>1. /\ OvmfSnpPages \in Seq(Directive) /\ Apart(OvmfSnpPages, n)
        /\ \A x \in Reach(OvmfSnpPages, n) :
              x \in Nat /\ Top1M <= x /\ x < VarsBase(cfg) /\ x \notin ParamCells(cfg)
    BY OvmfSnpPagesApart
  <2>2. OvmfSnpPages \in Seq(Pages(FALSE))
    BY ConfigIs, OvmfSnpPagesType
  <2>3. \A d \in ToSet(OvmfSnpPages) : d.kind = "page"
    BY <2>2, MembersOf DEF Pages
  <2>4. Tidy(cfg, OvmfSnpPages)
    BY <2>1, <2>3 DEF Tidy
  <2>5. QED
    BY <2>1, <2>4
<1>5. ASSUME NEW s \in Seq(Still), NEW t \in S PROVE s \o t \in S
  <2>1. s \in S /\ Reach(s, n) = {}
    BY <1>1
  <2> HIDE DEF Still
  <2>2. Tidy(cfg, s) /\ Tidy(cfg, t)
    BY <2>1
  <2>3. Tidy(cfg, s \o t) /\ Reach(s \o t, n) = Reach(t, n)
    <3>1. Reach(s, n) \intersect Reach(t, n) = {}
      BY <2>1
    <3> HIDE DEF S
    <3>2. Tidy(cfg, s \o t) /\ Reach(s \o t, n) = Reach(s, n) \union Reach(t, n)
      BY <2>2, <3>1, TidyConcat
    <3>3. QED
      BY <2>1, <3>2
  <2>4. s \o t \in Seq(Directive)
    BY <2>3 DEF Tidy
  <2>5. QED
    BY <2>3, <2>4
<1>6. <<>> \in Seq(Still)
    OBVIOUS
<1>7. <<>> \in S
    BY <1>1, <1>6
<1> HIDE DEF S, Still
<1>8. Vmsas \o OvmfSnpPages \in S
    BY <1>3, <1>4, <1>5
<1>9. Started \in S
    BY <1>2, <1>5, <1>7, <1>8 DEF Started
<1>10. QED
    BY <1>9 DEF S

\* The insert of the parameters stays inside their area.
LEMMA ParamsTidy ==
    ASSUME cfg \in Config, builder.platforms \in SUBSET Platforms
    PROVE  /\ Tidy(cfg, IgvmParams) /\ \A d \in ToSet(IgvmParams) : d.kind # "page"
           /\ Reach(IgvmParams, ParamSize(cfg)) \subseteq ParamCells(cfg)
<1> DEFINE none == RegionsOf(cfg.firmware, "IgvmParamArea") = {}
           area == FirstRegion(cfg.firmware, "IgvmParamArea")
           n == ParamSize(cfg)
           params == RegionsOf(cfg.firmware, "IgvmParamMemoryMap")
                     \union RegionsOf(cfg.firmware, "IgvmParamVpCount")
           a == [Blank EXCEPT !.kind = "area", !.size = area.size]
           m == [k \in 1..Cardinality(params) |-> Blank]
           i == [Blank EXCEPT !.kind = "insert", !.mask = Mask, !.gpa = area.base]
<1>0. IsBuildConfig(cfg)
    BY ConfigIs
<1>1. CASE none
  <2>1. IgvmParams = <<>>
    BY <1>1 DEF IgvmParams
  <2>2. <<>> \in Seq(Directive) /\ Apart(<<>>, n) /\ Reach(<<>>, n) = {} /\ ToSet(<<>>) = {}
    BY DEF Apart, Reach, ToSet
  <2>3. QED
    BY <2>1, <2>2 DEF Tidy
<1>2. CASE ~none
  <2>1. IgvmParams = <<a>> \o m \o <<i>>
    BY <1>2 DEF IgvmParams
  <2>2. area.size \in Nat /\ area.base \in Nat
    BY <1>0, <1>2, FirstRegionType DEF Region
  <2>3. Blank \in Directive /\ Blank \in Plain /\ Blank.kind = "other"
    BY BlankType DEF Blank, Plain, Others
  <2>4. a \in Plain /\ a.kind = "area" /\ a.size = n
    <3>1. a \in Directive
      BY <2>2, <2>3, Zenon DEF Directive
    <3>2. a.kind = "area" /\ a.size = area.size
      BY DEF Blank
    <3> HIDE DEF a
    <3>3. QED
      BY <3>1, <3>2 DEF Plain, Others, ParamSize
  <2>5. i \in Directive /\ i.kind = "insert" /\ i.gpa = area.base
    <3>0. Mask \in SUBSET Platforms
      BY DEF Mask
    <3>1. i \in Directive
      BY <2>2, <2>3, <3>0, Zenon DEF Directive
    <3>2. i.kind = "insert" /\ i.gpa = area.base
      BY DEF Blank
    <3> HIDE DEF i
    <3>3. QED
      BY <3>1, <3>2
  <2>6. m \in Seq({Blank})
    <3>0. params \in SUBSET (1..Len(cfg.firmware.regions)) /\ Len(cfg.firmware.regions) \in Nat
      BY <1>0 DEF RegionsOf, IsBuildConfig, Firmware
    <3> HIDE DEF params
    <3>1. IsFiniteSet(params)
      BY <3>0, Interval, FS_Subset
    <3>2. Cardinality(params) \in Nat
      BY <3>1, FS_CardinalityType
    <3>3. m \in [1..Cardinality(params) -> {Blank}]
      OBVIOUS
    <3> HIDE DEF m
    <3>4. QED
      BY <3>2, <3>3, SeqIntro
  <2> DEFINE A == <<a>>
             I == <<i>>
  <2> HIDE DEF a, m, i
  <2>7. A \in Seq(Plain) /\ ToSet(A) = {a}
    BY <2>4 DEF ToSet
  <2>8. m \in Seq(Plain) /\ ToSet(m) \subseteq {Blank}
    BY <2>3, <2>6, Widen, MembersOf
  <2>9. I \in Seq(Directive) /\ Apart(I, n) /\ Reach(I, n) = Span(i, n) /\ ToSet(I) = {i}
    <3>1. ToSet(I) = {i}
      BY DEF ToSet
    <3>2. QED
      BY <2>5, <3>1, ApartOne
  <2>10. IgvmParams = (A \o m) \o I
    BY <2>1
  <2> DEFINE B == A \o m
             C == B \o I
  <2> HIDE DEF A, I
  <2>11. B \in Seq(Plain) /\ ToSet(B) = {a} \union ToSet(m)
    BY <2>7, <2>8, ConcatSeq, ConcatMembers
  <2>12. IgvmParams = C
    BY <2>10
  <2> HIDE DEF B
  <2>13. B \in Seq(Directive) /\ Apart(B, n) /\ Reach(B, n) = {}
    BY <2>11, ApartPlain
  <2>14. /\ C \in Seq(Directive) /\ Apart(C, n) /\ Reach(C, n) = Span(i, n)
         /\ ToSet(C) = ToSet(B) \union {i}
    <3>1. Reach(B, n) \intersect Reach(I, n) = {}
      BY <2>13
    <3>2. /\ C \in Seq(Directive) /\ Apart(C, n) /\ Reach(C, n) = Reach(B, n) \union Reach(I, n)
      BY <2>9, <2>13, <3>1, ApartConcat
    <3>3. ToSet(C) = ToSet(B) \union ToSet(I)
      BY <2>9, <2>13, ConcatMembers
    <3>4. QED
      BY <2>9, <2>13, <3>2, <3>3
  <2> HIDE DEF C
  <2>15. Span(i, n) \subseteq ParamCells(cfg)
    <3>1. PICK k \in RegionsOf(cfg.firmware, "IgvmParamArea") : cfg.firmware.regions[k] = area
      <4>1. \E k \in RegionsOf(cfg.firmware, "IgvmParamArea") :
               \A l \in RegionsOf(cfg.firmware, "IgvmParamArea") : k <= l
        <5> DEFINE R == RegionsOf(cfg.firmware, "IgvmParamArea")
        <5>1. R \subseteq Nat /\ R # {}
          BY <1>0, <1>2 DEF RegionsOf
        <5> HIDE DEF R
        <5>2. \E x \in R : \A y \in R : x <= y
          BY <5>1, LeastNumber
        <5>3. QED
          BY <5>2 DEF R
      <4>2. QED
        BY <4>1 DEF FirstRegion
    <3>2. ASSUME NEW x \in Span(i, n) PROVE x \in ParamCells(cfg)
      <4>1. PICK j \in 0..(DivCeil(n, PageSize) - 1) : x = i.gpa + j * PageSize
        BY <2>5 DEF Span
      <4>2. n \in Nat /\ n = area.size
        BY <2>2 DEF ParamSize
      <4>3. j * PageSize \in Nat /\ j * PageSize < n
        <5> HIDE DEF n
        <5>1. QED
          BY <4>2, PageBegins
      <4>4. x = area.base + j * PageSize
        BY <2>5, <4>1
      <4> DEFINE q == j * PageSize
                 b == area.base
                 z == area.size
      <4>5. x \in Nat /\ b <= x /\ x < b + z
        <5>1. q \in Nat /\ q < z /\ b \in Nat /\ z \in Nat /\ x = b + q
          BY <2>2, <4>2, <4>3, <4>4
        <5> HIDE DEF q, b, z
        <5>2. QED
          BY <5>1
      <4>6. QED
        BY <3>1, <4>5 DEF ParamCells
    <3>3. QED
      BY <3>2
  <2>16. \A d \in ToSet(C) : d = a \/ d = Blank \/ d = i
    BY <2>8, <2>11, <2>14
  <2> HIDE DEF n
  <2>17. /\ \A d \in ToSet(C) : d.kind # "page"
         /\ \A d \in ToSet(C) : d.kind = "insert" => Span(d, n) \subseteq ParamCells(cfg)
         /\ \A d \in ToSet(C) : d.kind = "area" => d.size = n
    BY <2>3, <2>4, <2>5, <2>15, <2>16
  <2>18. QED
    BY <2>12, <2>14, <2>15, <2>17 DEF Tidy, n
<1>3. QED
    BY <1>1, <1>2

LEMMA LowCopyRun ==
    ASSUME cfg \in Config, builder.platforms \in SUBSET Platforms
    PROVE  \E base \in Nat, size \in Nat : base + size <= Top1M /\ IsRun(LowCopy, base, size)
<1> DEFINE n == Len(Cells4G)
<1>1. n \in Nat /\ Cells4G \in Seq(Cells)
    BY ConfigIs, VarsBaseType DEF Cells4G
<1>2. CASE cfg.boot = "real16"
  <2> DEFINE b == Top1M - Low
             part == SubSeq(Cells4G, Len(Cells4G) - Low + 1, Len(Cells4G))
  <2>1. Low \in Nat /\ Low <= Top1M /\ Low <= n
    <3>1. Low = Least(LowMax, n)
      BY DEF Low, Cells4G
    <3> HIDE DEF n
    <3>2. QED
      BY <1>1, <3>1, Addresses DEF Least
  <2>2. b \in Nat /\ b + Low = Top1M
    BY <2>1, Addresses
  <2>3. part \in Seq(Cells)
    <3>1. n - Low + 1 \in Nat \ {0} /\ n \in Int /\ n <= Len(Cells4G)
      BY <1>1, <2>1
    <3>2. QED
      BY <1>1, <3>1, SubSeqType
  <2>4. LowCopy = DataPages(b, part, FALSE)
    BY <1>2 DEF LowCopy
  <2>5. Len(part) = Low
    <3>1. Len(SubSeq(Cells4G, n - Low + 1, n)) =
             IF n - Low + 1 <= n THEN n - (n - Low + 1) + 1 ELSE 0
      <4> DEFINE i == n - Low + 1
      <4>1. i \in Nat \ {0} /\ i \in 1..(n + 1) /\ n \in Nat
        BY <1>1, <2>1
      <4> HIDE DEF i
      <4>2. QED
        BY <1>1, <4>1, SubSeqProperties DEF i
    <3> HIDE DEF n
    <3>2. QED
      BY <1>1, <2>1, <3>1 DEF n
  <2> HIDE DEF b, part
  <2>6. IsRun(LowCopy, b, Low)
    BY <2>2, <2>3, <2>4, <2>5, DataPagesAre
  <2>7. b + Low <= Top1M
    BY <2>2, Addresses
  <2>8. QED
    BY <2>1, <2>2, <2>6, <2>7
<1>3. CASE cfg.boot # "real16"
  <2>1. LowCopy = <<>>
    BY <1>3 DEF LowCopy
  <2>2. DivCeil(0, PageSize) = 0
    BY MeasureAssumption DEF DivCeil
  <2>3. IsRun(<<>>, 0, 0)
    BY <2>2 DEF IsRun
  <2>4. 0 \in Nat /\ 0 + 0 <= Top1M
    BY Addresses
  <2>5. QED
    BY <2>1, <2>3, <2>4
<1>4. QED
    BY <1>2, <1>3

LEMMA AddedTidy ==
    ASSUME cfg \in Config, builder.platforms \in SUBSET Platforms
    PROVE  /\ Tidy(cfg, Added)
           /\ \A x \in Reach(Added, ParamSize(cfg)) :
                 x \in ParamCells(cfg) \/ x < Top1M \/ x >= VarsBase(cfg)
<1> DEFINE n == Len(Cells4G)
           v == VarsBase(cfg)
           m == Len(cfg.vars)
           top == Top4G - n
           s1 == IgvmParams \o LowCopy
           s2 == s1 \o Pages4G
           s3 == s2 \o VarsPages
<1>1. /\ v \in Nat /\ m \in Nat /\ n \in Nat
      /\ cfg.vars \in Seq(Cells) /\ Cells4G \in Seq(Cells)
      /\ n <= Top4G /\ v = top - m /\ m <= top
    BY ConfigIs, VarsBaseType DEF Cells4G
<1>2. top \in Nat /\ v + m = top /\ Top1M \in Nat
  <2> HIDE DEF n, v, m
  <2>1. QED
    BY <1>1, Addresses
<1>3. Top1M <= v
    BY Separated
<1>4. PICK lb \in Nat, ls \in Nat : lb + ls <= Top1M /\ IsRun(LowCopy, lb, ls)
    BY LowCopyRun
<1>5. IsRun(Pages4G, top, n) /\ IsRun(VarsPages, v, m)
  <2> HIDE DEF n, v, m, top
  <2>1. Pages4G = DataPages(top, Cells4G, FALSE) /\ VarsPages = DataPages(v, cfg.vars, FALSE)
    BY DEF Pages4G, VarsPages, n, v, top
  <2>2. v \in Nat /\ top \in Nat /\ FALSE \in BOOLEAN
    BY <1>1, <1>2
  <2>3. IsRun(Pages4G, top, Len(Cells4G))
    BY <1>1, <2>1, <2>2, DataPagesAre
  <2>4. IsRun(VarsPages, v, Len(cfg.vars))
    BY <1>1, <2>1, <2>2, DataPagesAre
  <2>5. QED
    BY <2>3, <2>4 DEF n, m
<1>6. /\ Tidy(cfg, IgvmParams) /\ \A d \in ToSet(IgvmParams) : d.kind # "page"
      /\ Reach(IgvmParams, ParamSize(cfg)) \subseteq ParamCells(cfg)
    BY ParamsTidy
<1>7. \A x \in ParamCells(cfg) : x \in Nat /\ Top1M <= x /\ x < v
    BY ParamsWithin
<1>8. Added = s3
    BY DEF Added
<1> HIDE DEF n, v, m, top
<1>9. /\ \A d \in ToSet(LowCopy) : d.kind = "page" /\ d.gpa \in Nat /\ d.gpa < Top1M
      /\ \A d \in ToSet(Pages4G) : d.kind = "page" /\ d.gpa \in Nat /\ top <= d.gpa
      /\ \A d \in ToSet(VarsPages) : d.kind = "page" /\ d.gpa \in Nat /\ v <= d.gpa
  <2>1. \A d \in ToSet(LowCopy) :
           d.kind = "page" /\ d.gpa \in Nat /\ lb <= d.gpa /\ d.gpa < lb + ls
    BY <1>4, RunMembers
  <2>2. QED
    BY <1>1, <1>2, <1>4, <1>5, <2>1, RunMembers
<1>10. /\ IgvmParams \in Seq(Directive) /\ LowCopy \in Seq(Directive)
       /\ Pages4G \in Seq(Directive) /\ VarsPages \in Seq(Directive)
    BY <1>4, <1>5, <1>6 DEF IsRun, Tidy
<1>11. Tidy(cfg, s1) /\ s1 \in Seq(Directive) /\ ToSet(s1) = ToSet(IgvmParams) \union ToSet(LowCopy)
  <2>1. \A x \in ParamCells(cfg) : x < lb \/ x >= lb + ls
    BY <1>2, <1>4, <1>7
  <2>2. \A d \in ToSet(IgvmParams) : d.kind = "page" => d.gpa < lb \/ d.gpa >= lb + ls
    BY <1>6
  <2>3. Tidy(cfg, s1)
    BY <1>4, <1>6, <2>1, <2>2, TidyAppend
  <2>4. QED
    BY <1>10, <2>3, ConcatSeq, ConcatMembers
<1> HIDE DEF s1
<1>12. Tidy(cfg, s2) /\ s2 \in Seq(Directive) /\ ToSet(s2) = ToSet(s1) \union ToSet(Pages4G)
  <2>1. \A x \in ParamCells(cfg) : x < top \/ x >= top + n
    BY <1>1, <1>2, <1>7
  <2>2. \A d \in ToSet(s1) : d.kind = "page" => d.gpa < top \/ d.gpa >= top + n
    BY <1>1, <1>2, <1>3, <1>6, <1>9, <1>11
  <2>3. Tidy(cfg, s2)
    BY <1>1, <1>2, <1>5, <1>11, <2>1, <2>2, TidyAppend
  <2>4. QED
    BY <1>10, <1>11, <2>3, ConcatSeq, ConcatMembers
<1> HIDE DEF s2
<1>13. Tidy(cfg, s3) /\ s3 \in Seq(Directive) /\ ToSet(s3) = ToSet(s2) \union ToSet(VarsPages)
  <2>1. \A x \in ParamCells(cfg) : x < v \/ x >= v + m
    BY <1>7
  <2>2. \A d \in ToSet(s2) : d.kind = "page" => d.gpa < v \/ d.gpa >= v + m
    BY <1>1, <1>2, <1>3, <1>6, <1>9, <1>11, <1>12
  <2>3. Tidy(cfg, s3)
    BY <1>1, <1>5, <1>12, <2>1, <2>2, TidyAppend
  <2>4. QED
    BY <1>10, <1>12, <2>3, ConcatSeq, ConcatMembers
<1> HIDE DEF s3
<1>14. ASSUME NEW x \in Reach(s3, ParamSize(cfg))
       PROVE  x \in ParamCells(cfg) \/ x < Top1M \/ x >= v
  <2>1. PICK d \in ToSet(s3) : x \in Span(d, ParamSize(cfg))
    BY <1>14 DEF Reach
  <2>2. CASE d \in ToSet(IgvmParams)
    BY <1>6, <2>1, <2>2 DEF Reach
  <2>3. CASE d \in ToSet(LowCopy) \union (ToSet(Pages4G) \union ToSet(VarsPages))
    <3>1. d.kind = "page"
      BY <1>9, <2>3
    <3>2. x = d.gpa
      BY <2>1, <3>1 DEF Span
    <3>3. QED
      BY <1>1, <1>2, <1>9, <2>3, <3>2
  <2>4. QED
    BY <1>11, <1>12, <1>13, <2>2, <2>3
<1>15. QED
    BY <1>8, <1>13, <1>14 DEF v

\* Nothing of the parameter areas is in the way of the HOB list or of a blob.
LEMMA BlobsClear ==
    ASSUME NEW c \in Config, NEW x \in ParamCells(c)
    PROVE  /\ \A t \in DOMAIN c.blobs :
                 x < BlobAddr(c, t) \/ x >= BlobAddr(c, t) + Len(c.blobs[t])
           /\ \A l \in RegionsOf(c.firmware, "IgvmHobArea") :
                 x < c.firmware.regions[l].base
                 \/ x >= c.firmware.regions[l].base + Len(Hobs(c))
<1>0. IsBuildConfig(c)
    BY LaunchAssumption
<1>1. PICK k \in RegionsOf(c.firmware, "IgvmParamArea") :
         /\ c.firmware.regions[k].base <= x
         /\ x < c.firmware.regions[k].base + c.firmware.regions[k].size
    BY DEF ParamCells
<1> DEFINE b == c.firmware.regions[k].base
           z == c.firmware.regions[k].size
<1>2. x \in Nat /\ b <= x /\ x < b + z
    BY <1>1 DEF ParamCells
<1>3. k \in 1..Len(c.firmware.regions) /\ c.firmware.regions[k].type = "IgvmParamArea"
    BY DEF RegionsOf
<1>4. b \in Nat /\ z \in Nat
    BY <1>0, <1>3, RegionAt DEF Region
<1>5. b + z <= BlobBase \/ BlobEnd(c)[6] <= b
    BY <1>3, Separated, BlobTypesList
<1>6. ASSUME NEW t \in DOMAIN c.blobs
      PROVE  x < BlobAddr(c, t) \/ x >= BlobAddr(c, t) + Len(c.blobs[t])
  <2> DEFINE a == BlobAddr(c, t)
             e == Len(c.blobs[t])
             last == BlobEnd(c)[6]
  <2>1. a \in Nat /\ e \in Nat /\ last \in Nat /\ a + e <= last /\ BlobBase <= a
    BY <1>0, BlobPlace
  <2>2. b + z <= BlobBase \/ last <= b
    BY <1>5
  <2> HIDE DEF a, e, b, z, last
  <2>3. x < a \/ x >= a + e
    BY <1>2, <1>4, <2>1, <2>2, Addresses
  <2>4. QED
    BY <2>3 DEF a, e
<1>7. ASSUME NEW l \in RegionsOf(c.firmware, "IgvmHobArea")
      PROVE  x < c.firmware.regions[l].base \/ x >= c.firmware.regions[l].base + Len(Hobs(c))
  <2> DEFINE hb == c.firmware.regions[l].base
             hz == c.firmware.regions[l].size
             e == Len(Hobs(c))
  <2>1. l \in 1..Len(c.firmware.regions) /\ c.firmware.regions[l].type = "IgvmHobArea"
    BY DEF RegionsOf
  <2>2. hb \in Nat /\ hz \in Nat
    BY <1>0, <2>1, RegionAt DEF Region
  <2>3. Hobs(c) \in Seq(Cells)
    BY CellsAssumption
  <2>4. e \in Nat /\ e <= hz
    BY <2>1, <2>3, Separated, SeqFacts
  <2>5. Clear(b, z, hb, hz)
    BY <1>3, <2>1, Separated
  <2> HIDE DEF b, z, hb, hz, e
  <2>6. x < hb \/ x >= hb + e
    BY <1>2, <1>4, <2>2, <2>4, <2>5 DEF Clear
  <2>7. QED
    BY <2>6 DEF hb, e
<1>8. QED
    BY <1>6, <1>7

LEMMA HobTidy ==
    ASSUME cfg \in Config, StateInv, RegionsOf(cfg.firmware, "IgvmHobArea") # {},
           Tidy(cfg, builder.directives)
    PROVE  Tidy(cfg, PlaceBlobs(Cleared \o HobPages))
<1> DEFINE hob == FirstRegion(cfg.firmware, "IgvmHobArea")
           ds == Cleared \o HobPages
           V == {s \in Seq(Directive) : Tidy(cfg, s)}
           e == Len(Hobs(cfg))
<1>0. IsBuildConfig(cfg) /\ Hobs(cfg) \in Seq(Cells)
    BY ConfigIs
<1>1. PICK l \in RegionsOf(cfg.firmware, "IgvmHobArea") : cfg.firmware.regions[l] = hob
  <2>1. hob \in ToSet(cfg.firmware.regions) /\ hob.type = "IgvmHobArea"
    BY <1>0, FirstRegionType
  <2>2. cfg.firmware.regions \in Seq(Region)
    BY <1>0 DEF IsBuildConfig, Firmware
  <2> HIDE DEF hob
  <2>3. \E k \in 1..Len(cfg.firmware.regions) : cfg.firmware.regions[k] = hob
    BY <2>1, <2>2, SeqMember
  <2>4. QED
    BY <2>1, <2>3 DEF RegionsOf
<1>2. hob.base \in Nat /\ hob.size \in Nat
    BY <1>0, FirstRegionType DEF Region
<1>3. e \in Nat /\ e <= hob.size
  <2>1. l \in 1..Len(cfg.firmware.regions) /\ cfg.firmware.regions[l].type = "IgvmHobArea"
    BY DEF RegionsOf
  <2>2. QED
    BY <1>0, <1>1, <2>1, Separated, SeqFacts
<1>4. builder.platforms \in SUBSET Platforms
    BY BuilderParts
<1>5. \A x \in ParamCells(cfg) : x < hob.base \/ x >= hob.base + e
    BY <1>1, BlobsClear
<1>6. IsRun(HobPages, hob.base, e)
    BY <1>0, <1>2, <1>4, DataPagesAre DEF HobPages
<1>7. ds = RemovePageDataInRange(builder.directives, hob.base, hob.size) \o HobPages
    BY DEF Cleared
<1> HIDE DEF hob, e, ds
<1>8. Tidy(cfg, ds)
    BY <1>2, <1>3, <1>5, <1>6, <1>7, TidyPut
<1>9. ASSUME NEW s \in V, NEW t \in DOMAIN cfg.blobs PROVE PlaceBlob(s, t) \in V
  <2> DEFINE a == BlobAddr(cfg, t)
             b == cfg.blobs[t]
             p == DataPages(a, b, ~IsMeasured(t))
  <2>1. a \in Nat /\ b \in Seq(Cells) /\ Len(b) \in Nat
    BY <1>0, BlobPlace
  <2>2. \A x \in ParamCells(cfg) : x < a \/ x >= a + Len(b)
    BY BlobsClear
  <2>3. PlaceBlob(s, t) = RemovePageDataInRange(s, a, Len(b)) \o p
    BY DEF PlaceBlob
  <2>4. (~IsMeasured(t)) \in BOOLEAN
    BY DEF IsMeasured
  <2> HIDE DEF a, b
  <2>5. IsRun(p, a, Len(b))
    BY <1>4, <2>1, <2>4, DataPagesAre
  <2> HIDE DEF p
  <2>6. Tidy(cfg, PlaceBlob(s, t))
    BY <2>1, <2>2, <2>3, <2>5, TidyPut
  <2>7. QED
    BY <2>6 DEF Tidy
<1>10. ds \in V
    BY <1>8 DEF Tidy
<1> HIDE DEF V
<1>11. PlaceBlobs(ds) \in V
    BY <1>9, <1>10, PlacedKeeps
<1>12. QED
    BY <1>11 DEF V, ds

\* Where the pages are while a file is put together, and in every file built.
CoverInv ==
    /\ pc = "params" =>
          /\ Tidy(cfg, builder.directives)
          /\ \A x \in Reach(builder.directives, ParamSize(cfg)) :
                x \in Nat /\ Top1M <= x /\ x < VarsBase(cfg) /\ x \notin ParamCells(cfg)
    /\ pc \in {"hob", "finalize"} => Tidy(cfg, builder.directives)
    /\ pc = "measure" => Tidy(cfg, Dirs)
    /\ \A r \in ToSet(results) : r.ok =>
          Tidy(r.cfg, r.file.directives) /\ Defined(ToSet(r.file.directives))

LEMMA InitPages == Init => CoverInv
<1> SUFFICES ASSUME Init PROVE CoverInv
    OBVIOUS
<1>1. results = <<>> /\ pc \in {"idle", "measure_only"}
    BY DEF Init
<1>2. ToSet(results) = {}
    BY <1>1 DEF ToSet
<1>3. QED
    BY <1>1, <1>2 DEF CoverInv

LEMMA AddPlatformsPages == ImageInv /\ CoverInv /\ AddPlatforms => CoverInv'
<1> SUFFICES ASSUME ImageInv, CoverInv, AddPlatforms PROVE CoverInv'
    OBVIOUS
<1>1. cfg \in Config /\ cfg' = cfg /\ pc' = "params" /\ results' = results
    BY DEF ImageInv, StateInv, AddPlatforms, Building, Goto
<1>2. builder'.directives = Started
  <2>1. builder' = [platforms |-> cfg.platform, directives |-> Started]
    BY AddPlatformsIs
  <2>2. QED
    BY <2>1
<1>3. /\ Tidy(cfg, Started)
      /\ \A x \in Reach(Started, ParamSize(cfg)) :
            x \in Nat /\ Top1M <= x /\ x < VarsBase(cfg) /\ x \notin ParamCells(cfg)
    BY <1>1, StartedTidy
<1>4. QED
    BY <1>1, <1>2, <1>3 DEF CoverInv

LEMMA AddParamsPages == ImageInv /\ CoverInv /\ AddParamsAndFirmware => CoverInv'
<1> SUFFICES ASSUME ImageInv, CoverInv, AddParamsAndFirmware PROVE CoverInv'
    OBVIOUS
<1> DEFINE ds == builder.directives
           n == ParamSize(cfg)
<1>1. /\ cfg \in Config /\ cfg' = cfg /\ pc' = "hob" /\ pc = "params" /\ StateInv
      /\ results' = results
    BY DEF ImageInv, StateInv, AddParamsAndFirmware, Building, Goto
<1>2. builder.platforms \in SUBSET Platforms /\ ds \in Seq(Directive)
    BY <1>1, BuilderParts
<1>3. /\ Tidy(cfg, ds)
      /\ \A x \in Reach(ds, n) :
            x \in Nat /\ Top1M <= x /\ x < VarsBase(cfg) /\ x \notin ParamCells(cfg)
    BY <1>1 DEF CoverInv
<1>4. /\ Tidy(cfg, Added)
      /\ \A x \in Reach(Added, n) : x \in ParamCells(cfg) \/ x < Top1M \/ x >= VarsBase(cfg)
    BY <1>1, <1>2, AddedTidy
<1>5. Reach(ds, n) \intersect Reach(Added, n) = {}
  <2>1. Top1M \in Nat /\ VarsBase(cfg) \in Nat
    BY <1>1, ConfigIs, VarsBaseType, Addresses
  <2>2. QED
    BY <1>3, <1>4, <2>1
<1>6. Tidy(cfg, ds \o Added)
    BY <1>3, <1>4, <1>5, TidyConcat
<1>7. builder'.directives = ds \o Added
  <2>1. builder' = [builder EXCEPT !.directives = ds \o Added]
    BY <1>1, AddParamsIs
  <2>2. ds \o Added \in Seq(Directive)
    BY <1>6 DEF Tidy
  <2>3. QED
    BY <1>1, <2>1, <2>2, NewDirectives
<1>8. QED
    BY <1>1, <1>6, <1>7 DEF CoverInv

LEMMA AddHobPages == ImageInv /\ CoverInv /\ AddHobData => CoverInv'
<1> SUFFICES ASSUME ImageInv, CoverInv, AddHobData PROVE CoverInv'
    OBVIOUS
<1>1. /\ cfg \in Config /\ cfg' = cfg /\ pc' = "finalize" /\ pc = "hob" /\ StateInv
      /\ results' = results
    BY DEF ImageInv, StateInv, AddHobData, Building, Goto
<1>2. Tidy(cfg, builder.directives)
    BY <1>1 DEF CoverInv
<1>3. Tidy(cfg, builder'.directives)
  <2>1. CASE DOMAIN cfg.blobs = {}
    BY <1>2, <2>1, AddHobIs
  <2>2. CASE DOMAIN cfg.blobs # {}
    <3>1. builder' = [builder EXCEPT !.directives = PlaceBlobs(Cleared \o HobPages)]
      BY <2>2, AddHobIs
    <3>2. RegionsOf(cfg.firmware, "IgvmHobArea") # {}
      BY <2>2 DEF AddHobData
    <3>3. Tidy(cfg, PlaceBlobs(Cleared \o HobPages))
      BY <1>1, <1>2, <3>2, HobTidy
    <3>4. PlaceBlobs(Cleared \o HobPages) \in Seq(Directive)
      BY <1>1, <3>2, HobType
    <3>5. builder'.directives = PlaceBlobs(Cleared \o HobPages)
      BY <1>1, <3>1, <3>4, NewDirectives
    <3>6. QED
      BY <3>3, <3>5
  <2>3. QED
    BY <2>1, <2>2
<1>4. QED
    BY <1>1, <1>3 DEF CoverInv

LEMMA TidySorted ==
    ASSUME NEW c, NEW s, Tidy(c, s)
    PROVE  Tidy(c, Sorted(s))
<1> DEFINE n == ParamSize(c)
           t == Sorted(s)
<1>1. s \in Seq(Directive) /\ Apart(s, n)
    BY DEF Tidy
<1> HIDE DEF n
<1>2. t \in Seq(Directive) /\ ToSet(t) = ToSet(s) /\ Apart(t, n)
    BY <1>1, SortedMembers, ApartSorted
<1> HIDE DEF t
<1>3. QED
    BY <1>2 DEF Tidy, n, t

LEMMA FinalizePages == ImageInv /\ CoverInv /\ Finalize => CoverInv'
<1> SUFFICES ASSUME ImageInv, CoverInv, Finalize PROVE CoverInv'
    OBVIOUS
<1>1. cfg' = cfg /\ pc' = "measure" /\ results' = results
    BY DEF Finalize, Goto, buildVars
<1>2. Tidy(cfg, builder.directives)
    BY DEF CoverInv, Finalize
<1>3. Dirs' = Sorted(builder.directives)
    BY DEF Finalize, Measure, Dirs
<1>4. QED
    BY <1>1, <1>2, <1>3, TidySorted DEF CoverInv

LEMMA BuiltPages == ImageInv /\ OutcomeInv /\ CoverInv /\ Built => CoverInv'
<1> SUFFICES ASSUME ImageInv, OutcomeInv, CoverInv, Built PROVE CoverInv'
    OBVIOUS
<1>1. pc = "measure" /\ pc' = "idle"
    BY DEF Built, Finish, Goto
<1>2. Tidy(cfg, Dirs) /\ Defined(ToSet(Dirs))
    BY <1>1 DEF CoverInv, OutcomeInv, MeasuredInv
<1>3. PICK r : /\ ToSet(results') = ToSet(results) \union {r}
               /\ r.cfg = cfg /\ (r.ok => r.file = file /\ r.digest = ld)
    BY BuiltType
<1>4. r.ok => Tidy(r.cfg, r.file.directives) /\ Defined(ToSet(r.file.directives))
    BY <1>2, <1>3 DEF Dirs
<1>5. QED
    BY <1>1, <1>3, <1>4 DEF CoverInv

LEMMA FailPages ==
    ASSUME ImageInv, CoverInv, NoResetAddr \/ TooManyVps \/ NoHobArea \/ FinalizeFails
    PROVE  CoverInv'
<1> DEFINE r == [cfg |-> cfg, ok |-> FALSE, file |-> NoFile, digest |-> <<>>]
<1>1. ToSet(results') = ToSet(results) \union {r}
    BY FailType
<1>2. r.ok = FALSE
    OBVIOUS
<1> HIDE DEF r
<1>3. pc' = "idle"
    BY DEF NoResetAddr, TooManyVps, NoHobArea, FinalizeFails, Finish, Goto
<1>4. QED
    BY <1>1, <1>2, <1>3 DEF CoverInv

LEMMA StepPages == ImageInv /\ OutcomeInv /\ CoverInv /\ [Next]_vars => CoverInv'
<1> SUFFICES ASSUME ImageInv, OutcomeInv, CoverInv, [Next]_vars PROVE CoverInv'
    OBVIOUS
<1>1. CASE UNCHANGED vars
    BY <1>1 DEF vars, imageVars, buildVars, measureVars, CoverInv, Dirs
<1>2. CASE MeasureLoop
  <2>1. UNCHANGED <<pc, cfg, builder, results>> /\ MeasureStep
    BY <1>2 DEF MeasureLoop, imageVars, buildVars
  <2>2. file' = file
    BY <2>1 DEF MeasureStep, FindSnpCompat, BatchPage, CollectVmsa, MeasureInsert, UnknownArea,
                SkipDirective, FlushRest, MeasureVmsaPages
  <2>3. QED
    BY <2>1, <2>2 DEF CoverInv, Dirs
<1>3. CASE StartBuild \/ Launch \/ Attest \/ VerifyIgvmMeasurement \/ VerifyImageRoothash
         \/ ReplaceFile
  <2>1. results' = results /\ pc' \notin {"params", "hob", "finalize", "measure"}
    BY <1>3 DEF StartBuild, Launch, Attest, VerifyIgvmMeasurement, VerifyImageRoothash, ReplaceFile,
           Goto
  <2>2. QED
    BY <2>1 DEF CoverInv
<1>4. QED
    BY <1>1, <1>2, <1>3, AddPlatformsPages, AddParamsPages, AddHobPages, FailPages,
       FinalizePages, BuiltPages DEF Next

\* What a directive covers on SNP is inside its span.
LEMMA CoveredSpan ==
    ASSUME NEW c, NEW f, Tidy(c, f.directives), Defined(ToSet(f.directives)),
           NEW i \in 1..Len(f.directives)
    PROVE  Covered(f, i) \subseteq Span(f.directives[i], ParamSize(c))
<1> DEFINE ds == f.directives
           d == ds[i]
           n == ParamSize(c)
           area == CHOOSE a \in ToSet(f.directives) : a.kind = "area"
<1>1. ds \in Seq(Directive)
    BY DEF Tidy
<1>2. d \in ToSet(ds)
    BY <1>1, SeqMember
<1>3. CASE ForSnp(d) /\ d.kind = "insert"
  <2>1. \E a \in ToSet(ds) : a.kind = "area"
    BY <1>2, <1>3 DEF Defined
  <2>2. area \in ToSet(ds) /\ area.kind = "area"
    BY <2>1
  <2>3. area.size = n
    BY <2>2 DEF Tidy
  <2>4. Covered(f, i) = {d.gpa + k * PageSize : k \in 0..(DivCeil(area.size, PageSize) - 1)}
    BY <1>3 DEF Covered
  <2>5. Span(d, n) = {d.gpa + k * PageSize : k \in 0..(DivCeil(n, PageSize) - 1)}
    BY <1>3 DEF Span
  <2> HIDE DEF area, d, n
  <2>6. Covered(f, i) = Span(d, n)
    BY <2>3, <2>4, <2>5
  <2>7. QED
    BY <2>6 DEF d, n
<1>4. CASE ~(ForSnp(d) /\ d.kind = "insert")
  <2>1. Covered(f, i) = IF ForSnp(d) /\ d.kind = "page" THEN {d.gpa} ELSE {}
    BY <1>4 DEF Covered
  <2>2. QED
    BY <2>1 DEF Span
<1>5. QED
    BY <1>3, <1>4

\* For every configuration whose firmware keeps its regions apart: firmware, low
\* copy, the metadata's pages, parameters, HOB list and blobs never cover the same
\* guest page on SNP (build.rs: add_ovmf_snp, add_hob_data; builder.rs).
THEOREM EachPageCoveredOnce == Spec => []EveryPageOnce
<1>1. CoverInv => EveryPageOnce
  <2> SUFFICES ASSUME CoverInv, NEW r \in ToSet(results), r.ok,
                      NEW i \in 1..Len(r.file.directives), NEW j \in 1..Len(r.file.directives),
                      i # j
               PROVE  Covered(r.file, i) \intersect Covered(r.file, j) = {}
    BY DEF EveryPageOnce
  <2> DEFINE f == r.file
             n == ParamSize(r.cfg)
  <2>1. Tidy(r.cfg, f.directives) /\ Defined(ToSet(f.directives))
    BY DEF CoverInv
  <2>2. Span(f.directives[i], n) \intersect Span(f.directives[j], n) = {}
    BY <2>1 DEF Tidy, Apart
  <2>3. /\ Covered(f, i) \subseteq Span(f.directives[i], n)
        /\ Covered(f, j) \subseteq Span(f.directives[j], n)
    BY <2>1, CoveredSpan
  <2>4. QED
    BY <2>2, <2>3
<1>2. QED
    BY ImageInvariant, InitOutcome, StepOutcome, InitPages, StepPages, <1>1, PTL DEF Spec

-----------------------------------------------------------------------------
(* Data in pages *)

\* What the j-th page of data holds.
Piece(data, j) ==
    SubSeq(data, (j - 1) * PageSize + 1, Least(j * PageSize, Len(data)))

LEMMA PieceIs ==
    ASSUME NEW S, NEW data \in Seq(S), NEW j \in 1..DivCeil(Len(data), PageSize)
    PROVE  /\ Piece(data, j) \in Seq(S) /\ Len(Piece(data, j)) \in 1..PageSize
           /\ (j - 1) * PageSize \in Nat
           /\ Len(Piece(data, j)) = Least(j * PageSize, Len(data)) - (j - 1) * PageSize
           /\ j * PageSize = (j - 1) * PageSize + PageSize
           /\ \A i \in 1..Len(Piece(data, j)) :
                 /\ (j - 1) * PageSize + i \in 1..Len(data)
                 /\ Piece(data, j)[i] = data[(j - 1) * PageSize + i]
<1> DEFINE P == PageSize
           n == Len(data)
           d == DivCeil(n, P)
           q == (j - 1) * P
           m == Least(j * P, n)
           s == Piece(data, j)
<1>1. P \in Nat \ {0} /\ n \in Nat
    BY MeasureAssumption, SeqFacts
<1>2. d \in Nat
    BY <1>1, PagesCover
<1>3. j - 1 \in 0..(d - 1) /\ j \in Nat /\ j - 1 \in Nat
  <2> HIDE DEF d
  <2>1. j \in 1..d
    BY DEF d
  <2>2. QED
    BY <1>2, <2>1
<1>4. q \in Nat /\ q < n
  <2> HIDE DEF n
  <2>1. QED
    BY <1>1, <1>3, PageBegins
<1>5. j * P = q + P
  <2> DEFINE e == j - 1
  <2>1. e \in Nat /\ j = e + 1
    BY <1>3
  <2> HIDE DEF e, P
  <2>2. (e + 1) * P = e * P + P
    BY <1>1, <2>1
  <2>3. QED
    BY <2>1, <2>2 DEF e
<1> HIDE DEF q, d, P
<1>6. m \in Nat /\ m <= n /\ q < m /\ m <= q + P
  <2> HIDE DEF n
  <2>1. m = Least(q + P, n)
    BY <1>5
  <2>2. QED
    BY <1>1, <1>4, <2>1 DEF Least
<1>7. s = SubSeq(data, q + 1, m)
    BY DEF Piece, q, P
<1> HIDE DEF s, m
<1>8. /\ s \in Seq(S) /\ Len(s) = m - q
      /\ \A i \in 1..(m - q) : s[i] = data[q + i]
  <2> DEFINE a == q + 1
  <2>1. a \in Int /\ m \in Int /\ a <= m /\ a >= 1 /\ m - a + 1 = m - q
    BY <1>4, <1>6
  <2>2. \A i \in a..m : data[i] \in S
    <3>1. \A i \in a..m : i \in 1..n
      BY <1>1, <1>6, <2>1
    <3>2. QED
      BY <3>1, SeqFacts
  <2> HIDE DEF a
  <2>3. /\ SubSeq(data, a, m) \in Seq(S)
        /\ Len(SubSeq(data, a, m)) = m - q
        /\ \A i \in 1..(m - q) : SubSeq(data, a, m)[i] = data[a + i - 1]
    BY <2>1, <2>2, SubSeqProperties
  <2>4. \A i \in 1..(m - q) : a + i - 1 = q + i
    BY <1>4, <1>6 DEF a
  <2>5. QED
    BY <1>7, <2>3, <2>4 DEF a
<1>9. Len(s) \in 1..P /\ \A i \in 1..Len(s) : q + i \in 1..n
  <2> HIDE DEF n
  <2>1. QED
    BY <1>1, <1>4, <1>6, <1>8
<1>10. QED
    BY <1>4, <1>5, <1>8, <1>9 DEF s, q, m, n, P

\* Every position of data is in a page.
LEMMA PieceOf ==
    ASSUME NEW S, NEW data \in Seq(S), NEW x \in 1..Len(data)
    PROVE  \E j \in 1..DivCeil(Len(data), PageSize) :
              \E i \in 1..Len(Piece(data, j)) : x = (j - 1) * PageSize + i
<1> DEFINE P == PageSize
           n == Len(data)
           d == DivCeil(n, P)
           e == (x - 1) \div P
           r == (x - 1) % P
<1>1. P \in Nat \ {0} /\ n \in Nat
    BY MeasureAssumption, SeqFacts
<1>2. d \in Nat /\ n <= d * P /\ d * P \in Nat
    BY <1>1, PagesCover
<1>3. x \in Nat /\ x >= 1 /\ x <= n
    BY <1>1
<1> HIDE DEF n, d, P
<1>4. e \in Nat /\ r \in Nat /\ r < P /\ x - 1 = e * P + r /\ e * P \in Nat
  <2>1. x - 1 \in Nat
    BY <1>3
  <2>2. QED
    BY <1>1, <2>1
<1> HIDE DEF e, r
<1>5. e < d
  <2> SUFFICES ASSUME ~(e < d) PROVE FALSE
    OBVIOUS
  <2>1. PICK k \in Nat : e = d + k
    <3>1. e = d + (e - d) /\ e - d \in Nat
      BY <1>2, <1>4
    <3>2. QED
      BY <3>1
  <2>2. e * P = d * P + k * P /\ k * P \in Nat
    BY <1>1, <1>2, <2>1
  <2> DEFINE a == e * P
             b == d * P
             c == k * P
  <2>3. a \in Nat /\ b \in Nat /\ c \in Nat /\ a = b + c /\ n <= b /\ x - 1 = a + r
    BY <1>2, <1>4, <2>2
  <2> HIDE DEF a, b, c
  <2>4. QED
    BY <1>1, <1>3, <1>4, <2>3
<1> DEFINE j == e + 1
           i == r + 1
<1>6. j \in 1..d /\ j - 1 = e /\ i \in Nat
    BY <1>2, <1>4, <1>5
<1> HIDE DEF j
<1>7. /\ Len(Piece(data, j)) = Least(j * P, n) - (j - 1) * P
      /\ j * P = (j - 1) * P + P
  <2>1. j \in 1..DivCeil(Len(data), PageSize)
    BY <1>6 DEF d, n, P
  <2>2. QED
    BY <2>1, PieceIs DEF n, P
<1>8. i \in 1..Len(Piece(data, j)) /\ x = (j - 1) * P + i
  <2>1. (j - 1) * P = e * P
    BY <1>6
  <2> DEFINE q == e * P
  <2>2. Len(Piece(data, j)) = Least(q + P, n) - q /\ q \in Nat /\ x = q + i
    BY <1>3, <1>4, <1>7, <2>1
  <2> HIDE DEF q
  <2>3. i \in 1..Len(Piece(data, j))
    BY <1>1, <1>3, <1>4, <2>2 DEF Least
  <2>4. QED
    BY <2>1, <2>2, <2>3 DEF q
<1>9. QED
    BY <1>6, <1>8 DEF d, n, P

\* c holds the q cells of a and, behind them, the P cells of b.
Joins(c, a, b, q, P) ==
    /\ Len(c) = q + P
    /\ \A x \in 1..q : c[x] = a[x]
    /\ \A i \in 1..P : c[q + i] = b[i]

\* A concatenation, by the lengths of its two parts.
LEMMA JoinedPages ==
    ASSUME NEW S, NEW a \in Seq(S), NEW b \in Seq(S), NEW q, Len(a) = q, NEW P, Len(b) = P
    PROVE  a \o b \in Seq(S) /\ Joins(a \o b, a, b, q, P)
<1>1. a \o b \in Seq(S)
    OBVIOUS
<1>2. Len(a \o b) = q + P
    OBVIOUS
<1>3. \A x \in 1..q : (a \o b)[x] = a[x]
    OBVIOUS
<1>4. \A i \in 1..P : (a \o b)[q + i] = b[i]
    OBVIOUS
<1>5. QED
    BY <1>1, <1>2, <1>3, <1>4 DEF Joins

\* The position of the i-th cell of the k-th page.
Slot(P, k, i) == (k - 1) * P + i

\* out is the pages, one behind the other.
Tiled(out, pages, P) ==
    \A k \in 1..Len(pages) : \A i \in 1..P :
        Slot(P, k, i) \in 1..Len(out) /\ out[Slot(P, k, i)] = pages[k][i]

LEMMA FlattenPages ==
    ASSUME NEW S, NEW seqs \in Seq(Seq(S)), NEW P \in Nat \ {0},
           \A k \in 1..Len(seqs) : Len(seqs[k]) = P
    PROVE  /\ FlattenSeq(seqs) \in Seq(S) /\ Len(FlattenSeq(seqs)) = Len(seqs) * P
           /\ Tiled(FlattenSeq(seqs), seqs, P)
<1> DEFINE m == Len(seqs)
<1>1. m \in Nat /\ \A k \in 1..m : seqs[k] \in Seq(S)
    BY SeqFacts
<1>2. CASE m = 0
  <2>1. seqs = <<>>
      BY <1>2
  <2>2. FlattenSeq(seqs) = <<>>
      BY <1>2, <2>1 DEF FlattenSeq
  <2>3. 0 * P = 0
      OBVIOUS
  <2>4. QED
      BY <1>2, <2>2, <2>3 DEF Tiled
<1>3. CASE m # 0
  <2> DEFINE f == CHOOSE f : IsFlattened(f, seqs)
             Good(k) == /\ f[k] \in Seq(S) /\ Len(f[k]) = k * P
                        /\ \A l \in 1..k : \A i \in 1..P :
                              /\ (l - 1) * P + i \in 1..Len(f[k])
                              /\ f[k][(l - 1) * P + i] = seqs[l][i]
  <2>1. IsFlattened(f, seqs)
      BY <1>3, FlattenedExists
  <2>2. FlattenSeq(seqs) = f[m]
      BY <1>3 DEF FlattenSeq, IsFlattened
  <2> HIDE DEF f
  <2>3. \A i \in 1..m : f[i] = IF i = 1 THEN seqs[i] ELSE f[i - 1] \o seqs[i]
      BY <2>1 DEF IsFlattened
  <2> DEFINE T == {k \in 0..m : k = 0 \/ Good(k)}
  <2>4. 0 \in T
      BY <1>1
  <2>5. ASSUME NEW k \in 1..m, k - 1 \in T PROVE k \in T
    <3>1. seqs[k] \in Seq(S) /\ Len(seqs[k]) = P /\ k \in 0..m
        BY <1>1
    <3>2. CASE k = 1
      <4>1. f[k] = seqs[k]
          BY <2>3, <3>2
      <4>2. k * P = P /\ \A l \in 1..k : l = 1 /\ \A i \in 1..P : (l - 1) * P + i = i
          BY <3>2
      <4>3. Good(k)
          BY <3>1, <3>2, <4>1, <4>2
      <4>4. QED
          BY <3>1, <4>3
    <3>3. CASE k # 1
      <4> DEFINE g == f[k - 1]
                 e == k - 1
                 q == e * P
      <4>1. f[k] = g \o seqs[k]
          BY <2>3, <3>3
      <4>2. e # 0 /\ e \in Nat /\ k = e + 1
          BY <1>1, <3>3
      <4>3. Good(k - 1)
          BY <2>5, <4>2
      <4>4. /\ g \in Seq(S) /\ Len(g) = q
            /\ \A l \in 1..e : \A i \in 1..P :
                  (l - 1) * P + i \in 1..q /\ g[(l - 1) * P + i] = seqs[l][i]
          BY <4>3
      <4>5. q \in Nat /\ k * P = q + P
          BY <4>2
      <4> HIDE DEF g, q
      <4>6. /\ g \o seqs[k] \in Seq(S) /\ Len(g \o seqs[k]) = q + P
            /\ \A x \in 1..q : (g \o seqs[k])[x] = g[x]
            /\ \A i \in 1..P : (g \o seqs[k])[q + i] = seqs[k][i]
        <5>1. seqs[k] \in Seq(S) /\ Len(seqs[k]) = P /\ g \in Seq(S) /\ Len(g) = q
            BY <3>1, <4>4
        <5>2. g \o seqs[k] \in Seq(S) /\ Joins(g \o seqs[k], g, seqs[k], q, P)
            BY <5>1, JoinedPages
        <5>3. QED
            BY <5>2 DEF Joins
      <4>7. ASSUME NEW l \in 1..k, NEW i \in 1..P
            PROVE  /\ (l - 1) * P + i \in 1..(q + P)
                   /\ (g \o seqs[k])[(l - 1) * P + i] = seqs[l][i]
        <5>1. CASE l = k
          <6>1. (l - 1) * P + i = q + i
              BY <5>1 DEF q
          <6>2. q + i \in 1..(q + P)
              BY <4>5
          <6>3. QED
              BY <4>6, <5>1, <6>1, <6>2
        <5>2. CASE l # k
          <6>1. l \in 1..e
              BY <4>2, <5>2
          <6>2. (l - 1) * P + i \in 1..q /\ g[(l - 1) * P + i] = seqs[l][i]
              BY <4>4, <6>1
          <6> DEFINE x == (l - 1) * P + i
          <6>3. x \in 1..q
              BY <6>2
          <6> HIDE DEF x
          <6>4. x \in 1..(q + P) /\ (g \o seqs[k])[x] = g[x]
              BY <4>5, <4>6, <6>3
          <6>5. QED
              BY <6>2, <6>4 DEF x
        <5>3. QED
            BY <5>1, <5>2
      <4>8. Good(k)
          BY <4>1, <4>5, <4>6, <4>7
      <4>9. QED
          BY <3>1, <4>8
    <3>4. QED
        BY <3>2, <3>3
  <2>6. m \in T
    <3>1. m \in 0..m
        BY <1>1
    <3> HIDE DEF T, m
    <3>2. QED
        BY <1>1, <2>4, <2>5, <3>1, ByInduction
  <2>7. Good(m)
      BY <1>3, <2>6
  <2>8. /\ f[m] \in Seq(S) /\ Len(f[m]) = m * P
        /\ Tiled(f[m], seqs, P)
      BY <2>7 DEF Slot, Tiled
  <2>9. QED
      BY <2>2, <2>8
<1>4. QED
    BY <1>2, <1>3


\* The entry at g is the data of d.
Fills(pages, d, g) == d.kind = "page" /\ d.gpa = g /\ pages[g] = Padded(d.data)

\* Pages of a file without double pages, at some of its positions.
LEMMA PagesAtAre ==
    ASSUME NEW f, NEW n, f.directives \in Seq(Directive), Apart(f.directives, n), NEW I,
           \A i \in I : i \in 1..Len(f.directives) /\ f.directives[i].kind = "page"
    PROVE  /\ IsFiniteSet(DOMAIN PagesAt(f, I))
           /\ \A i \in I : /\ f.directives[i].gpa \in DOMAIN PagesAt(f, I)
                           /\ Fills(PagesAt(f, I), f.directives[i], f.directives[i].gpa)
           /\ \A g \in DOMAIN PagesAt(f, I) :
                 \E d \in ToSet(f.directives) : Fills(PagesAt(f, I), d, g)
<1> DEFINE ds == f.directives
           m == Len(ds)
           at(g) == {i \in I : ds[i].gpa = g}
           gpas == {ds[i].gpa : i \in I}
           pm == PagesAt(f, I)
<1>1. m \in Nat /\ \A d : d \in ToSet(ds) <=> \E k \in 1..m : ds[k] = d
    BY SeqFacts, SeqMember
<1>2. pm = [g \in gpas |-> Padded(ds[Max(at(g))].data)]
    BY DEF PagesAt
<1>3. ASSUME NEW g, NEW i \in at(g) PROVE Max(at(g)) = i
  <2>1. ASSUME NEW j \in at(g) PROVE j = i
    <3> SUFFICES ASSUME j # i PROVE FALSE
      OBVIOUS
    <3>1. i \in 1..m /\ j \in 1..m /\ g \in Span(ds[i], n) /\ g \in Span(ds[j], n)
      BY DEF Span
    <3>2. QED
      BY <3>1 DEF Apart
  <2>2. i \in Nat
    BY <1>1
  <2> DEFINE A == at(g)
  <2>3. i \in A /\ \A j \in A : j = i
    BY <2>1
  <2> HIDE DEF A
  <2>4. i >= i
    BY <2>2
  <2>5. Max(A) \in A
    <3>1. i \in A /\ \A j \in A : i >= j
      BY <2>3, <2>4
    <3>2. QED
      BY <3>1 DEF Max
  <2>6. QED
    BY <2>3, <2>5 DEF A
<1>4. IsFiniteSet(gpas)
  <2> DEFINE h == [i \in I |-> ds[i].gpa]
  <2>1. h \in Surjection(I, gpas)
    BY DEF Surjection
  <2>2. IsFiniteSet(1..m) /\ I \in SUBSET (1..m)
    BY <1>1, Interval
  <2> HIDE DEF h, gpas, m
  <2>3. IsFiniteSet(I)
    BY <2>2, FS_Subset
  <2>4. QED
    BY <2>1, <2>3, FS_Surjection
<1>5. DOMAIN pm = gpas
    BY <1>2
<1>6. ASSUME NEW i \in I PROVE ds[i].gpa \in gpas /\ pm[ds[i].gpa] = Padded(ds[i].data)
  <2>1. i \in at(ds[i].gpa)
    OBVIOUS
  <2>2. Max(at(ds[i].gpa)) = i
    BY <1>3, <2>1
  <2>3. ds[i].gpa \in gpas
    OBVIOUS
  <2>4. pm[ds[i].gpa] = Padded(ds[Max(at(ds[i].gpa))].data)
    BY <1>2, <2>3
  <2>5. QED
    BY <2>2, <2>3, <2>4
<1>7. \A i \in I : ds[i].gpa \in DOMAIN pm /\ Fills(pm, ds[i], ds[i].gpa)
    BY <1>5, <1>6 DEF Fills
<1>8. ASSUME NEW g \in gpas PROVE \E d \in ToSet(ds) : Fills(pm, d, g)
  <2>1. PICK i \in I : ds[i].gpa = g
    OBVIOUS
  <2>2. ds[i] \in ToSet(ds)
    BY <1>1
  <2>3. QED
    BY <1>7, <2>1, <2>2
<1>9. QED
    BY <1>4, <1>5, <1>7, <1>8

LEMMA NoSkip ==
    ASSUME NEW addr \in Nat, Whole(addr), NEW n \in Nat
    PROVE  addr % PageSize = 0 /\ n + 0 = n /\ 0 + n = n /\ addr - 0 = addr
BY DEF Whole

\* What lies in pages from addr on is recovered.
LEMMA Reassembled ==
    ASSUME NEW pages, IsFiniteSet(DOMAIN pages), NEW addr \in Nat, Whole(addr),
           NEW data \in Seq(Cells),
           \A j \in 1..DivCeil(Len(data), PageSize) :
              /\ addr + (j - 1) * PageSize \in DOMAIN pages
              /\ pages[addr + (j - 1) * PageSize] = Padded(Piece(data, j))
    PROVE  Reassemble(pages, addr, Len(data)) = <<data>>
<1> DEFINE P == PageSize
           n == Len(data)
           d == DivCeil(n, P)
           gpas == [k \in 1..d |-> addr + (k - 1) * P]
           seqs == [k \in 1..d |-> Padded(Piece(data, k))]
           out == FlattenSeq(seqs)
<1>1. P \in Nat \ {0} /\ n \in Nat /\ d \in Nat /\ n <= d * P /\ d * P \in Nat
    BY MeasureAssumption, SeqFacts, PagesCover
<1>2. Reassemble(pages, addr, n) =
         IF n > Cardinality(DOMAIN pages) * P \/ ~(ToSet(gpas) \subseteq DOMAIN pages)
         THEN <<>> ELSE <<SubSeq(out, 1, n)>>
  <2>1. addr % P = 0 /\ n + 0 = n /\ 0 + n = n /\ addr - 0 = addr /\ 0 + 1 = 1
    BY <1>1, NoSkip
  <2>2. [k \in DOMAIN gpas |-> pages[gpas[k]]] = seqs
    OBVIOUS
  <2> HIDE DEF d, seqs, out, n
  <2>3. Reassemble(pages, addr, n) =
           LET g == [k \in 1..DivCeil(n, P) |-> addr + (k - 1) * P]
               o == FlattenSeq([k \in DOMAIN g |-> pages[g[k]]])
           IN  IF n > Cardinality(DOMAIN pages) * P \/ ~(ToSet(g) \subseteq DOMAIN pages)
               THEN <<>> ELSE <<SubSeq(o, 1, n)>>
    BY <2>1 DEF Reassemble
  <2>4. QED
    BY <2>2, <2>3 DEF d, out
<1>3. /\ seqs \in Seq(Seq(Cells)) /\ Len(seqs) = d
      /\ \A k \in 1..Len(seqs) : Len(seqs[k]) = P
  <2>1. ASSUME NEW k \in 1..d
        PROVE  Padded(Piece(data, k)) \in Seq(Cells) /\ Len(Padded(Piece(data, k))) = P
    <3>1. Piece(data, k) \in Seq(Cells)
      BY PieceIs
    <3> DEFINE p == Piece(data, k)
               s == Padded(p)
    <3>2. \A i \in 1..Len(p) : p[i] \in Cells
      BY <3>1, SeqFacts
    <3> HIDE DEF p
    <3>3. Len(p) \in Nat
      BY <3>1 DEF p
    <3>4. s = [i \in 1..P |-> IF i <= Len(p) THEN p[i] ELSE ZeroCell]
      BY DEF Padded
    <3>5. s \in [1..P -> Cells]
      BY <1>1, <3>2, <3>3, <3>4, MeasureAssumption
    <3> HIDE DEF s, P
    <3>6. s \in Seq(Cells) /\ Len(s) = P
      BY <1>1, <3>5, SeqIntro
    <3>7. QED
      BY <3>6 DEF s, p
  <2>2. seqs \in [1..d -> Seq(Cells)]
    BY <2>1
  <2>3. \A k \in 1..d : seqs[k] = Padded(Piece(data, k))
    OBVIOUS
  <2> HIDE DEF seqs, d, P
  <2>4. seqs \in Seq(Seq(Cells)) /\ Len(seqs) = d
    BY <1>1, <2>2, SeqIntro
  <2>5. QED
    BY <2>1, <2>3, <2>4
<1>4. \A k \in 1..d : seqs[k] = Padded(Piece(data, k))
    OBVIOUS
<1>5. \A k \in 1..d : gpas[k] = addr + (k - 1) * P
    OBVIOUS
<1>6. \A j \in 1..d : addr + (j - 1) * P \in DOMAIN pages
    OBVIOUS
<1> HIDE DEF seqs, P
<1>7. /\ out \in Seq(Cells) /\ Len(out) = d * P
      /\ \A k \in 1..d : \A i \in 1..P : out[Slot(P, k, i)] = seqs[k][i]
  <2> HIDE DEF d
  <2>1. /\ P \in Nat \ {0} /\ seqs \in Seq(Seq(Cells))
        /\ \A k \in 1..Len(seqs) : Len(seqs[k]) = P
    BY <1>1, <1>3
  <2>2. out \in Seq(Cells)
    BY <2>1, FlattenPages
  <2>3. Len(out) = Len(seqs) * P
    BY <2>1, FlattenPages
  <2>4. Tiled(out, seqs, P)
    BY <2>1, FlattenPages
  <2> HIDE DEF out
  <2>5. QED
    BY <1>3, <2>2, <2>3, <2>4 DEF Tiled
<1> HIDE DEF out
<1>8. \A x \in 1..n : out[x] = data[x]
  <2> SUFFICES ASSUME NEW x \in 1..n PROVE out[x] = data[x]
    OBVIOUS
  <2>1. PICK j \in 1..d : \E i \in 1..Len(Piece(data, j)) : x = (j - 1) * P + i
    BY PieceOf DEF P
  <2>2. PICK i \in 1..Len(Piece(data, j)) : x = (j - 1) * P + i
    BY <2>1
  <2>3. Len(Piece(data, j)) \in 1..P /\ Piece(data, j)[i] = data[x]
    BY <2>2, PieceIs DEF P
  <2>4. i \in 1..P /\ i <= Len(Piece(data, j))
    BY <1>1, <2>3
  <2>5. out[x] = Padded(Piece(data, j))[i]
    <3>1. x = Slot(P, j, i)
      BY <2>2 DEF Slot
    <3>2. QED
      BY <1>4, <1>7, <2>4, <3>1
  <2>6. Padded(Piece(data, j))[i] = Piece(data, j)[i]
    BY <2>4 DEF Padded, P
  <2>7. QED
    BY <2>3, <2>5, <2>6
<1>9. SubSeq(out, 1, n) = data
  <2>1. \A i \in 1..n : out[i] \in Cells
    BY <1>8, SeqFacts
  <2> HIDE DEF n, d
  <2>2. /\ SubSeq(out, 1, n) \in Seq(Cells) /\ Len(SubSeq(out, 1, n)) = n
        /\ \A i \in 1..n : SubSeq(out, 1, n)[i] = out[i]
    <3>1. 1 \in Int /\ n \in Int /\ n - 1 + 1 = n /\ (n < 1 => n = 0)
          /\ \A i \in 1..n : 1 + i - 1 = i
      BY <1>1
    <3>2. /\ SubSeq(out, 1, n) \in Seq(Cells)
          /\ Len(SubSeq(out, 1, n)) = IF 1 <= n THEN n - 1 + 1 ELSE 0
          /\ \A i \in 1..(n - 1 + 1) : SubSeq(out, 1, n)[i] = out[1 + i - 1]
      BY <2>1, <3>1, SubSeqProperties
    <3>3. QED
      BY <1>1, <3>1, <3>2
  <2>3. Len(data) = n
    BY DEF n
  <2> DEFINE s == SubSeq(out, 1, n)
  <2>4. s \in Seq(Cells) /\ Len(s) = n /\ \A i \in 1..n : s[i] = data[i]
    BY <1>8, <2>2
  <2> HIDE DEF s
  <2>5. s = data
    BY <2>3, <2>4, SeqEqual
  <2>6. QED
    BY <2>5 DEF s
<1>10. ToSet(gpas) \subseteq DOMAIN pages
  <2> HIDE DEF d
  <2>1. gpas \in Seq(Nat) /\ Len(gpas) = d
    <3>1. \A k \in 1..d : addr + (k - 1) * P \in Nat
      <4> SUFFICES ASSUME NEW k \in 1..d PROVE addr + (k - 1) * P \in Nat
        OBVIOUS
      <4>1. k - 1 \in Nat
        BY <1>1
      <4>2. QED
        BY <1>1, <4>1
    <3>2. gpas \in [1..d -> Nat]
      BY <3>1
    <3> HIDE DEF gpas
    <3>3. QED
      BY <1>1, <3>2, SeqIntro
  <2> HIDE DEF gpas
  <2>2. QED
    BY <1>5, <1>6, <2>1, SeqMember
<1>11. ~(n > Cardinality(DOMAIN pages) * P)
  <2> DEFINE T == DOMAIN pages
             c == Cardinality(T)
  <2>1. gpas \in Injection(1..d, T)
    <3>1. gpas \in [1..d -> T]
      BY <1>5, <1>6
    <3>2. ASSUME NEW k \in 1..d, NEW l \in 1..d, gpas[k] = gpas[l] PROVE k = l
      <4>1. k - 1 \in Nat /\ l - 1 \in Nat
        BY <1>1
      <4>2. (k - 1) * P \in Nat /\ (l - 1) * P \in Nat
        BY <1>1, <4>1
      <4>3. (k - 1) * P = (l - 1) * P
        <5> DEFINE a == (k - 1) * P
                   b == (l - 1) * P
        <5>1. addr + a = addr + b /\ a \in Nat /\ b \in Nat
          BY <1>5, <3>2, <4>2
        <5> HIDE DEF a, b
        <5>2. a = b
          BY <5>1
        <5>3. QED
          BY <5>2 DEF a, b
      <4>4. k - 1 = l - 1
        BY <1>1, <4>1, <4>3, Spaced
      <4>5. QED
        BY <1>1, <4>4
    <3> HIDE DEF gpas, d
    <3>3. IsInjective(gpas)
      BY <3>1, <3>2 DEF IsInjective
    <3>4. QED
      BY <3>1, <3>3 DEF Injection
  <2> HIDE DEF d, n, gpas, T
  <2>2. IsFiniteSet(T)
    BY DEF T
  <2>3. Cardinality(1..d) <= c /\ Cardinality(1..d) = d /\ c \in Nat
    BY <1>1, <2>1, <2>2, FS_Injection, FS_CardinalityType, Interval
  <2> HIDE DEF c
  <2>4. PICK k \in Nat : c = d + k
    <3>1. c = d + (c - d) /\ c - d \in Nat
      BY <1>1, <2>3
    <3>2. QED
      BY <3>1
  <2>5. c * P = d * P + k * P /\ k * P \in Nat
    BY <1>1, <2>4
  <2>6. ~(n > c * P)
    <3> DEFINE x == d * P
               y == k * P
               z == c * P
    <3>1. z = x + y /\ y \in Nat /\ x \in Nat /\ n <= x
      BY <1>1, <2>5
    <3> HIDE DEF x, y, z
    <3>2. ~(n > z)
      BY <1>1, <3>1
    <3>3. QED
      BY <3>2 DEF z
  <2>7. QED
    BY <2>6 DEF c, T
<1>12. QED
    BY <1>2, <1>9, <1>10, <1>11

LEMMA NotReassembled ==
    ASSUME NEW pages, NEW addr \in Nat, Whole(addr), addr \notin DOMAIN pages,
           NEW n \in Nat \ {0}
    PROVE  Reassemble(pages, addr, n) = <<>>
<1> DEFINE P == PageSize
           d == DivCeil(n, P)
           gpas == [k \in 1..d |-> addr + (k - 1) * P]
<1>1. P \in Nat \ {0} /\ d \in Nat /\ d # 0
    BY MeasureAssumption, PagesCover
<1>2. addr % P = 0 /\ n + 0 = n /\ 0 + n = n /\ addr - 0 = addr /\ 0 + 1 = 1
    BY NoSkip
<1>3. ~(ToSet(gpas) \subseteq DOMAIN pages) => Reassemble(pages, addr, n) = <<>>
  <2> HIDE DEF P
  <2>1. Reassemble(pages, addr, n) =
           LET g == [k \in 1..DivCeil(n, P) |-> addr + (k - 1) * P]
               o == FlattenSeq([k \in DOMAIN g |-> pages[g[k]]])
           IN  IF n > Cardinality(DOMAIN pages) * P \/ ~(ToSet(g) \subseteq DOMAIN pages)
               THEN <<>> ELSE <<SubSeq(o, 1, n)>>
    BY <1>2 DEF Reassemble, P
  <2>2. QED
    BY <2>1
<1>4. addr \in ToSet(gpas)
  <2>1. gpas[1] = addr + (1 - 1) * P /\ 1 \in 1..d
    BY <1>1
  <2>2. addr + (1 - 1) * P = addr
    BY <1>1
  <2>3. DOMAIN gpas = 1..d
    OBVIOUS
  <2>4. Len(gpas) = d
    BY <1>1
  <2> HIDE DEF gpas, d
  <2>5. QED
    BY <2>1, <2>2, <2>4 DEF ToSet
<1>5. QED
    BY <1>3, <1>4

-----------------------------------------------------------------------------
(* Pages of data, and what is in them *)

\* The page data that data is loaded with.
DataPage(base, data, unmeasured, mask, j) ==
    Page(base + (j - 1) * PageSize, mask, unmeasured, "NORMAL", Piece(data, j))

PageSet(base, data, unmeasured, mask) ==
    {DataPage(base, data, unmeasured, mask, j) : j \in 1..DivCeil(Len(data), PageSize)}

LEMMA DataPagesSet ==
    ASSUME NEW base \in Nat, NEW data \in Seq(Cells), NEW unmeasured \in BOOLEAN,
           builder.platforms \in SUBSET Platforms
    PROVE  /\ DataPages(base, data, unmeasured) \in Seq(Directive)
           /\ ToSet(DataPages(base, data, unmeasured))
                = PageSet(base, data, unmeasured, builder.platforms)
<1> DEFINE s == DataPages(base, data, unmeasured)
           n == DivCeil(Len(data), PageSize)
<1>1. s \in Seq(Directive) /\ Len(s) = n
    BY DataPagesAre DEF IsRun
<1>2. \A j \in 1..n : s[j] = DataPage(base, data, unmeasured, builder.platforms, j)
    BY DEF DataPages, DataPage, Mask, Piece
<1> HIDE DEF s
<1>3. \A d : d \in ToSet(s) <=> \E j \in 1..n : s[j] = d
    BY <1>1, SeqMember
<1>4. ToSet(s) = PageSet(base, data, unmeasured, builder.platforms)
    BY <1>2, <1>3 DEF PageSet
<1>5. QED
    BY <1>1, <1>4 DEF s

LEMMA DataPageFields ==
    ASSUME NEW base, NEW data, NEW unmeasured, NEW mask, NEW j
    PROVE  /\ DataPage(base, data, unmeasured, mask, j).kind = "page"
           /\ DataPage(base, data, unmeasured, mask, j).gpa = base + (j - 1) * PageSize
           /\ DataPage(base, data, unmeasured, mask, j).mask = mask
           /\ DataPage(base, data, unmeasured, mask, j).unmeasured = unmeasured
           /\ DataPage(base, data, unmeasured, mask, j).type = "NORMAL"
           /\ DataPage(base, data, unmeasured, mask, j).data = Piece(data, j)
<1> DEFINE g == base + (j - 1) * PageSize
           p == Piece(data, j)
<1> HIDE DEF g, p
<1>1. LET d == Page(g, mask, unmeasured, "NORMAL", p)
      IN  /\ d.kind = "page" /\ d.gpa = g /\ d.mask = mask /\ d.unmeasured = unmeasured
          /\ d.type = "NORMAL" /\ d.data = p
    BY PageFields
<1>2. QED
    BY <1>1 DEF DataPage, g, p

\* Where the pages of data lie.
LEMMA PageSetWithin ==
    ASSUME NEW base \in Nat, NEW data \in Seq(Cells), NEW unmeasured, NEW mask,
           NEW d \in PageSet(base, data, unmeasured, mask)
    PROVE  /\ d.kind = "page" /\ d.data # <<>> /\ d.gpa \in Nat
           /\ base <= d.gpa /\ d.gpa < base + Len(data)
<1>1. PICK j \in 1..DivCeil(Len(data), PageSize) :
         d = DataPage(base, data, unmeasured, mask, j)
    BY DEF PageSet
<1>2. d.kind = "page" /\ d.gpa = base + (j - 1) * PageSize /\ d.data = Piece(data, j)
    BY <1>1, DataPageFields
<1>3. Len(Piece(data, j)) \in 1..PageSize /\ (j - 1) * PageSize \in Nat
    BY PieceIs
<1>4. (j - 1) * PageSize < Len(data)
  <2>1. Len(data) \in Nat /\ DivCeil(Len(data), PageSize) \in Nat
    BY SeqFacts, PagesCover
  <2>2. j - 1 \in 0..(DivCeil(Len(data), PageSize) - 1)
    BY <2>1
  <2>3. QED
    BY <2>1, <2>2, PageBegins
<1>5. d.data # <<>>
    BY <1>2, <1>3
<1> DEFINE q == (j - 1) * PageSize
<1>6. q \in Nat /\ q < Len(data) /\ d.gpa = base + q /\ Len(data) \in Nat
    BY <1>2, <1>3, <1>4, SeqFacts
<1> HIDE DEF q
<1>7. QED
    BY <1>2, <1>5, <1>6

\* A page that has a cell which extract.rs takes for the entry of a kernel.
Named(d) == \E i \in 1..Len(d.data) : IsKernelHob(d.data[i])

\* Nowhere in D is such a cell.
Bare(D) == \A d \in D : d.kind = "page" => ~Named(d)

\* Data without such a cell fills pages without one.
LEMMA PageSetBare ==
    ASSUME NEW base \in Nat, NEW data \in Seq(Cells), NEW unmeasured, NEW mask,
           \A cell \in ToSet(data) : ~IsKernelHob(cell)
    PROVE  Bare(PageSet(base, data, unmeasured, mask))
<1> SUFFICES ASSUME NEW d \in PageSet(base, data, unmeasured, mask), Named(d) PROVE FALSE
    BY DEF Bare
<1>1. PICK j \in 1..DivCeil(Len(data), PageSize) :
         d = DataPage(base, data, unmeasured, mask, j)
    BY DEF PageSet
<1>2. d.data = Piece(data, j)
    BY <1>1, DataPageFields
<1>3. PICK i \in 1..Len(Piece(data, j)) : IsKernelHob(Piece(data, j)[i])
    BY <1>2 DEF Named
<1> DEFINE x == (j - 1) * PageSize + i
<1>4. x \in 1..Len(data) /\ Piece(data, j)[i] = data[x]
    BY PieceIs
<1> HIDE DEF x
<1>5. data[x] \in ToSet(data)
    BY <1>4, SeqMember
<1>6. QED
    BY <1>3, <1>4, <1>5

\* The HOB list names the kernel if there is one, where it lies.
KernelHob(c) == <<"hob", "Kernel", BlobAddr(c, "Kernel"), Len(c.blobs["Kernel"])>>

LEMMA HobEntries ==
    ASSUME NEW c, IsBuildConfig(c)
    PROVE  /\ \A cell \in ToSet(Hobs(c)) :
                 IsKernelHob(cell) => Has(c, "Kernel") /\ cell = KernelHob(c)
           /\ Has(c, "Kernel") => KernelHob(c) \in ToSet(Hobs(c))
<1> DEFINE E(t) == <<"hob", t, BlobAddr(c, t), Len(c.blobs[t])>>
           S == {E(t) : t \in DOMAIN c.blobs} \union {<<"end">>}
           seqs == [k \in 1..Len(BlobTypes) |-> HobOf(c, BlobTypes[k])]
           flat == FlattenSeq(seqs)
<1>1. Len(BlobTypes) = 6 /\ 6 \in Nat /\ BlobTypes[6] = "Kernel"
    BY BlobTypesList DEF BlobTypes
<1>2. \A k \in 1..6 : HobOf(c, BlobTypes[k]) \in Seq(S)
  <2> SUFFICES ASSUME NEW k \in 1..6 PROVE HobOf(c, BlobTypes[k]) \in Seq(S)
    OBVIOUS
  <2> DEFINE t == BlobTypes[k]
  <2>1. CASE t \in DOMAIN c.blobs
    <3>1. HobOf(c, t) = <<E(t)>> /\ E(t) \in S
      BY <2>1 DEF HobOf
    <3> HIDE DEF S, E
    <3>2. QED
      BY <3>1
  <2>2. CASE t \notin DOMAIN c.blobs
    BY <2>2 DEF HobOf
  <2>3. QED
    BY <2>1, <2>2
<1> HIDE DEF S
<1>3. seqs \in Seq(Seq(S)) /\ Len(seqs) = 6
  <2>1. seqs \in [1..6 -> Seq(S)]
    BY <1>1, <1>2
  <2> HIDE DEF seqs
  <2>2. 6 \in Nat
    OBVIOUS
  <2>3. QED
    BY <2>1, <2>2, SeqIntro
<1>4. flat \in Seq(S)
  <2> HIDE DEF seqs
  <2>1. QED
    BY <1>3, FlattenType
<1>5. <<"end">> \in S /\ << <<"end">> >> \in Seq(S)
    BY DEF S
<1>6. Hobs(c) = flat \o << <<"end">> >>
    BY DEF Hobs
<1>7. seqs[6] = HobOf(c, "Kernel")
    BY <1>1
<1> HIDE DEF flat, seqs
<1>8. Hobs(c) \in Seq(S) /\ ToSet(Hobs(c)) = ToSet(flat) \union ToSet(<< <<"end">> >>)
  <2> DEFINE last == << <<"end">> >>
  <2>1. Hobs(c) = flat \o last /\ last \in Seq(S)
    BY <1>5, <1>6
  <2> HIDE DEF last
  <2>2. flat \o last \in Seq(S)
    BY <1>4, <2>1, ConcatSeq
  <2>3. ToSet(flat \o last) = ToSet(flat) \union ToSet(last)
    BY <1>4, <2>1, ConcatMembers
  <2>4. QED
    BY <2>1, <2>2, <2>3 DEF last
<1>9. ASSUME NEW cell \in ToSet(Hobs(c)), IsKernelHob(cell)
      PROVE  Has(c, "Kernel") /\ cell = KernelHob(c)
  <2>1. cell \in S
    BY <1>8, MembersOf
  <2>2. cell # <<"end">>
    BY <1>9 DEF IsKernelHob
  <2>3. PICK t \in DOMAIN c.blobs : cell = E(t)
    BY <2>1, <2>2 DEF S
  <2>4. t = "Kernel"
    BY <1>9, <2>3 DEF IsKernelHob
  <2>5. QED
    BY <2>3, <2>4 DEF Has, KernelHob
<1>10. ASSUME Has(c, "Kernel") PROVE KernelHob(c) \in ToSet(flat)
  <2> DEFINE f == CHOOSE f : IsFlattened(f, seqs)
  <2>1. IsFlattened(f, seqs)
    <3>1. Len(seqs) # 0
      BY <1>3
    <3>2. \E g : IsFlattened(g, seqs)
      BY <1>3, <3>1, FlattenedExists
    <3>3. QED
      BY <3>2
  <2>2. flat = f[6]
    BY <1>3 DEF flat, FlattenSeq, IsFlattened
  <2> HIDE DEF f
  <2>3. f[6] = f[5] \o seqs[6]
    <3>1. 6 \in 1..Len(seqs) /\ 6 # 1 /\ 6 - 1 = 5
      BY <1>3
    <3>2. QED
      BY <2>1, <3>1 DEF IsFlattened
  <2>4. f[5] \in Seq(S)
    <3> DEFINE T == {k \in 0..6 : k = 0 \/ f[k] \in Seq(S)}
    <3>1. 0 \in T
      OBVIOUS
    <3>2. ASSUME NEW k \in 1..6, k - 1 \in T PROVE k \in T
      <4>1. f[k] = IF k = 1 THEN seqs[k] ELSE f[k - 1] \o seqs[k]
        BY <1>3, <2>1 DEF IsFlattened
      <4>2. seqs[k] \in Seq(S)
        BY <1>3, SeqFacts
      <4>3. CASE k = 1
        BY <4>1, <4>2, <4>3
      <4>4. CASE k # 1
        <5>1. f[k - 1] \in Seq(S) /\ f[k] = f[k - 1] \o seqs[k]
          <6>1. k - 1 # 0
            BY <4>4
          <6>2. QED
            BY <3>2, <4>1, <4>4, <6>1
        <5>2. f[k] \in Seq(S)
          BY <4>2, <5>1, ConcatSeq
        <5>3. QED
          BY <5>2
      <4>5. QED
        BY <4>3, <4>4
    <3> HIDE DEF T
    <3>3. 5 \in T
      BY <1>1, <3>1, <3>2, ByInduction
    <3>4. QED
      BY <3>3 DEF T
  <2>5. seqs[6] = <<KernelHob(c)>>
    BY <1>7, <1>10 DEF HobOf, KernelHob, Has
  <2>6. seqs[6] \in Seq(S)
    <3>1. 6 \in 1..Len(seqs)
      BY <1>3
    <3>2. QED
      BY <1>3, <3>1, SeqFacts
  <2> DEFINE g == f[5]
             h == seqs[6]
  <2>7. flat = g \o h /\ g \in Seq(S) /\ h \in Seq(S)
    BY <2>2, <2>3, <2>4, <2>6
  <2>8. KernelHob(c) \in ToSet(h)
    BY <2>5 DEF ToSet
  <2> HIDE DEF g, h
  <2>9. ToSet(flat) = ToSet(g) \union ToSet(h)
    BY <2>7, ConcatMembers
  <2>10. QED
    BY <2>8, <2>9
<1>11. QED
    BY <1>8, <1>9, <1>10

-----------------------------------------------------------------------------
(* The order in which blobs are placed, and what it does to the kernel *)

LEMMA PlaceBlobMembers ==
    ASSUME IsBuildConfig(cfg), builder.platforms \in SUBSET Platforms,
           NEW ds \in Seq(Directive), NEW t \in DOMAIN cfg.blobs
    PROVE  /\ PlaceBlob(ds, t) \in Seq(Directive)
           /\ ToSet(PlaceBlob(ds, t)) =
                {d \in ToSet(ds) : ~InRange(d, BlobAddr(cfg, t), Len(cfg.blobs[t]))}
                \union PageSet(BlobAddr(cfg, t), cfg.blobs[t], ~IsMeasured(t), builder.platforms)
<1> DEFINE a == BlobAddr(cfg, t)
           b == cfg.blobs[t]
           u == ~IsMeasured(t)
           rest == RemovePageDataInRange(ds, a, Len(b))
           pages == DataPages(a, b, u)
<1>1. a \in Nat /\ b \in Seq(Cells)
    BY BlobPlace
<1>2. u \in BOOLEAN
    BY DEF IsMeasured
<1>3. PlaceBlob(ds, t) = rest \o pages
    BY DEF PlaceBlob
<1> HIDE DEF a, b, u
<1>4. rest \in Seq(Directive) /\ ToSet(rest) = {d \in ToSet(ds) : ~InRange(d, a, Len(b))}
    BY RemoveMembers
<1>5. pages \in Seq(Directive) /\ ToSet(pages) = PageSet(a, b, u, builder.platforms)
    BY <1>1, <1>2, DataPagesSet
<1> HIDE DEF rest, pages
<1>6. rest \o pages \in Seq(Directive) /\ ToSet(rest \o pages) = ToSet(rest) \union ToSet(pages)
    BY <1>4, <1>5, ConcatSeq, ConcatMembers
<1>7. QED
    BY <1>3, <1>4, <1>5, <1>6 DEF a, b, u

Order == Blobs(TRUE) \o Blobs(FALSE)

\* Every blob is placed, and only a shim after the kernel.
LEMMA BlobOrder ==
    ASSUME IsBuildConfig(cfg)
    PROVE  /\ Order \in Seq(DOMAIN cfg.blobs) /\ Len(Order) \in Nat
           /\ \A t \in DOMAIN cfg.blobs : \E k \in 1..Len(Order) : Order[k] = t
           /\ \A i, j \in 1..Len(Order) : i < j /\ Order[i] = "Kernel" => Order[j] = "Shim"
           /\ \A i, j \in 1..Len(Order) : i < j /\ Order[i] = "Shim" => Order[j] # "Kernel"
<1> DEFINE B == DOMAIN cfg.blobs
           K(m) == {k \in 1..Len(BlobTypes) : BlobTypes[k] \in B /\ IsMeasured(BlobTypes[k]) = m}
           x == Blobs(TRUE)
           y == Blobs(FALSE)
           T == ToSet(BlobTypes)
<1>1. x \in Seq(B) /\ y \in Seq(B)
    BY BlobsType
<1>2. BlobTypes \in Seq(T) /\ Len(BlobTypes) = 6 /\ BlobTypes[6] = "Kernel" /\ B \subseteq T
    BY BlobTypesList DEF BlobTypes, IsBuildConfig
<1>3. x = Retain(BlobTypes, K(TRUE)) /\ y = Retain(BlobTypes, K(FALSE))
    BY DEF Blobs
<1>4. ASSUME NEW m \in BOOLEAN
      PROVE  ToSet(Retain(BlobTypes, K(m))) = {t \in B : IsMeasured(t) = m}
  <2> DEFINE L == K(m)
  <2>1. ToSet(Retain(BlobTypes, L)) = {BlobTypes[i] : i \in {j \in 1..Len(BlobTypes) : j \in L}}
    <3> HIDE DEF L
    <3>1. QED
      BY <1>2, RetainMembers
  <2>2. \A t \in B : \E k \in 1..Len(BlobTypes) : BlobTypes[k] = t
    BY <1>2, SeqMember
  <2>3. QED
    BY <2>1, <2>2
<1>5. /\ ToSet(x) = {t \in B : t # "Shim"} /\ ToSet(y) = {t \in B : t = "Shim"}
    BY <1>3, <1>4 DEF IsMeasured
<1>6. ASSUME NEW i \in 1..Len(x), NEW j \in 1..Len(x), i < j, x[i] = "Kernel" PROVE FALSE
  <2> DEFINE L == K(TRUE)
  <2> HIDE DEF L
  <2>1. PICK f : IsKept(f, BlobTypes, L) /\ Retain(BlobTypes, L) = f[6]
    BY <1>2, RetainIs
  <2>2. f[6] = IF 6 \in L THEN Append(f[5], "Kernel") ELSE f[5]
    <3>1. 6 \in 0..Len(BlobTypes) /\ 6 # 0 /\ 6 - 1 = 5
      BY <1>2
    <3>2. QED
      BY <1>2, <2>1, <3>1 DEF IsKept
  <2>3. /\ f[5] \in Seq(T)
        /\ \A t \in ToSet(f[5]) : \E k \in 1..5 : k \in L /\ BlobTypes[k] = t
    <3>1. 5 \in 0..Len(BlobTypes)
      BY <1>2
    <3> HIDE DEF T
    <3>2. BlobTypes \in Seq(T) /\ IsKept(f, BlobTypes, L)
      BY <1>2, <2>1
    <3>3. \A k \in 0..Len(BlobTypes) :
             /\ f[k] \in Seq(T)
             /\ \A t \in ToSet(f[k]) : \E l \in 1..k : l \in L /\ BlobTypes[l] = t
             /\ \A l \in 1..k : l \in L => BlobTypes[l] \in ToSet(f[k])
      BY <3>2, KeptMembers
    <3>4. QED
      BY <3>1, <3>3
  <2>4. "Kernel" \notin ToSet(f[5])
    BY <2>3 DEF BlobTypes
  <2> DEFINE g == f[5]
  <2>5. g \in Seq(T) /\ "Kernel" \notin ToSet(g) /\ (x = g \/ x = Append(g, "Kernel"))
    BY <1>3, <2>1, <2>2, <2>3, <2>4 DEF L
  <2> HIDE DEF g, x
  <2>6. Len(g) \in Nat /\ \A k \in 1..Len(g) : g[k] # "Kernel"
    BY <2>5, SeqFacts, SeqMember
  <2>7. CASE x = g
    BY <1>6, <2>6, <2>7
  <2>8. CASE x = Append(g, "Kernel")
    <3>1. "Kernel" \in T
      BY DEF T, BlobTypes, ToSet
    <3> HIDE DEF T
    <3>2. Len(x) = Len(g) + 1 /\ \A k \in 1..Len(g) : x[k] = g[k]
      BY <2>5, <2>8, <3>1, AppendSeq
    <3>3. i \in 1..Len(g)
      BY <1>6, <2>6, <3>2
    <3>4. QED
      BY <1>6, <2>6, <3>2, <3>3
  <2>9. QED
    BY <2>5, <2>7, <2>8
<1>7. Order = x \o y
    BY DEF Order
<1> HIDE DEF x, y, B
<1>8. Order \in Seq(B) /\ ToSet(Order) = ToSet(x) \union ToSet(y)
    BY <1>1, <1>7, ConcatSeq, ConcatMembers
<1>9. /\ Len(Order) = Len(x) + Len(y) /\ Len(x) \in Nat /\ Len(y) \in Nat
      /\ \A k \in 1..Len(Order) :
            \/ k \in 1..Len(x) /\ Order[k] = x[k]
            \/ k - Len(x) \in 1..Len(y) /\ Order[k] = y[k - Len(x)]
    BY <1>1, <1>7, JoinedAt
<1>10. \A k \in 1..Len(Order) :
          \/ k \in 1..Len(x) /\ Order[k] = x[k] /\ Order[k] # "Shim"
          \/ k > Len(x) /\ Order[k] = "Shim"
  <2> SUFFICES ASSUME NEW k \in 1..Len(Order)
               PROVE  \/ k \in 1..Len(x) /\ Order[k] = x[k] /\ Order[k] # "Shim"
                      \/ k > Len(x) /\ Order[k] = "Shim"
    OBVIOUS
  <2>1. CASE k \in 1..Len(x) /\ Order[k] = x[k]
    <3>1. x[k] \in ToSet(x)
      BY <1>1, <2>1, SeqMember
    <3>2. QED
      BY <1>5, <2>1, <3>1
  <2>2. CASE k - Len(x) \in 1..Len(y) /\ Order[k] = y[k - Len(x)]
    <3> DEFINE l == k - Len(x)
    <3>1. l \in 1..Len(y) /\ Order[k] = y[l]
      BY <2>2
    <3>2. k > Len(x)
      BY <1>9, <2>2
    <3> HIDE DEF l
    <3>3. y[l] \in ToSet(y)
      BY <1>1, <3>1, SeqMember
    <3>4. QED
      BY <1>5, <3>1, <3>2, <3>3
  <2>3. QED
    BY <1>9, <2>1, <2>2
<1>11. ASSUME NEW i \in 1..Len(Order), NEW j \in 1..Len(Order), i < j
       PROVE  /\ Order[i] = "Kernel" => Order[j] = "Shim"
              /\ Order[i] = "Shim" => Order[j] # "Kernel"
  <2>1. CASE Order[i] = "Kernel" /\ Order[j] # "Shim"
    <3>1. i \in 1..Len(x) /\ x[i] = "Kernel" /\ j \in 1..Len(x)
      BY <1>10, <2>1
    <3>2. QED
      BY <1>6, <1>11, <3>1
  <2>2. CASE Order[i] = "Shim" /\ Order[j] = "Kernel"
    <3>1. i > Len(x) /\ j \in 1..Len(x)
      BY <1>10, <2>2
    <3>2. QED
      BY <1>9, <1>11, <3>1
  <2>3. QED
    BY <2>1, <2>2
<1>12. \A t \in B : \E k \in 1..Len(Order) : Order[k] = t
    BY <1>5, <1>8, SeqMember
<1>13. Len(Order) \in Nat
    BY <1>9
<1>14. QED
    BY <1>8, <1>11, <1>12, <1>13 DEF B

\* A shim lies before the kernel, and does not reach it unless it is empty.
LEMMA ShimAndKernel ==
    ASSUME NEW c, IsBuildConfig(c), Has(c, "Shim"), Has(c, "Kernel")
    PROVE  IF EmptyShim(c) THEN BlobAddr(c, "Kernel") = BlobAddr(c, "Shim")
           ELSE /\ BlobAddr(c, "Shim") + Len(c.blobs["Shim"]) <= BlobAddr(c, "Kernel")
                /\ BlobAddr(c, "Shim") + PageSize <= BlobAddr(c, "Kernel")
<1> DEFINE s == BlobEnd(c)[4]
           k == BlobEnd(c)[5]
           n == Len(c.blobs["Shim"])
           w == Taken(c, 5)
           P == PageSize
<1>1. BlobAddr(c, "Shim") = s /\ BlobAddr(c, "Kernel") = k
  <2>1. /\ Rank("Shim") \in 1..6 /\ BlobTypes[Rank("Shim")] = "Shim"
        /\ Rank("Kernel") \in 1..6 /\ BlobTypes[Rank("Kernel")] = "Kernel"
    <3>1. "Shim" \in ToSet(BlobTypes) /\ "Kernel" \in ToSet(BlobTypes)
      BY DEF BlobTypes, ToSet
    <3>2. QED
      BY <3>1, BlobTypesList
  <2>2. Rank("Shim") = 5 /\ Rank("Kernel") = 6
    BY <2>1 DEF BlobTypes
  <2>3. 5 - 1 = 4 /\ 6 - 1 = 5
    OBVIOUS
  <2>4. QED
    BY <2>2, <2>3 DEF BlobAddr
<1>2. k = s + w * P /\ s \in Nat /\ k \in Nat
  <2>1. 5 \in 0..6 /\ 4 \in 0..6 /\ 5 # 0 /\ 5 - 1 = 4
    OBVIOUS
  <2>2. QED
    BY <2>1, BlobEnds
<1>3. BlobTypes[5] = "Shim" /\ n \in Nat /\ c.blobs["Shim"] \in Seq(Cells)
    BY SeqFacts DEF BlobTypes, IsBuildConfig, Has
<1>4. w = DivCeil(n, P) /\ P \in Nat \ {0}
    BY <1>3, MeasureAssumption DEF Taken, Has
<1>5. w \in Nat /\ w * P \in Nat /\ n <= w * P /\ (n # 0 => w # 0)
    BY <1>3, <1>4, PagesCover
<1>6. EmptyShim(c) <=> n = 0
    BY <1>3 DEF EmptyShim, Has
<1> HIDE DEF n, P, w, s, k
<1>7. CASE EmptyShim(c)
  <2>1. DivCeil(0, P) = 0
    BY <1>4 DEF DivCeil
  <2>2. w = 0 /\ w * P = 0
    BY <1>4, <1>6, <1>7, <2>1
  <2>3. k = s
    BY <1>2, <2>2
  <2>4. QED
    BY <1>1, <1>7, <2>3
<1>8. CASE ~EmptyShim(c)
  <2>1. P <= w * P
    <3>1. PICK v \in Nat : w = v + 1
      <4>1. w - 1 \in Nat /\ w = (w - 1) + 1
        BY <1>5, <1>6, <1>8
      <4>2. QED
        BY <4>1
    <3>2. w * P = v * P + P /\ v * P \in Nat
      BY <1>4, <3>1
    <3> DEFINE a == w * P
               b == v * P
    <3>3. a = b + P /\ b \in Nat
      BY <3>2
    <3> HIDE DEF a, b
    <3>4. P <= a
      BY <1>4, <3>3
    <3>5. QED
      BY <3>4 DEF a
  <2> DEFINE a == w * P
  <2>2. a \in Nat /\ n <= a /\ P <= a /\ k = s + a /\ n \in Nat /\ P \in Nat
    BY <1>2, <1>3, <1>4, <1>5, <2>1 DEF n
  <2> HIDE DEF a
  <2>3. s + n <= k /\ s + P <= k
    BY <1>2, <2>2
  <2>4. QED
    BY <1>1, <1>8, <2>3 DEF n, P
<1>9. QED
    BY <1>7, <1>8

\* The kernel's pages in D; an empty shim has taken the first of them.
KernelPart(c, D) ==
    IF EmptyShim(c) THEN \A d \in D : d.kind = "page" => d.gpa # BlobAddr(c, "Kernel")
    ELSE PageSet(BlobAddr(c, "Kernel"), c.blobs["Kernel"], FALSE, c.platform) \subseteq D

HobSet(c) ==
    PageSet(FirstRegion(c.firmware, "IgvmHobArea").base, Hobs(c), FALSE, c.platform)

\* The HOB list in D; what else names a kernel lies among the blobs.
HobPart(c, D) ==
    /\ HobSet(c) \subseteq D
    /\ \A d \in D : d.kind = "page" /\ Named(d) =>
          d \in HobSet(c) \/ (Has(c, "Kernel") /\ BlobBase <= d.gpa)

\* What D carries of the HOB list and of the kernel.
Carries(c, D) ==
    IF DOMAIN c.blobs = {} THEN Bare(D)
    ELSE HobPart(c, D) /\ (Has(c, "Kernel") => KernelPart(c, D))

LEMMA KernelPlaced ==
    ASSUME cfg \in Config, builder.platforms = cfg.platform, Has(cfg, "Kernel"),
           NEW ds \in Seq(Directive)
    PROVE  KernelPart(cfg, ToSet(PlaceBlobs(ds)))
<1> DEFINE B == DOMAIN cfg.blobs
           n == Len(Order)
           f == CHOOSE f : IsPlaced(f, ds, Order)
           a == BlobAddr(cfg, "Kernel")
           K == PageSet(a, cfg.blobs["Kernel"], FALSE, cfg.platform)
           Came(t, k) == \E i \in 1..k : Order[i] = t
           D(k) == ToSet(f[k])
           Kept(k) == Came("Kernel", k) =>
                         IF EmptyShim(cfg) /\ Came("Shim", k)
                         THEN \A d \in D(k) : d.kind = "page" => d.gpa # a
                         ELSE K \subseteq D(k)
<1>1. IsBuildConfig(cfg) /\ builder.platforms \in SUBSET Platforms
    BY ConfigIs
<1>2. /\ Order \in Seq(B) /\ n \in Nat /\ \A k \in 1..n : Order[k] \in B
      /\ \A t \in B : \E k \in 1..n : Order[k] = t
      /\ \A i, j \in 1..n : i < j /\ Order[i] = "Kernel" => Order[j] = "Shim"
      /\ \A i, j \in 1..n : i < j /\ Order[i] = "Shim" => Order[j] # "Kernel"
    BY <1>1, BlobOrder, SeqFacts
<1>3. \A s \in Seq(Directive) : \A t \in B :
         /\ PlaceBlob(s, t) \in Seq(Directive)
         /\ ToSet(PlaceBlob(s, t)) =
              {d \in ToSet(s) : ~InRange(d, BlobAddr(cfg, t), Len(cfg.blobs[t]))}
              \union PageSet(BlobAddr(cfg, t), cfg.blobs[t], ~IsMeasured(t), cfg.platform)
    BY <1>1, PlaceBlobMembers
<1>4. PlaceBlobs(ds) = f[n]
    BY DEF PlaceBlobs, IsPlaced, Order
<1> HIDE DEF B
<1>5. IsPlaced(f, ds, Order)
    BY <1>2, <1>3, PlacedExists
<1> HIDE DEF f, n
<1>6. \A k \in 0..n : f[k] = IF k = 0 THEN ds ELSE PlaceBlob(f[k - 1], Order[k])
    BY <1>5 DEF IsPlaced, n
<1>7. "Kernel" \in B /\ a \in Nat /\ cfg.blobs["Kernel"] \in Seq(Cells)
    BY <1>1, BlobPlace DEF Has, B
<1>8. /\ EmptyShim(cfg) => /\ a = BlobAddr(cfg, "Shim") /\ cfg.blobs["Shim"] = <<>>
                           /\ "Shim" \in B
      /\ "Shim" \in B /\ ~EmptyShim(cfg) =>
            /\ BlobAddr(cfg, "Shim") + Len(cfg.blobs["Shim"]) <= a
            /\ BlobAddr(cfg, "Shim") + PageSize <= a
            /\ BlobAddr(cfg, "Shim") \in Nat /\ Len(cfg.blobs["Shim"]) \in Nat
    BY <1>1, ShimAndKernel, BlobPlace DEF EmptyShim, Has, B
<1> DEFINE T == {k \in 0..n : f[k] \in Seq(Directive) /\ Kept(k)}
<1> HIDE DEF K, a
<1>9. 0 \in T
    BY <1>2, <1>6
<1>10. ASSUME NEW k \in 1..n, k - 1 \in T PROVE k \in T
  <2> DEFINE t == Order[k]
             s == f[k - 1]
  <2>1. k \in 0..n /\ k # 0 /\ t \in B /\ s \in Seq(Directive) /\ Kept(k - 1)
    <3>1. k \in 0..n /\ k # 0 /\ t \in B
      BY <1>2
    <3>2. s \in Seq(Directive) /\ Kept(k - 1)
      BY <1>10
    <3>3. QED
      BY <3>1, <3>2
  <2>2. f[k] = PlaceBlob(s, t)
    BY <1>6, <2>1
  <2>3. /\ f[k] \in Seq(Directive)
        /\ D(k) = {d \in ToSet(s) : ~InRange(d, BlobAddr(cfg, t), Len(cfg.blobs[t]))}
                  \union PageSet(BlobAddr(cfg, t), cfg.blobs[t], ~IsMeasured(t), cfg.platform)
    BY <1>3, <2>1, <2>2
  <2>4. \A u : Came(u, k) <=> u = t \/ Came(u, k - 1)
    <3>1. k \in Nat /\ 1..k = (1..(k - 1)) \union {k}
      BY <1>2
    <3>2. QED
      BY <3>1
  <2>5. Kept(k)
    <3>1. CASE t = "Kernel"
      <4>1. ~Came("Shim", k)
        <5> SUFFICES ASSUME NEW i \in 1..k, Order[i] = "Shim" PROVE FALSE
          OBVIOUS
        <5>1. i # k /\ i \in 1..n /\ i < k
          BY <1>2, <3>1
        <5>2. QED
          BY <1>2, <3>1, <5>1
      <4>2. K \subseteq D(k)
        BY <2>3, <3>1 DEF K, a, IsMeasured
      <4>3. QED
        BY <4>1, <4>2
    <3>2. CASE t # "Kernel" /\ ~Came("Kernel", k - 1)
      <4>1. ~Came("Kernel", k)
        BY <2>4, <3>2
      <4>2. QED
        BY <4>1
    <3>3. CASE t # "Kernel" /\ Came("Kernel", k - 1)
      <4>1. t = "Shim"
        <5>1. PICK i \in 1..(k - 1) : Order[i] = "Kernel"
          BY <3>3
        <5>2. i \in 1..n /\ i < k
          BY <1>2
        <5>3. QED
          BY <1>2, <5>1, <5>2
      <4>2. Came("Kernel", k) /\ Came("Shim", k)
        BY <2>4, <3>3, <4>1
      <4>3. CASE EmptyShim(cfg)
        <5> SUFFICES ASSUME NEW d \in D(k), d.kind = "page", d.gpa = a PROVE FALSE
          BY <4>2, <4>3
        <5>1. PageSet(BlobAddr(cfg, t), <<>>, ~IsMeasured(t), cfg.platform) = {}
          <6>1. DivCeil(Len(<<>>), PageSize) = 0
            BY MeasureAssumption DEF DivCeil
          <6>2. QED
            BY <6>1 DEF PageSet
        <5>2. ~InRange(d, a, 0)
          BY <1>8, <2>3, <4>1, <4>3, <5>1
        <5>3. InRange(d, a, 0)
          BY <1>7, MeasureAssumption DEF InRange
        <5>4. QED
          BY <5>2, <5>3
      <4>4. CASE ~EmptyShim(cfg)
        <5>1. K \subseteq ToSet(s)
          BY <2>1, <3>3, <4>4
        <5>2. ASSUME NEW d \in K PROVE ~InRange(d, BlobAddr(cfg, t), Len(cfg.blobs[t]))
          <6>1. d.gpa \in Nat /\ a <= d.gpa
            BY <1>7, PageSetWithin DEF K
          <6>2. /\ BlobAddr(cfg, "Shim") + Len(cfg.blobs["Shim"]) <= a
                /\ BlobAddr(cfg, "Shim") + PageSize <= a
                /\ BlobAddr(cfg, "Shim") \in Nat /\ Len(cfg.blobs["Shim"]) \in Nat
            BY <1>8, <2>1, <4>1, <4>4
          <6>3. QED
            BY <1>7, <4>1, <6>1, <6>2, MeasureAssumption DEF InRange
        <5>3. K \subseteq D(k)
          BY <2>3, <5>1, <5>2
        <5>4. QED
          BY <4>4, <5>3
      <4>5. QED
        BY <4>3, <4>4
    <3>4. QED
      BY <3>1, <3>2, <3>3
  <2>6. QED
    BY <2>1, <2>3, <2>5
<1>11. n \in T
  <2>1. n \in 0..n
    BY <1>2
  <2> HIDE DEF T
  <2>2. QED
    BY <1>2, <1>9, <1>10, <2>1, ByInduction
<1>12. Came("Kernel", n) /\ (EmptyShim(cfg) => Came("Shim", n))
    BY <1>2, <1>7, <1>8
<1>13. QED
    BY <1>4, <1>11, <1>12 DEF KernelPart, K, a

\* The first HOB area, and the list that goes there.
LEMMA HobArea ==
    ASSUME NEW c \in Config, RegionsOf(c.firmware, "IgvmHobArea") # {}
    PROVE  LET hob == FirstRegion(c.firmware, "IgvmHobArea")
           IN  /\ hob.base \in Nat /\ hob.size \in Nat /\ Whole(hob.base)
               /\ Hobs(c) \in Seq(Cells) /\ Len(Hobs(c)) \in Nat
               /\ Len(Hobs(c)) <= hob.size
               /\ Top1M <= hob.base /\ hob.base + hob.size <= BlobBase
<1> DEFINE hob == FirstRegion(c.firmware, "IgvmHobArea")
           rs == c.firmware.regions
<1>1. IsBuildConfig(c) /\ Hobs(c) \in Seq(Cells)
    BY LaunchAssumption, CellsAssumption
<1>2. hob \in Region /\ hob \in ToSet(rs) /\ hob.type = "IgvmHobArea"
    BY <1>1, FirstRegionType
<1>3. rs \in Seq(Region)
    BY <1>1 DEF IsBuildConfig, Firmware
<1>4. PICK k \in 1..Len(rs) : rs[k] = hob
  <2> HIDE DEF hob, rs
  <2>1. QED
    BY <1>2, <1>3, SeqMember
<1>5. Len(Hobs(c)) <= hob.size
    BY <1>2, <1>4, Separated
<1>6. Top1M <= hob.base /\ hob.base + hob.size <= BlobBase
  <2>1. k \in RegionsOf(c.firmware, "IgvmHobArea")
    BY <1>2, <1>4 DEF RegionsOf
  <2>2. /\ Top1M <= c.firmware.regions[k].base
        /\ c.firmware.regions[k].base + c.firmware.regions[k].size <= BlobBase
    BY <2>1, RecoveryAssumption
  <2>3. QED
    BY <1>4, <2>2
<1>7. Whole(hob.base)
    BY <1>2, LayoutAssumption DEF Whole
<1>8. hob.base \in Nat /\ hob.size \in Nat
    BY <1>2 DEF Region
<1>9. QED
    BY <1>1, <1>5, <1>6, <1>7, <1>8, SeqFacts

LEMMA HobPlaced ==
    ASSUME cfg \in Config, StateInv, builder.platforms = cfg.platform,
           RegionsOf(cfg.firmware, "IgvmHobArea") # {}, Bare(ToSet(builder.directives))
    PROVE  HobPart(cfg, ToSet(PlaceBlobs(Cleared \o HobPages)))
<1> DEFINE hob == FirstRegion(cfg.firmware, "IgvmHobArea")
           L == Hobs(cfg)
           ds == Cleared \o HobPages
           V == {s \in Seq(Directive) : HobPart(cfg, ToSet(s))}
<1>1. IsBuildConfig(cfg) /\ builder.platforms \in SUBSET Platforms
    BY ConfigIs
<1>2. /\ hob.base \in Nat /\ hob.size \in Nat /\ L \in Seq(Cells) /\ Len(L) \in Nat
      /\ Len(L) <= hob.size /\ hob.base + hob.size <= BlobBase
    BY HobArea
<1>3. HobPages \in Seq(Directive) /\ ToSet(HobPages) = HobSet(cfg)
  <2>1. FALSE \in BOOLEAN
    OBVIOUS
  <2>2. HobPages \in Seq(Directive)
    BY <1>1, <1>2, <2>1, DataPagesSet DEF HobPages
  <2>3. ToSet(HobPages) = HobSet(cfg)
    BY <1>1, <1>2, <2>1, DataPagesSet DEF HobPages, HobSet
  <2>4. QED
    BY <2>2, <2>3
<1>4. Cleared \in Seq(Directive) /\ ToSet(Cleared) \subseteq ToSet(builder.directives)
  <2>1. builder.directives \in Seq(Directive)
    BY BuilderParts
  <2>2. QED
    BY <2>1, RemoveMembers DEF Cleared
<1>5. ds \in Seq(Directive) /\ ToSet(ds) = ToSet(Cleared) \union ToSet(HobPages)
    BY <1>3, <1>4, ConcatSeq, ConcatMembers
<1> HIDE DEF ds
<1>6. ds \in V
    BY <1>3, <1>4, <1>5 DEF HobPart, Bare
<1>7. ASSUME NEW s \in V, NEW t \in DOMAIN cfg.blobs PROVE PlaceBlob(s, t) \in V
  <2> DEFINE a == BlobAddr(cfg, t)
             b == cfg.blobs[t]
             put == PageSet(a, b, ~IsMeasured(t), cfg.platform)
             r == PlaceBlob(s, t)
  <2>1. a \in Nat /\ b \in Seq(Cells) /\ BlobBase <= a
    BY <1>1, BlobPlace
  <2>2. s \in Seq(Directive) /\ HobPart(cfg, ToSet(s))
    OBVIOUS
  <2>3. r \in Seq(Directive) /\ ToSet(r) = {d \in ToSet(s) : ~InRange(d, a, Len(b))} \union put
    BY <1>1, <2>2, PlaceBlobMembers
  <2>4. ASSUME NEW d \in HobSet(cfg) PROVE ~InRange(d, a, Len(b))
    <3>1. d.gpa \in Nat /\ d.gpa < hob.base + Len(L)
      BY <1>2, PageSetWithin DEF HobSet
    <3>2. d.gpa < a
      BY <1>2, <2>1, <3>1, Addresses
    <3>3. QED
      BY <2>1, <3>1, <3>2 DEF InRange
  <2>5. ASSUME NEW d \in put, Named(d) PROVE Has(cfg, "Kernel") /\ BlobBase <= d.gpa
    <3>1. d.gpa \in Nat /\ a <= d.gpa /\ d.kind = "page"
      BY <2>1, PageSetWithin
    <3>2. t = "Kernel"
      <4> SUFFICES ASSUME t # "Kernel" PROVE FALSE
        OBVIOUS
      <4>1. \A cell \in ToSet(b) : ~IsKernelHob(cell)
        BY RecoveryAssumption
      <4> HIDE DEF a, b
      <4>2. Bare(put)
        BY <2>1, <4>1, PageSetBare
      <4>3. QED
        BY <2>5, <3>1, <4>2 DEF Bare
    <3>3. QED
      BY <2>1, <3>1, <3>2, Addresses DEF Has
  <2> HIDE DEF put, r, a, b
  <2>6. HobPart(cfg, ToSet(r))
    BY <2>2, <2>3, <2>4, <2>5 DEF HobPart
  <2>7. QED
    BY <2>3, <2>6 DEF r
<1> HIDE DEF V
<1>8. PlaceBlobs(ds) \in V
    BY <1>6, <1>7, PlacedKeeps
<1>9. QED
    BY <1>8 DEF V, ds

\* Page data without data, or no page data.
Hollow == {d \in Directive : d.kind = "page" => d.data = <<>>}

LEMMA HollowBare ==
    ASSUME NEW s \in Seq(Hollow)
    PROVE  Bare(ToSet(s))
<1>1. ToSet(s) \subseteq Hollow
    BY MembersOf
<1>2. QED
    BY <1>1 DEF Hollow, Bare, Named

LEMMA StartedBare ==
    ASSUME cfg \in Config
    PROVE  Bare(ToSet(Started))
<1>0. IsBuildConfig(cfg) /\ cfg.boot \in {"real16", "flat32"} /\ Processors(cfg) \in Nat
    BY ConfigIs, ProcessorsAre
<1>1. Plain \subseteq Hollow
    BY DEF Plain, Others, Hollow
<1>2. Native \in Seq(Hollow)
  <2>1. Blank \in Hollow
    BY <1>1, BlankType
  <2> HIDE DEF Hollow
  <2>2. QED
    BY <2>1 DEF Native
<1>3. Vmsas \in Seq(Hollow)
  <2>1. \A vp \in 1..Processors(cfg) : Vmsa(vp > 1) \in Hollow
    <3> SUFFICES ASSUME NEW vp \in 1..Processors(cfg) PROVE Vmsa(vp > 1) \in Hollow
      OBVIOUS
    <3>1. (vp > 1) \in BOOLEAN
      OBVIOUS
    <3> DEFINE ap == vp > 1
    <3>2. ap \in BOOLEAN
      BY <3>1
    <3> HIDE DEF ap
    <3>3. Vmsa(ap) \in Plain
      BY <1>0, <3>2, VmsaType
    <3>4. QED
      BY <1>1, <3>3 DEF ap
  <2>2. Vmsas \in [1..Processors(cfg) -> Hollow]
    BY <2>1 DEF Vmsas
  <2>3. QED
    BY <1>0, <2>2, SeqIntro
<1>4. ASSUME NEW r \in Region PROVE SnpPages(r) \in Seq(Hollow)
  <2> DEFINE s == RegionPages(r)
             type == PageDataType(r.type)
  <2>1. r.base \in Nat /\ r.size \in Nat /\ type \in {"NORMAL", "SECRETS", "CPUID"}
    BY DEF Region, PageDataType
  <2>2. s = EmptyPages(r.base, r.size, type)
    BY DEF RegionPages
  <2> HIDE DEF type
  <2>3. IsRun(s, r.base, r.size)
    BY <2>1, <2>2, EmptyPagesRun
  <2>4. \A k \in 1..Len(s) : s[k].data = <<>>
    <3>1. Len(s) = DivCeil(r.size, PageSize)
      BY <2>3 DEF IsRun
    <3>2. \A k \in 1..Len(s) :
             s[k] = Page(r.base + (k - 1) * PageSize, {"snp"}, FALSE, type, <<>>)
      BY <2>2, <3>1 DEF EmptyPages
    <3> HIDE DEF s
    <3>3. \A g : Page(g, {"snp"}, FALSE, type, <<>>).data = <<>>
      <4> DEFINE m == {"snp"}
                 u == FALSE
                 e == <<>>
      <4> HIDE DEF m, u, e
      <4>1. \A g : Page(g, m, u, type, e).data = e
        BY PageFields
      <4>2. QED
        BY <4>1 DEF m, u, e
    <3>4. QED
      BY <3>2, <3>3
  <2> HIDE DEF s
  <2>5. s \in Seq(Directive) /\ \A k \in 1..Len(s) : s[k] \in Directive
    BY <2>3, SeqFacts DEF IsRun
  <2>6. ToSet(s) \subseteq Hollow
    BY <2>4, <2>5, SeqMember DEF Hollow
  <2>7. s \in Seq(Hollow)
    BY <2>5, <2>6, NarrowSeq
  <2>8. SnpPages(r) \in Seq(Hollow)
    <3>1. CASE r.type \in SevTypes
      <4> DEFINE K == {k \in 1..Len(s) : ~InParamArea(s[k].gpa)}
      <4>1. SnpPages(r) = Retain(s, K)
        BY <3>1 DEF SnpPages, s
      <4> HIDE DEF K
      <4>2. QED
        BY <2>7, <4>1, RetainMembers
    <3>2. CASE r.type \notin SevTypes
      BY <3>2 DEF SnpPages
    <3>3. QED
      BY <3>1, <3>2
  <2>9. QED
    BY <2>8
<1>5. OvmfSnpPages \in Seq(Hollow)
  <2> DEFINE n == Len(cfg.firmware.regions)
             seqs == [k \in 1..n |-> SnpPages(cfg.firmware.regions[k])]
  <2>1. n \in Nat
    BY <1>0, SeqFacts DEF IsBuildConfig, Firmware
  <2>2. \A k \in 1..n : SnpPages(cfg.firmware.regions[k]) \in Seq(Hollow)
    BY <1>0, <1>4, RegionAt
  <2>3. seqs \in [1..n -> Seq(Hollow)]
    BY <2>2
  <2>4. OvmfSnpPages = FlattenSeq(seqs)
    BY DEF OvmfSnpPages
  <2> HIDE DEF seqs, n
  <2>5. seqs \in Seq(Seq(Hollow))
    BY <2>1, <2>3, SeqIntro
  <2>6. QED
    BY <2>4, <2>5, FlattenType
<1>6. Started \in Seq(Hollow)
  <2> DEFINE rest == IF "snp" \in cfg.platform THEN Vmsas \o OvmfSnpPages ELSE <<>>
  <2>1. Vmsas \o OvmfSnpPages \in Seq(Hollow)
    BY <1>3, <1>5, ConcatSeq
  <2>2. rest \in Seq(Hollow)
    BY <2>1
  <2>3. Started = Native \o rest
    BY DEF Started
  <2> HIDE DEF rest
  <2>4. QED
    BY <1>2, <2>2, <2>3, ConcatSeq
<1>7. QED
    BY <1>6, HollowBare

\* Neither firmware nor variables look like the entry of a kernel.
LEMMA AddedBare ==
    ASSUME cfg \in Config, builder.platforms \in SUBSET Platforms
    PROVE  Bare(ToSet(Added))
<1> DEFINE fw == Cells4G
           n == Len(fw)
<1>0. IsBuildConfig(cfg)
    BY ConfigIs
<1>1. /\ fw \in Seq(Cells) /\ cfg.vars \in Seq(Cells) /\ n \in Nat
      /\ Top4G - n \in Nat /\ VarsBase(cfg) \in Nat
  <2>1. /\ VarsBase(cfg) \in Nat /\ cfg.vars \in Seq(Cells) /\ fw \in Seq(Cells)
        /\ n \in Nat /\ n <= Top4G
    BY <1>0, VarsBaseType DEF Cells4G
  <2> HIDE DEF n, fw
  <2>2. Top4G - n \in Nat
    BY <2>1, Addresses
  <2>3. QED
    BY <2>1, <2>2
<1>2. /\ \A cell \in ToSet(fw) : ~IsKernelHob(cell)
      /\ \A cell \in ToSet(cfg.vars) : ~IsKernelHob(cell)
    BY RecoveryAssumption DEF Cells4G
<1>3. Bare(ToSet(Pages4G)) /\ Bare(ToSet(VarsPages))
  <2> DEFINE top == Top4G - n
             m == builder.platforms
  <2>1. Pages4G = DataPages(top, fw, FALSE) /\ VarsPages = DataPages(VarsBase(cfg), cfg.vars, FALSE)
    BY DEF Pages4G, VarsPages
  <2> HIDE DEF top, fw
  <2>2. top \in Nat /\ FALSE \in BOOLEAN
    BY <1>1 DEF top
  <2>3. /\ ToSet(Pages4G) = PageSet(top, fw, FALSE, m)
        /\ ToSet(VarsPages) = PageSet(VarsBase(cfg), cfg.vars, FALSE, m)
    BY <1>1, <2>1, <2>2, DataPagesSet
  <2>4. /\ Bare(PageSet(top, fw, FALSE, m))
        /\ Bare(PageSet(VarsBase(cfg), cfg.vars, FALSE, m))
    BY <1>1, <1>2, <2>2, PageSetBare
  <2>5. QED
    BY <2>3, <2>4
<1>4. Bare(ToSet(LowCopy))
  <2>1. CASE cfg.boot = "real16"
    <3> DEFINE b == Top1M - Low
               part == SubSeq(fw, n - Low + 1, n)
    <3>1. Low \in Nat /\ Low <= Top1M /\ Low <= n
      <4>1. Low = Least(LowMax, n)
        BY DEF Low, Cells4G
      <4> HIDE DEF n
      <4>2. QED
        BY <1>1, <4>1, Addresses DEF Least
    <3>2. b \in Nat
      BY <3>1, Addresses
    <3>3. LowCopy = DataPages(b, part, FALSE)
      BY <2>1 DEF LowCopy
    <3>4. part \in Seq(ToSet(fw))
      <4>1. fw \in Seq(ToSet(fw))
        BY <1>1, NarrowSeq
      <4>2. n - Low + 1 \in Nat \ {0} /\ n \in Int /\ n <= Len(fw)
        BY <1>1, <3>1
      <4> HIDE DEF n, fw
      <4>3. QED
        BY <4>1, <4>2, SubSeqType
    <3> HIDE DEF b, part, fw
    <3>5. ToSet(part) \subseteq ToSet(fw)
      BY <3>4, MembersOf
    <3>6. \A cell \in ToSet(part) : ~IsKernelHob(cell)
      BY <1>2, <3>5
    <3>7. part \in Seq(Cells)
      <4>1. ToSet(fw) \subseteq Cells
        BY <1>1, MembersOf
      <4>2. QED
        BY <3>4, <4>1, Widen
    <3>8. ToSet(LowCopy) = PageSet(b, part, FALSE, builder.platforms)
      <4>1. FALSE \in BOOLEAN
        OBVIOUS
      <4>2. QED
        BY <3>2, <3>3, <3>7, <4>1, DataPagesSet
    <3>9. Bare(PageSet(b, part, FALSE, builder.platforms))
      BY <3>2, <3>6, <3>7, PageSetBare
    <3>10. QED
      BY <3>8, <3>9
  <2>2. CASE cfg.boot # "real16"
    BY <2>2 DEF LowCopy, ToSet, Bare
  <2>3. QED
    BY <2>1, <2>2
<1>5. Bare(ToSet(IgvmParams))
    BY ParamsTidy DEF Bare
<1>6. ToSet(Added) = ((ToSet(IgvmParams) \union ToSet(LowCopy)) \union ToSet(Pages4G))
                     \union ToSet(VarsPages)
    BY AddedMembers
<1>7. QED
    BY <1>3, <1>4, <1>5, <1>6 DEF Bare

-----------------------------------------------------------------------------
(* What is recovered from a file *)

\* A file that build can make for c.
Made(c, f) ==
    /\ c \in Config /\ Tidy(c, f.directives) /\ Carries(c, ToSet(f.directives))
    /\ DOMAIN c.blobs # {} => RegionsOf(c.firmware, "IgvmHobArea") # {}

\* Guest pages that hold what f has for the platforms of the build, and nothing else.
Shows(pages, c, f) ==
    /\ IsFiniteSet(DOMAIN pages)
    /\ \A d \in ToSet(f.directives) :
          /\ d.kind = "page" /\ d.data # <<>> /\ d.type = "NORMAL" /\ ~d.unmeasured
          /\ d.mask = c.platform
          => d.gpa \in DOMAIN pages /\ Fills(pages, d, d.gpa)
    /\ \A g \in DOMAIN pages : \E d \in ToSet(f.directives) : Fills(pages, d, g)

LEMMA MapsShow ==
    ASSUME NEW c, NEW f, Made(c, f)
    PROVE  /\ Shows(PageMap(f), c, f)
           /\ "snp" \in c.platform => Shows(MeasuredMap(f), c, f)
<1> DEFINE ds == f.directives
           I == {i \in 1..Len(ds) : ds[i].kind = "page" /\ ds[i].data # <<>>}
           J == {i \in 1..Len(ds) : /\ ds[i].kind = "page" /\ ForSnp(ds[i])
                                     /\ ds[i].type = "NORMAL" /\ ~ds[i].unmeasured}
<1>1. ds \in Seq(Directive) /\ Apart(ds, ParamSize(c))
    BY DEF Made, Tidy
<1>2. \A d \in ToSet(ds) : \E k \in 1..Len(ds) : ds[k] = d
    BY <1>1, SeqMember
<1>3. /\ \A i \in I : i \in 1..Len(ds) /\ ds[i].kind = "page"
      /\ \A i \in J : i \in 1..Len(ds) /\ ds[i].kind = "page"
    OBVIOUS
<1>4. PageMap(f) = PagesAt(f, I) /\ MeasuredMap(f) = PagesAt(f, J)
    BY DEF PageMap, MeasuredMap
<1>5. \A d \in ToSet(ds) :
         d.kind = "page" /\ d.data # <<>> => \E i \in I : ds[i] = d
    BY <1>2
<1>6. "snp" \in c.platform =>
         \A d \in ToSet(ds) :
            d.kind = "page" /\ d.type = "NORMAL" /\ ~d.unmeasured /\ d.mask = c.platform
            => \E i \in J : ds[i] = d
    BY <1>2 DEF ForSnp
<1> HIDE DEF I, J
<1>7. Shows(PagesAt(f, I), c, f)
  <2>1. /\ IsFiniteSet(DOMAIN PagesAt(f, I))
        /\ \A i \in I : ds[i].gpa \in DOMAIN PagesAt(f, I) /\ Fills(PagesAt(f, I), ds[i], ds[i].gpa)
        /\ \A g \in DOMAIN PagesAt(f, I) : \E d \in ToSet(ds) : Fills(PagesAt(f, I), d, g)
    BY <1>1, <1>3, PagesAtAre
  <2>2. QED
    BY <1>5, <2>1 DEF Shows
<1>8. "snp" \in c.platform => Shows(PagesAt(f, J), c, f)
  <2>1. /\ IsFiniteSet(DOMAIN PagesAt(f, J))
        /\ \A i \in J : ds[i].gpa \in DOMAIN PagesAt(f, J) /\ Fills(PagesAt(f, J), ds[i], ds[i].gpa)
        /\ \A g \in DOMAIN PagesAt(f, J) : \E d \in ToSet(ds) : Fills(PagesAt(f, J), d, g)
    BY <1>1, <1>3, PagesAtAre
  <2>2. QED
    BY <1>6, <2>1 DEF Shows
<1>9. QED
    BY <1>4, <1>7, <1>8

\* An entry that is found is in the data of a page.
LEMMA EntryPage ==
    ASSUME NEW c, NEW f, Made(c, f), NEW pages, Shows(pages, c, f), NEW p \in KernelHobs(pages)
    PROVE  \E d \in ToSet(f.directives) :
              /\ d.kind = "page" /\ d.gpa = p[1] /\ p[1] \in Nat /\ p[2] \in 1..Len(d.data)
              /\ pages[p[1]][p[2]] = d.data[p[2]] /\ IsKernelHob(d.data[p[2]])
<1> DEFINE D == ToSet(f.directives)
           g == p[1]
           i == p[2]
<1>1. f.directives \in Seq(Directive)
    BY DEF Made, Tidy
<1>2. g \in DOMAIN pages /\ i \in 1..PageSize /\ IsKernelHob(pages[g][i])
    BY DEF KernelHobs
<1>3. PICK d \in D : d.kind = "page" /\ d.gpa = g /\ pages[g] = Padded(d.data)
  BY <1>2 DEF Shows, Fills
<1>4. d \in Directive
    BY <1>1, MembersOf
<1>5. d.gpa \in Nat /\ d.data \in Seq(Cells)
    BY <1>4 DEF Directive
<1>6. pages[g][i] = IF i <= Len(d.data) THEN d.data[i] ELSE ZeroCell
    BY <1>2, <1>3 DEF Padded
<1>7. i <= Len(d.data)
    BY <1>2, <1>6, RecoveryAssumption
<1>8. i \in 1..Len(d.data)
    BY <1>2, <1>5, <1>7, MeasureAssumption, SeqFacts
<1>9. QED
    BY <1>2, <1>3, <1>5, <1>6, <1>7, <1>8

\* A cell of a page of the HOB list is one of the list.
LEMMA HobCell ==
    ASSUME NEW c \in Config, RegionsOf(c.firmware, "IgvmHobArea") # {},
           NEW d \in HobSet(c), NEW i \in 1..Len(d.data)
    PROVE  d.data[i] \in ToSet(Hobs(c))
<1> DEFINE base == FirstRegion(c.firmware, "IgvmHobArea").base
           L == Hobs(c)
<1>1. base \in Nat /\ L \in Seq(Cells)
    BY HobArea
<1>2. PICK j \in 1..DivCeil(Len(L), PageSize) :
         d = DataPage(base, L, FALSE, c.platform, j)
    BY DEF HobSet, PageSet
<1>3. d.data = Piece(L, j)
  <2> DEFINE u == FALSE
             m == c.platform
  <2> HIDE DEF base, L, u, m
  <2>1. d = DataPage(base, L, u, m, j)
    BY <1>2 DEF u, m
  <2>2. QED
    BY <2>1, DataPageFields
<1> DEFINE x == (j - 1) * PageSize + i
<1>4. x \in 1..Len(L) /\ d.data[i] = L[x]
    BY <1>1, <1>3, PieceIs
<1> HIDE DEF x, L
<1>5. L[x] \in ToSet(L)
    BY <1>1, <1>4, SeqMember
<1>6. QED
    BY <1>4, <1>5 DEF L

\* The entry of the kernel is found below the blobs.
LEMMA EntryThere ==
    ASSUME NEW c, NEW f, Made(c, f), Has(c, "Kernel"), NEW pages, Shows(pages, c, f)
    PROVE  \E q \in KernelHobs(pages) : q[1] \in Nat /\ q[2] \in Nat /\ q[1] + q[2] <= BlobBase
<1> DEFINE D == ToSet(f.directives)
           hob == FirstRegion(c.firmware, "IgvmHobArea")
           base == hob.base
           L == Hobs(c)
<1>1. /\ c \in Config /\ RegionsOf(c.firmware, "IgvmHobArea") # {} /\ IsBuildConfig(c)
      /\ f.directives \in Seq(Directive) /\ HobSet(c) \subseteq D
    BY LaunchAssumption DEF Made, Tidy, Has, Carries, HobPart
<1>2. /\ base \in Nat /\ hob.size \in Nat /\ L \in Seq(Cells) /\ Len(L) \in Nat
      /\ Len(L) <= hob.size /\ base + hob.size <= BlobBase /\ BlobBase \in Nat
    BY <1>1, HobArea, Addresses
<1>3. PICK x \in 1..Len(L) : L[x] = KernelHob(c)
  <2>1. KernelHob(c) \in ToSet(L)
    BY <1>1, HobEntries
  <2> HIDE DEF L
  <2>2. QED
    BY <1>2, <2>1, SeqMember
<1>4. PICK j \in 1..DivCeil(Len(L), PageSize) :
         \E i \in 1..Len(Piece(L, j)) : x = (j - 1) * PageSize + i
    BY <1>2, PieceOf
<1>5. PICK i \in 1..Len(Piece(L, j)) : x = (j - 1) * PageSize + i
    BY <1>4
<1>6. /\ Len(Piece(L, j)) \in 1..PageSize /\ (j - 1) * PageSize \in Nat
      /\ Piece(L, j)[i] = L[x]
    BY <1>2, <1>5, PieceIs
<1> DEFINE d == DataPage(base, L, FALSE, c.platform, j)
           g == base + (j - 1) * PageSize
<1>7. /\ d.kind = "page" /\ d.gpa = g /\ d.data = Piece(L, j)
      /\ d.type = "NORMAL" /\ ~d.unmeasured /\ d.mask = c.platform
  <2> DEFINE u == FALSE
             m == c.platform
  <2> HIDE DEF base, L, u, m
  <2>1. d = DataPage(base, L, u, m, j)
    BY DEF u, m
  <2> HIDE DEF d
  <2>2. /\ d.kind = "page" /\ d.gpa = g /\ d.data = Piece(L, j)
        /\ d.type = "NORMAL" /\ d.unmeasured = u /\ d.mask = m
    BY <2>1, DataPageFields
  <2>3. QED
    BY <2>2 DEF u, m
<1>8. d \in D
    BY <1>1 DEF HobSet, PageSet
<1> HIDE DEF d
<1>9. d.data # <<>>
    BY <1>6, <1>7
<1>10. g \in DOMAIN pages /\ pages[g] = Padded(Piece(L, j))
  <2>1. d.gpa \in DOMAIN pages /\ pages[d.gpa] = Padded(d.data)
    BY <1>7, <1>8, <1>9 DEF Shows, Fills
  <2>2. QED
    BY <1>7, <2>1
<1>11. i \in 1..PageSize /\ i <= Len(Piece(L, j)) /\ i \in Nat
    BY <1>6, MeasureAssumption
<1>12. pages[g][i] = KernelHob(c)
    BY <1>3, <1>6, <1>10, <1>11 DEF Padded
<1>13. g \in Nat /\ g + i <= BlobBase
  <2> DEFINE e == (j - 1) * PageSize
  <2>1. e \in Nat /\ x = e + i /\ x <= Len(L) /\ g = base + e
    BY <1>2, <1>5, <1>6
  <2> HIDE DEF e, g, L, base, hob
  <2>2. QED
    BY <1>2, <1>11, <2>1
<1> DEFINE q == <<g, i>>
<1>14. q \in KernelHobs(pages)
  <2>1. IsKernelHob(KernelHob(c))
    BY DEF IsKernelHob, KernelHob
  <2> HIDE DEF g
  <2>2. q \in (DOMAIN pages) \X (1..PageSize) /\ q[1] = g /\ q[2] = i
    BY <1>10, <1>11
  <2>3. QED
    BY <1>12, <2>1, <2>2 DEF KernelHobs
<1>15. q[1] \in Nat /\ q[2] \in Nat /\ q[1] + q[2] <= BlobBase
    BY <1>11, <1>13
<1>16. QED
    BY <1>14, <1>15

LEMMA EntryFound ==
    ASSUME NEW c, NEW f, Made(c, f), NEW pages, Shows(pages, c, f)
    PROVE  FindKernelBlob(pages) = IF Has(c, "Kernel") THEN <<KernelHob(c)>> ELSE <<>>
<1> DEFINE H == KernelHobs(pages)
           D == ToSet(f.directives)
<1>1. ASSUME NEW p \in H
      PROVE  /\ p[1] \in Nat /\ p[2] \in Nat \ {0} /\ Has(c, "Kernel")
             /\ pages[p[1]][p[2]] = KernelHob(c) \/ BlobBase <= p[1]
  <2>1. PICK d \in D :
           /\ d.kind = "page" /\ d.gpa = p[1] /\ p[1] \in Nat /\ p[2] \in 1..Len(d.data)
           /\ pages[p[1]][p[2]] = d.data[p[2]] /\ IsKernelHob(d.data[p[2]])
    BY EntryPage
  <2>2. Named(d)
    BY <2>1 DEF Named
  <2>3. DOMAIN c.blobs # {}
    BY <2>1, <2>2 DEF Made, Carries, Bare
  <2>4. d \in HobSet(c) \/ (Has(c, "Kernel") /\ BlobBase <= d.gpa)
    BY <2>1, <2>2, <2>3 DEF Made, Carries, HobPart
  <2>5. p[2] \in Nat \ {0}
    BY <2>1
  <2>6. CASE d \in HobSet(c)
    <3>1. c \in Config /\ RegionsOf(c.firmware, "IgvmHobArea") # {} /\ IsBuildConfig(c)
      BY <2>3, LaunchAssumption DEF Made
    <3>2. d.data[p[2]] \in ToSet(Hobs(c))
      BY <2>1, <2>6, <3>1, HobCell
    <3>3. Has(c, "Kernel") /\ d.data[p[2]] = KernelHob(c)
      BY <2>1, <3>1, <3>2, HobEntries
    <3>4. QED
      BY <2>1, <2>5, <3>3
  <2>7. QED
    BY <2>1, <2>4, <2>5, <2>6
<1>2. CASE ~Has(c, "Kernel")
  <2>1. H = {}
    BY <1>1, <1>2
  <2>2. QED
    BY <1>2, <2>1 DEF FindKernelBlob
<1>3. CASE Has(c, "Kernel")
  <2> DEFINE best == CHOOSE p \in H : \A q \in H : p[1] + p[2] <= q[1] + q[2]
             T == {p[1] + p[2] : p \in H}
  <2>1. PICK q \in H : q[1] \in Nat /\ q[2] \in Nat /\ q[1] + q[2] <= BlobBase
    BY <1>3, EntryThere
  <2> HIDE DEF H
  <2>2. T \subseteq Nat /\ T # {}
    BY <1>1, <2>1
  <2> HIDE DEF T
  <2>3. PICK least \in T : \A y \in T : least <= y
    BY <2>2, LeastNumber
  <2>4. \E p \in H : \A r \in H : p[1] + p[2] <= r[1] + r[2]
    BY <2>3 DEF T
  <2>5. best \in H /\ \A r \in H : best[1] + best[2] <= r[1] + r[2]
    BY <2>4
  <2>6. FindKernelBlob(pages) = <<pages[best[1]][best[2]]>>
    BY <2>1 DEF FindKernelBlob, H
  <2> HIDE DEF best
  <2>7. pages[best[1]][best[2]] = KernelHob(c)
    <3> SUFFICES ASSUME pages[best[1]][best[2]] # KernelHob(c) PROVE FALSE
      OBVIOUS
    <3>1. best[1] \in Nat /\ best[2] \in Nat \ {0} /\ BlobBase <= best[1]
      BY <1>1, <2>5
    <3>2. best[1] + best[2] <= q[1] + q[2]
      BY <2>1, <2>5
    <3>3. QED
      BY <2>1, <3>1, <3>2, Addresses
  <2>8. QED
    BY <1>3, <2>6, <2>7
<1>4. QED
    BY <1>2, <1>3

\* What is to be found of the kernel that was given to build.
Remains(c) ==
    IF Has(c, "Kernel") /\ ~(EmptyShim(c) /\ c.blobs["Kernel"] # <<>>)
    THEN <<c.blobs["Kernel"]>> ELSE <<>>

LEMMA Recovered ==
    ASSUME NEW c, NEW f, Made(c, f), NEW pages, Shows(pages, c, f)
    PROVE  KernelIn(pages) = Remains(c)
<1> DEFINE D == ToSet(f.directives)
           a == BlobAddr(c, "Kernel")
           k == c.blobs["Kernel"]
           found == FindKernelBlob(pages)
<1>1. c \in Config /\ IsBuildConfig(c) /\ f.directives \in Seq(Directive)
    BY LaunchAssumption DEF Made, Tidy
<1>2. found = IF Has(c, "Kernel") THEN <<KernelHob(c)>> ELSE <<>>
    BY EntryFound
<1>3. KernelIn(pages) = IF found = <<>> THEN <<>> ELSE Reassemble(pages, found[1][3], found[1][4])
    BY DEF KernelIn
<1> HIDE DEF found
<1>4. CASE ~Has(c, "Kernel")
    BY <1>2, <1>3, <1>4 DEF Remains
<1>5. CASE Has(c, "Kernel")
  <2>1. KernelIn(pages) = Reassemble(pages, a, Len(k))
    <3>1. found = <<KernelHob(c)>>
      BY <1>2, <1>5
    <3>2. found # <<>> /\ found[1] = KernelHob(c)
      BY <3>1
    <3>3. KernelHob(c)[3] = a /\ KernelHob(c)[4] = Len(k)
      BY DEF KernelHob
    <3>4. QED
      BY <1>3, <3>2, <3>3
  <2>2. a \in Nat /\ Whole(a) /\ k \in Seq(Cells)
    BY <1>1, <1>5, BlobPlace DEF Has
  <2>3. KernelPart(c, D)
    BY <1>5 DEF Made, Carries, Has
  <2>4. IsFiniteSet(DOMAIN pages)
    BY DEF Shows
  <2>5. CASE EmptyShim(c) /\ k # <<>>
    <3>1. a \notin DOMAIN pages
      <4> SUFFICES ASSUME a \in DOMAIN pages PROVE FALSE
        OBVIOUS
      <4>1. PICK d \in D : d.kind = "page" /\ d.gpa = a
        BY DEF Shows, Fills
      <4>2. QED
        BY <2>3, <2>5, <4>1 DEF KernelPart
    <3>2. Len(k) \in Nat \ {0}
      <4> HIDE DEF k
      <4>1. QED
        BY <2>2, <2>5
    <3>3. Reassemble(pages, a, Len(k)) = <<>>
      <4> HIDE DEF a, k
      <4>1. QED
        BY <2>2, <3>1, <3>2, NotReassembled
    <3>4. QED
      BY <2>1, <2>5, <3>3 DEF Remains
  <2>6. CASE ~(EmptyShim(c) /\ k # <<>>)
    <3>1. ASSUME NEW j \in 1..DivCeil(Len(k), PageSize)
          PROVE  /\ a + (j - 1) * PageSize \in DOMAIN pages
                 /\ pages[a + (j - 1) * PageSize] = Padded(Piece(k, j))
      <4>1. k # <<>>
        <5> SUFFICES ASSUME k = <<>> PROVE FALSE
          OBVIOUS
        <5>1. DivCeil(Len(k), PageSize) = 0
          BY MeasureAssumption DEF DivCeil
        <5>2. QED
          BY <5>1
      <4>2. PageSet(a, k, FALSE, c.platform) \subseteq D
        BY <2>3, <2>6, <4>1 DEF KernelPart
      <4> DEFINE d == DataPage(a, k, FALSE, c.platform, j)
      <4>3. d \in D
        BY <4>2 DEF PageSet
      <4>4. /\ d.kind = "page" /\ d.gpa = a + (j - 1) * PageSize /\ d.data = Piece(k, j)
            /\ d.type = "NORMAL" /\ ~d.unmeasured /\ d.mask = c.platform
        <5> DEFINE u == FALSE
                   m == c.platform
        <5> HIDE DEF a, k, u, m
        <5>1. d = DataPage(a, k, u, m, j)
          BY DEF u, m
        <5> HIDE DEF d
        <5>2. /\ d.kind = "page" /\ d.gpa = a + (j - 1) * PageSize /\ d.data = Piece(k, j)
              /\ d.type = "NORMAL" /\ d.unmeasured = u /\ d.mask = m
          BY <5>1, DataPageFields
        <5>3. QED
          BY <5>2 DEF u, m
      <4> HIDE DEF d
      <4>5. d.data # <<>>
        BY <2>2, <4>4, PieceIs
      <4>6. d.gpa \in DOMAIN pages /\ pages[d.gpa] = Padded(d.data)
        BY <4>3, <4>4, <4>5 DEF Shows, Fills
      <4>7. QED
        BY <4>4, <4>6
    <3>2. Reassemble(pages, a, Len(k)) = <<k>>
      <4> HIDE DEF a, k
      <4>1. QED
        BY <2>2, <2>4, <3>1, Reassembled
    <3>3. QED
      BY <1>5, <2>1, <2>6, <3>2 DEF Remains
  <2>7. QED
    BY <2>5, <2>6
<1>6. QED
    BY <1>4, <1>5

\* What extract.rs finds in a file that build made, and what is in its measured pages.
LEMMA BuiltKernel ==
    ASSUME NEW c, NEW f, Made(c, f)
    PROVE  /\ KernelBlob(f) = Remains(c)
           /\ "snp" \in c.platform => MeasuredKernel(f) = Remains(c)
BY MapsShow, Recovered DEF KernelBlob, MeasuredKernel

\* What the HOB list and the kernel's pages are while a file is put together, and
\* in every file built.
RecoverInv ==
    /\ pc \in {"params", "hob"} => Bare(ToSet(builder.directives))
    /\ pc = "finalize" => Carries(cfg, ToSet(builder.directives))
    /\ pc = "measure" => Carries(cfg, ToSet(Dirs))
    /\ \A r \in ToSet(results) : r.ok => Made(r.cfg, r.file)

LEMMA InitRecover == Init => RecoverInv
<1> SUFFICES ASSUME Init PROVE RecoverInv
    OBVIOUS
<1>1. results = <<>> /\ pc \in {"idle", "measure_only"}
    BY DEF Init
<1>2. ToSet(results) = {}
    BY <1>1 DEF ToSet
<1>3. QED
    BY <1>1, <1>2 DEF RecoverInv

LEMMA AddPlatformsRecover == ImageInv /\ RecoverInv /\ AddPlatforms => RecoverInv'
<1> SUFFICES ASSUME ImageInv, RecoverInv, AddPlatforms PROVE RecoverInv'
    OBVIOUS
<1>1. cfg \in Config /\ pc' = "params" /\ results' = results
    BY DEF ImageInv, StateInv, AddPlatforms, Building, Goto
<1>2. builder'.directives = Started
  <2>1. builder' = [platforms |-> cfg.platform, directives |-> Started]
    BY AddPlatformsIs
  <2>2. QED
    BY <2>1
<1>3. QED
    BY <1>1, <1>2, StartedBare DEF RecoverInv

LEMMA AddParamsRecover == ImageInv /\ RecoverInv /\ AddParamsAndFirmware => RecoverInv'
<1> SUFFICES ASSUME ImageInv, RecoverInv, AddParamsAndFirmware PROVE RecoverInv'
    OBVIOUS
<1> DEFINE ds == builder.directives
<1>1. cfg \in Config /\ pc' = "hob" /\ pc = "params" /\ StateInv /\ results' = results
    BY DEF ImageInv, StateInv, AddParamsAndFirmware, Building, Goto
<1>2. builder.platforms \in SUBSET Platforms /\ ds \in Seq(Directive)
    BY <1>1, BuilderParts
<1>3. Bare(ToSet(ds))
    BY <1>1 DEF RecoverInv
<1>4. Added \in Seq(Directive) /\ Bare(ToSet(Added))
    BY <1>1, <1>2, AddedMembers, AddedBare
<1>5. ds \o Added \in Seq(Directive) /\ ToSet(ds \o Added) = ToSet(ds) \union ToSet(Added)
    BY <1>2, <1>4, ConcatSeq, ConcatMembers
<1>6. Bare(ToSet(ds \o Added))
    BY <1>3, <1>4, <1>5 DEF Bare
<1>7. builder'.directives = ds \o Added
  <2>1. builder' = [builder EXCEPT !.directives = ds \o Added]
    BY <1>1, AddParamsIs
  <2>2. QED
    BY <1>1, <1>5, <2>1, NewDirectives
<1>8. QED
    BY <1>1, <1>6, <1>7 DEF RecoverInv

LEMMA AddHobRecover == ImageInv /\ OutcomeInv /\ RecoverInv /\ AddHobData => RecoverInv'
<1> SUFFICES ASSUME ImageInv, OutcomeInv, RecoverInv, AddHobData PROVE RecoverInv'
    OBVIOUS
<1>1. /\ cfg \in Config /\ cfg' = cfg /\ pc' = "finalize" /\ pc = "hob" /\ StateInv
      /\ results' = results
    BY DEF ImageInv, StateInv, AddHobData, Building, Goto
<1>2. Bare(ToSet(builder.directives)) /\ builder.platforms = cfg.platform
    BY <1>1 DEF RecoverInv, OutcomeInv, ProgressInv
<1>3. Carries(cfg, ToSet(builder'.directives))
  <2>1. CASE DOMAIN cfg.blobs = {}
    BY <1>2, <2>1, AddHobIs DEF Carries
  <2>2. CASE DOMAIN cfg.blobs # {}
    <3> DEFINE ds == Cleared \o HobPages
    <3>1. builder' = [builder EXCEPT !.directives = PlaceBlobs(ds)]
      BY <2>2, AddHobIs
    <3>2. RegionsOf(cfg.firmware, "IgvmHobArea") # {}
      BY <2>2 DEF AddHobData
    <3>3. HobPart(cfg, ToSet(PlaceBlobs(ds)))
      BY <1>1, <1>2, <3>2, HobPlaced
    <3>4. PlaceBlobs(ds) \in Seq(Directive)
      BY <1>1, <3>2, HobType
    <3>5. builder'.directives = PlaceBlobs(ds)
      BY <1>1, <3>1, <3>4, NewDirectives
    <3>6. ds \in Seq(Directive)
      <4>1. /\ IsBuildConfig(cfg) /\ Hobs(cfg) \in Seq(Cells)
            /\ builder.platforms \in SUBSET Platforms /\ builder.directives \in Seq(Directive)
            /\ FirstRegion(cfg.firmware, "IgvmHobArea").base \in Nat
        BY <1>1, <3>2, ConfigIs, BuilderParts, HobArea
      <4>2. FALSE \in BOOLEAN
        OBVIOUS
      <4>3. HobPages \in Seq(Directive)
        BY <4>1, <4>2, DataPagesSet DEF HobPages
      <4>4. Cleared \in Seq(Directive)
        BY <4>1, RemoveMembers DEF Cleared
      <4>5. QED
        BY <4>3, <4>4, ConcatSeq
    <3> HIDE DEF ds
    <3>7. Has(cfg, "Kernel") => KernelPart(cfg, ToSet(PlaceBlobs(ds)))
      BY <1>1, <1>2, <3>6, KernelPlaced
    <3>8. QED
      BY <2>2, <3>3, <3>5, <3>7 DEF Carries
  <2>3. QED
    BY <2>1, <2>2
<1>4. QED
    BY <1>1, <1>3 DEF RecoverInv

LEMMA FinalizeRecover == ImageInv /\ RecoverInv /\ Finalize => RecoverInv'
<1> SUFFICES ASSUME ImageInv, RecoverInv, Finalize PROVE RecoverInv'
    OBVIOUS
<1>1. cfg' = cfg /\ pc' = "measure" /\ results' = results /\ StateInv
    BY DEF Finalize, Goto, ImageInv, buildVars
<1>2. Carries(cfg, ToSet(builder.directives))
    BY DEF RecoverInv, Finalize
<1>3. Dirs' = Sorted(builder.directives)
    BY DEF Finalize, Measure, Dirs
<1>4. ToSet(Dirs') = ToSet(builder.directives)
    BY <1>1, <1>3, BuilderParts, SortedMembers
<1>5. Carries(cfg, ToSet(Dirs'))
    BY <1>2, <1>4
<1>6. QED
    BY <1>1, <1>5 DEF RecoverInv

LEMMA BuiltRecover ==
    ImageInv /\ OutcomeInv /\ CoverInv /\ RecoverInv /\ Built => RecoverInv'
<1> SUFFICES ASSUME ImageInv, OutcomeInv, CoverInv, RecoverInv, Built PROVE RecoverInv'
    OBVIOUS
<1>1. pc = "measure" /\ pc' = "idle"
    BY DEF Built, Finish, Goto
<1>2. Tidy(cfg, Dirs) /\ Carries(cfg, ToSet(Dirs)) /\ HasHob(cfg)
    BY <1>1 DEF CoverInv, RecoverInv, OutcomeInv, ProgressInv
<1>3. PICK r : /\ ToSet(results') = ToSet(results) \union {r}
               /\ r.cfg = cfg /\ (r.ok => r.file = file /\ r.digest = ld)
    BY BuiltType
<1>4. cfg \in Config
    BY BuiltType
<1>5. r.ok => Made(r.cfg, r.file)
    BY <1>2, <1>3, <1>4 DEF Dirs, Made, HasHob
<1>6. QED
    BY <1>1, <1>3, <1>5 DEF RecoverInv

LEMMA FailRecover ==
    ASSUME ImageInv, RecoverInv, NoResetAddr \/ TooManyVps \/ NoHobArea \/ FinalizeFails
    PROVE  RecoverInv'
<1> DEFINE r == [cfg |-> cfg, ok |-> FALSE, file |-> NoFile, digest |-> <<>>]
<1>1. ToSet(results') = ToSet(results) \union {r}
    BY FailType
<1>2. r.ok = FALSE
    OBVIOUS
<1> HIDE DEF r
<1>3. pc' = "idle"
    BY DEF NoResetAddr, TooManyVps, NoHobArea, FinalizeFails, Finish, Goto
<1>4. QED
    BY <1>1, <1>2, <1>3 DEF RecoverInv

LEMMA StepRecover ==
    ImageInv /\ OutcomeInv /\ CoverInv /\ RecoverInv /\ [Next]_vars => RecoverInv'
<1> SUFFICES ASSUME ImageInv, OutcomeInv, CoverInv, RecoverInv, [Next]_vars PROVE RecoverInv'
    OBVIOUS
<1>1. CASE UNCHANGED vars
    BY <1>1 DEF vars, imageVars, buildVars, measureVars, RecoverInv, Dirs
<1>2. CASE MeasureLoop
  <2>1. UNCHANGED <<pc, cfg, builder, results>> /\ MeasureStep
    BY <1>2 DEF MeasureLoop, imageVars, buildVars
  <2>2. file' = file
    BY <2>1 DEF MeasureStep, FindSnpCompat, BatchPage, CollectVmsa, MeasureInsert, UnknownArea,
                SkipDirective, FlushRest, MeasureVmsaPages
  <2>3. QED
    BY <2>1, <2>2 DEF RecoverInv, Dirs
<1>3. CASE StartBuild \/ Launch \/ Attest \/ VerifyIgvmMeasurement \/ VerifyImageRoothash
         \/ ReplaceFile
  <2>1. results' = results /\ pc' \notin {"params", "hob", "finalize", "measure"}
    BY <1>3 DEF StartBuild, Launch, Attest, VerifyIgvmMeasurement, VerifyImageRoothash, ReplaceFile,
           Goto
  <2>2. QED
    BY <2>1 DEF RecoverInv
<1>4. QED
    BY <1>1, <1>2, <1>3, AddPlatformsRecover, AddParamsRecover, AddHobRecover, FailRecover,
       FinalizeRecover, BuiltRecover DEF Next

\* The invariant of building, and of what is in the files built.
FilesInv == ImageInv /\ OutcomeInv /\ CoverInv /\ RecoverInv

THEOREM FilesInvariant == Spec => []FilesInv
BY ImageInvariant, InitOutcome, StepOutcome, InitPages, StepPages, InitRecover, StepRecover,
   PTL DEF Spec, FilesInv

\* For every firmware, blobs and page size: what extract.rs finds in a file that
\* build made is the kernel that was given to build, unless an empty shim took a
\* page of it, and it is what lies in the pages that the launch digest vouches for
\* (build.rs: add_hob_data; extract.rs: page_map, find_kernel_blob, reassemble).
THEOREM KernelComesBack == Spec => []KernelRecovered
<1>1. OutcomeInv /\ RecoverInv => KernelRecovered
  <2> SUFFICES ASSUME OutcomeInv, RecoverInv, NEW r \in ToSet(results), r.ok
               PROVE  /\ MeasuredKernel(r.file) = KernelBlob(r.file)
                      /\ Has(r.cfg, "Kernel") =>
                            (KernelBlob(r.file) = <<r.cfg.blobs["Kernel"]>>
                                <=> ~(EmptyShim(r.cfg) /\ r.cfg.blobs["Kernel"] # <<>>))
    BY DEF KernelRecovered
  <2> DEFINE k == r.cfg.blobs["Kernel"]
  <2>1. Made(r.cfg, r.file) /\ "snp" \in r.cfg.platform
    BY DEF RecoverInv, OutcomeInv, BuildOutcome
  <2>2. KernelBlob(r.file) = Remains(r.cfg) /\ MeasuredKernel(r.file) = Remains(r.cfg)
    BY <2>1, BuiltKernel
  <2>3. Remains(r.cfg) =
           IF Has(r.cfg, "Kernel") /\ ~(EmptyShim(r.cfg) /\ k # <<>>) THEN <<k>> ELSE <<>>
    BY DEF Remains
  <2>4. <<k>> # <<>>
    OBVIOUS
  <2> HIDE DEF k
  <2>5. QED
    BY <2>2, <2>3, <2>4 DEF k
<1>2. QED
    BY FilesInvariant, <1>1, PTL DEF FilesInv

-----------------------------------------------------------------------------
(* What a digest says about the file it was measured from *)

\* The positions of the pages of a file that are measured with their data.
MeasuredPages(f) ==
    {i \in 1..Len(f.directives) :
        /\ f.directives[i].kind = "page" /\ ForSnp(f.directives[i])
        /\ f.directives[i].type = "NORMAL" /\ ~f.directives[i].unmeasured}

\* Guest memory as a digest has it.
DigestMap(x) ==
    LET E == {p \in 1..Len(x) : x[p].type = "NORMAL"}
        at(g) == {p \in E : x[p].gpa = g}
    IN  [g \in {x[p].gpa : p \in E} |-> x[Max(at(g))].contents]

Vouches(f, x) == MeasuredMap(f) = DigestMap(x)

LEMMA GreatestNumber ==
    ASSUME NEW n \in Nat, NEW S, S \subseteq 1..n, S # {}
    PROVE  Max(S) \in S /\ \A x \in S : x <= Max(S)
<1> DEFINE T == {n - x : x \in S}
<1>1. T \subseteq Nat /\ T # {}
  <2>1. PICK x \in S : TRUE
    OBVIOUS
  <2>2. n - x \in T
    BY <2>1
  <2>3. \A z \in S : n - z \in Nat
    OBVIOUS
  <2>4. QED
    BY <2>2, <2>3
<1>2. PICK y \in T : \A z \in T : y <= z
  <2> HIDE DEF T
  <2>1. QED
    BY <1>1, LeastNumber
<1>3. PICK x \in S : y = n - x
    OBVIOUS
<1>4. \A z \in S : x >= z
  <2> SUFFICES ASSUME NEW z \in S PROVE x >= z
    OBVIOUS
  <2>1. n - x <= n - z
    BY <1>2, <1>3
  <2>2. QED
    BY <2>1
<1>5. Max(S) \in S /\ \A z \in S : Max(S) >= z
    BY <1>4 DEF Max
<1>6. \A z \in S : z \in Nat
    OBVIOUS
<1>7. QED
    BY <1>5, <1>6

\* A measured page is recorded where it was folded in.
LEMMA PageRecorded ==
    ASSUME MInv, mpc = "done", NEW i \in MeasuredPages(file)
    PROVE  /\ i \in DOMAIN when /\ when[i] \in 1..Len(ld)
           /\ ld[when[i]] = PageInfo("NORMAL", Dirs[i].gpa, Padded(Dirs[i].data))
<1>1. /\ MeasureTypeOK /\ DigestInv /\ PagesInv
      /\ dir_idx = Len(Dirs) + 1 /\ batch = <<>>
    BY DEF MInv, PhaseInv
<1>2. Dirs \in Seq(Directive) /\ Len(Dirs) \in Nat /\ ld \in Seq(Entry)
    BY <1>1, DirsLength DEF MeasureTypeOK
<1>3. /\ i \in 1..Len(Dirs) /\ SnpPage(i)
      /\ Dirs[i].type = "NORMAL" /\ ~Dirs[i].unmeasured
    BY DEF MeasuredPages, SnpPage, Dirs
<1>4. i \in DOMAIN when
  <2>1. i \in 1..(dir_idx - 1) /\ Len(batch) = 0
    BY <1>1, <1>2, <1>3
  <2>2. QED
    BY <1>1, <1>3, <2>1 DEF PagesInv
<1>5. EntriesOf(i) = <<PageEntry(Dirs[i])>>
    BY <1>3 DEF EntriesOf
<1>6. when[i] \in Nat \ {0} /\ when[i] <= Len(ld)
    BY <1>3, <1>4, MeasuredBefore
<1>7. ld[when[i] + 1 - 1] = PageEntry(Dirs[i])
  <2>1. \A k \in 1..Len(EntriesOf(i)) : ld[when[i] + k - 1] = EntriesOf(i)[k]
    BY <1>1, <1>4 DEF DigestInv, Placed
  <2>2. Len(EntriesOf(i)) = 1 /\ EntriesOf(i)[1] = PageEntry(Dirs[i])
    BY <1>5
  <2>3. QED
    BY <2>1, <2>2
<1>8. when[i] + 1 - 1 = when[i] /\ when[i] \in 1..Len(ld)
    BY <1>2, <1>6, SeqFacts
<1>9. PageEntry(Dirs[i]) = PageInfo("NORMAL", Dirs[i].gpa, Padded(Dirs[i].data))
    BY <1>3 DEF PageEntry, PageInfo, Classify
<1>10. QED
    BY <1>4, <1>7, <1>8, <1>9

\* And nothing else is recorded as page data.
LEMMA RecordedPage ==
    ASSUME MInv, NEW p \in 1..Len(ld), ld[p].type = "NORMAL"
    PROVE  \E i \in MeasuredPages(file) : when[i] = p
<1>1. MeasureTypeOK /\ WhenInv /\ DigestInv
    BY DEF MInv
<1>2. Dirs \in Seq(Directive) /\ Len(Dirs) \in Nat /\ ld \in Seq(Entry)
    BY <1>1, DirsLength DEF MeasureTypeOK
<1>5. ld[p].type = "NORMAL"
    OBVIOUS
<1>6. \E i \in MeasuredPages(file) : when[i] = p
  <2>1. PICK i \in DOMAIN when : when[i] <= p /\ p < when[i] + Len(EntriesOf(i))
    BY <1>1 DEF DigestInv, Owned
  <2>2. i \in 1..Len(Dirs)
    BY <1>1, <2>1 DEF MeasureTypeOK
  <2>3. SnpPage(i) \/ SnpVmsa(i) \/ (SnpInsert(i) /\ AreasOf(Dirs[i].index) # {})
    BY <1>1 DEF WhenInv
  <2>4. EntriesOf(i) \in Seq(Entry)
    BY <1>1, <2>2, <2>3, EntriesType
  <2>5. when[i] \in Nat \ {0}
    BY <2>1, MeasuredBefore
  <2> DEFINE k == p - when[i] + 1
  <2>6. k \in 1..Len(EntriesOf(i)) /\ when[i] + k - 1 = p
    <3>1. Len(EntriesOf(i)) \in Nat /\ p \in Nat
      BY <1>2, <2>4, SeqFacts
    <3>2. QED
      BY <2>1, <2>5, <3>1
  <2>7. ld[p] = EntriesOf(i)[k]
    <3>1. \A n \in 1..Len(EntriesOf(i)) : ld[when[i] + n - 1] = EntriesOf(i)[n]
      BY <1>1, <2>1 DEF DigestInv, Placed
    <3> HIDE DEF k
    <3>2. ld[when[i] + k - 1] = EntriesOf(i)[k]
      BY <2>6, <3>1
    <3>3. QED
      BY <2>6, <3>2
  <2> HIDE DEF k
  <2>8. CASE SnpPage(i)
    <3>1. EntriesOf(i) = <<PageEntry(Dirs[i])>>
      BY <2>8 DEF EntriesOf
    <3>2. ld[p] = PageEntry(Dirs[i]) /\ when[i] = p
      <4>1. Len(EntriesOf(i)) = 1 /\ EntriesOf(i)[1] = PageEntry(Dirs[i])
        BY <3>1
      <4>2. k = 1
        BY <2>6, <4>1
      <4>3. QED
        BY <2>5, <2>6, <2>7, <4>1, <4>2
    <3>3. Classify(Dirs[i]).type = "NORMAL"
      BY <1>5, <3>2 DEF PageEntry, PageInfo
    <3>4. Dirs[i].type = "NORMAL" /\ ~Dirs[i].unmeasured
      <4>1. Dirs[i] \in Directive
        BY <1>2, <2>2, SeqFacts
      <4>2. Dirs[i].unmeasured \in BOOLEAN
        BY <4>1 DEF Directive
      <4>3. CASE Dirs[i].type = "NORMAL" /\ Dirs[i].unmeasured
        BY <3>3, <4>3 DEF Classify
      <4>4. CASE Dirs[i].type # "NORMAL"
        <5>1. Classify(Dirs[i]).type = Dirs[i].type
          BY <4>4 DEF Classify
        <5>2. QED
          BY <3>3, <4>4, <5>1
      <4>5. QED
        BY <4>2, <4>3, <4>4
    <3>5. i \in MeasuredPages(file)
      BY <2>2, <2>8, <3>4 DEF MeasuredPages, SnpPage, Dirs
    <3>6. QED
      BY <3>2, <3>5
  <2>9. CASE ~SnpPage(i) /\ SnpVmsa(i)
    <3>1. EntriesOf(i) = <<VmsaEntry(Dirs[i])>>
      BY <2>9 DEF EntriesOf
    <3>2. ld[p] = VmsaEntry(Dirs[i])
      BY <2>6, <2>7, <3>1
    <3>3. VmsaEntry(Dirs[i]).type = "VMSA"
      BY DEF VmsaEntry, PageInfo
    <3>4. QED
      BY <1>5, <3>2, <3>3
  <2>10. CASE ~SnpPage(i) /\ ~SnpVmsa(i)
    <3>1. EntriesOf(i) = InsertEntries(Dirs[i])
      BY <2>10 DEF EntriesOf
    <3>2. InsertEntries(Dirs[i])[k].type = "UNMEASURED"
      <4> DEFINE n == DivCeil(AreaSize(Dirs[i].index), PageSize)
                 e == [pg \in 1..n |->
                         PageInfo("UNMEASURED", Dirs[i].gpa + (pg - 1) * PageSize, Zeros)]
      <4>1. InsertEntries(Dirs[i]) = e
        BY DEF InsertEntries
      <4>2. k \in DOMAIN e
        <5>1. k \in DOMAIN InsertEntries(Dirs[i])
          BY <2>4, <2>6, <3>1
        <5>2. QED
          BY <4>1, <5>1
      <4>3. e[k] = PageInfo("UNMEASURED", Dirs[i].gpa + (k - 1) * PageSize, Zeros)
        BY <4>2
      <4>4. e[k].type = "UNMEASURED"
        <5> HIDE DEF e
        <5>1. QED
          BY <4>3 DEF PageInfo
      <4>5. QED
        BY <4>1, <4>4
    <3>3. QED
      BY <1>5, <2>7, <3>1, <3>2
  <2>11. QED
    BY <2>8, <2>9, <2>10
<1>7. QED
    BY <1>6

\* A finished measurement vouches for the measured memory of its file.
LEMMA DigestRecords ==
    ASSUME MInv, mpc = "done"
    PROVE  Vouches(file, ld)
<1> DEFINE I == MeasuredPages(file)
           E == {p \in 1..Len(ld) : ld[p].type = "NORMAL"}
           inFile(g) == {i \in I : Dirs[i].gpa = g}
           inDigest(g) == {p \in E : ld[p].gpa = g}
           mg == {Dirs[i].gpa : i \in I}
           dg == {ld[p].gpa : p \in E}
<1>1. Dirs \in Seq(Directive) /\ Len(Dirs) \in Nat /\ ld \in Seq(Entry) /\ Len(ld) \in Nat
    BY DirsLength DEF MInv, MeasureTypeOK
<1>2. I \subseteq 1..Len(Dirs)
    BY DEF MeasuredPages, Dirs
<1>3. ASSUME NEW i \in I
      PROVE  /\ i \in DOMAIN when /\ when[i] \in E /\ ld[when[i]].gpa = Dirs[i].gpa
             /\ ld[when[i]].contents = Padded(Dirs[i].data)
  <2> HIDE DEF I
  <2>1. /\ i \in DOMAIN when /\ when[i] \in 1..Len(ld)
        /\ ld[when[i]] = PageInfo("NORMAL", Dirs[i].gpa, Padded(Dirs[i].data))
    BY PageRecorded DEF I
  <2>2. /\ ld[when[i]].type = "NORMAL" /\ ld[when[i]].gpa = Dirs[i].gpa
        /\ ld[when[i]].contents = Padded(Dirs[i].data)
    BY <2>1 DEF PageInfo
  <2>3. QED
    BY <2>1, <2>2
<1>4. ASSUME NEW p \in E PROVE \E i \in I : when[i] = p
    BY RecordedPage
<1>5. ASSUME NEW i \in I, NEW j \in I, i < j PROVE when[i] < when[j]
  <2>1. SnpPage(i) /\ SnpPage(j)
    BY DEF MeasuredPages, SnpPage, Dirs
  <2>2. i \in DOMAIN when /\ j \in DOMAIN when
    BY <1>3
  <2>3. QED
    BY <1>5, <2>1, <2>2 DEF MInv, OrderInv
<1> HIDE DEF I
<1>6. mg = dg
  <2>1. \A i \in I : Dirs[i].gpa \in dg
    BY <1>3
  <2>2. \A p \in E : ld[p].gpa \in mg
    <3> SUFFICES ASSUME NEW p \in E PROVE ld[p].gpa \in mg
      OBVIOUS
    <3>1. PICK i \in I : when[i] = p
      BY <1>4
    <3>2. ld[p].gpa = Dirs[i].gpa
      BY <1>3, <3>1
    <3>3. QED
      BY <3>2
  <2>3. QED
    BY <2>1, <2>2
<1>7. ASSUME NEW g \in mg
      PROVE  Padded(Dirs[Max(inFile(g))].data) = ld[Max(inDigest(g))].contents
  <2> DEFINE A == inFile(g)
             B == inDigest(g)
             m == Max(A)
             q == Max(B)
  <2>1. A \subseteq 1..Len(Dirs) /\ A # {}
    BY <1>2
  <2>2. B \subseteq 1..Len(ld) /\ B # {}
    BY <1>6
  <2>3. m \in A /\ \A i \in A : i <= m
    <3> HIDE DEF A
    <3>1. QED
      BY <1>1, <2>1, GreatestNumber
  <2>4. q \in B /\ \A p \in B : p <= q
    <3> HIDE DEF B
    <3>1. QED
      BY <1>1, <2>2, GreatestNumber
  <2> HIDE DEF m, q
  <2>5. PICK i \in I : when[i] = q
    BY <1>4, <2>4
  <2>6. ld[q].gpa = g /\ Dirs[i].gpa = g /\ i \in A
    BY <1>3, <2>4, <2>5
  <2>7. m \in I /\ when[m] \in B
    BY <1>3, <2>3
  <2>8. i <= m /\ when[m] <= q
    BY <2>3, <2>4, <2>6, <2>7
  <2>9. i \in Nat /\ m \in Nat /\ q \in Nat /\ when[m] \in Nat
    BY <2>1, <2>2, <2>3, <2>4, <2>6, <2>7
  <2>10. i = m
    <3> SUFFICES ASSUME i # m PROVE FALSE
      OBVIOUS
    <3>1. i < m
      BY <2>8, <2>9
    <3>2. when[i] < when[m]
      BY <1>5, <2>7, <3>1
    <3>3. QED
      BY <2>5, <2>8, <2>9, <3>2
  <2>11. ld[q].contents = Padded(Dirs[m].data)
    BY <1>3, <2>5, <2>10
  <2>12. QED
    BY <2>11 DEF m, q
<1>8. MeasuredMap(file) = [g \in mg |-> Padded(Dirs[Max(inFile(g))].data)]
    BY DEF MeasuredMap, PagesAt, MeasuredPages, I, Dirs
<1>9. DigestMap(ld) = [g \in dg |-> ld[Max(inDigest(g))].contents]
    BY DEF DigestMap
<1>10. [g \in mg |-> Padded(Dirs[Max(inFile(g))].data)]
            = [g \in dg |-> ld[Max(inDigest(g))].contents]
    BY <1>6, <1>7
<1>11. QED
    BY <1>8, <1>9, <1>10 DEF Vouches

-----------------------------------------------------------------------------
(* The verifier *)

\* File f commits to disk d, as the verifier sees it.
CommitsFile(f, d) ==
    /\ KernelBlob(f) # <<>>
    /\ RoothashFromCmdline(KernelBlob(f)[1]) # <<>>
    /\ RoothashFromCmdline(KernelBlob(f)[1]) = StoredRoothash(d)

Checks == [igvm : {"none", "pass", "fail"}, image : {"none", "pass", "fail"}]

\* The file and the digest of a build.
Sealed(r) == Made(r.cfg, r.file) /\ "snp" \in r.cfg.platform /\ Vouches(r.file, r.digest)

\* What the machine attests, and what each check of the verifier has found out
\* when it passed.
VerifyInv ==
    /\ checks \in Checks
    /\ \A r \in ToSet(results) : r.ok => Sealed(r)
    /\ pc = "launch" => file = machine
    /\ pc \in {"verify_igvm", "verify_image", "verdict"} => Vouches(machine, attested)
    /\ pc = "verify_igvm" => file = given
    /\ pc \in {"verify_image", "verdict"} /\ checks.igvm = "pass" /\ ~changed =>
          Vouches(given, attested)
    /\ pc = "verdict" => disk \in Disks
    /\ pc = "verdict" /\ checks.image = "pass" => CommitsFile(given, disk)

\* What a verifier finds in a disk is the root hash of it.
LEMMA StoredIs ==
    ASSUME NEW d \in Disk, StoredRoothash(d) # <<>>
    PROVE  /\ d.gpt /\ d.verity /\ d.superblock /\ d.algo # "other" /\ 2 * d.bs <= Len(d.part)
           /\ StoredRoothash(d) = <<VerityRoot(d)>>
<1> DEFINE b == d.bs
           part == d.part
           block == SubSeq(part, b + 1, 2 * b)
<1>1. b \in Nat /\ part \in Seq(Cells) /\ Len(part) \in Nat
    BY DEF Disk
<1>2. /\ d.gpt /\ d.verity /\ d.superblock /\ d.algo # "other" /\ 2 * b <= Len(part)
      /\ StoredRoothash(d) = << <<d.algo, d.salt, block>> >>
    BY DEF StoredRoothash
<1>3. block = [i \in 1..b |-> part[b + i]]
  <2> HIDE DEF b, part
  <2>1. block = [i \in 1..(2 * b - (b + 1) + 1) |-> part[b + 1 + i - 1]]
    BY <1>1
  <2>2. 2 * b - (b + 1) + 1 = b
    BY <1>1
  <2>3. \A i \in 1..b : b + 1 + i - 1 = b + i
    BY <1>1
  <2>4. QED
    BY <2>1, <2>2, <2>3
<1>4. VerityRoot(d) = <<d.algo, d.salt, block>>
    BY <1>3 DEF VerityRoot
<1>5. QED
    BY <1>2, <1>4

\* Every step that leaves the verifier alone keeps what it found.
LEMMA VerifyKept ==
    ASSUME VerifyInv, UNCHANGED <<results, checks, machine, attested, given, changed, disk>>,
           pc' \in {"launch", "verify_igvm", "verify_image", "verdict"} =>
               pc' = pc /\ file' = file
    PROVE  VerifyInv'
BY DEF VerifyInv

LEMMA InitVerify == Init => VerifyInv
<1> SUFFICES ASSUME Init PROVE VerifyInv
    OBVIOUS
<1>1. /\ results = <<>> /\ pc \in {"idle", "measure_only"}
      /\ checks = [igvm |-> "none", image |-> "none"]
    BY DEF Init
<1>2. ToSet(results) = {}
    BY <1>1 DEF ToSet
<1>3. QED
    BY <1>1, <1>2 DEF VerifyInv, Checks

LEMMA BuiltVerify ==
    ASSUME ImageInv, OutcomeInv, OutcomeInv', RecoverInv', VerifyInv, Built
    PROVE  VerifyInv'
<1>1. pc = "measure" /\ pc' = "idle" /\ UNCHANGED checks
    BY DEF Built, Finish, Goto, verifyVars
<1>2. PICK r : /\ ToSet(results') = ToSet(results) \union {r}
               /\ r.cfg = cfg /\ r.ok = (mpc = "done")
               /\ r.ok => r.file = file /\ r.digest = ld
    BY BuiltType
<1>3. ASSUME r.ok PROVE Sealed(r)
  <2>1. MInv /\ mpc = "done"
    BY <1>2, <1>3 DEF ImageInv
  <2>2. Vouches(r.file, r.digest)
    BY <1>2, <1>3, <2>1, DigestRecords
  <2>3. r \in ToSet(results')
    BY <1>2
  <2>4. Made(r.cfg, r.file)
    BY <1>3, <2>3 DEF RecoverInv
  <2>5. "snp" \in r.cfg.platform
    BY <1>3, <2>3 DEF OutcomeInv, BuildOutcome
  <2>6. QED
    BY <2>2, <2>4, <2>5 DEF Sealed
<1>4. QED
    BY <1>1, <1>2, <1>3 DEF VerifyInv

LEMMA FailVerify ==
    ASSUME ImageInv, VerifyInv, NoResetAddr \/ TooManyVps \/ NoHobArea \/ FinalizeFails
    PROVE  VerifyInv'
<1> DEFINE r == [cfg |-> cfg, ok |-> FALSE, file |-> NoFile, digest |-> <<>>]
<1>1. ToSet(results') = ToSet(results) \union {r}
    BY FailType
<1>2. r.ok = FALSE
    OBVIOUS
<1> HIDE DEF r
<1>3. pc' = "idle" /\ UNCHANGED checks
    BY DEF NoResetAddr, TooManyVps, NoHobArea, FinalizeFails, Finish, Goto,
           verifyVars
<1>4. QED
    BY <1>1, <1>2, <1>3 DEF VerifyInv

LEMMA LaunchVerify == VerifyInv /\ Launch => VerifyInv'
<1> SUFFICES ASSUME VerifyInv, Launch PROVE VerifyInv'
    OBVIOUS
<1>1. pc' = "launch" /\ UNCHANGED <<results, checks>> /\ file' = machine'
    BY DEF Launch, Goto, Measure
<1>2. QED
    BY <1>1 DEF VerifyInv

LEMMA AttestVerify == ImageInv /\ VerifyInv /\ Attest => VerifyInv'
<1> SUFFICES ASSUME ImageInv, VerifyInv, Attest PROVE VerifyInv'
    OBVIOUS
<1>1. /\ pc = "launch" /\ mpc = "done" /\ pc' = "verify_igvm" /\ attested' = ld
      /\ UNCHANGED <<results, checks, machine>> /\ file' = given'
    BY DEF Attest, Goto, Measure
<1>2. Vouches(file, ld)
    BY <1>1, DigestRecords DEF ImageInv
<1>3. Vouches(machine, ld)
    BY <1>1, <1>2 DEF VerifyInv
<1>4. QED
    BY <1>1, <1>3 DEF VerifyInv

LEMMA IgvmVerify == ImageInv /\ VerifyInv /\ VerifyIgvmMeasurement => VerifyInv'
<1> SUFFICES ASSUME ImageInv, VerifyInv, VerifyIgvmMeasurement PROVE VerifyInv'
    OBVIOUS
<1> DEFINE verdict == IF mpc = "done" /\ ld = attested THEN "pass" ELSE "fail"
<1>1. /\ pc = "verify_igvm" /\ pc' = "verify_image"
      /\ UNCHANGED <<results, machine, attested, given, changed, disk>>
      /\ checks' = [checks EXCEPT !.igvm = verdict]
    BY DEF VerifyIgvmMeasurement, Goto
<1>2. checks \in Checks /\ file = given /\ Vouches(machine, attested)
    BY <1>1 DEF VerifyInv
<1>3. verdict \in {"none", "pass", "fail"}
    OBVIOUS
<1>4. verdict = "pass" => mpc = "done" /\ ld = attested
    OBVIOUS
<1> HIDE DEF verdict
<1>5. checks' \in Checks /\ checks'.igvm = verdict
    BY <1>1, <1>2, <1>3 DEF Checks
<1>6. checks'.igvm = "pass" => Vouches(given, attested)
  <2> SUFFICES ASSUME checks'.igvm = "pass" PROVE Vouches(given, attested)
    OBVIOUS
  <2>1. MInv /\ mpc = "done" /\ ld = attested
    BY <1>4, <1>5 DEF ImageInv
  <2>2. Vouches(file, ld)
    BY <2>1, DigestRecords
  <2>3. QED
    BY <1>2, <2>1, <2>2
<1>7. QED
    BY <1>1, <1>2, <1>5, <1>6 DEF VerifyInv

LEMMA ReplaceVerify == VerifyInv /\ ReplaceFile => VerifyInv'
<1> SUFFICES ASSUME VerifyInv, ReplaceFile PROVE VerifyInv'
    OBVIOUS
<1>1. /\ pc = "verify_image" /\ pc' = pc /\ changed' = TRUE
      /\ UNCHANGED <<results, checks, machine, attested, disk>>
    BY DEF ReplaceFile
<1>2. QED
    BY <1>1 DEF VerifyInv

LEMMA ImageVerify == VerifyInv /\ VerifyImageRoothash => VerifyInv'
<1> SUFFICES ASSUME VerifyInv, VerifyImageRoothash PROVE VerifyInv'
    OBVIOUS
<1> DEFINE kernel == KernelBlob(given)
           committed == IF kernel = <<>> THEN <<>> ELSE RoothashFromCmdline(kernel[1])
           verdict == IF committed # <<>> /\ committed = StoredRoothash(disk')
                      THEN "pass" ELSE "fail"
<1>1. /\ pc = "verify_image" /\ pc' = "verdict" /\ disk' \in Disks
      /\ UNCHANGED <<results, machine, attested, given, changed>>
      /\ checks' = [checks EXCEPT !.image = verdict]
    BY DEF VerifyImageRoothash, Goto
<1>2. verdict \in {"none", "pass", "fail"}
    OBVIOUS
<1>3. verdict = "pass" => CommitsFile(given, disk')
    BY DEF CommitsFile
<1> HIDE DEF verdict
<1>4. checks \in Checks
    BY DEF VerifyInv
<1>5. checks' \in Checks /\ checks'.image = verdict /\ checks'.igvm = checks.igvm
    BY <1>1, <1>2, <1>4 DEF Checks
<1>6. QED
    BY <1>1, <1>3, <1>5 DEF VerifyInv

LEMMA StepVerify ==
    /\ ImageInv /\ OutcomeInv /\ OutcomeInv' /\ RecoverInv' /\ VerifyInv /\ [Next]_vars
    => VerifyInv'
<1> SUFFICES ASSUME ImageInv, OutcomeInv, OutcomeInv', RecoverInv', VerifyInv, [Next]_vars
             PROVE  VerifyInv'
    OBVIOUS
<1>1. CASE UNCHANGED vars
    BY <1>1, VerifyKept DEF vars, imageVars, verifyVars, measureVars
<1>2. CASE MeasureLoop
  <2>1. /\ UNCHANGED <<pc, results, checks, machine, attested, given, changed, disk>>
        /\ MeasureStep
    BY <1>2 DEF MeasureLoop, imageVars, verifyVars
  <2>2. file' = file
    BY <2>1 DEF MeasureStep, FindSnpCompat, BatchPage, CollectVmsa, MeasureInsert, UnknownArea,
                SkipDirective, FlushRest, MeasureVmsaPages
  <2>3. QED
    BY <2>1, <2>2, VerifyKept
<1>3. CASE StartBuild \/ AddPlatforms \/ AddParamsAndFirmware \/ AddHobData \/ Finalize
  <2>1. /\ UNCHANGED <<results, checks, machine, attested, given, changed, disk>>
        /\ pc' \notin {"launch", "verify_igvm", "verify_image", "verdict"}
    BY <1>3 DEF StartBuild, AddPlatforms, AddParamsAndFirmware, AddHobData, Finalize, Goto,
                verifyVars
  <2>2. QED
    BY <2>1, VerifyKept
<1>4. QED
    BY <1>1, <1>2, <1>3, BuiltVerify, FailVerify, LaunchVerify, AttestVerify,
       IgvmVerify, ReplaceVerify, ImageVerify DEF Next

THEOREM VerifierInvariant == Spec => [](FilesInv /\ VerifyInv)
<1>1. FilesInv /\ VerifyInv /\ [Next]_vars /\ FilesInv' => VerifyInv'
    BY StepVerify DEF FilesInv
<1>2. QED
    BY FilesInvariant, InitVerify, <1>1, PTL DEF Spec

\* For whatever IGVM files machine and verifier have, made by any program: a
\* verification with --igvm and --image that passes, of a file that did not change
\* in between and whose kernel lies in its measured pages, ties the machine to the
\* disk.  Equal digests are equal measured memory, so the kernel the root hash is
\* read from is in the machine's measured memory too; and if the machine's file was
\* built here, that kernel is the one given to build (commands/verify.rs:
\* verify_igvm_measurement, verify_image_roothash; measure.rs: measure_snp).
THEOREM PassTiesMachineToDisk == Spec => []PassBindsDisk
<1>1. VerifyInv => PassBindsDisk
  <2> DEFINE k == MeasuredKernel(machine)
  <2> SUFFICES ASSUME VerifyInv, pc = "verdict", checks.igvm = "pass", checks.image = "pass",
                      ~changed, MeasuredKernel(given) = KernelBlob(given), disk.bs > 0
               PROVE  /\ VerityDisk(disk) /\ k # <<>>
                      /\ RoothashFromCmdline(k[1]) = <<VerityRoot(disk)>>
                      /\ \A r \in ToSet(results) :
                            r.ok /\ r.file = machine => CommitsTo(r.cfg, disk)
    BY DEF PassBindsDisk
  <2>1. MeasuredMap(given) = MeasuredMap(machine)
    BY DEF VerifyInv, Vouches
  <2>2. k = KernelBlob(given)
    BY <2>1 DEF MeasuredKernel
  <2>3. /\ k # <<>> /\ StoredRoothash(disk) # <<>>
        /\ RoothashFromCmdline(k[1]) = StoredRoothash(disk)
    BY <2>2 DEF VerifyInv, CommitsFile
  <2> HIDE DEF k
  <2>4. disk \in Disk
    BY LaunchAssumption DEF VerifyInv
  <2>5. /\ disk.gpt /\ disk.verity /\ disk.superblock /\ disk.algo # "other"
        /\ 2 * disk.bs <= Len(disk.part) /\ StoredRoothash(disk) = <<VerityRoot(disk)>>
    BY <2>3, <2>4, StoredIs
  <2>6. VerityDisk(disk)
    <3>1. disk.bs \in Nat /\ disk.part \in Seq(Cells)
      BY <2>4 DEF Disk
    <3>2. Len(disk.part) \in Nat
      BY <3>1, SeqFacts
    <3>3. Len(disk.part) >= 2 * disk.bs
      BY <2>5, <3>1, <3>2
    <3>4. QED
      BY <2>5, <3>3 DEF VerityDisk
  <2>7. RoothashFromCmdline(k[1]) = <<VerityRoot(disk)>>
    BY <2>3, <2>5
  <2>8. ASSUME NEW r \in ToSet(results), r.ok, r.file = machine
        PROVE  CommitsTo(r.cfg, disk)
    <3>1. k = Remains(r.cfg)
      BY <2>8, BuiltKernel DEF VerifyInv, Sealed, k
    <3>2. Has(r.cfg, "Kernel") /\ k = <<r.cfg.blobs["Kernel"]>>
      BY <2>3, <3>1 DEF Remains
    <3>3. k[1] = r.cfg.blobs["Kernel"]
      BY <3>2
    <3>4. QED
      BY <2>6, <2>7, <3>2, <3>3 DEF CommitsTo
  <2>9. QED
    BY <2>3, <2>6, <2>7, <2>8
<1>2. QED
    BY VerifierInvariant, <1>1, PTL

-----------------------------------------------------------------------------
(* Measuring a file again gives the same digest *)

\* What the loop has after a directive, from what it had before, in a file f.
Loop(l, b, p, v) == [ld |-> l, batch |-> b, prev |-> p, vmsas |-> v]

Fresh == Loop(<<>>, <<>>, NoPage, <<>>)

Kept == Loop(ld, batch, prev, vmsas)

InsertsIn(f, d) ==
    LET ds == f.directives
        areas == {i \in 1..Len(ds) : ds[i].kind = "area" /\ ds[i].index = d.index}
        size == ds[CHOOSE i \in areas : \A j \in areas : j <= i].size
    IN  [pg \in 1..DivCeil(size, PageSize) |->
            PageInfo("UNMEASURED", d.gpa + (pg - 1) * PageSize, Zeros)]

Breaks(s, i, d) == s.prev.idx # 0 /\ ~Continues(s.prev, i, d)

AfterPage(s, i, d) ==
    Loop(IF Breaks(s, i, d) THEN s.ld \o Entries(s.batch) ELSE s.ld,
         Append(IF Breaks(s, i, d) THEN <<>> ELSE s.batch, [idx |-> i, entry |-> PageEntry(d)]),
         [idx |-> i, gpa |-> d.gpa, type |-> Classify(d).type, has |-> Classify(d).has],
         s.vmsas)

After(f, s, i) ==
    LET d == f.directives[i]
    IN  IF ForSnp(d) /\ d.kind = "page" THEN AfterPage(s, i, d)
        ELSE IF ForSnp(d) /\ d.kind = "vmsa"
        THEN Loop(s.ld, s.batch, s.prev, Append(s.vmsas, [idx |-> i, entry |-> VmsaEntry(d)]))
        ELSE IF ForSnp(d) /\ d.kind = "insert"
        THEN Loop(s.ld \o InsertsIn(f, d), s.batch, s.prev, s.vmsas)
        ELSE s

\* t is what the loop has had after each of the first k directives of f.
IsTrace(t, f, k) == t[0] = Fresh /\ \A i \in 1..k : t[i] = After(f, t[i - 1], i)

Reaches(f, k, s) == \E t : IsTrace(t, f, k) /\ t[k] = s

Total(s) == (s.ld \o Entries(s.batch)) \o Entries(s.vmsas)

DigestOf(f, digest) ==
    \E s : Reaches(f, Len(f.directives), s) /\ digest = Total(s)

LEMMA ReachesFresh == ASSUME NEW f PROVE Reaches(f, 0, Fresh)
<1> DEFINE t == [i \in 0..0 |-> Fresh]
<1>1. t[0] = Fresh /\ 1..0 = {}
    OBVIOUS
<1> HIDE DEF t
<1>2. IsTrace(t, f, 0)
    BY <1>1 DEF IsTrace
<1>3. QED
    BY <1>1, <1>2 DEF Reaches

LEMMA ReachesNext ==
    ASSUME NEW f, NEW k \in Nat, NEW s, Reaches(f, k, s)
    PROVE  Reaches(f, k + 1, After(f, s, k + 1))
<1>1. PICK t : IsTrace(t, f, k) /\ t[k] = s
    BY DEF Reaches
<1> DEFINE e == After(f, s, k + 1)
           u == [i \in 0..(k + 1) |-> IF i = k + 1 THEN e ELSE t[i]]
<1>2. /\ u[k + 1] = e /\ u[k] = s /\ u[0] = Fresh
      /\ \A i \in 1..k : u[i] = t[i] /\ u[i - 1] = t[i - 1]
  <2>1. t[0] = Fresh
    BY <1>1 DEF IsTrace
  <2>2. k + 1 \in 0..(k + 1) /\ k \in 0..(k + 1) /\ 0 \in 0..(k + 1) /\ k # k + 1 /\ 0 # k + 1
    OBVIOUS
  <2>3. \A i \in 1..k : i \in 0..(k + 1) /\ i - 1 \in 0..(k + 1) /\ i # k + 1 /\ i - 1 # k + 1
    OBVIOUS
  <2> HIDE DEF e
  <2>4. QED
    BY <1>1, <2>1, <2>2, <2>3
<1> HIDE DEF u
<1>3. \A i \in 1..(k + 1) : u[i] = After(f, u[i - 1], i)
  <2> SUFFICES ASSUME NEW i \in 1..(k + 1) PROVE u[i] = After(f, u[i - 1], i)
    OBVIOUS
  <2>1. CASE i = k + 1
    <3>1. i - 1 = k
      BY <2>1
    <3>2. QED
      BY <1>2, <2>1, <3>1
  <2>2. CASE i # k + 1
    <3>1. i \in 1..k
      BY <2>2
    <3>2. t[i] = After(f, t[i - 1], i)
      BY <1>1, <3>1 DEF IsTrace
    <3>3. QED
      BY <1>2, <3>1, <3>2
  <2>3. QED
    BY <2>1, <2>2
<1>4. IsTrace(u, f, k + 1)
    BY <1>2, <1>3 DEF IsTrace
<1>5. QED
    BY <1>2, <1>4 DEF Reaches

LEMMA ReachesOne ==
    ASSUME NEW f, NEW n \in Nat, NEW s, NEW r, Reaches(f, n, s), Reaches(f, n, r)
    PROVE  s = r
<1>1. PICK t : IsTrace(t, f, n) /\ t[n] = s
    BY DEF Reaches
<1>2. PICK u : IsTrace(u, f, n) /\ u[n] = r
    BY DEF Reaches
<1> DEFINE T == {k \in 0..n : t[k] = u[k]}
<1>3. 0 \in T
    BY <1>1, <1>2 DEF IsTrace
<1>4. \A k \in 1..n : k - 1 \in T => k \in T
    BY <1>1, <1>2 DEF IsTrace
<1> HIDE DEF T
<1>5. n \in T
    BY <1>3, <1>4, ByInduction
<1>6. QED
    BY <1>1, <1>2, <1>5 DEF T

LEMMA OneDigest ==
    ASSUME NEW f, Len(f.directives) \in Nat, NEW x, NEW y, DigestOf(f, x), DigestOf(f, y)
    PROVE  x = y
BY ReachesOne DEF DigestOf

\* Where the loop is, given the file.
TraceInv ==
    /\ mpc = "ready" => dir_idx = 1 /\ Kept = Fresh
    /\ mpc = "loop" => Reaches(file, dir_idx - 1, Kept)
    /\ mpc = "vmsa" => \E s : /\ Reaches(file, Len(Dirs), s)
                              /\ ld = s.ld \o Entries(s.batch) /\ vmsas = s.vmsas
    /\ mpc = "done" => DigestOf(file, ld)

LEMMA LoopFields ==
    ASSUME NEW l, NEW b, NEW p, NEW v
    PROVE  /\ Loop(l, b, p, v).ld = l /\ Loop(l, b, p, v).batch = b
           /\ Loop(l, b, p, v).prev = p /\ Loop(l, b, p, v).vmsas = v
BY DEF Loop

LEMMA InitTrace == MeasureInit => TraceInv
BY DEF MeasureInit, TraceInv, Kept, Fresh, Loop

\* A directive the loop passes.
LEMMA PassTrace ==
    ASSUME MInv, TraceInv, mpc = "loop", mpc' = "loop", file' = file, dir_idx <= Len(Dirs),
           dir_idx' = dir_idx + 1, Kept' = After(file, Kept, dir_idx)
    PROVE  TraceInv'
<1>1. dir_idx \in Nat \ {0}
    BY DirsLength DEF MInv, MeasureTypeOK
<1> DEFINE k == dir_idx - 1
<1>2. k \in Nat /\ k + 1 = dir_idx /\ dir_idx + 1 - 1 = dir_idx
    BY <1>1
<1>3. Reaches(file, k, Kept)
    BY DEF TraceInv
<1> HIDE DEF k
<1>4. Reaches(file, k + 1, After(file, Kept, k + 1))
    BY <1>2, <1>3, ReachesNext
<1>5. Reaches(file, dir_idx' - 1, Kept')
    BY <1>2, <1>4
<1>6. QED
    BY <1>5 DEF TraceInv

LEMMA MeasureStepTrace == MInv /\ TraceInv /\ MeasureStep => TraceInv'
<1> SUFFICES ASSUME MInv, TraceInv, MeasureStep PROVE TraceInv'
    OBVIOUS
<1>0. Dirs \in Seq(Directive) /\ Len(Dirs) \in Nat /\ dir_idx \in 1..(Len(Dirs) + 1)
    BY DirsLength DEF MInv, MeasureTypeOK
<1>1. CASE FindSnpCompat
  <2>1. mpc = "ready" /\ mpc' \in {"loop", "failed"} /\ UNCHANGED <<file, dir_idx, ld, batch, prev, vmsas>>
    BY <1>1 DEF FindSnpCompat
  <2>2. dir_idx - 1 = 0 /\ Kept = Fresh
    BY <2>1 DEF TraceInv
  <2>3. Reaches(file, 0, Fresh)
    BY ReachesFresh
  <2>4. Kept' = Kept
    BY <2>1 DEF Kept
  <2>5. Reaches(file, dir_idx - 1, Kept)
    BY <2>2, <2>3
  <2>6. QED
    BY <2>1, <2>4, <2>5 DEF TraceInv
<1>2. CASE BatchPage
  <2> DEFINE breaks == prev.idx # 0 /\ ~Continues(prev, dir_idx, Dir)
  <2>1. /\ mpc = "loop" /\ dir_idx <= Len(Dirs) /\ Dir.kind = "page" /\ ForSnp(Dir)
        /\ ld' = IF breaks THEN ld \o Entries(batch) ELSE ld
        /\ batch' = Append(IF breaks THEN <<>> ELSE batch, [idx |-> dir_idx, entry |-> PageEntry(Dir)])
        /\ prev' = [idx |-> dir_idx, gpa |-> Dir.gpa,
                    type |-> Classify(Dir).type, has |-> Classify(Dir).has]
        /\ dir_idx' = dir_idx + 1 /\ UNCHANGED <<file, mpc, vmsas>>
    BY <1>2 DEF BatchPage, At, Flush
  <2>2. breaks = Breaks(Kept, dir_idx, Dir)
    BY LoopFields DEF Breaks, Kept
  <2>3. Kept.ld = ld /\ Kept.batch = batch /\ Kept.vmsas = vmsas
    BY LoopFields DEF Kept
  <2> HIDE DEF breaks
  <2>4. Kept' = AfterPage(Kept, dir_idx, Dir)
    BY <2>1, <2>2, <2>3 DEF AfterPage, Kept
  <2>5. After(file, Kept, dir_idx) = AfterPage(Kept, dir_idx, Dir)
    BY <2>1 DEF After, Dir, Dirs
  <2>6. QED
    BY <2>1, <2>4, <2>5, PassTrace
<1>3. CASE CollectVmsa
  <2>1. /\ mpc = "loop" /\ dir_idx <= Len(Dirs) /\ Dir.kind = "vmsa" /\ ForSnp(Dir)
        /\ vmsas' = Append(vmsas, [idx |-> dir_idx, entry |-> VmsaEntry(Dir)])
        /\ dir_idx' = dir_idx + 1 /\ UNCHANGED <<file, mpc, ld, batch, prev>>
    BY <1>3 DEF CollectVmsa, At
  <2>2. Kept.ld = ld /\ Kept.batch = batch /\ Kept.vmsas = vmsas /\ Kept.prev = prev
    BY LoopFields DEF Kept
  <2>3. After(file, Kept, dir_idx) =
           Loop(Kept.ld, Kept.batch, Kept.prev,
                Append(Kept.vmsas, [idx |-> dir_idx, entry |-> VmsaEntry(Dir)]))
    BY <2>1 DEF After, Dir, Dirs
  <2>4. Kept' = After(file, Kept, dir_idx)
    BY <2>1, <2>2, <2>3 DEF Kept
  <2>5. QED
    BY <2>1, <2>4, PassTrace
<1>4. CASE MeasureInsert
  <2>1. /\ mpc = "loop" /\ dir_idx <= Len(Dirs) /\ Dir.kind = "insert" /\ ForSnp(Dir)
        /\ ld' = ld \o InsertEntries(Dir)
        /\ dir_idx' = dir_idx + 1 /\ UNCHANGED <<file, mpc, batch, prev, vmsas>>
    BY <1>4 DEF MeasureInsert, At
  <2>2. Kept.ld = ld /\ Kept.batch = batch /\ Kept.vmsas = vmsas /\ Kept.prev = prev
    BY LoopFields DEF Kept
  <2>3. After(file, Kept, dir_idx) =
           Loop(Kept.ld \o InsertsIn(file, Dir), Kept.batch, Kept.prev, Kept.vmsas)
    BY <2>1 DEF After, Dir, Dirs
  <2>4. InsertsIn(file, Dir) = InsertEntries(Dir)
    BY DEF InsertsIn, InsertEntries, AreaSize, AreasOf, Dirs
  <2>5. Kept' = After(file, Kept, dir_idx)
    BY <2>1, <2>2, <2>3, <2>4 DEF Kept
  <2>6. QED
    BY <2>1, <2>5, PassTrace
<1>5. CASE UnknownArea
    BY <1>5 DEF UnknownArea, TraceInv
<1>6. CASE SkipDirective
  <2>1. /\ mpc = "loop" /\ dir_idx <= Len(Dirs)
        /\ ~ForSnp(Dir) \/ Dir.kind \notin {"page", "vmsa", "insert"}
        /\ dir_idx' = dir_idx + 1 /\ UNCHANGED <<file, mpc, ld, batch, prev, vmsas>>
    BY <1>6 DEF SkipDirective
  <2>2. After(file, Kept, dir_idx) = Kept
    BY <2>1 DEF After, Dir, Dirs
  <2>3. Kept' = After(file, Kept, dir_idx)
    BY <2>1, <2>2 DEF Kept
  <2>4. QED
    BY <2>1, <2>3, PassTrace
<1>7. CASE FlushRest
  <2>1. /\ mpc = "loop" /\ mpc' = "vmsa" /\ dir_idx > Len(Dirs)
        /\ ld' = ld \o Entries(batch) /\ UNCHANGED <<file, vmsas>>
    BY <1>7 DEF FlushRest, Flush
  <2>2. dir_idx - 1 = Len(Dirs)
    BY <1>0, <2>1
  <2>3. Reaches(file, Len(Dirs), Kept)
    BY <2>1, <2>2 DEF TraceInv
  <2>4. Kept.ld = ld /\ Kept.batch = batch /\ Kept.vmsas = vmsas
    BY LoopFields DEF Kept
  <2>5. Dirs' = Dirs
    BY <2>1 DEF Dirs
  <2> DEFINE s == Kept
  <2>6. \E r : /\ Reaches(file, Len(Dirs), r)
               /\ ld' = r.ld \o Entries(r.batch) /\ vmsas = r.vmsas
    BY <2>1, <2>3, <2>4
  <2>7. QED
    BY <2>1, <2>5, <2>6 DEF TraceInv
<1>8. CASE MeasureVmsaPages
  <2>1. /\ mpc = "vmsa" /\ mpc' = "done" /\ ld' = ld \o Entries(vmsas) /\ file' = file
    BY <1>8 DEF MeasureVmsaPages
  <2>2. PICK s : /\ Reaches(file, Len(Dirs), s)
                 /\ ld = s.ld \o Entries(s.batch) /\ vmsas = s.vmsas
    BY <2>1 DEF TraceInv
  <2>3. ld' = Total(s)
    BY <2>1, <2>2 DEF Total
  <2>4. DigestOf(file, ld')
    BY <2>2, <2>3 DEF DigestOf, Dirs
  <2>5. QED
    BY <2>1, <2>4 DEF TraceInv
<1>9. QED
    BY <1>1, <1>2, <1>3, <1>4, <1>5, <1>6, <1>7, <1>8 DEF MeasureStep

-----------------------------------------------------------------------------
(* An honest machine is accepted *)

LEMMA InitTraceNext == (MeasureInit => TraceInv)'
BY InitTrace, PTL

LEMMA MeasureTrace ==
    ASSUME NEW f, Measure(f)
    PROVE  TraceInv'
<1>1. MeasureInit'
    BY DEF Measure, MeasureInit
<1>2. QED
    BY <1>1, InitTraceNext

LEMMA QuietTrace ==
    ASSUME TraceInv, UNCHANGED measureVars
    PROVE  TraceInv'
BY DEF TraceInv, measureVars, Kept, Dirs

\* A file that is measured to its end.
Measurable(f) == "snp" \in f.platforms /\ Defined(ToSet(f.directives))

LEMMA NeverFails ==
    ASSUME MInv, Measurable(file), mpc # "failed", MeasureStep
    PROVE  mpc' # "failed" /\ file' = file
<1>1. file' = file
    BY DEF MeasureStep, FindSnpCompat, BatchPage, CollectVmsa, MeasureInsert, UnknownArea,
           SkipDirective, FlushRest, MeasureVmsaPages
<1>2. ~UnknownArea
  <2> SUFFICES ASSUME UnknownArea PROVE FALSE
    OBVIOUS
  <2>1. dir_idx <= Len(Dirs) /\ Dir.kind = "insert" /\ AreasOf(Dir.index) = {}
    BY DEF UnknownArea, At
  <2>2. Dirs \in Seq(Directive) /\ dir_idx \in 1..Len(Dirs)
    BY <2>1, DirsLength DEF MInv, MeasureTypeOK
  <2>3. Dir \in ToSet(Dirs) /\ Defined(ToSet(Dirs))
    BY <2>2, SeqMember DEF Dir, Measurable, Dirs
  <2>4. PICK a \in ToSet(Dirs) : a.kind = "area" /\ a.index = 0
    BY <2>1, <2>3 DEF Defined
  <2>5. PICK i \in 1..Len(Dirs) : Dirs[i] = a
    BY <2>2, <2>4, SeqMember
  <2>6. Dir.index = 0
    BY <2>1, <2>3 DEF Defined
  <2>7. i \in AreasOf(Dir.index)
    BY <2>4, <2>5, <2>6 DEF AreasOf
  <2>8. QED
    BY <2>1, <2>7
<1>3. FindSnpCompat => mpc' # "failed"
    BY DEF FindSnpCompat, Measurable
<1>4. QED
    BY <1>1, <1>2, <1>3 DEF MeasureStep, BatchPage, CollectVmsa, MeasureInsert, At,
                            SkipDirective, FlushRest, MeasureVmsaPages

\* A built file is measured to its end, the machine attests the digest of its file,
\* and the checks pass when they should.
HonestInv ==
    /\ TraceInv
    /\ \A r \in ToSet(results) : r.ok => Measurable(r.file)
    /\ pc \in {"verify_igvm", "verify_image", "verdict"} => DigestOf(machine, attested)
    /\ pc = "verify_igvm" /\ given \in Images => mpc # "failed"
    /\ pc \in {"verify_image", "verdict"} /\ machine = given /\ given \in Images /\ ~changed =>
          checks.igvm = "pass"
    /\ pc = "verdict" /\ CommitsFile(given, disk) => checks.image = "pass"

LEMMA HonestKept ==
    ASSUME HonestInv, TraceInv', UNCHANGED results,
           pc' \notin {"verify_igvm", "verify_image", "verdict"}
    PROVE  HonestInv'
BY DEF HonestInv

LEMMA InitHonest == Init => HonestInv
<1> SUFFICES ASSUME Init PROVE HonestInv
    OBVIOUS
<1>1. results = <<>> /\ pc \in {"idle", "measure_only"} /\ MeasureInit
    BY DEF Init
<1>2. ToSet(results) = {}
    BY <1>1 DEF ToSet
<1>3. QED
    BY <1>1, <1>2, InitTrace DEF HonestInv

LEMMA BuiltHonest == ImageInv /\ OutcomeInv /\ HonestInv /\ Built => HonestInv'
<1> SUFFICES ASSUME ImageInv, OutcomeInv, HonestInv, Built PROVE HonestInv'
    OBVIOUS
<1>1. pc = "measure" /\ pc' = "idle" /\ UNCHANGED measureVars
    BY DEF Built, Finish, Goto
<1>2. PICK r : /\ ToSet(results') = ToSet(results) \union {r}
               /\ r.cfg = cfg /\ r.ok = (mpc = "done")
               /\ r.ok => r.file = file /\ r.digest = ld
    BY BuiltType
<1>3. ASSUME r.ok PROVE Measurable(r.file)
  <2>1. mpc = "done" /\ r.file = file
    BY <1>2, <1>3
  <2>2. "snp" \in file.platforms /\ Defined(ToSet(Dirs))
    BY <1>1, <2>1 DEF OutcomeInv, MeasuredInv
  <2>3. QED
    BY <2>1, <2>2 DEF Measurable, Dirs
<1>4. TraceInv'
    BY <1>1, QuietTrace DEF HonestInv
<1>5. QED
    BY <1>1, <1>2, <1>3, <1>4 DEF HonestInv

LEMMA FailHonest ==
    ASSUME ImageInv, HonestInv, NoResetAddr \/ TooManyVps \/ NoHobArea \/ FinalizeFails
    PROVE  HonestInv'
<1> DEFINE r == [cfg |-> cfg, ok |-> FALSE, file |-> NoFile, digest |-> <<>>]
<1>1. ToSet(results') = ToSet(results) \union {r}
    BY FailType
<1>2. r.ok = FALSE
    OBVIOUS
<1> HIDE DEF r
<1>3. pc' = "idle" /\ UNCHANGED measureVars
    BY DEF NoResetAddr, TooManyVps, NoHobArea, FinalizeFails, Finish, Goto
<1>4. TraceInv'
    BY <1>3, QuietTrace DEF HonestInv
<1>5. QED
    BY <1>1, <1>2, <1>3, <1>4 DEF HonestInv

LEMMA MeasureHonest == ImageInv /\ VerifyInv /\ HonestInv /\ MeasureLoop => HonestInv'
<1> SUFFICES ASSUME ImageInv, VerifyInv, HonestInv, MeasureLoop PROVE HonestInv'
    OBVIOUS
<1>1. /\ UNCHANGED <<pc, results, machine, attested, given, changed, checks, disk>>
      /\ MeasureStep /\ MInv
    BY DEF MeasureLoop, imageVars, verifyVars, ImageInv
<1>2. TraceInv'
    BY <1>1, MeasureStepTrace DEF HonestInv
<1>3. ASSUME pc = "verify_igvm", given \in Images PROVE mpc' # "failed"
  <2>1. file = given /\ mpc # "failed"
    BY <1>3 DEF VerifyInv, HonestInv
  <2>2. PICK r \in ToSet(results) : r.ok /\ r.file = given
    BY <1>3 DEF Images
  <2>3. Measurable(file)
    BY <2>1, <2>2 DEF HonestInv
  <2>4. QED
    BY <1>1, <2>1, <2>3, NeverFails
<1>4. Images' = Images
    BY <1>1 DEF Images
<1>5. QED
    BY <1>1, <1>2, <1>3, <1>4 DEF HonestInv

LEMMA AttestHonest == VerifyInv /\ HonestInv /\ Attest => HonestInv'
<1> SUFFICES ASSUME VerifyInv, HonestInv, Attest PROVE HonestInv'
    OBVIOUS
<1>1. /\ pc = "launch" /\ mpc = "done" /\ pc' = "verify_igvm" /\ attested' = ld
      /\ UNCHANGED <<results, machine>> /\ mpc' = "ready"
    BY DEF Attest, Goto, Measure
<1>2. DigestOf(machine, ld)
    BY <1>1 DEF VerifyInv, HonestInv, TraceInv
<1>3. TraceInv'
    BY MeasureTrace DEF Attest
<1>4. QED
    BY <1>1, <1>2, <1>3 DEF HonestInv

LEMMA IgvmHonest == ImageInv /\ VerifyInv /\ HonestInv /\ VerifyIgvmMeasurement => HonestInv'
<1> SUFFICES ASSUME ImageInv, VerifyInv, HonestInv, VerifyIgvmMeasurement PROVE HonestInv'
    OBVIOUS
<1> DEFINE verdict == IF mpc = "done" /\ ld = attested THEN "pass" ELSE "fail"
<1>1. /\ pc = "verify_igvm" /\ pc' = "verify_image" /\ mpc \in {"done", "failed"}
      /\ UNCHANGED <<results, machine, attested, given, changed, disk>>
      /\ UNCHANGED measureVars
      /\ checks' = [checks EXCEPT !.igvm = verdict]
    BY DEF VerifyIgvmMeasurement, Goto
<1>2. checks \in Checks /\ file = given /\ DigestOf(machine, attested)
    BY <1>1 DEF VerifyInv, HonestInv
<1>3. checks'.igvm = verdict
  <2> HIDE DEF verdict
  <2>1. QED
    BY <1>1, <1>2 DEF Checks
<1>4. ASSUME machine = given, given \in Images PROVE checks'.igvm = "pass"
  <2>1. mpc = "done" /\ DigestOf(file, ld)
    BY <1>1, <1>4 DEF HonestInv, TraceInv
  <2>2. DigestOf(file, attested)
    BY <1>2, <1>4
  <2>3. Len(file.directives) \in Nat
    BY DirsLength DEF ImageInv, MInv, Dirs
  <2>4. ld = attested
    BY <2>1, <2>2, <2>3, OneDigest
  <2>5. QED
    BY <1>3, <2>1, <2>4
<1>5. TraceInv' /\ Images' = Images
    BY <1>1, QuietTrace DEF HonestInv, Images
<1>6. QED
    BY <1>1, <1>4, <1>5 DEF HonestInv

LEMMA ImageHonest == VerifyInv /\ HonestInv /\ VerifyImageRoothash => HonestInv'
<1> SUFFICES ASSUME VerifyInv, HonestInv, VerifyImageRoothash PROVE HonestInv'
    OBVIOUS
<1> DEFINE kernel == KernelBlob(given)
           committed == IF kernel = <<>> THEN <<>> ELSE RoothashFromCmdline(kernel[1])
           verdict == IF committed # <<>> /\ committed = StoredRoothash(disk')
                      THEN "pass" ELSE "fail"
<1>1. /\ pc = "verify_image" /\ pc' = "verdict"
      /\ UNCHANGED <<results, machine, attested, given, changed>> /\ UNCHANGED measureVars
      /\ checks' = [checks EXCEPT !.image = verdict]
    BY DEF VerifyImageRoothash, Goto
<1>2. CommitsFile(given, disk') => verdict = "pass"
    BY DEF CommitsFile
<1> HIDE DEF verdict
<1>3. checks \in Checks
    BY DEF VerifyInv
<1>4. checks'.image = verdict /\ checks'.igvm = checks.igvm
    BY <1>1, <1>3 DEF Checks
<1>5. TraceInv' /\ Images' = Images
    BY <1>1, QuietTrace DEF HonestInv, Images
<1>6. QED
    BY <1>1, <1>2, <1>4, <1>5 DEF HonestInv

LEMMA StepHonest ==
    ImageInv /\ OutcomeInv /\ VerifyInv /\ HonestInv /\ [Next]_vars => HonestInv'
<1> SUFFICES ASSUME ImageInv, OutcomeInv, VerifyInv, HonestInv, [Next]_vars PROVE HonestInv'
    OBVIOUS
<1>1. CASE UNCHANGED vars
  <2>1. /\ UNCHANGED measureVars
        /\ UNCHANGED <<pc, results, machine, attested, given, changed, checks, disk>>
    BY <1>1 DEF vars, imageVars, verifyVars
  <2>2. TraceInv' /\ Images' = Images
    BY <2>1, QuietTrace DEF HonestInv, Images
  <2>3. QED
    BY <2>1, <2>2 DEF HonestInv, measureVars
<1>2. CASE StartBuild \/ AddPlatforms \/ AddParamsAndFirmware \/ AddHobData
  <2>1. /\ UNCHANGED measureVars /\ UNCHANGED results
        /\ pc' \notin {"verify_igvm", "verify_image", "verdict"}
    BY <1>2 DEF StartBuild, AddPlatforms, AddParamsAndFirmware, AddHobData, Goto
  <2>2. TraceInv'
    BY <2>1, QuietTrace DEF HonestInv
  <2>3. QED
    BY <2>1, <2>2, HonestKept
<1>3. CASE Finalize
  <2>1. results' = results /\ pc' = "measure"
    BY <1>3 DEF Finalize, Goto
  <2>2. TraceInv'
    BY <1>3, MeasureTrace DEF Finalize
  <2>3. QED
    BY <2>1, <2>2, HonestKept
<1>4. CASE Launch
  <2>1. results' = results /\ pc' = "launch"
    BY <1>4 DEF Launch, Goto
  <2>2. TraceInv'
    BY <1>4, MeasureTrace DEF Launch
  <2>3. QED
    BY <2>1, <2>2, HonestKept
<1>5. CASE ReplaceFile
  <2>1. /\ pc = "verify_image" /\ pc' = pc /\ changed' = TRUE
        /\ UNCHANGED <<results, machine, attested>> /\ UNCHANGED measureVars
    BY <1>5 DEF ReplaceFile
  <2>2. TraceInv'
    BY <2>1, QuietTrace DEF HonestInv
  <2>3. QED
    BY <2>1, <2>2 DEF HonestInv
<1>6. QED
    BY <1>1, <1>2, <1>3, <1>4, <1>5, BuiltHonest, FailHonest, MeasureHonest, AttestHonest,
       IgvmHonest, ImageHonest DEF Next

\* A machine that runs a built file which the verifier has, with the disk its kernel
\* commits to, passes both checks: measure_snp gives a file one digest, and the
\* kernel found in the file is the one it was built with
\* (commands/verify.rs: verify_igvm_measurement, verify_image_roothash).
THEOREM HonestMachinePasses == Spec => []HonestAccepted
<1>1. VerifyInv /\ HonestInv => HonestAccepted
  <2> SUFFICES ASSUME VerifyInv, HonestInv, pc = "verdict", machine = given, ~changed,
                      Len(disk.part) >= PageSize,
                      NEW r \in ToSet(results), r.ok, r.file = machine,
                      CommitsTo(r.cfg, disk), ~EmptyShim(r.cfg)
               PROVE  checks.igvm = "pass" /\ checks.image = "pass"
    BY DEF HonestAccepted
  <2> DEFINE k == r.cfg.blobs["Kernel"]
  <2>1. given \in Images /\ disk \in Disks
    BY DEF VerifyInv, Images
  <2>2. checks.igvm = "pass"
    BY <2>1 DEF HonestInv
  <2>3. /\ VerityDisk(disk) /\ Has(r.cfg, "Kernel")
        /\ RoothashFromCmdline(k) = <<VerityRoot(disk)>>
    BY DEF CommitsTo
  <2>4. Remains(r.cfg) = <<k>>
    BY <2>3 DEF Remains
  <2>5. KernelBlob(given) = <<k>>
    BY <2>4, BuiltKernel DEF VerifyInv, Sealed
  <2> HIDE DEF k
  <2>6. KernelBlob(given) # <<>> /\ KernelBlob(given)[1] = k
    BY <2>5
  <2>7. StoredRoothash(disk) # <<>>
    <3>1. /\ disk.gpt /\ disk.verity /\ disk.superblock /\ disk.algo # "other"
          /\ Len(disk.part) >= 2 * disk.bs
      BY <2>3 DEF VerityDisk
    <3>2. 2 * disk.bs <= Len(disk.part)
      <4>1. disk \in Disk
        BY <2>1, LaunchAssumption
      <4>2. disk.bs \in Nat /\ disk.part \in Seq(Cells)
        BY <4>1 DEF Disk
      <4>3. Len(disk.part) \in Nat
        BY <4>2, SeqFacts
      <4>4. QED
        BY <3>1, <4>2, <4>3
    <3>3. QED
      BY <3>1, <3>2 DEF StoredRoothash
  <2>8. StoredRoothash(disk) = <<VerityRoot(disk)>>
    BY <2>1, <2>7, StoredIs, LaunchAssumption
  <2>9. <<VerityRoot(disk)>> # <<>>
    OBVIOUS
  <2>10. CommitsFile(given, disk)
    BY <2>3, <2>6, <2>8, <2>9 DEF CommitsFile
  <2>11. QED
    BY <2>2, <2>10 DEF HonestInv
<1>2. FilesInv /\ VerifyInv /\ HonestInv /\ [Next]_vars => HonestInv'
    BY StepHonest DEF FilesInv
<1>3. QED
    BY VerifierInvariant, InitHonest, <1>1, <1>2, PTL DEF Spec

\* A launch digest stands for one kernel: a build with a kernel, its pages left in
\* the measurement, and any other build of the same digest have the same kernel,
\* command line included (build.rs: add_hob_data; measure.rs: measure_snp).
THEOREM DigestFixesKernel ==
    Spec => [](\A r, s \in ToSet(results) :
                 /\ r.ok /\ s.ok /\ r.digest = s.digest
                 /\ Has(r.cfg, "Kernel") /\ ~EmptyShim(r.cfg)
                 => Has(s.cfg, "Kernel") /\ s.cfg.blobs["Kernel"] = r.cfg.blobs["Kernel"])
<1>1. ASSUME VerifyInv, NEW r \in ToSet(results), NEW s \in ToSet(results), r.ok, s.ok,
             r.digest = s.digest, Has(r.cfg, "Kernel"), ~EmptyShim(r.cfg)
      PROVE  Has(s.cfg, "Kernel") /\ s.cfg.blobs["Kernel"] = r.cfg.blobs["Kernel"]
  <2> DEFINE k == r.cfg.blobs["Kernel"]
             l == s.cfg.blobs["Kernel"]
  <2>1. Sealed(r) /\ Sealed(s)
    BY <1>1 DEF VerifyInv
  <2>2. MeasuredKernel(r.file) = MeasuredKernel(s.file)
    BY <1>1, <2>1 DEF Sealed, Vouches, MeasuredKernel
  <2>3. Remains(r.cfg) = Remains(s.cfg)
    BY <2>1, <2>2, BuiltKernel DEF Sealed
  <2>4. Remains(r.cfg) = <<k>>
    BY <1>1 DEF Remains
  <2>5. Has(s.cfg, "Kernel") /\ <<k>> = <<l>>
    <3>1. <<k>> # <<>>
      OBVIOUS
    <3>2. Remains(s.cfg) # <<>>
      BY <2>3, <2>4, <3>1
    <3>3. QED
      BY <2>3, <2>4, <3>2 DEF Remains
  <2> HIDE DEF k, l
  <2>6. l = k
    <3>1. <<l>>[1] = l /\ <<k>>[1] = k
      OBVIOUS
    <3>2. QED
      BY <2>5, <3>1
  <2>7. QED
    BY <2>5, <2>6 DEF k, l
<1>2. VerifyInv =>
        \A r, s \in ToSet(results) :
           /\ r.ok /\ s.ok /\ r.digest = s.digest
           /\ Has(r.cfg, "Kernel") /\ ~EmptyShim(r.cfg)
           => Has(s.cfg, "Kernel") /\ s.cfg.blobs["Kernel"] = r.cfg.blobs["Kernel"]
    BY <1>1
<1>3. QED
    BY VerifierInvariant, <1>2, PTL
=============================================================================
