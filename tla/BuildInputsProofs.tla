------------------------- MODULE BuildInputsProofs -------------------------
(***************************************************************************)
(* Proofs about what a build records of its inputs, for any projects, any  *)
(* lock files, manifests and build graphs, and any repositories beside the *)
(* projects.                                                               *)
(***************************************************************************)
EXTENDS BuildInputs, FiniteSetTheorems, SequenceTheorems, WellFoundedInduction, TLAPS

\* A non-empty set of naturals has a least element.
LEMMA LeastNumber ==
    ASSUME NEW T, T \subseteq Nat, T # {}
    PROVE  \E x \in T : \A y \in T : x <= y
<1>1. PICK x \in T : \A y \in T : ~(<<y, x>> \in OpToRel(<, Nat))
    BY NatLessThanWellFounded, WFMin, Zenon
<1>2. \A y \in T : ~(y < x)
    BY <1>1 DEF OpToRel
<1>3. QED
    BY <1>2

LEMMA UpTo ==
    ASSUME NEW n \in Nat
    PROVE  IsFiniteSet(1..n) /\ Cardinality(1..n) = n
<1>1. /\ IsFiniteSet(1..n)
      /\ Cardinality(1..n) = IF 1 > n THEN 0 ELSE n - 1 + 1
    BY 1 \in Int, n \in Int, FS_Interval, Zenon
<1>2. (IF 1 > n THEN 0 ELSE n - 1 + 1) = n
    OBVIOUS
<1>3. QED
    BY <1>1, <1>2

-----------------------------------------------------------------------------
(* The order of uris *)

Uris == [1..6 -> Nat]

LEMMA FunctionIsSeq ==
    ASSUME NEW S, NEW n \in Nat, NEW f \in [1..n -> S]
    PROVE  f \in Seq(S)
OBVIOUS

LEMMA UriFacts ==
    ASSUME NEW u \in Uris
    PROVE  /\ u \in Seq(Nat) /\ Len(u) = 6
           /\ \A i \in 1..6 : u[i] \in Nat
<1>1. u \in Seq(Nat)
  <2>1. 6 \in Nat
    OBVIOUS
  <2>2. QED
    BY <2>1, FunctionIsSeq DEF Uris
<1>2. DOMAIN u = 1..6
    BY DEF Uris
<1>3. Len(u) = 6
    BY <1>1, <1>2, LenProperties
<1>4. \A i \in 1..6 : u[i] \in Nat
    BY DEF Uris
<1>5. QED
    BY <1>1, <1>3, <1>4

LEMMA BeforeDef ==
    ASSUME NEW u \in Uris, NEW v \in Uris
    PROVE  Before(u, v) <=> \E i \in 1..6 : u[i] < v[i] /\ \A j \in 1..(i - 1) : u[j] = v[j]
BY UriFacts DEF Before

LEMMA BeforeIrreflexive ==
    ASSUME NEW u \in Uris
    PROVE  ~Before(u, u)
<1>1. ASSUME NEW i \in 1..6 PROVE ~(u[i] < u[i])
  <2>1. u[i] \in Nat
    BY UriFacts
  <2>2. \A x \in Nat : ~(x < x)
    OBVIOUS
  <2>3. QED
    BY <2>1, <2>2
<1>2. QED
    BY <1>1, BeforeDef

LEMMA BeforeTransitive ==
    ASSUME NEW u \in Uris, NEW v \in Uris, NEW w \in Uris, Before(u, v), Before(v, w)
    PROVE  Before(u, w)
<1>1. PICK i \in 1..6 : u[i] < v[i] /\ \A j \in 1..(i - 1) : u[j] = v[j]
    BY BeforeDef
<1>2. PICK k \in 1..6 : v[k] < w[k] /\ \A j \in 1..(k - 1) : v[j] = w[j]
    BY BeforeDef
<1>3. /\ u[i] \in Nat /\ v[i] \in Nat /\ w[i] \in Nat
      /\ u[k] \in Nat /\ v[k] \in Nat /\ w[k] \in Nat
    BY UriFacts
<1>4. CASE i < k
  <2>1. v[i] = w[i] /\ \A j \in 1..(i - 1) : v[j] = w[j]
    BY <1>2, <1>4
  <2>2. u[i] < w[i] /\ \A j \in 1..(i - 1) : u[j] = w[j]
    BY <1>1, <2>1
  <2>3. QED
    BY <2>2, BeforeDef
<1>5. CASE i = k
  <2>1. u[i] < w[i]
    BY <1>1, <1>2, <1>3, <1>5
  <2>2. \A j \in 1..(i - 1) : u[j] = w[j]
    BY <1>1, <1>2, <1>5
  <2>3. QED
    BY <2>1, <2>2, BeforeDef
<1>6. CASE k < i
  <2>1. u[k] = v[k] /\ \A j \in 1..(k - 1) : u[j] = v[j]
    BY <1>1, <1>6
  <2>2. u[k] < w[k] /\ \A j \in 1..(k - 1) : u[j] = w[j]
    BY <1>2, <2>1
  <2>3. QED
    BY <2>2, BeforeDef
<1>7. QED
    BY <1>4, <1>5, <1>6

LEMMA BeforeTotal ==
    ASSUME NEW u \in Uris, NEW v \in Uris, u # v
    PROVE  Before(u, v) \/ Before(v, u)
<1> DEFINE T == {i \in 1..6 : u[i] # v[i]}
<1>1. T # {}
    BY DEF Uris
<1>2. PICK i \in T : \A j \in T : i <= j
  <2>1. T \subseteq Nat
    OBVIOUS
  <2> HIDE DEF T
  <2>2. QED
    BY <1>1, <2>1, LeastNumber
<1>3. i \in 1..6 /\ u[i] # v[i] /\ u[i] \in Nat /\ v[i] \in Nat
    BY UriFacts
<1>4. \A j \in 1..(i - 1) : u[j] = v[j]
    BY <1>2, <1>3
<1>5. u[i] < v[i] \/ v[i] < u[i]
    BY <1>3
<1>6. QED
    BY <1>3, <1>4, <1>5, BeforeDef

\* What sort_by relies on: its comparison is a weak order.
LEMMA LessOrder ==
    ASSUME NEW driver, NEW u \in Uris, NEW v \in Uris, NEW w \in Uris,
           driver = "nix" => u[2] \in Names /\ v[2] \in Names /\ w[2] \in Names
    PROVE  /\ ~Less(driver, u, u)
           /\ Less(driver, u, v) /\ Less(driver, v, w) => Less(driver, u, w)
           /\ Less(driver, u, w) => Less(driver, u, v) \/ Less(driver, v, w)
<1>1. CASE driver = "nix"
  <2>1. NameRank[u[2]] \in Nat /\ NameRank[v[2]] \in Nat /\ NameRank[w[2]] \in Nat
    BY <1>1, InputsAssumption
  <2>2. QED
    BY <1>1, <2>1 DEF Less, NameBefore, NameOf
<1>2. CASE driver # "nix"
  <2>1. \A x, y \in Uris : Less(driver, x, y) <=> Before(x, y)
    BY <1>2 DEF Less
  <2>2. Before(u, w) => Before(u, v) \/ Before(v, w)
    <3> SUFFICES ASSUME Before(u, w), ~Before(u, v), ~Before(v, w) PROVE FALSE
      OBVIOUS
    <3>1. u # v /\ v # w
      OBVIOUS
    <3>2. Before(v, u) /\ Before(w, v)
      BY <3>1, BeforeTotal
    <3>3. Before(w, u)
      BY <3>2, BeforeTransitive
    <3>4. QED
      BY <3>3, BeforeTransitive, BeforeIrreflexive
  <2>3. QED
    BY <2>1, <2>2, BeforeIrreflexive, BeforeTransitive
<1>3. QED
    BY <1>1, <1>2

-----------------------------------------------------------------------------
(* Sorting *)

LEMMA DepsFacts ==
    ASSUME NEW ds \in Seq(Uris)
    PROVE  /\ Len(ds) \in Nat /\ DOMAIN ds = 1..Len(ds)
           /\ \A i \in 1..Len(ds) : ds[i] \in Uris
BY LenProperties, ElementOfSeq

\* What nix sorts by name has names.
Ranked(driver, ds) == driver = "nix" => \A i \in 1..Len(ds) : ds[i][2] \in Names

\* Places are ordered: no two elements go to the same place.
LEMMA PrecedesOrder ==
    ASSUME NEW driver, NEW ds \in Seq(Uris), NEW i \in 1..Len(ds), NEW j \in 1..Len(ds),
           NEW k \in 1..Len(ds), Ranked(driver, ds)
    PROVE  /\ ~Precedes(driver, ds, i, i)
           /\ Precedes(driver, ds, i, j) /\ Precedes(driver, ds, j, k)
                => Precedes(driver, ds, i, k)
           /\ i # j => Precedes(driver, ds, i, j) \/ Precedes(driver, ds, j, i)
<1>1. i \in Nat /\ j \in Nat /\ k \in Nat
    BY DepsFacts
<1>2. /\ ds[i] \in Uris /\ ds[j] \in Uris /\ ds[k] \in Uris
      /\ driver = "nix" => ds[i][2] \in Names /\ ds[j][2] \in Names /\ ds[k][2] \in Names
    BY DepsFacts DEF Ranked
<1> DEFINE L(u, v) == Less(driver, u, v)
<1>3. /\ ~L(ds[i], ds[i])
      /\ L(ds[i], ds[j]) /\ L(ds[j], ds[k]) => L(ds[i], ds[k])
      /\ L(ds[k], ds[i]) => L(ds[k], ds[j]) \/ L(ds[j], ds[i])
      /\ L(ds[i], ds[j]) => L(ds[i], ds[k]) \/ L(ds[k], ds[j])
      /\ L(ds[j], ds[k]) => L(ds[j], ds[i]) \/ L(ds[i], ds[k])
      /\ ~(L(ds[i], ds[k]) /\ L(ds[k], ds[i]))
  <2>1. ~(L(ds[i], ds[k]) /\ L(ds[k], ds[i]))
    BY <1>2, LessOrder
  <2>2. QED
    BY <1>2, <2>1, LessOrder
<1> HIDE DEF L
<1>4. \A a, b \in 1..Len(ds) :
        Precedes(driver, ds, a, b) <=> L(ds[a], ds[b]) \/ (~L(ds[b], ds[a]) /\ a < b)
    BY DEF Precedes, L
<1>5. ~Precedes(driver, ds, i, i)
    BY <1>1, <1>3, <1>4
<1>6. Precedes(driver, ds, i, j) /\ Precedes(driver, ds, j, k) => Precedes(driver, ds, i, k)
    BY <1>1, <1>3, <1>4
<1>7. i # j => Precedes(driver, ds, i, j) \/ Precedes(driver, ds, j, i)
    BY <1>1, <1>4
<1>8. QED
    BY <1>5, <1>6, <1>7

\* What goes before i.
Ahead(driver, ds, i) == {j \in 1..Len(ds) : Precedes(driver, ds, j, i)}

LEMMA PlaceRange ==
    ASSUME NEW driver, NEW ds \in Seq(Uris), NEW i \in 1..Len(ds), Ranked(driver, ds)
    PROVE  /\ IsFiniteSet(Ahead(driver, ds, i))
           /\ Place(driver, ds, i) = Cardinality(Ahead(driver, ds, i)) + 1
           /\ Place(driver, ds, i) \in 1..Len(ds)
<1> DEFINE A == Ahead(driver, ds, i)
           n == Len(ds)
<1>1. n \in Nat
    BY DepsFacts
<1>2. IsFiniteSet(1..n) /\ Cardinality(1..n) = n
    BY <1>1, UpTo
<1>3. IsFiniteSet((1..n) \ {i}) /\ Cardinality((1..n) \ {i}) = n - 1
    BY <1>2, FS_RemoveElement
<1>4. A \in SUBSET ((1..n) \ {i})
    BY PrecedesOrder DEF Ahead
<1> HIDE DEF A
<1>5. IsFiniteSet(A) /\ Cardinality(A) <= n - 1
  <2> DEFINE B == (1..n) \ {i}
  <2>1. IsFiniteSet(B) /\ Cardinality(B) = n - 1 /\ A \in SUBSET B
    BY <1>3, <1>4
  <2> HIDE DEF B
  <2>2. IsFiniteSet(A) /\ Cardinality(A) <= Cardinality(B)
    BY <2>1, FS_Subset
  <2>3. QED
    BY <2>1, <2>2
<1>6. Cardinality(A) \in Nat
    BY <1>5, FS_CardinalityType
<1>7. Place(driver, ds, i) = Cardinality(A) + 1
    BY DEF Place, A, Ahead
<1>8. QED
    BY <1>1, <1>5, <1>6, <1>7 DEF A

LEMMA PlaceOrder ==
    ASSUME NEW driver, NEW ds \in Seq(Uris), NEW i \in 1..Len(ds), NEW j \in 1..Len(ds),
           Ranked(driver, ds), Precedes(driver, ds, i, j)
    PROVE  Place(driver, ds, i) < Place(driver, ds, j)
<1> DEFINE A == Ahead(driver, ds, i)
           B == Ahead(driver, ds, j)
<1>1. /\ IsFiniteSet(A) /\ IsFiniteSet(B)
      /\ Place(driver, ds, i) = Cardinality(A) + 1
      /\ Place(driver, ds, j) = Cardinality(B) + 1
    BY PlaceRange
<1>2. A \in SUBSET B
  <2> SUFFICES ASSUME NEW k \in 1..Len(ds), Precedes(driver, ds, k, i)
               PROVE  Precedes(driver, ds, k, j)
    BY DEF Ahead
  <2>1. QED
    BY PrecedesOrder
<1>3. i \in B /\ i \notin A
    BY PrecedesOrder DEF Ahead
<1> HIDE DEF A, B
<1>4. Cardinality(A) \in Nat /\ Cardinality(B) \in Nat
    BY <1>1, FS_CardinalityType
<1>5. Cardinality(A) <= Cardinality(B) /\ Cardinality(B) # Cardinality(A)
    BY <1>1, <1>2, <1>3, FS_Subset
<1>6. QED
    BY <1>1, <1>4, <1>5

\* Every place is taken.
LEMMA PlaceTaken ==
    ASSUME NEW driver, NEW ds \in Seq(Uris), NEW k \in 1..Len(ds), Ranked(driver, ds)
    PROVE  \E i \in 1..Len(ds) : Place(driver, ds, i) = k
<1> SUFFICES ASSUME \A i \in 1..Len(ds) : Place(driver, ds, i) # k
             PROVE  FALSE
    OBVIOUS
<1> DEFINE n == Len(ds)
           S == 1..n
           T == S \ {k}
           f == [i \in S |-> Place(driver, ds, i)]
<1>1. n \in Nat
    BY DepsFacts
<1>2. IsFiniteSet(S) /\ Cardinality(S) = n
    BY <1>1, UpTo
<1>3. IsFiniteSet(T) /\ Cardinality(T) = n - 1
    BY <1>2, FS_RemoveElement
<1>4. f \in [S -> T]
    BY PlaceRange
<1>5. \A x, y \in S : x # y => f[x] # f[y]
  <2> SUFFICES ASSUME NEW x \in S, NEW y \in S, x # y PROVE f[x] # f[y]
    OBVIOUS
  <2>1. Precedes(driver, ds, x, y) \/ Precedes(driver, ds, y, x)
    BY PrecedesOrder
  <2>2. Place(driver, ds, x) < Place(driver, ds, y) \/ Place(driver, ds, y) < Place(driver, ds, x)
    BY <2>1, PlaceOrder
  <2>3. Place(driver, ds, x) \in Nat /\ Place(driver, ds, y) \in Nat
    BY <1>1, PlaceRange
  <2>4. QED
    BY <2>2, <2>3
<1> HIDE DEF S, T, f
<1>6. Cardinality(T) < Cardinality(S)
    BY <1>1, <1>2, <1>3
<1>7. QED
    BY <1>2, <1>3, <1>4, <1>5, <1>6, FS_PigeonHole

\* Sorting reorders: SortedDeps(driver, ds)[k] is ds[f[k]] for a permutation f.
Reorders(driver, ds, f) ==
    /\ f \in [1..Len(ds) -> 1..Len(ds)]
    /\ SortedDeps(driver, ds) = [k \in 1..Len(ds) |-> ds[f[k]]]
    /\ \A i \in 1..Len(ds) : \E k \in 1..Len(ds) : f[k] = i
    /\ \A k, m \in 1..Len(ds) : k < m => Precedes(driver, ds, f[k], f[m])

LEMMA SortReorders ==
    ASSUME NEW driver, NEW ds \in Seq(Uris), Ranked(driver, ds)
    PROVE  \E f : Reorders(driver, ds, f)
<1> DEFINE n == Len(ds)
           f == [k \in 1..n |-> CHOOSE i \in 1..n : Place(driver, ds, i) = k]
<1>1. n \in Nat
    BY DepsFacts
<1>2. ASSUME NEW k \in 1..n PROVE f[k] \in 1..n /\ Place(driver, ds, f[k]) = k
  <2>1. \E i \in 1..n : Place(driver, ds, i) = k
    BY PlaceTaken
  <2>2. QED
    BY <2>1
<1>3. f \in [1..n -> 1..n]
    BY <1>2
<1>4. SortedDeps(driver, ds) = [k \in 1..n |-> ds[f[k]]]
    BY DEF SortedDeps
<1> HIDE DEF f
<1>5. ASSUME NEW k \in 1..n, NEW m \in 1..n, k < m
      PROVE  Precedes(driver, ds, f[k], f[m])
  <2> SUFFICES ASSUME ~Precedes(driver, ds, f[k], f[m]) PROVE FALSE
    OBVIOUS
  <2>1. f[k] # f[m]
    BY <1>1, <1>2, <1>5
  <2>2. Precedes(driver, ds, f[m], f[k])
    BY <1>2, <2>1, PrecedesOrder
  <2>3. Place(driver, ds, f[m]) < Place(driver, ds, f[k])
    BY <1>2, <2>2, PlaceOrder
  <2>4. QED
    BY <1>1, <1>2, <1>5, <2>3
<1>6. ASSUME NEW i \in 1..n PROVE \E k \in 1..n : f[k] = i
  <2> DEFINE k == Place(driver, ds, i)
  <2>1. k \in 1..n
    BY PlaceRange
  <2>2. f[k] \in 1..n /\ Place(driver, ds, f[k]) = k
    BY <1>2, <2>1
  <2>3. ASSUME f[k] # i PROVE FALSE
    <3>1. Precedes(driver, ds, f[k], i) \/ Precedes(driver, ds, i, f[k])
      BY <2>2, <2>3, PrecedesOrder
    <3>2. Place(driver, ds, f[k]) < k \/ k < Place(driver, ds, f[k])
      BY <2>2, <3>1, PlaceOrder
    <3>3. QED
      BY <1>1, <2>1, <2>2, <3>2
  <2>4. QED
    BY <2>1, <2>3
<1>7. QED
    BY <1>3, <1>4, <1>5, <1>6 DEF Reorders

\* Sorting keeps the uris that are listed.
LEMMA SortKeeps ==
    ASSUME NEW driver, NEW ds \in Seq(Uris), Ranked(driver, ds)
    PROVE  /\ SortedDeps(driver, ds) \in Seq(Uris)
           /\ Len(SortedDeps(driver, ds)) = Len(ds)
           /\ ToSet(SortedDeps(driver, ds)) = ToSet(ds)
<1> DEFINE n == Len(ds)
           s == SortedDeps(driver, ds)
<1>1. PICK f : Reorders(driver, ds, f)
    BY SortReorders
<1>2. n \in Nat /\ DOMAIN ds = 1..n /\ \A i \in 1..n : ds[i] \in Uris
    BY DepsFacts
<1>3. f \in [1..n -> 1..n] /\ s = [k \in 1..n |-> ds[f[k]]]
    BY <1>1 DEF Reorders
<1>4. s \in [1..n -> Uris]
    BY <1>2, <1>3
<1>5. s \in Seq(Uris)
    BY <1>2, <1>4, FunctionIsSeq
<1>6. Len(s) = n
    BY <1>2, <1>4, <1>5, LenProperties
<1>7. ToSet(s) = ToSet(ds)
  <2>1. DOMAIN s = 1..n
    BY <1>4
  <2>2. \A k \in 1..n : s[k] = ds[f[k]] /\ f[k] \in 1..n
    BY <1>3
  <2>3. ASSUME NEW i \in 1..n PROVE \E k \in 1..n : ds[i] = s[k]
    <3>1. PICK k \in 1..n : f[k] = i
      BY <1>1 DEF Reorders
    <3>2. QED
      BY <2>2, <3>1
  <2> HIDE DEF s
  <2>4. ToSet(s) = {s[k] : k \in 1..n} /\ ToSet(ds) = {ds[i] : i \in 1..n}
    BY <1>2, <2>1 DEF ToSet
  <2>5. ASSUME NEW u \in ToSet(s) PROVE u \in ToSet(ds)
    <3>1. PICK k \in 1..n : u = s[k]
      BY <2>4, <2>5
    <3>2. QED
      BY <2>2, <2>4, <3>1
  <2>6. ASSUME NEW u \in ToSet(ds) PROVE u \in ToSet(s)
    <3>1. PICK i \in 1..n : u = ds[i]
      BY <2>4, <2>6
    <3>2. QED
      BY <2>3, <2>4, <3>1
  <2>7. QED
    BY <2>5, <2>6
<1>8. QED
    BY <1>5, <1>6, <1>7

-----------------------------------------------------------------------------
(* Invariants *)

IsSequence(s) == \E S : s \in Seq(S)

\* Types, and that the indices stay within the lists that are walked.
TypeInv ==
    /\ todo \in Seq(Project)
    /\ repos \in [DOMAIN Repos -> Repo]
    /\ edits \in 0..MaxEdits /\ edited \in BOOLEAN
    /\ pc \in {"idle", "collect", "classify", "sha", "build", "artifacts"}
    /\ pc # "idle" => proj \in Project
    /\ \A k \in DOMAIN external : external[k] \in DOMAIN Repos
    /\ pc \in {"classify", "sha", "artifacts"} => idx \in Nat \ {0}
    /\ pc = "collect" => idx = 1 /\ proj.driver = "cargo"
    /\ pc \in {"classify", "sha"} => idx \in 1..(Len(proj.packages) + 1)
    /\ pc = "sha" => /\ idx \in 1..Len(proj.packages) /\ proj.driver = "cargo"
                     /\ Pkg.source = "none" /\ Pkg.name \in DOMAIN external
    /\ deps \in Seq(Uris)
    /\ \A n \in DOMAIN staged : staged[n] \in Nat
    /\ edits = 0 => repos = Repos

\* The packages that are classified: the first ones of the list.
Classified ==
    IF pc \in {"classify", "sha"} THEN idx - 1
    ELSE IF pc \in {"build", "artifacts"} THEN Len(proj.packages)
    ELSE 0

External(p) ==
    [k \in {d.key : d \in Outside(p)} |-> (CHOOSE d \in Outside(p) : d.key = k).dir]

\* The manifests are read and do not contradict each other.
CollectInv ==
    pc \notin {"idle", "collect"} /\ proj.driver = "cargo" =>
        /\ proj.members /\ ~Missing(proj) /\ ~Conflict(proj)
        /\ external = External(proj)

Acceptable(q) == ~Unpinned(proj, q) /\ (edits = 0 => ~Dirty(proj, q))

\* Every package that is classified is pinned, and was found clean.
AcceptInv ==
    pc # "idle" =>
        /\ \A k \in 1..Classified : Acceptable(proj.packages[k])
        /\ pc = "sha" => Acceptable(Pkg)

IsPathDep(q) == q.source = "none" /\ q.name \in DOMAIN external

\* The repositories as this build knows them: as they are, until the command has
\* used them.
Seen == IF pc = "artifacts" THEN consumed ELSE repos

PathUri(q) ==
    Uri(1, q.name, q.version, 2, external[q.name], Seen[external[q.name]].head)

\* The path dependencies that are classified are recorded at the commit they
\* are at, and are clean, while nobody touches what the build relies on.
PathInv ==
    pc # "idle" /\ proj.driver = "cargo" /\ ~edited =>
        /\ {u \in ToSet(deps) : u[4] = 2} =
               {PathUri(proj.packages[k]) : k \in {i \in 1..Classified : IsPathDep(proj.packages[i])}}
        /\ \A k \in 1..Classified : IsPathDep(proj.packages[k]) =>
               ~Seen[external[proj.packages[k].name]].dirty
        /\ pc = "sha" => ~repos[Dir].dirty

\* The executables copied so far.
Copied == {i \in 1..(idx - 1) : proj.out[i].exec}

\* artifacts/ has a file for each of them, and the subjects are all of them.
StageInv ==
    /\ pc \in {"collect", "classify", "sha", "build"} => staged = Empty /\ subject = <<>>
    /\ pc # "idle" => IsSequence(subject)
    /\ pc = "artifacts" /\ proj.driver # "cargo" =>
          /\ idx \in 1..(Len(proj.out) + 1)
          /\ DOMAIN staged = {proj.out[i].name : i \in Copied}
          /\ ToSet(subject) = {<<proj.out[i].name, proj.out[i].content>> : i \in Copied}
          /\ \A n \in DOMAIN staged : \E i \in Copied :
                proj.out[i].name = n /\ staged[n] = proj.out[i].content

Sorted(driver, ds) == \A i, j \in 1..Len(ds) : i < j => ~Less(driver, ds[j], ds[i])

\* Dependencies are sorted once all are known; fetches have names.
OrderInv ==
    /\ pc \in {"build", "artifacts"} => Sorted(proj.driver, deps)
    /\ pc # "idle" /\ proj.driver = "nix" => \A u \in ToSet(deps) : u[2] \in Names

BuildInv ==
    TypeInv /\ CollectInv /\ AcceptInv /\ PathInv /\ StageInv /\ OrderInv

-----------------------------------------------------------------------------
(* Facts about projects *)

LEMMA ProjectFacts ==
    ASSUME NEW p \in Project
    PROVE  /\ p.driver \in {"cargo", "nix", "pnpm"}
           /\ p.packages \in Seq(Package) /\ p.out \in Seq(Binary)
           /\ Len(p.packages) \in Nat /\ Len(p.out) \in Nat
           /\ \A k \in 1..Len(p.packages) : p.packages[k] \in Package
           /\ \A k \in 1..Len(p.out) : p.out[k] \in Binary
<1>1. /\ p.driver \in {"cargo", "nix", "pnpm"}
      /\ p.packages \in Seq(Package) /\ p.out \in Seq(Binary)
    BY DEF Project
<1>2. /\ Len(p.packages) \in Nat
      /\ \A k \in 1..Len(p.packages) : p.packages[k] \in Package
    BY <1>1, LenProperties, ElementOfSeq
<1>3. Len(p.out) \in Nat /\ \A k \in 1..Len(p.out) : p.out[k] \in Binary
    BY <1>1, LenProperties, ElementOfSeq
<1>4. QED
    BY <1>1, <1>2, <1>3

LEMMA PackageFacts ==
    ASSUME NEW q \in Package
    PROVE  /\ q.name \in Names /\ q.name \in Nat
           /\ q.version \in Nat /\ q.pin \in Nat /\ q.loc \in Nat
           /\ q.source \in {"registry", "git", "none", "other"}
           /\ q.hashes \in Seq(Nat)
BY InputsAssumption DEF Package

\* Every declaration that kettle reads for a directory outside the workspace has
\* its way, because no two contradict each other.
LEMMA ExternalOf ==
    ASSUME NEW p, ~Conflict(p)
    PROVE  \A d \in Outside(p) : d.key \in DOMAIN External(p) /\ External(p)[d.key] = d.dir
<1> SUFFICES ASSUME NEW d \in Outside(p)
             PROVE  d.key \in DOMAIN External(p) /\ External(p)[d.key] = d.dir
    OBVIOUS
<1> DEFINE e == CHOOSE x \in Outside(p) : x.key = d.key
<1>1. e \in Outside(p) /\ e.key = d.key
    OBVIOUS
<1>2. e.dir = d.dir
    BY <1>1 DEF Conflict
<1>3. d.key \in {x.key : x \in Outside(p)}
    OBVIOUS
<1>4. External(p)[d.key] = e.dir
    BY <1>3 DEF External
<1>5. DOMAIN External(p) = {x.key : x \in Outside(p)}
    BY DEF External
<1>6. QED
    BY <1>2, <1>3, <1>4, <1>5

\* external holds directories that were declared.
LEMMA ExternalFrom ==
    ASSUME NEW p, NEW k \in DOMAIN External(p)
    PROVE  \E d \in Outside(p) : d.key = k /\ External(p)[k] = d.dir
<1>1. DOMAIN External(p) = {x.key : x \in Outside(p)}
    BY DEF External
<1>2. PICK d \in Outside(p) : d.key = k
    BY <1>1
<1> DEFINE e == CHOOSE x \in Outside(p) : x.key = k
<1>3. e \in Outside(p) /\ e.key = k
    BY <1>2
<1>4. External(p)[k] = e.dir
    BY <1>1 DEF External
<1>5. QED
    BY <1>3, <1>4

LEMMA ExternalDirs ==
    ASSUME NEW p, ~Missing(p), NEW k \in DOMAIN External(p)
    PROVE  External(p)[k] \in DOMAIN Repos
BY ExternalFrom DEF Missing

\* A package is dirty if the directory it is looked up in is.
LEMMA DirtyAt ==
    ASSUME NEW p, ~Conflict(p), NEW q, Dirty(p, q)
    PROVE  /\ p.driver = "cargo" /\ q.source = "none" /\ q.name \in DOMAIN External(p)
           /\ ~Repos[External(p)[q.name]].git \/ Repos[External(p)[q.name]].dirty
<1>1. PICK d \in ToSet(p.decls) :
          /\ d.table = "member" /\ d.key = q.name /\ d.dir # 0
          /\ ~Repos[d.dir].git \/ Repos[d.dir].dirty
    BY DEF Dirty
<1>2. d \in Outside(p)
    BY <1>1 DEF Outside, Declarations
<1>3. d.key \in DOMAIN External(p) /\ External(p)[d.key] = d.dir
    BY <1>2, ExternalOf
<1>4. p.driver = "cargo" /\ q.source = "none"
    BY DEF Dirty
<1>5. QED
    BY <1>1, <1>3, <1>4

LEMMA CleanIsClean ==
    ASSUME NEW p, ~Conflict(p), NEW q \in Package, q.name \in DOMAIN External(p), q.source = "none",
           Repos[External(p)[q.name]].git, ~Repos[External(p)[q.name]].dirty
    PROVE  ~Dirty(p, q)
BY DirtyAt

-----------------------------------------------------------------------------
(* One package is classified *)

LEMMA OneUri ==
    ASSUME NEW u \in Uris
    PROVE  <<u>> \in Seq(Uris) /\ ToSet(<<u>>) = {u}
BY DEF ToSet

LEMMA NoUri ==
    <<>> \in Seq(Uris) /\ ToSet(<<>>) = {}
BY DEF ToSet

\* What classifying the package at idx records, whatever the driver.
Classifies(uris) ==
    /\ uris \in Seq(Uris)
    /\ Record(uris)
    /\ pc \in {"classify", "sha"} /\ idx \in 1..Len(proj.packages)
    /\ Acceptable(Pkg)
    /\ proj.driver = "cargo" /\ ~edited =>
          IF IsPathDep(Pkg)
          THEN ToSet(uris) = {PathUri(Pkg)} /\ ~repos[external[Pkg.name]].dirty
          ELSE \A u \in ToSet(uris) : u[4] # 2
    /\ proj.driver = "nix" => \A u \in ToSet(uris) : u[2] \in Names

LEMMA AtPackageFacts ==
    ASSUME TypeInv, pc \in {"classify", "sha"}, idx <= Len(proj.packages)
    PROVE  /\ proj \in Project /\ idx \in 1..Len(proj.packages) /\ Pkg \in Package
<1>1. proj \in Project /\ idx \in Nat \ {0}
    BY DEF TypeInv
<1>2. Len(proj.packages) \in Nat
    BY <1>1, ProjectFacts
<1>3. idx \in 1..Len(proj.packages)
    BY <1>1, <1>2
<1>4. QED
    BY <1>1, <1>3, ProjectFacts DEF Pkg

LEMMA ClassifyPinnedClassifies ==
    ASSUME BuildInv, ClassifyPinned
    PROVE  \E uris : Classifies(uris)
<1> DEFINE u == PinnedUri(Pkg)
<1>1. /\ pc = "classify" /\ proj.driver = "cargo" /\ idx <= Len(proj.packages)
      /\ Pkg.source \in {"registry", "git"} /\ Pkg.pin # 0 /\ Record(<<u>>)
    BY DEF ClassifyPinned, AtPackage
<1>2. idx \in 1..Len(proj.packages) /\ Pkg \in Package
    BY <1>1, AtPackageFacts DEF BuildInv
<1>3. u \in Uris /\ u[4] # 2
  <2>1. Pkg.name \in Nat /\ Pkg.version \in Nat /\ Pkg.pin \in Nat /\ Pkg.loc \in Nat
      BY <1>2, PackageFacts
  <2>2. u = Uri(1, Pkg.name, Pkg.version, 3, Pkg.loc, Pkg.pin)
            \/ u = Uri(1, Pkg.name, Pkg.version, 1, 0, Pkg.pin)
      BY DEF PinnedUri
  <2>3. QED
      BY <2>1, <2>2 DEF Uri, Uris
<1>4. Acceptable(Pkg)
    BY <1>1 DEF Acceptable, Unpinned, Dirty
<1>5. ~IsPathDep(Pkg)
    BY <1>1 DEF IsPathDep
<1> HIDE DEF u
<1>6. <<u>> \in Seq(Uris) /\ ToSet(<<u>>) = {u}
    BY <1>3, OneUri
<1>7. Classifies(<<u>>)
    BY <1>1, <1>2, <1>3, <1>4, <1>5, <1>6 DEF Classifies
<1>8. QED
    BY <1>7

LEMMA SkipMemberClassifies ==
    ASSUME BuildInv, SkipMember
    PROVE  \E uris : Classifies(uris)
<1>1. /\ pc = "classify" /\ proj.driver = "cargo" /\ idx <= Len(proj.packages)
      /\ Pkg.source = "none" /\ Pkg.name \notin DOMAIN external /\ Record(<<>>)
    BY DEF SkipMember, AtPackage
<1>2. idx \in 1..Len(proj.packages) /\ Pkg \in Package
    BY <1>1, AtPackageFacts DEF BuildInv
<1>3. ~Conflict(proj) /\ external = External(proj)
    BY <1>1 DEF BuildInv, CollectInv
<1>4. ~Dirty(proj, Pkg)
    BY <1>1, <1>3, DirtyAt
<1>5. Acceptable(Pkg)
    BY <1>1, <1>4 DEF Acceptable, Unpinned
<1>6. ~IsPathDep(Pkg)
    BY <1>1 DEF IsPathDep
<1>7. Classifies(<<>>)
    BY <1>1, <1>2, <1>5, <1>6, NoUri DEF Classifies
<1>8. QED
    BY <1>7

LEMMA GitShaAtClassifies ==
    ASSUME BuildInv, GitShaAt
    PROVE  \E uris : Classifies(uris)
<1> DEFINE u == Uri(1, Pkg.name, Pkg.version, 2, Dir, repos[Dir].head)
<1>1. pc = "sha" /\ Record(<<u>>)
    BY DEF GitShaAt
<1>2. /\ idx \in 1..Len(proj.packages) /\ proj.driver = "cargo"
      /\ Pkg.source = "none" /\ Pkg.name \in DOMAIN external
      /\ Dir \in DOMAIN Repos /\ repos \in [DOMAIN Repos -> Repo]
      /\ proj \in Project
    BY <1>1 DEF BuildInv, TypeInv, Dir
<1>3. Pkg \in Package
    BY <1>2, ProjectFacts DEF Pkg
<1>4. repos[Dir] \in Repo
    BY <1>2
<1>5. repos[Dir].head \in Nat /\ Dir \in Nat
    BY <1>2, <1>4, InputsAssumption DEF Repo
<1>6. u \in Uris
  <2>1. Pkg.name \in Nat /\ Pkg.version \in Nat
      BY <1>3, PackageFacts
  <2>2. QED
      BY <1>5, <2>1 DEF Uri, Uris
<1>7. u = PathUri(Pkg)
    BY <1>1 DEF PathUri, Dir, Seen
<1>8. IsPathDep(Pkg)
    BY <1>2 DEF IsPathDep
<1>9. Acceptable(Pkg)
    BY <1>1 DEF BuildInv, AcceptInv
<1>10. ~edited => ~repos[external[Pkg.name]].dirty
    BY <1>1, <1>2 DEF BuildInv, PathInv, Dir
<1> HIDE DEF u
<1>11. <<u>> \in Seq(Uris) /\ ToSet(<<u>>) = {u}
    BY <1>6, OneUri
<1>12. Classifies(<<u>>)
    BY <1>1, <1>2, <1>7, <1>8, <1>9, <1>10, <1>11 DEF Classifies
<1>13. QED
    BY <1>12

LEMMA FetchUri ==
    ASSUME NEW n \in Nat, NEW h \in Nat
    PROVE  Uri(1, n, 0, 0, 0, h) \in Uris /\ Uri(1, n, 0, 0, 0, h)[2] = n
BY DEF Uri, Uris

LEMMA ExtractFixedOutputClassifies ==
    ASSUME BuildInv, ExtractFixedOutput
    PROVE  \E uris : Classifies(uris)
<1> DEFINE fixed == {i \in DOMAIN Pkg.hashes : Pkg.hashes[i] # 0}
           first == CHOOSE i \in fixed : \A j \in fixed : i <= j
           u == Uri(1, Pkg.name, 0, 0, 0, Pkg.hashes[first])
           uris == IF fixed = {} THEN <<>> ELSE <<u>>
<1>1. /\ pc = "classify" /\ proj.driver = "nix" /\ idx <= Len(proj.packages)
      /\ Record(uris)
    BY DEF ExtractFixedOutput, AtPackage
<1>2. idx \in 1..Len(proj.packages) /\ Pkg \in Package
    BY <1>1, AtPackageFacts DEF BuildInv
<1>3. Pkg.hashes \in Seq(Nat) /\ Pkg.name \in Nat /\ Pkg.name \in Names
    BY <1>2, PackageFacts
<1>4. fixed # {} => u \in Uris /\ u[2] \in Names
  <2> SUFFICES ASSUME fixed # {} PROVE u \in Uris /\ u[2] \in Names
      OBVIOUS
  <2>1. DOMAIN Pkg.hashes \subseteq Nat
      BY <1>3, LenProperties
  <2>2. fixed \subseteq Nat
      BY <2>1
  <2>3. \E i \in fixed : \A j \in fixed : i <= j
      BY <2>2, LeastNumber
  <2>4. first \in fixed
      BY <2>3
  <2>5. first \in DOMAIN Pkg.hashes
      BY <2>4
  <2> HIDE DEF first
  <2>6. Pkg.hashes[first] \in Nat
      BY <1>3, <2>5, LenProperties, ElementOfSeq
  <2> DEFINE h == Pkg.hashes[first]
  <2>7. u = Uri(1, Pkg.name, 0, 0, 0, h)
      OBVIOUS
  <2>8. h \in Nat
      BY <2>6
  <2> HIDE DEF h, u
  <2>9. QED
      BY <1>3, <2>7, <2>8, FetchUri
<1>5. Acceptable(Pkg)
    BY <1>1 DEF Acceptable, Unpinned, Dirty
<1> HIDE DEF u, fixed
<1>6. uris \in Seq(Uris) /\ \A v \in ToSet(uris) : v[2] \in Names
    BY <1>4, OneUri, NoUri
<1> HIDE DEF uris
<1>7. Classifies(uris)
    BY <1>1, <1>2, <1>5, <1>6 DEF Classifies
<1>8. QED
    BY <1>7

LEMMA ParsePnpmPackageClassifies ==
    ASSUME BuildInv, ParsePnpmPackage
    PROVE  \E uris : Classifies(uris)
<1> DEFINE u == IF Pkg.pin # 0 THEN Uri(1, Pkg.name, Pkg.version, 1, 0, Pkg.pin)
                ELSE Uri(0, Pkg.loc, 0, 0, 0, 0)
<1>1. /\ pc = "classify" /\ proj.driver = "pnpm" /\ idx <= Len(proj.packages)
      /\ Pkg.version # 0 /\ (Pkg.pin # 0 \/ Pkg.loc # 0) /\ Record(<<u>>)
    BY DEF ParsePnpmPackage, AtPackage
<1>2. idx \in 1..Len(proj.packages) /\ Pkg \in Package
    BY <1>1, AtPackageFacts DEF BuildInv
<1>3. u \in Uris
  <2>1. Pkg.name \in Nat /\ Pkg.version \in Nat /\ Pkg.pin \in Nat /\ Pkg.loc \in Nat
      BY <1>2, PackageFacts
  <2>2. u = Uri(1, Pkg.name, Pkg.version, 1, 0, Pkg.pin) \/ u = Uri(0, Pkg.loc, 0, 0, 0, 0)
      OBVIOUS
  <2>3. QED
      BY <2>1, <2>2 DEF Uri, Uris
<1>4. Acceptable(Pkg)
    BY <1>1 DEF Acceptable, Unpinned, Dirty
<1> HIDE DEF u
<1>5. <<u>> \in Seq(Uris)
    BY <1>3, OneUri
<1>6. Classifies(<<u>>)
    BY <1>1, <1>2, <1>4, <1>5 DEF Classifies
<1>7. QED
    BY <1>6

-----------------------------------------------------------------------------
(* Every step keeps the invariants *)

LEMMA ConcatSet ==
    ASSUME NEW s \in Seq(Uris), NEW t \in Seq(Uris)
    PROVE  s \o t \in Seq(Uris) /\ ToSet(s \o t) = ToSet(s) \union ToSet(t)
<1>1. /\ s \o t \in Seq(Uris) /\ Len(s \o t) = Len(s) + Len(t)
      /\ \A i \in 1..(Len(s) + Len(t)) :
            (s \o t)[i] = IF i <= Len(s) THEN s[i] ELSE t[i - Len(s)]
    BY ConcatProperties
<1>2. /\ Len(s) \in Nat /\ DOMAIN s = 1..Len(s)
      /\ Len(t) \in Nat /\ DOMAIN t = 1..Len(t)
    BY DepsFacts
<1>3. DOMAIN (s \o t) = 1..(Len(s) + Len(t))
    BY <1>1, LenProperties
<1>4. ASSUME NEW i \in 1..(Len(s) + Len(t))
      PROVE  (s \o t)[i] \in ToSet(s) \union ToSet(t)
  <2>1. CASE i <= Len(s)
    <3>1. (s \o t)[i] = s[i] /\ i \in DOMAIN s
        BY <1>1, <1>2, <2>1
    <3>2. QED
        BY <3>1 DEF ToSet
  <2>2. CASE ~(i <= Len(s))
    <3>1. (s \o t)[i] = t[i - Len(s)] /\ i - Len(s) \in DOMAIN t
        BY <1>1, <1>2, <2>2
    <3>2. QED
        BY <3>1 DEF ToSet
  <2>3. QED
      BY <2>1, <2>2
<1>5. ASSUME NEW u \in ToSet(s) \union ToSet(t)
      PROVE  \E i \in 1..(Len(s) + Len(t)) : (s \o t)[i] = u
  <2>1. CASE u \in ToSet(s)
    <3>1. PICK i \in DOMAIN s : s[i] = u
        BY <2>1 DEF ToSet
    <3>2. i \in 1..(Len(s) + Len(t)) /\ (s \o t)[i] = u
        BY <1>1, <1>2, <3>1
    <3>3. QED
        BY <3>2
  <2>2. CASE u \in ToSet(t)
    <3>1. PICK i \in DOMAIN t : t[i] = u
        BY <2>2 DEF ToSet
    <3>2. /\ Len(s) + i \in 1..(Len(s) + Len(t))
          /\ ~(Len(s) + i <= Len(s)) /\ Len(s) + i - Len(s) = i
        BY <1>2, <3>1
    <3>3. (s \o t)[Len(s) + i] = u
        BY <1>1, <3>1, <3>2
    <3>4. QED
        BY <3>2, <3>3
  <2>3. QED
      BY <2>1, <2>2
<1>6. ToSet(s \o t) = {(s \o t)[i] : i \in 1..(Len(s) + Len(t))}
    BY <1>3 DEF ToSet
<1>7. QED
    BY <1>1, <1>4, <1>5, <1>6

LEMMA ClassifiesKeepsTypes ==
    ASSUME BuildInv, NEW uris, Classifies(uris)
    PROVE  TypeInv' /\ CollectInv'
<1>1. /\ deps' = deps \o uris /\ idx' = idx + 1 /\ pc' = "classify"
      /\ UNCHANGED <<todo, repos, edits, edited, proj, external, staged>>
      /\ uris \in Seq(Uris) /\ pc \in {"classify", "sha"} /\ idx \in 1..Len(proj.packages)
    BY DEF Classifies, Record
<1>2. TypeInv
    BY DEF BuildInv
<1>3. deps \in Seq(Uris) /\ proj \in Project
    BY <1>1, <1>2 DEF TypeInv
<1>4. deps' \in Seq(Uris)
    BY <1>1, <1>3, ConcatSet
<1>5. Len(proj.packages) \in Nat
    BY <1>3, ProjectFacts
<1>6. idx' \in Nat \ {0} /\ idx' \in 1..(Len(proj'.packages) + 1)
    BY <1>1, <1>5
<1>7. TypeInv'
    BY <1>1, <1>2, <1>4, <1>6 DEF TypeInv
<1>8. CollectInv
    BY DEF BuildInv
<1>9. CollectInv'
    BY <1>1, <1>8 DEF CollectInv, Missing, Conflict, Outside, Declarations, External
<1>10. QED
    BY <1>7, <1>9

LEMMA ClassifiesKeepsAccept ==
    ASSUME BuildInv, NEW uris, Classifies(uris)
    PROVE  AcceptInv'
<1>1. /\ idx' = idx + 1 /\ pc' = "classify" /\ UNCHANGED <<edits, proj>>
      /\ pc \in {"classify", "sha"} /\ idx \in 1..Len(proj.packages)
      /\ Acceptable(Pkg)
    BY DEF Classifies, Record
<1>2. idx \in Nat /\ Classified = idx - 1 /\ Classified' = idx
    BY <1>1 DEF Classified
<1>3. \A k \in 1..(idx - 1) : Acceptable(proj.packages[k])
    BY <1>1, <1>2 DEF BuildInv, AcceptInv
<1>4. \A k \in 1..idx : Acceptable(proj.packages[k])
    BY <1>1, <1>2, <1>3 DEF Pkg
<1>5. \A k \in 1..Classified' : Acceptable(proj.packages[k])'
    BY <1>1, <1>2, <1>4 DEF Acceptable, Unpinned, Dirty
<1>6. QED
    BY <1>1, <1>5 DEF AcceptInv

LEMMA ClassifiesKeepsPath ==
    ASSUME BuildInv, NEW uris, Classifies(uris)
    PROVE  PathInv'
<1>1. /\ deps' = deps \o uris /\ idx' = idx + 1 /\ pc' = "classify"
      /\ UNCHANGED <<repos, edited, proj, external>>
      /\ uris \in Seq(Uris) /\ pc \in {"classify", "sha"} /\ idx \in 1..Len(proj.packages)
    BY DEF Classifies, Record
<1> SUFFICES ASSUME proj.driver = "cargo", ~edited
             PROVE  PathInv'
    BY <1>1 DEF PathInv
<1>2. idx \in Nat /\ Classified = idx - 1 /\ Classified' = idx /\ Seen = repos /\ Seen' = repos
    BY <1>1 DEF Classified, Seen
<1> DEFINE D == {i \in 1..(idx - 1) : IsPathDep(proj.packages[i])}
           E == {i \in 1..idx : IsPathDep(proj.packages[i])}
           old == {u \in ToSet(deps) : u[4] = 2}
           new == {u \in ToSet(deps \o uris) : u[4] = 2}
           fresh == {u \in ToSet(uris) : u[4] = 2}
<1>3. /\ old = {PathUri(proj.packages[k]) : k \in D}
      /\ \A k \in D : ~repos[external[proj.packages[k].name]].dirty
    BY <1>1, <1>2 DEF BuildInv, PathInv
<1>4. deps \in Seq(Uris)
    BY DEF BuildInv, TypeInv
<1>5. new = old \union fresh
    BY <1>1, <1>4, ConcatSet
<1>6. /\ IsPathDep(Pkg) => ToSet(uris) = {PathUri(Pkg)} /\ ~repos[external[Pkg.name]].dirty
      /\ ~IsPathDep(Pkg) => \A u \in ToSet(uris) : u[4] # 2
    BY DEF Classifies
<1>7. PathUri(Pkg)[4] = 2
    BY DEF PathUri, Uri
<1>8. /\ IsPathDep(Pkg) => fresh = {PathUri(Pkg)} /\ E = D \union {idx}
      /\ ~IsPathDep(Pkg) => fresh = {} /\ E = D
  <2>1. /\ IsPathDep(Pkg) => E = D \union {idx}
        /\ ~IsPathDep(Pkg) => E = D
      BY <1>1, <1>2 DEF Pkg
  <2>2. /\ IsPathDep(Pkg) => fresh = {PathUri(Pkg)}
        /\ ~IsPathDep(Pkg) => fresh = {}
      BY <1>6, <1>7
  <2>3. QED
      BY <2>1, <2>2
<1> HIDE DEF D, E, old, new, fresh
<1>9. /\ new = {PathUri(proj.packages[k]) : k \in E}
      /\ \A k \in E : ~repos[external[proj.packages[k].name]].dirty
    BY <1>3, <1>5, <1>6, <1>8 DEF Pkg
<1> USE DEF E, new
<1>10. /\ {u \in ToSet(deps') : u[4] = 2} =
            {PathUri(proj.packages[k])' : k \in {i \in 1..idx : IsPathDep(proj.packages[i])'}}
       /\ \A k \in 1..idx : IsPathDep(proj.packages[k])' =>
               ~Seen'[external'[proj'.packages[k].name]].dirty
    BY <1>1, <1>2, <1>9 DEF PathUri, IsPathDep
<1>11. QED
    BY <1>1, <1>2, <1>10 DEF PathInv

LEMMA ClassifiesKeepsRest ==
    ASSUME BuildInv, NEW uris, Classifies(uris)
    PROVE  StageInv' /\ OrderInv'
<1>1. /\ deps' = deps \o uris /\ pc' = "classify"
      /\ UNCHANGED <<proj, staged, subject>>
      /\ uris \in Seq(Uris) /\ pc \in {"classify", "sha"}
      /\ proj.driver = "nix" => \A u \in ToSet(uris) : u[2] \in Names
    BY DEF Classifies, Record
<1>2. StageInv'
    BY <1>1 DEF BuildInv, StageInv
<1>3. deps \in Seq(Uris)
    BY DEF BuildInv, TypeInv
<1>4. proj.driver = "nix" => \A u \in ToSet(deps) : u[2] \in Names
    BY <1>1 DEF BuildInv, OrderInv
<1>5. ToSet(deps') = ToSet(deps) \union ToSet(uris)
    BY <1>1, <1>3, ConcatSet
<1>6. OrderInv'
    BY <1>1, <1>4, <1>5 DEF OrderInv
<1>7. QED
    BY <1>2, <1>6

LEMMA ClassifiesKeeps ==
    ASSUME BuildInv, NEW uris, Classifies(uris)
    PROVE  BuildInv'
BY ClassifiesKeepsTypes, ClassifiesKeepsAccept, ClassifiesKeepsPath, ClassifiesKeepsRest
   DEF BuildInv

LEMMA StartKeeps ==
    ASSUME BuildInv, Start
    PROVE  BuildInv'
<1>1. /\ todo # <<>> /\ proj' = Head(todo) /\ todo' = Tail(todo)
      /\ external' = Empty /\ idx' = 1 /\ deps' = <<>>
      /\ subject' = <<>> /\ staged' = Empty /\ edited' = FALSE
      /\ pc' = (IF proj'.driver = "cargo" THEN "collect" ELSE "classify")
      /\ UNCHANGED <<repos, edits>>
    BY DEF Start
<1>2. TypeInv
    BY DEF BuildInv
<1>3. todo' \in Seq(Project) /\ proj' \in Project
  <2>1. todo \in Seq(Project)
      BY <1>2 DEF TypeInv
  <2>2. QED
      BY <1>1, <2>1, HeadTailProperties
<1>4. Len(proj'.packages) \in Nat
    BY <1>3, ProjectFacts
<1>5. DOMAIN external' = {} /\ DOMAIN staged' = {}
    BY <1>1 DEF Empty
<1>6. deps' \in Seq(Uris) /\ ToSet(deps') = {} /\ Len(deps') = 0
    BY <1>1, NoUri
<1>7. TypeInv'
  <2>1. /\ pc' \in {"collect", "classify"} /\ idx' \in 1..(Len(proj'.packages) + 1)
        /\ pc' = "collect" => proj'.driver = "cargo"
      BY <1>1, <1>4
  <2>2. /\ repos' \in [DOMAIN Repos -> Repo] /\ edits' \in 0..MaxEdits
        /\ edits' = 0 => repos' = Repos
      BY <1>1, <1>2 DEF TypeInv
  <2>3. edited' \in BOOLEAN /\ idx' = 1
      BY <1>1
  <2>4. (pc = "sha" => FALSE)' /\ idx' \in Nat \ {0}
      BY <2>1, <2>3
  <2>5. \A k \in DOMAIN external' : external'[k] \in DOMAIN Repos
      BY <1>5
  <2>6. \A n \in DOMAIN staged' : staged'[n] \in Nat
      BY <1>5
  <2>7. QED
      BY <1>3, <1>6, <2>1, <2>2, <2>3, <2>4, <2>5, <2>6 DEF TypeInv
<1>8. CollectInv'
    BY <1>1 DEF CollectInv
<1>9. Classified' = 0
    BY <1>1 DEF Classified
<1>10. AcceptInv'
    BY <1>1, <1>9 DEF AcceptInv
<1>11. PathInv'
    BY <1>1, <1>6, <1>9 DEF PathInv
<1>12. StageInv'
  <2>1. <<>> \in Seq({})
      OBVIOUS
  <2>2. QED
      BY <1>1, <2>1 DEF StageInv, IsSequence
<1>13. OrderInv'
    BY <1>1, <1>6 DEF OrderInv
<1>14. QED
    BY <1>7, <1>8, <1>10, <1>11, <1>12, <1>13 DEF BuildInv

LEMMA CollectKeeps ==
    ASSUME BuildInv, CollectExternalPathDeps
    PROVE  BuildInv'
<1>1. /\ pc = "collect" /\ pc' = "classify"
      /\ proj.members /\ ~Missing(proj) /\ ~Conflict(proj)
      /\ external' = External(proj)
      /\ UNCHANGED <<todo, repos, edits, edited, proj, idx, deps, subject, staged>>
    BY DEF CollectExternalPathDeps, External
<1>2. TypeInv
    BY DEF BuildInv
<1>3. idx' = 1 /\ proj' \in Project
    BY <1>1, <1>2 DEF TypeInv
<1>4. Len(proj'.packages) \in Nat
    BY <1>3, ProjectFacts
<1>5. \A k \in DOMAIN external' : external'[k] \in DOMAIN Repos
    BY <1>1, ExternalDirs
<1>6. TypeInv'
    BY <1>1, <1>2, <1>3, <1>4, <1>5 DEF TypeInv
<1>7. CollectInv'
    BY <1>1 DEF CollectInv, Missing, Conflict, Outside, Declarations, External
<1>8. Classified = 0 /\ Classified' = 0
    BY <1>1, <1>3 DEF Classified
<1>9. AcceptInv'
    BY <1>1, <1>8 DEF AcceptInv
<1>10. PathInv'
    BY <1>1, <1>8 DEF BuildInv, PathInv
<1>11. StageInv'
    BY <1>1 DEF BuildInv, StageInv
<1>12. OrderInv'
    BY <1>1 DEF BuildInv, OrderInv
<1>13. QED
    BY <1>6, <1>7, <1>9, <1>10, <1>11, <1>12 DEF BuildInv

LEMMA AssertCleanKeeps ==
    ASSUME BuildInv, AssertClean
    PROVE  BuildInv'
<1>1. /\ pc = "classify" /\ pc' = "sha" /\ proj.driver = "cargo"
      /\ idx <= Len(proj.packages) /\ Pkg.source = "none" /\ Pkg.name \in DOMAIN external
      /\ repos[Dir].git /\ ~repos[Dir].dirty
      /\ UNCHANGED <<todo, repos, edits, edited, proj, external, idx, deps, subject, staged>>
    BY DEF AssertClean, AtPathDep, AtPackage, buildVars
<1>2. TypeInv
    BY DEF BuildInv
<1>3. idx \in 1..Len(proj.packages) /\ Pkg \in Package /\ proj \in Project
    BY <1>1, <1>2, AtPackageFacts
<1>4. TypeInv'
    BY <1>1, <1>2, <1>3 DEF TypeInv, Pkg
<1>5. ~Conflict(proj) /\ external = External(proj)
    BY <1>1 DEF BuildInv, CollectInv
<1>6. CollectInv'
    BY <1>1 DEF BuildInv, CollectInv, Missing, Conflict, Outside, Declarations, External
<1>7. Classified' = Classified
    BY <1>1 DEF Classified
<1>8. edits = 0 => ~Dirty(proj, Pkg)
  <2>1. edits = 0 => repos = Repos
      BY <1>2 DEF TypeInv
  <2>2. QED
      BY <1>1, <1>3, <1>5, <2>1, CleanIsClean DEF Dir
<1>9. Acceptable(Pkg)
    BY <1>1, <1>8 DEF Acceptable, Unpinned
<1>10. \A k \in 1..Classified : Acceptable(proj.packages[k])
    BY <1>1 DEF BuildInv, AcceptInv
<1>11. AcceptInv'
  <2>1. Acceptable(Pkg)'
      BY <1>1, <1>9 DEF Acceptable, Unpinned, Dirty, Pkg
  <2>2. \A k \in 1..Classified' : Acceptable(proj.packages[k])'
      BY <1>1, <1>7, <1>10 DEF Acceptable, Unpinned, Dirty
  <2>3. QED
      BY <2>1, <2>2 DEF AcceptInv
<1>12. PathInv'
  <2>1. (~repos[Dir].dirty)'
      BY <1>1 DEF Dir, Pkg
  <2>2. Seen' = Seen
      BY <1>1 DEF Seen
  <2>3. QED
      BY <1>1, <1>7, <2>1, <2>2 DEF BuildInv, PathInv, PathUri, IsPathDep
<1>13. StageInv'
    BY <1>1 DEF BuildInv, StageInv
<1>14. OrderInv'
    BY <1>1 DEF BuildInv, OrderInv
<1>15. QED
    BY <1>4, <1>6, <1>11, <1>12, <1>13, <1>14 DEF BuildInv

\* What sort_by leaves is sorted.
LEMMA SortSorts ==
    ASSUME NEW driver, NEW ds \in Seq(Uris), Ranked(driver, ds)
    PROVE  Sorted(driver, SortedDeps(driver, ds))
<1> DEFINE s == SortedDeps(driver, ds)
           n == Len(ds)
<1>1. PICK f : Reorders(driver, ds, f)
    BY SortReorders
<1>2. /\ f \in [1..n -> 1..n] /\ s = [k \in 1..n |-> ds[f[k]]]
      /\ \A k, m \in 1..n : k < m => Precedes(driver, ds, f[k], f[m])
    BY <1>1 DEF Reorders
<1>3. Len(s) = n
    BY SortKeeps
<1> SUFFICES ASSUME NEW i \in 1..n, NEW j \in 1..n, i < j
             PROVE  ~Less(driver, s[j], s[i])
    BY <1>3 DEF Sorted
<1>4. f[i] \in 1..n /\ f[j] \in 1..n /\ s[i] = ds[f[i]] /\ s[j] = ds[f[j]]
    BY <1>2
<1>5. Precedes(driver, ds, f[i], f[j])
    BY <1>2
<1>6. /\ s[i] \in Uris /\ s[j] \in Uris
      /\ driver = "nix" => s[i][2] \in Names /\ s[j][2] \in Names
    BY <1>4, DepsFacts DEF Ranked
<1>7. Less(driver, s[i], s[j]) \/ ~Less(driver, s[j], s[i])
    BY <1>4, <1>5 DEF Precedes
<1>8. ~(Less(driver, s[i], s[j]) /\ Less(driver, s[j], s[i]))
    BY <1>6, LessOrder
<1>9. QED
    BY <1>7, <1>8

LEMMA ResolvedKeeps ==
    ASSUME BuildInv, Resolved
    PROVE  BuildInv'
<1>1. /\ pc = "classify" /\ pc' = "build" /\ idx > Len(proj.packages)
      /\ deps' = SortedDeps(proj.driver, deps)
      /\ UNCHANGED <<todo, repos, edits, edited, proj, external, idx, subject, staged>>
    BY DEF Resolved
<1>2. TypeInv
    BY DEF BuildInv
<1>3. proj \in Project /\ idx \in 1..(Len(proj.packages) + 1) /\ deps \in Seq(Uris)
    BY <1>1, <1>2 DEF TypeInv
<1>0. /\ proj.driver = "nix" => \A u \in ToSet(deps) : u[2] \in Names
      /\ Ranked(proj.driver, deps)
  <2>1. proj.driver = "nix" => \A u \in ToSet(deps) : u[2] \in Names
      BY <1>1 DEF BuildInv, OrderInv
  <2>2. \A i \in 1..Len(deps) : deps[i] \in ToSet(deps)
      BY <1>3, DepsFacts DEF ToSet
  <2>3. QED
      BY <2>1, <2>2 DEF Ranked
<1>4. deps' \in Seq(Uris) /\ ToSet(deps') = ToSet(deps)
    BY <1>0, <1>1, <1>3, SortKeeps
<1>5. TypeInv'
    BY <1>1, <1>2, <1>4 DEF TypeInv
<1>6. CollectInv'
    BY <1>1 DEF BuildInv, CollectInv, Missing, Conflict, Outside, Declarations, External
<1>7. Len(proj.packages) \in Nat
    BY <1>3, ProjectFacts
<1>8. Classified' = Classified
    BY <1>1, <1>3, <1>7 DEF Classified
<1>9. AcceptInv'
  <2>1. \A k \in 1..Classified : Acceptable(proj.packages[k])
      BY <1>1 DEF BuildInv, AcceptInv
  <2>2. \A k \in 1..Classified' : Acceptable(proj.packages[k])'
      BY <1>1, <1>8, <2>1 DEF Acceptable, Unpinned, Dirty
  <2>3. QED
      BY <1>1, <2>2 DEF AcceptInv
<1>10. PathInv'
  <2>1. Seen' = Seen
      BY <1>1 DEF Seen
  <2>2. QED
      BY <1>1, <1>4, <1>8, <2>1 DEF BuildInv, PathInv, PathUri, IsPathDep
<1>11. StageInv'
    BY <1>1 DEF BuildInv, StageInv
<1>12. OrderInv'
  <2>1. Sorted(proj.driver, deps')
      BY <1>0, <1>1, <1>3, SortSorts
  <2>2. QED
      BY <1>0, <1>1, <1>4, <2>1 DEF OrderInv
<1>13. QED
    BY <1>5, <1>6, <1>9, <1>10, <1>11, <1>12 DEF BuildInv

LEMMA RunBuildKeeps ==
    ASSUME BuildInv, RunBuild
    PROVE  BuildInv'
<1>1. /\ pc = "build" /\ pc' = "artifacts" /\ consumed' = repos /\ idx' = 1
      /\ UNCHANGED <<todo, repos, edits, edited, proj, external, deps, subject, staged>>
    BY DEF RunBuild
<1>2. TypeInv
    BY DEF BuildInv
<1>3. proj \in Project
    BY <1>1, <1>2 DEF TypeInv
<1>4. TypeInv'
    BY <1>1, <1>2 DEF TypeInv
<1>5. CollectInv'
    BY <1>1 DEF BuildInv, CollectInv, Missing, Conflict, Outside, Declarations, External
<1>6. Classified' = Classified
    BY <1>1 DEF Classified
<1>7. AcceptInv'
  <2>1. \A k \in 1..Classified : Acceptable(proj.packages[k])
      BY <1>1 DEF BuildInv, AcceptInv
  <2>2. \A k \in 1..Classified' : Acceptable(proj.packages[k])'
      BY <1>1, <1>6, <2>1 DEF Acceptable, Unpinned, Dirty
  <2>3. QED
      BY <1>1, <2>2 DEF AcceptInv
<1>8. PathInv'
  <2>1. Seen' = Seen
      BY <1>1 DEF Seen
  <2>2. QED
      BY <1>1, <1>6, <2>1 DEF BuildInv, PathInv, PathUri, IsPathDep
<1>9. StageInv'
  <2>1. staged' = Empty /\ subject' = <<>> /\ IsSequence(subject')
      BY <1>1 DEF BuildInv, StageInv
  <2>2. Copied' = {}
      BY <1>1 DEF Copied
  <2>3. DOMAIN staged' = {} /\ ToSet(subject') = {}
      BY <2>1, NoUri DEF Empty
  <2>4. idx' \in 1..(Len(proj'.out) + 1)
      BY <1>1, <1>3, ProjectFacts
  <2>5. QED
      BY <1>1, <2>1, <2>2, <2>3, <2>4 DEF StageInv
<1>10. OrderInv'
    BY <1>1 DEF BuildInv, OrderInv
<1>11. QED
    BY <1>4, <1>5, <1>7, <1>8, <1>9, <1>10 DEF BuildInv

LEMMA AppendSet ==
    ASSUME NEW s, IsSequence(s), NEW x
    PROVE  IsSequence(Append(s, x)) /\ ToSet(Append(s, x)) = ToSet(s) \union {x}
<1>1. PICK S : s \in Seq(S)
    BY DEF IsSequence
<1> DEFINE T == S \union {x}
<1>2. s \in Seq(T)
    BY <1>1
<1> HIDE DEF T
<1>3. x \in T
    BY DEF T
<1>4. /\ Append(s, x) \in Seq(T) /\ Len(Append(s, x)) = Len(s) + 1
      /\ \A i \in 1..Len(s) : Append(s, x)[i] = s[i]
      /\ Append(s, x)[Len(s) + 1] = x
    BY <1>2, <1>3, AppendProperties
<1>5. Len(s) \in Nat /\ DOMAIN s = 1..Len(s)
    BY <1>2, LenProperties
<1>6. DOMAIN Append(s, x) = 1..(Len(s) + 1)
    BY <1>4, LenProperties
<1>7. \A i \in 1..(Len(s) + 1) : Append(s, x)[i] \in ToSet(s) \union {x}
    BY <1>4, <1>5 DEF ToSet
<1>8. \A y \in ToSet(s) \union {x} : \E i \in 1..(Len(s) + 1) : Append(s, x)[i] = y
    BY <1>4, <1>5 DEF ToSet
<1>9. ToSet(Append(s, x)) = {Append(s, x)[i] : i \in 1..(Len(s) + 1)}
    BY <1>6 DEF ToSet
<1>10. ToSet(Append(s, x)) = ToSet(s) \union {x}
    BY <1>7, <1>8, <1>9
<1>11. QED
    BY <1>4, <1>10 DEF IsSequence

LEMMA StageBinaryStages ==
    ASSUME BuildInv, StageBinary
    PROVE  StageInv' /\ \A n \in DOMAIN staged' : staged'[n] \in Nat
<1> DEFINE b == proj.out[idx]
           file == [n \in DOMAIN staged \union {b.name} |->
                       IF n = b.name THEN b.content ELSE staged[n]]
<1>1. /\ pc = "artifacts" /\ pc' = pc /\ proj.driver # "cargo" /\ idx <= Len(proj.out)
      /\ idx' = idx + 1 /\ proj' = proj
      /\ staged' = (IF b.exec THEN file ELSE staged)
      /\ subject' = (IF b.exec THEN Append(subject, <<b.name, file[b.name]>>) ELSE subject)
    BY DEF StageBinary
<1>2. /\ IsSequence(subject) /\ idx \in 1..(Len(proj.out) + 1)
      /\ DOMAIN staged = {proj.out[i].name : i \in Copied}
      /\ ToSet(subject) = {<<proj.out[i].name, proj.out[i].content>> : i \in Copied}
      /\ \A n \in DOMAIN staged : \E i \in Copied :
            proj.out[i].name = n /\ staged[n] = proj.out[i].content
    BY <1>1 DEF BuildInv, StageInv
<1>3. proj \in Project /\ \A n \in DOMAIN staged : staged[n] \in Nat
    BY <1>1 DEF BuildInv, TypeInv
<1>4. Len(proj.out) \in Nat
    BY <1>3, ProjectFacts
<1>5. idx \in 1..Len(proj.out) /\ idx' \in 1..(Len(proj.out) + 1)
    BY <1>1, <1>2, <1>4
<1>6. b.content \in Nat
  <2>1. b \in Binary
      BY <1>3, <1>5, ProjectFacts
  <2>2. QED
      BY <2>1 DEF Binary
<1>7. /\ b.exec => Copied' = Copied \union {idx}
      /\ ~b.exec => Copied' = Copied
    BY <1>1, <1>5 DEF Copied
<1>8. CASE ~b.exec
  <2> HIDE DEF file
  <2>1. staged' = staged /\ subject' = subject /\ Copied' = Copied
      BY <1>1, <1>7, <1>8
  <2>2. StageInv'
    <3>1. pc' = "artifacts" /\ proj' = proj
        BY <1>1
    <3>2. ToSet(subject') = {<<proj.out[i].name, proj.out[i].content>> : i \in Copied'}
        BY <1>2, <2>1
    <3>3. DOMAIN staged' = {proj.out[i].name : i \in Copied'} /\ IsSequence(subject')
        BY <1>2, <2>1
    <3>4. \A n \in DOMAIN staged' : \E i \in Copied' :
              proj.out[i].name = n /\ staged'[n] = proj.out[i].content
        BY <1>2, <2>1
    <3>5. QED
        BY <1>5, <3>1, <3>2, <3>3, <3>4 DEF StageInv
  <2>3. QED
      BY <1>3, <2>1, <2>2
<1>9. CASE b.exec
  <2>1. /\ DOMAIN file = DOMAIN staged \union {b.name} /\ file[b.name] = b.content
        /\ \A n \in DOMAIN staged : n # b.name => file[n] = staged[n]
      OBVIOUS
  <2> HIDE DEF file
  <2>2. staged' = file /\ subject' = Append(subject, <<b.name, b.content>>)
      BY <1>1, <1>9, <2>1
  <2>3. Copied' = Copied \union {idx}
      BY <1>7, <1>9
  <2>4. /\ IsSequence(subject')
        /\ ToSet(subject') = ToSet(subject) \union {<<b.name, b.content>>}
      BY <1>2, <2>2, AppendSet
  <2>5. ToSet(subject') = {<<proj.out[i].name, proj.out[i].content>> : i \in Copied'}
      BY <1>2, <2>3, <2>4
  <2>6. DOMAIN staged' = {proj.out[i].name : i \in Copied'}
      BY <1>2, <2>1, <2>2, <2>3
  <2>7. \A n \in DOMAIN staged' : \E i \in Copied' :
            proj.out[i].name = n /\ staged'[n] = proj.out[i].content
    <3> SUFFICES ASSUME NEW n \in DOMAIN staged'
                 PROVE  \E i \in Copied' :
                            proj.out[i].name = n /\ staged'[n] = proj.out[i].content
        OBVIOUS
    <3>1. CASE n = b.name
        BY <2>1, <2>2, <2>3, <3>1
    <3>2. CASE n # b.name
      <4>1. n \in DOMAIN staged /\ staged'[n] = staged[n]
          BY <2>1, <2>2, <3>2
      <4>2. QED
          BY <1>2, <2>3, <4>1
    <3>3. QED
        BY <3>1, <3>2
  <2>8. \A n \in DOMAIN staged' : staged'[n] \in Nat
      BY <1>3, <1>6, <2>1, <2>2
  <2>9. StageInv'
    <3>1. pc' = "artifacts" /\ proj' = proj
        BY <1>1
    <3>2. QED
        BY <1>5, <2>4, <2>5, <2>6, <2>7, <3>1 DEF StageInv
  <2>10. QED
      BY <2>8, <2>9
<1>10. QED
    BY <1>8, <1>9

LEMMA StageBinaryKeeps ==
    ASSUME BuildInv, StageBinary
    PROVE  BuildInv'
<1>1. /\ pc = "artifacts" /\ pc' = pc /\ idx' = idx + 1
      /\ UNCHANGED <<todo, repos, edits, edited, proj, external, deps, consumed>>
    BY DEF StageBinary
<1>2. TypeInv
    BY DEF BuildInv
<1>3. StageInv' /\ \A n \in DOMAIN staged' : staged'[n] \in Nat
    BY StageBinaryStages
<1>4. TypeInv'
  <2>1. idx' \in Nat \ {0}
      BY <1>1, <1>2 DEF TypeInv
  <2>2. QED
      BY <1>1, <1>2, <1>3, <2>1 DEF TypeInv
<1>5. CollectInv'
    BY <1>1 DEF BuildInv, CollectInv, Missing, Conflict, Outside, Declarations, External
<1>6. Classified' = Classified
    BY <1>1 DEF Classified
<1>7. AcceptInv'
  <2>1. \A k \in 1..Classified : Acceptable(proj.packages[k])
      BY <1>1 DEF BuildInv, AcceptInv
  <2>2. \A k \in 1..Classified' : Acceptable(proj.packages[k])'
      BY <1>1, <1>6, <2>1 DEF Acceptable, Unpinned, Dirty
  <2>3. QED
      BY <1>1, <2>2 DEF AcceptInv
<1>8. PathInv'
  <2>1. Seen' = Seen
      BY <1>1 DEF Seen
  <2>2. QED
      BY <1>1, <1>6, <2>1 DEF BuildInv, PathInv, PathUri, IsPathDep
<1>9. OrderInv'
    BY <1>1 DEF BuildInv, OrderInv
<1>10. QED
    BY <1>3, <1>4, <1>5, <1>7, <1>8, <1>9 DEF BuildInv

LEMMA FinishKeeps ==
    ASSUME BuildInv, NEW stage, NEW root, Finish(stage, root)
    PROVE  BuildInv'
<1>1. /\ pc' = "idle"
      /\ UNCHANGED <<todo, repos, edits, edited, external, deps, staged>>
    BY DEF Finish, buildVars
<1>2. TypeInv'
    BY <1>1 DEF BuildInv, TypeInv
<1>3. CollectInv' /\ AcceptInv' /\ PathInv' /\ StageInv' /\ OrderInv'
    BY <1>1 DEF CollectInv, AcceptInv, PathInv, StageInv, OrderInv
<1>4. QED
    BY <1>2, <1>3 DEF BuildInv

LEMMA RepoChanged ==
    ASSUME NEW r \in Repo
    PROVE  /\ [r EXCEPT !.dirty = TRUE] \in Repo
           /\ [r EXCEPT !.head = @ + 1, !.dirty = FALSE] \in Repo
<1>1. \A x \in Repo, b \in BOOLEAN : [x EXCEPT !.dirty = b] \in Repo
    BY DEF Repo
<1>2. [r EXCEPT !.head = @ + 1] \in Repo
    BY DEF Repo
<1>3. [r EXCEPT !.head = @ + 1, !.dirty = FALSE] = [[r EXCEPT !.head = @ + 1] EXCEPT !.dirty = FALSE]
    OBVIOUS
<1>4. QED
    BY <1>1, <1>2, <1>3

LEMMA ChangeRepoKeeps ==
    ASSUME BuildInv, ChangeRepo
    PROVE  BuildInv'
<1>1. /\ edits < MaxEdits /\ edits' = edits + 1 /\ edited' = (edited \/ Relied)
      /\ UNCHANGED <<todo, pc, proj, external, idx, deps, consumed, subject, staged>>
    BY DEF ChangeRepo, buildVars
<1>2. TypeInv
    BY DEF BuildInv
<1>3. repos' \in [DOMAIN Repos -> Repo]
  <2>1. PICK d \in DOMAIN repos :
          \/ repos' = [repos EXCEPT ![d].dirty = TRUE]
          \/ repos' = [repos EXCEPT ![d].head = @ + 1, ![d].dirty = FALSE]
      BY DEF ChangeRepo
  <2>2. repos \in [DOMAIN Repos -> Repo]
      BY <1>2 DEF TypeInv
  <2>3. repos[d] \in Repo /\ d \in DOMAIN Repos
      BY <2>1, <2>2
  <2>4. /\ [repos[d] EXCEPT !.dirty = TRUE] \in Repo
        /\ [repos[d] EXCEPT !.head = @ + 1, !.dirty = FALSE] \in Repo
      BY <2>3, RepoChanged
  <2>5. \/ repos' = [repos EXCEPT ![d] = [repos[d] EXCEPT !.dirty = TRUE]]
        \/ repos' = [repos EXCEPT ![d] = [repos[d] EXCEPT !.head = @ + 1, !.dirty = FALSE]]
      BY <2>1, <2>2, <2>3
  <2>6. QED
      BY <2>2, <2>3, <2>4, <2>5
<1>4. edits' \in 0..MaxEdits /\ edits' # 0
    BY <1>1, <1>2, InputsAssumption DEF TypeInv
<1>5. TypeInv'
    BY <1>1, <1>2, <1>3, <1>4 DEF TypeInv, Pkg
<1>6. CollectInv'
    BY <1>1 DEF BuildInv, CollectInv, Missing, Conflict, Outside, Declarations, External
<1>7. AcceptInv'
  <2>1. Classified' = Classified
      BY <1>1 DEF Classified
  <2>2. pc # "idle" => \A k \in 1..Classified : Acceptable(proj.packages[k])
      BY DEF BuildInv, AcceptInv
  <2>3. pc # "idle" => \A k \in 1..Classified' : Acceptable(proj.packages[k])'
      BY <1>1, <1>4, <2>1, <2>2 DEF Acceptable, Unpinned
  <2>4. pc = "sha" => Acceptable(Pkg)
      BY DEF BuildInv, AcceptInv
  <2>5. pc = "sha" => Acceptable(Pkg)'
      BY <1>1, <1>4, <2>4 DEF Acceptable, Unpinned, Pkg
  <2>6. QED
      BY <1>1, <2>3, <2>5 DEF AcceptInv
<1>8. PathInv'
  <2> SUFFICES ASSUME pc # "idle", proj.driver = "cargo", ~edited, ~Relied
               PROVE  PathInv'
      BY <1>1, <1>2 DEF PathInv, TypeInv, Relied
  <2>1. /\ {u \in ToSet(deps) : u[4] = 2} =
               {PathUri(proj.packages[k]) : k \in {i \in 1..Classified : IsPathDep(proj.packages[i])}}
        /\ \A k \in 1..Classified : IsPathDep(proj.packages[k]) =>
               ~Seen[external[proj.packages[k].name]].dirty
      BY DEF BuildInv, PathInv
  <2>2. Classified' = Classified
      BY <1>1 DEF Classified
  <2>3. CASE pc = "artifacts"
    <3>1. Seen' = Seen
        BY <1>1, <2>3 DEF Seen
    <3>2. QED
        BY <1>1, <2>1, <2>2, <2>3, <3>1 DEF PathInv, PathUri, IsPathDep
  <2>4. CASE pc # "artifacts"
    <3>1. (pc # "sha" /\ {u \in ToSet(deps) : u[4] = 2} = {}) \/ pc = "collect"
        BY <1>2, <2>4 DEF Relied, TypeInv
    <3>2. {k \in 1..Classified : IsPathDep(proj.packages[k])} = {}
      <4>1. pc = "collect" => Classified = 0
          BY DEF Classified
      <4>2. QED
          BY <2>1, <3>1, <4>1
    <3>3. {u \in ToSet(deps) : u[4] = 2} = {}
        BY <2>1, <3>2
    <3>4. pc # "sha"
        BY <3>1
    <3>5. QED
        BY <1>1, <2>2, <3>2, <3>3, <3>4 DEF PathInv, IsPathDep
  <2>5. QED
      BY <2>3, <2>4
<1>9. StageInv'
    BY <1>1 DEF BuildInv, StageInv, Copied
<1>10. OrderInv'
    BY <1>1 DEF BuildInv, OrderInv
<1>11. QED
    BY <1>5, <1>6, <1>7, <1>8, <1>9, <1>10 DEF BuildInv

LEMMA StutterKeeps ==
    ASSUME BuildInv, UNCHANGED vars
    PROVE  BuildInv'
<1>1. UNCHANGED <<todo, repos, edits, edited, pc, proj, external, idx, deps, consumed, subject,
                  staged>>
    BY DEF vars, buildVars
<1>2. TypeInv'
    BY <1>1 DEF BuildInv, TypeInv, Pkg
<1>3. CollectInv'
    BY <1>1 DEF BuildInv, CollectInv, Missing, Conflict, Outside, Declarations, External
<1>4. AcceptInv'
    BY <1>1 DEF BuildInv, AcceptInv, Classified, Acceptable, Unpinned, Dirty, Pkg
<1>5. PathInv'
    BY <1>1 DEF BuildInv, PathInv, Classified, PathUri, Seen, IsPathDep, Dir, Pkg
<1>6. StageInv'
    BY <1>1 DEF BuildInv, StageInv, Copied
<1>7. OrderInv'
    BY <1>1 DEF BuildInv, OrderInv
<1>8. QED
    BY <1>2, <1>3, <1>4, <1>5, <1>6, <1>7 DEF BuildInv

LEMMA InitBuildInv ==
    ASSUME Init
    PROVE  BuildInv
<1>1. /\ todo \in Workloads /\ repos = Repos /\ edits = 0 /\ edited = FALSE /\ pc = "idle"
      /\ external = Empty /\ deps = <<>> /\ staged = Empty
    BY DEF Init
<1>2. TypeInv
  <2>1. todo \in Seq(Project) /\ repos \in [DOMAIN Repos -> Repo] /\ edits \in 0..MaxEdits
      BY <1>1, InputsAssumption
  <2>2. deps \in Seq(Uris)
      BY <1>1, NoUri
  <2>3. QED
      BY <1>1, <2>1, <2>2 DEF TypeInv, Empty
<1>3. CollectInv /\ AcceptInv /\ PathInv /\ StageInv /\ OrderInv
    BY <1>1 DEF CollectInv, AcceptInv, PathInv, StageInv, OrderInv
<1>4. QED
    BY <1>2, <1>3 DEF BuildInv

\* Each step of a build, and each change to a repository, keeps the invariants.
LEMMA NextBuildInv ==
    ASSUME BuildInv, [Next]_vars
    PROVE  BuildInv'
<1>1. CASE Start
    BY <1>1, StartKeeps
<1>2. CASE CollectExternalPathDeps
    BY <1>2, CollectKeeps
<1>3. CASE ClassifyPinned \/ SkipMember \/ GitShaAt \/ ExtractFixedOutput \/ ParsePnpmPackage
  <2>1. \E uris : Classifies(uris)
      BY <1>3, ClassifyPinnedClassifies, SkipMemberClassifies, GitShaAtClassifies,
         ExtractFixedOutputClassifies, ParsePnpmPackageClassifies
  <2>2. QED
      BY <2>1, ClassifiesKeeps
<1>4. CASE AssertClean
    BY <1>4, AssertCleanKeeps
<1>5. CASE Resolved
    BY <1>5, ResolvedKeeps
<1>6. CASE RunBuild
    BY <1>6, RunBuildKeeps
<1>7. CASE StageBinary
    BY <1>7, StageBinaryKeeps
<1>8. CASE \/ CollectFails \/ ClassifyFails \/ NotClean \/ ParsePnpmFails
           \/ BuildFails \/ NoDist \/ WriteProvenance
  <2>1. \E stage, root : Finish(stage, root)
      BY <1>8 DEF CollectFails, ClassifyFails, NotClean, ParsePnpmFails, Refuse, BuildFails,
                  NoDist, WriteProvenance
  <2>2. QED
      BY <2>1, FinishKeeps
<1>9. CASE ChangeRepo
    BY <1>9, ChangeRepoKeeps
<1>10. CASE UNCHANGED vars
    BY <1>10, StutterKeeps
<1>11. QED
    BY <1>1, <1>2, <1>3, <1>4, <1>5, <1>6, <1>7, <1>8, <1>9, <1>10 DEF Next

\* While a build runs: what it recorded so far, and what it refused to overlook
\* (src/toolchain/cargo_lock.rs, resolve_dependencies).
THEOREM BuildInvariant == Spec => []BuildInv
<1>1. Init => BuildInv
    BY InitBuildInv
<1>2. BuildInv /\ [Next]_vars => BuildInv'
    BY NextBuildInv
<1>3. QED
    BY <1>1, <1>2, PTL DEF Spec

\* InputsTypeOK, for every workload: the state of a build has its type, and the
\* index stays within the list that is walked (src/toolchain/runner.rs, run).
THEOREM InputsTypeCorrect == Spec => []InputsTypeOK
<1>1. BuildInv => InputsTypeOK
  <2> SUFFICES ASSUME TypeInv PROVE InputsTypeOK
      BY DEF BuildInv
  <2>1. deps \in Seq(Uris) /\ repos \in [DOMAIN Repos -> Repo]
      BY DEF TypeInv
  <2>2. \A k \in 1..Len(deps) : deps[k] \in Seq(Nat) /\ Len(deps[k]) = 6
      BY <2>1, DepsFacts, UriFacts
  <2>3. DOMAIN repos = DOMAIN Repos /\ \A d \in DOMAIN repos : repos[d] \in Repo
      BY <2>1
  <2>4. QED
      BY <2>2, <2>3 DEF TypeInv, InputsTypeOK
<1>2. QED
    BY <1>1, BuildInvariant, PTL

-----------------------------------------------------------------------------
(* What the builds came to *)

\* RefusedExactly, of one build.
RefusedRightly(r) ==
    (r.stage = "refused") <=>
        \/ /\ r.proj.driver = "cargo"
           /\ ~r.proj.members \/ Missing(r.proj) \/ Conflict(r.proj)
        \/ \E q \in ToSet(r.proj.packages) : Unpinned(r.proj, q) \/ Dirty(r.proj, q)

\* PathDepsRecorded, of one package of one build.
Accounted(r, q) ==
    WellNamed(r.proj, q) <=>
        IF q.loc = 0 THEN RecordsOf(r, q) = {}
        ELSE /\ RecordsOf(r, q) =
                    {Uri(1, q.name, q.version, 2, q.loc, r.consumed[q.loc].head)}
             /\ ~r.consumed[q.loc].dirty

PathsRight(r) == ~r.edited => \A q \in PathPackages(r.proj) : Accounted(r, q)

\* SubjectsAreStaged, of one build.
StagedRight(r) ==
    r.proj.driver # "cargo" =>
        /\ DOMAIN r.staged = {b.name : b \in Executables(r.proj)}
        /\ (\A k \in 1..Len(r.subject) : r.staged[r.subject[k][1]] = r.subject[k][2])
              <=> \A b, c \in Executables(r.proj) : b.name = c.name => b.content = c.content

OrderRight(r) ==
    /\ r.deps \in Seq(Uris)
    /\ Sorted(r.proj.driver, r.deps)
    /\ r.proj.driver = "nix" => \A u \in ToSet(r.deps) : u[2] \in Names

ResultsInv ==
    /\ IsSequence(results)
    /\ edits = 0 => \A r \in ToSet(results) : RefusedRightly(r)
    /\ \A r \in ToSet(results) : r.stage = "done" =>
          PathsRight(r) /\ StagedRight(r) /\ OrderRight(r)

Result(stage, root) ==
    [proj |-> proj, stage |-> stage, deps |-> deps, root |-> root, consumed |-> consumed,
     subject |-> subject, staged |-> staged, edited |-> edited]

LEMMA PackageListed ==
    ASSUME NEW p \in Project, NEW q
    PROVE  q \in ToSet(p.packages) <=> \E k \in 1..Len(p.packages) : p.packages[k] = q
<1>1. p.packages \in Seq(Package)
    BY ProjectFacts
<1>2. DOMAIN p.packages = 1..Len(p.packages)
    BY <1>1, LenProperties
<1>3. QED
    BY <1>2 DEF ToSet

\* Whatever refuses a build has a reason that RefusedExactly names.
LEMMA RefusedHasReason ==
    ASSUME BuildInv, edits = 0, CollectFails \/ ClassifyFails \/ NotClean \/ ParsePnpmFails,
           NEW root
    PROVE  RefusedRightly(Result("refused", root))
<1> DEFINE r == Result("refused", root)
<1>1. r.stage = "refused" /\ r.proj = proj
    BY DEF Result
<1> HIDE DEF r
<1> SUFFICES \/ /\ proj.driver = "cargo"
                /\ ~proj.members \/ Missing(proj) \/ Conflict(proj)
             \/ \E q \in ToSet(proj.packages) : Unpinned(proj, q) \/ Dirty(proj, q)
    BY <1>1 DEF RefusedRightly, r
<1>2. TypeInv
    BY DEF BuildInv
<1>3. CASE CollectFails
  <2>1. pc = "collect" /\ (~proj.members \/ Missing(proj) \/ Conflict(proj))
      BY <1>3 DEF CollectFails
  <2>2. QED
      BY <1>2, <2>1 DEF TypeInv
<1>4. CASE ClassifyFails \/ ParsePnpmFails \/ NotClean
  <2>1. pc = "classify" /\ idx <= Len(proj.packages)
      BY <1>4 DEF ClassifyFails, ParsePnpmFails, NotClean, AtPathDep, AtPackage
  <2>2. idx \in 1..Len(proj.packages) /\ Pkg \in Package /\ proj \in Project
      BY <1>2, <2>1, AtPackageFacts
  <2>3. Pkg \in ToSet(proj.packages)
      BY <2>2, PackageListed DEF Pkg
  <2>4. CASE ClassifyFails \/ ParsePnpmFails
    <3>1. Unpinned(proj, Pkg)
        BY <2>4 DEF ClassifyFails, ParsePnpmFails, AtPackage, Unpinned
    <3>2. QED
        BY <2>3, <3>1
  <2>5. CASE NotClean
    <3>1. /\ proj.driver = "cargo" /\ Pkg.source = "none" /\ Pkg.name \in DOMAIN external
          /\ ~repos[Dir].git \/ repos[Dir].dirty
        BY <2>5 DEF NotClean, AtPathDep, AtPackage
    <3>2. external = External(proj)
        BY <2>1, <3>1 DEF BuildInv, CollectInv
    <3>3. repos = Repos
        BY <1>2 DEF TypeInv
    <3>4. PICK d \in Outside(proj) : d.key = Pkg.name /\ external[Pkg.name] = d.dir
        BY <3>1, <3>2, ExternalFrom
    <3>5. d \in ToSet(proj.decls) /\ d.table = "member" /\ d.dir # 0
        BY <3>4 DEF Outside, Declarations
    <3>6. Dirty(proj, Pkg)
        BY <3>1, <3>3, <3>4, <3>5 DEF Dirty, Dir
    <3>7. QED
        BY <2>3, <3>6
  <2>6. QED
      BY <1>4, <2>4, <2>5
<1>5. QED
    BY <1>3, <1>4

\* A build whose command is run had nothing to be refused for.
LEMMA BuiltHasNone ==
    ASSUME BuildInv, edits = 0, pc \in {"build", "artifacts"}, NEW stage, stage # "refused", NEW root
    PROVE  RefusedRightly(Result(stage, root))
<1> DEFINE r == Result(stage, root)
<1>1. r.stage # "refused" /\ r.proj = proj
    BY DEF Result
<1> HIDE DEF r
<1>2. proj \in Project
    BY DEF BuildInv, TypeInv
<1>3. proj.driver = "cargo" => proj.members /\ ~Missing(proj) /\ ~Conflict(proj)
    BY DEF BuildInv, CollectInv
<1>4. \A k \in 1..Len(proj.packages) : Acceptable(proj.packages[k])
    BY DEF BuildInv, AcceptInv, Classified
<1>5. \A q \in ToSet(proj.packages) : ~Unpinned(proj, q) /\ ~Dirty(proj, q)
    BY <1>2, <1>4, PackageListed DEF Acceptable
<1>6. RefusedRightly(r)
    BY <1>1, <1>3, <1>5 DEF RefusedRightly
<1>7. QED
    BY <1>6 DEF r

-----------------------------------------------------------------------------
(* Path dependencies *)

\* A package is recorded once, where the manifests place its name, or not at all.
LEMMA RecordsAre ==
    ASSUME BuildInv, pc = "artifacts", proj.driver = "cargo", ~edited,
           NEW q \in ToSet(proj.packages), q.source = "none",
           NEW r, r.deps = deps
    PROVE  RecordsOf(r, q) = IF q.name \in DOMAIN external THEN {PathUri(q)} ELSE {}
<1>1. proj \in Project
    BY DEF BuildInv, TypeInv
<1>2. PICK k \in 1..Len(proj.packages) : proj.packages[k] = q
    BY <1>1, PackageListed
<1> DEFINE D == {i \in 1..Len(proj.packages) : IsPathDep(proj.packages[i])}
<1>3. {u \in ToSet(deps) : u[4] = 2} = {PathUri(proj.packages[i]) : i \in D}
    BY DEF BuildInv, PathInv, Classified
<1>4. ASSUME NEW u \in RecordsOf(r, q)
      PROVE  q.name \in DOMAIN external /\ u = PathUri(q)
  <2>1. u \in ToSet(deps) /\ u[2] = q.name /\ u[3] = q.version /\ u[4] = 2
      BY <1>4 DEF RecordsOf
  <2>2. PICK i \in D : u = PathUri(proj.packages[i])
      BY <1>3, <2>1
  <2>3. u[2] = proj.packages[i].name /\ u[3] = proj.packages[i].version
      BY <2>2 DEF PathUri, Uri
  <2>4. proj.packages[i].name \in DOMAIN external
      BY <2>2 DEF IsPathDep
  <2>5. QED
      BY <2>1, <2>2, <2>3, <2>4 DEF PathUri
<1>5. ASSUME q.name \in DOMAIN external
      PROVE  PathUri(q) \in RecordsOf(r, q)
  <2>1. k \in D
      BY <1>2, <1>5 DEF IsPathDep
  <2>2. PathUri(q) \in ToSet(deps)
      BY <1>2, <1>3, <2>1
  <2>3. PathUri(q)[2] = q.name /\ PathUri(q)[3] = q.version /\ PathUri(q)[4] = 2
      BY DEF PathUri, Uri
  <2>4. QED
      BY <2>2, <2>3 DEF RecordsOf
<1>6. QED
    BY <1>4, <1>5

LEMMA DoneAccounts ==
    ASSUME BuildInv, pc = "artifacts", NEW root
    PROVE  PathsRight(Result("done", root))
<1> DEFINE r == Result("done", root)
<1>1. r.proj = proj /\ r.deps = deps /\ r.consumed = consumed /\ r.edited = edited
    BY DEF Result
<1> HIDE DEF r
<1> SUFFICES ASSUME ~edited, NEW q \in PathPackages(proj)
             PROVE  Accounted(r, q)
    BY <1>1 DEF PathsRight, r
<1>2. proj.driver = "cargo" /\ q \in ToSet(proj.packages) /\ q.source = "none"
    BY DEF PathPackages
<1>3. ~Missing(proj) /\ ~Conflict(proj) /\ external = External(proj) /\ proj \in Project
    BY <1>2 DEF BuildInv, CollectInv, TypeInv
<1>4. RecordsOf(r, q) = IF q.name \in DOMAIN external THEN {PathUri(q)} ELSE {}
    BY <1>1, <1>2, RecordsAre
<1>5. \A d \in ToSet(proj.decls) : d.table = "member" /\ d.dir # 0 <=> d \in Outside(proj)
    BY DEF Outside, Declarations
<1>6. CASE q.name \notin DOMAIN external
  <2>1. \A d \in Outside(proj) : d.key # q.name
      BY <1>3, <1>6, ExternalOf
  <2>2. WellNamed(proj, q) <=> q.loc = 0
      BY <1>5, <2>1 DEF WellNamed
  <2>3. RecordsOf(r, q) = {}
      BY <1>4, <1>6
  <2>4. QED
      BY <1>1, <2>2, <2>3 DEF Accounted
<1>7. CASE q.name \in DOMAIN external
  <2> DEFINE dir == external[q.name]
  <2>1. PICK d \in Outside(proj) : d.key = q.name /\ dir = d.dir
      BY <1>3, <1>7, ExternalFrom
  <2>2. \A e \in Outside(proj) : e.key = q.name => e.dir = dir
      BY <1>3, ExternalOf
  <2>3. dir # 0 /\ d \in ToSet(proj.decls) /\ d.table = "member"
      BY <2>1 DEF Outside, Declarations
  <2>4. WellNamed(proj, q) <=> q.loc = dir
      BY <1>5, <2>1, <2>2, <2>3 DEF WellNamed
  <2>5. RecordsOf(r, q) = {PathUri(q)}
      BY <1>4, <1>7
  <2>6. Seen = consumed /\ ~consumed[dir].dirty
    <3>1. PICK k \in 1..Len(proj.packages) : proj.packages[k] = q
        BY <1>2, <1>3, PackageListed
    <3>2. Classified = Len(proj.packages)
        BY DEF Classified
    <3>3. IsPathDep(proj.packages[k])
        BY <1>2, <1>7, <3>1 DEF IsPathDep
    <3>4. QED
        BY <1>2, <3>1, <3>2, <3>3 DEF BuildInv, PathInv, Seen
  <2>7. PathUri(q) = Uri(1, q.name, q.version, 2, dir, consumed[dir].head)
      BY <2>6 DEF PathUri
  <2> HIDE DEF dir
  <2>8. CASE q.loc = dir
      BY <1>1, <2>3, <2>4, <2>5, <2>6, <2>7, <2>8 DEF Accounted
  <2>9. CASE q.loc # dir
    <3> DEFINE there == Uri(1, q.name, q.version, 2, q.loc, consumed[q.loc].head)
    <3>1. PathUri(q)[5] = dir /\ there[5] = q.loc
        BY <2>7 DEF Uri
    <3>2. {PathUri(q)} # {there} /\ {PathUri(q)} # {}
        BY <2>9, <3>1
    <3> HIDE DEF there
    <3>3. RecordsOf(r, q) # {there} /\ RecordsOf(r, q) # {}
        BY <2>5, <3>2
    <3>4. there = Uri(1, q.name, q.version, 2, q.loc, r.consumed[q.loc].head)
        BY <1>1 DEF there
    <3>5. ~WellNamed(r.proj, q)
        BY <1>1, <2>4, <2>9
    <3>6. QED
        BY <3>3, <3>4, <3>5 DEF Accounted
  <2>10. QED
      BY <2>8, <2>9
<1>8. QED
    BY <1>6, <1>7

-----------------------------------------------------------------------------
(* Subjects *)

LEMMA DoneStages ==
    ASSUME BuildInv, WriteProvenance, NEW root
    PROVE  StagedRight(Result("done", root))
<1> DEFINE r == Result("done", root)
           file(i) == proj.out[i]
<1>1. r.proj = proj /\ r.staged = staged /\ r.subject = subject
    BY DEF Result
<1> HIDE DEF r
<1>2. pc = "artifacts" /\ (proj.driver # "cargo" => idx > Len(proj.out))
    BY DEF WriteProvenance
<1> SUFFICES ASSUME proj.driver # "cargo"
             PROVE  StagedRight(r)
    BY <1>1 DEF StagedRight, r
<1>3. /\ IsSequence(subject) /\ idx \in 1..(Len(proj.out) + 1)
      /\ DOMAIN staged = {file(i).name : i \in Copied}
      /\ ToSet(subject) = {<<file(i).name, file(i).content>> : i \in Copied}
      /\ \A n \in DOMAIN staged : \E i \in Copied :
            file(i).name = n /\ staged[n] = file(i).content
    BY <1>2 DEF BuildInv, StageInv
<1>4. proj \in Project
    BY <1>2 DEF BuildInv, TypeInv
<1>5. Copied = {i \in 1..Len(proj.out) : proj.out[i].exec}
  <2>1. Len(proj.out) \in Nat
      BY <1>4, ProjectFacts
  <2>2. idx - 1 = Len(proj.out)
      BY <1>2, <1>3, <2>1
  <2>3. QED
      BY <2>2 DEF Copied
<1>6. Executables(proj) = {file(i) : i \in Copied}
    BY <1>5 DEF Executables
<1>7. DOMAIN staged = {b.name : b \in Executables(proj)}
    BY <1>3, <1>6
<1>8. (\A k \in 1..Len(subject) : staged[subject[k][1]] = subject[k][2])
        <=> \A i \in Copied : staged[file(i).name] = file(i).content
  <2>1. DOMAIN subject = 1..Len(subject)
      BY <1>3, LenProperties DEF IsSequence
  <2>2. ToSet(subject) = {subject[k] : k \in 1..Len(subject)}
      BY <2>1 DEF ToSet
  <2>3. ASSUME \A k \in 1..Len(subject) : staged[subject[k][1]] = subject[k][2],
               NEW i \in Copied
        PROVE  staged[file(i).name] = file(i).content
    <3>1. <<file(i).name, file(i).content>> \in ToSet(subject)
        BY <1>3
    <3>2. PICK k \in 1..Len(subject) : subject[k] = <<file(i).name, file(i).content>>
        BY <2>2, <3>1
    <3>3. QED
        BY <2>3, <3>2
  <2>4. ASSUME \A i \in Copied : staged[file(i).name] = file(i).content,
               NEW k \in 1..Len(subject)
        PROVE  staged[subject[k][1]] = subject[k][2]
    <3>1. subject[k] \in ToSet(subject)
        BY <2>2
    <3>2. PICK i \in Copied : subject[k] = <<file(i).name, file(i).content>>
        BY <1>3, <3>1
    <3>3. QED
        BY <2>4, <3>2
  <2>5. QED
      BY <2>3, <2>4
<1>9. (\A i \in Copied : staged[file(i).name] = file(i).content)
        <=> \A i, j \in Copied : file(i).name = file(j).name => file(i).content = file(j).content
  <2>1. \A i \in Copied : file(i).name \in DOMAIN staged
      BY <1>3
  <2>2. ASSUME \A i, j \in Copied : file(i).name = file(j).name => file(i).content = file(j).content,
               NEW i \in Copied
        PROVE  staged[file(i).name] = file(i).content
    <3>1. PICK j \in Copied : file(j).name = file(i).name /\ staged[file(i).name] = file(j).content
        BY <1>3, <2>1
    <3>2. QED
        BY <2>2, <3>1
  <2>3. QED
      BY <2>2
<1>10. (\A b, c \in Executables(proj) : b.name = c.name => b.content = c.content)
        <=> \A i, j \in Copied : file(i).name = file(j).name => file(i).content = file(j).content
    BY <1>6
<1>11. QED
    BY <1>1, <1>7, <1>8, <1>9, <1>10 DEF StagedRight

-----------------------------------------------------------------------------
(* The results *)

LEMMA DoneOrders ==
    ASSUME BuildInv, pc = "artifacts", NEW root
    PROVE  OrderRight(Result("done", root))
<1> DEFINE r == Result("done", root)
<1>1. r.proj = proj /\ r.deps = deps
    BY DEF Result
<1> HIDE DEF r
<1>2. OrderRight(r)
    BY <1>1 DEF BuildInv, TypeInv, OrderInv, OrderRight
<1>3. QED
    BY <1>2 DEF r

LEMMA ResultAppended ==
    ASSUME ResultsInv, NEW stage, NEW root, Finish(stage, root),
           edits = 0 => RefusedRightly(Result(stage, root)),
           stage = "done" => /\ PathsRight(Result(stage, root))
                             /\ StagedRight(Result(stage, root))
                             /\ OrderRight(Result(stage, root))
    PROVE  ResultsInv'
<1> DEFINE r == Result(stage, root)
<1>1. results' = Append(results, r) /\ edits' = edits
    BY DEF Finish, Result
<1>2. r.stage = stage
    BY DEF Result
<1> HIDE DEF r
<1>3. IsSequence(results)
    BY DEF ResultsInv
<1>4. IsSequence(results') /\ ToSet(results') = ToSet(results) \union {r}
    BY <1>1, <1>3, AppendSet
<1>5. edits' = 0 => \A x \in ToSet(results') : RefusedRightly(x)
    BY <1>1, <1>4 DEF ResultsInv, r
<1>6. \A x \in ToSet(results') : x.stage = "done" =>
          PathsRight(x) /\ StagedRight(x) /\ OrderRight(x)
    BY <1>2, <1>4 DEF ResultsInv, r
<1>7. QED
    BY <1>4, <1>5, <1>6 DEF ResultsInv

LEMMA NextResultsInv ==
    ASSUME BuildInv, ResultsInv, [Next]_vars
    PROVE  ResultsInv'
<1>1. CASE CollectFails \/ ClassifyFails \/ NotClean \/ ParsePnpmFails
  <2>1. Finish("refused", <<>>)
      BY <1>1 DEF CollectFails, ClassifyFails, NotClean, ParsePnpmFails, Refuse
  <2>2. edits = 0 => RefusedRightly(Result("refused", <<>>))
      BY <1>1, RefusedHasReason
  <2>3. QED
      BY <2>1, <2>2, ResultAppended
<1>2. CASE BuildFails \/ NoDist
  <2>1. Finish("failed", <<>>) /\ pc \in {"build", "artifacts"}
      BY <1>2 DEF BuildFails, NoDist
  <2>2. edits = 0 => RefusedRightly(Result("failed", <<>>))
      BY <2>1, BuiltHasNone
  <2>3. QED
      BY <2>1, <2>2, ResultAppended
<1>3. CASE WriteProvenance
  <2> DEFINE root == MerkleRoot(MerkleEntries(proj, deps))
  <2>1. Finish("done", root) /\ pc = "artifacts"
      BY <1>3 DEF WriteProvenance
  <2> HIDE DEF root
  <2>2. edits = 0 => RefusedRightly(Result("done", root))
      BY <2>1, BuiltHasNone
  <2>3. /\ PathsRight(Result("done", root)) /\ StagedRight(Result("done", root))
        /\ OrderRight(Result("done", root))
      BY <1>3, <2>1, DoneAccounts, DoneStages, DoneOrders
  <2>4. QED
      BY <2>1, <2>2, <2>3, ResultAppended
<1>4. CASE \/ Start \/ CollectExternalPathDeps \/ ClassifyPinned \/ SkipMember \/ AssertClean
           \/ GitShaAt \/ ExtractFixedOutput \/ ParsePnpmPackage \/ Resolved \/ RunBuild
           \/ StageBinary \/ UNCHANGED vars
  <2>1. results' = results /\ edits' = edits
      BY <1>4 DEF Start, CollectExternalPathDeps, ClassifyPinned, SkipMember, AssertClean,
                  GitShaAt, ExtractFixedOutput, ParsePnpmPackage, Record, Resolved, RunBuild,
                  StageBinary, vars
  <2>2. QED
      BY <2>1 DEF ResultsInv
<1>5. CASE ChangeRepo
  <2>1. results' = results /\ edits' = edits + 1
      BY <1>5 DEF ChangeRepo
  <2>2. edits \in Nat
      BY DEF BuildInv, TypeInv
  <2>3. edits' # 0
      BY <2>1, <2>2
  <2>4. QED
      BY <2>1, <2>3 DEF ResultsInv
<1>6. QED
    BY <1>1, <1>2, <1>3, <1>4, <1>5 DEF Next

\* What every build that ended came to, whatever the projects are
\* (src/toolchain/runner.rs, run).
THEOREM ResultsInvariant == Spec => []ResultsInv
<1>1. Init => ResultsInv
  <2> SUFFICES ASSUME Init PROVE ResultsInv
      OBVIOUS
  <2>1. results = <<>>
      BY DEF Init
  <2>2. <<>> \in Seq({}) /\ ToSet(<<>>) = {}
      BY NoUri
  <2>3. QED
      BY <2>1, <2>2 DEF ResultsInv, IsSequence
<1>2. BuildInv /\ ResultsInv /\ [Next]_vars => ResultsInv'
    BY NextResultsInv
<1>3. QED
    BY <1>1, <1>2, BuildInvariant, PTL DEF Spec

\* RefusedExactly, for every workload: whatever the order of the lock file, a
\* build is refused exactly when a package has nothing to pin it, a path
\* dependency has uncommitted changes or no repository, or the manifests
\* contradict each other (src/toolchain/cargo_lock.rs, classify_package,
\* extract_paths_from_manifest).
THEOREM RefusedForAReason == Spec => []RefusedExactly
<1>1. ResultsInv => RefusedExactly
    BY DEF ResultsInv, RefusedExactly, RefusedRightly
<1>2. QED
    BY <1>1, ResultsInvariant, PTL

\* PathDepsRecorded, for every workload: the provenance accounts for a package
\* without source exactly when the manifests name it by the name of its package
\* (src/toolchain/cargo_lock.rs, classify_package).
THEOREM PathsAccounted == Spec => []PathDepsRecorded
<1>1. ResultsInv => PathDepsRecorded
    BY DEF ResultsInv, PathDepsRecorded, PathsRight, Accounted, Done
<1>2. QED
    BY <1>1, ResultsInvariant, PTL

\* SubjectsAreStaged, for every workload: the subjects are the files that are
\* staged exactly when no two binaries share a name and differ
\* (src/toolchain/nix.rs, nix_artifacts_from_store_paths).
THEOREM SubjectsStaged == Spec => []SubjectsAreStaged
<1>1. ResultsInv => SubjectsAreStaged
    BY DEF ResultsInv, SubjectsAreStaged, StagedRight, Done
<1>2. QED
    BY <1>1, ResultsInvariant, PTL

-----------------------------------------------------------------------------
(* One order *)

\* The uris of a set can be told apart by what they are sorted by.
Distinct(driver, T) ==
    driver = "nix" => \A u, v \in T : u[2] \in Names /\ (u # v => NameOf(u) # NameOf(v))

LEMMA LessTotal ==
    ASSUME NEW driver, NEW T, Distinct(driver, T), NEW u \in T, NEW v \in T,
           u \in Uris, v \in Uris, u # v
    PROVE  Less(driver, u, v) \/ Less(driver, v, u)
<1>1. CASE driver = "nix"
  <2>1. u[2] \in Names /\ v[2] \in Names /\ u[2] # v[2]
      BY <1>1 DEF Distinct, NameOf
  <2>2. NameRank[u[2]] \in Nat /\ NameRank[v[2]] \in Nat /\ NameRank[u[2]] # NameRank[v[2]]
      BY <2>1, InputsAssumption
  <2>3. QED
      BY <1>1, <2>2 DEF Less, NameBefore, NameOf
<1>2. CASE driver # "nix"
    BY <1>2, BeforeTotal DEF Less
<1>3. QED
    BY <1>1, <1>2

LEMMA NotBeforeItself ==
    ASSUME NEW driver, NEW T, Distinct(driver, T), NEW u \in T, u \in Uris
    PROVE  ~Less(driver, u, u)
<1>1. driver = "nix" => u[2] \in Names
    BY DEF Distinct
<1>2. QED
    BY <1>1, LessOrder

\* A list is in the order its driver sorts by.
LEMMA ListSorted ==
    ASSUME NEW r, OrderRight(r), NEW i \in 1..Len(r.deps), NEW j \in 1..Len(r.deps), i < j
    PROVE  IF r.proj.driver = "nix"
           THEN NameRank[NameOf(r.deps[i])] <= NameRank[NameOf(r.deps[j])]
           ELSE ~Before(r.deps[j], r.deps[i])
<1> DEFINE ds == r.deps
<1>1. ds \in Seq(Uris) /\ ~Less(r.proj.driver, ds[j], ds[i])
    BY DEF OrderRight, Sorted
<1>2. CASE r.proj.driver = "nix"
  <2>1. ds[i] \in ToSet(ds) /\ ds[j] \in ToSet(ds)
      BY <1>1, DepsFacts DEF ToSet
  <2>2. ds[i][2] \in Names /\ ds[j][2] \in Names
      BY <1>2, <2>1 DEF OrderRight
  <2>3. NameRank[ds[i][2]] \in Nat /\ NameRank[ds[j][2]] \in Nat
      BY <2>2, InputsAssumption
  <2>4. QED
      BY <1>1, <1>2, <2>3 DEF Less, NameBefore, NameOf
<1>3. CASE r.proj.driver # "nix"
    BY <1>1, <1>3 DEF Less
<1>4. QED
    BY <1>2, <1>3

LEMMA TimesListed ==
    ASSUME NEW ds \in Seq(Uris), NEW u
    PROVE  u \in ToSet(ds) <=> Times(u, ds) # 0
<1> DEFINE T == {k \in 1..Len(ds) : ds[k] = u}
<1>1. Len(ds) \in Nat /\ DOMAIN ds = 1..Len(ds)
    BY DepsFacts
<1>2. IsFiniteSet(1..Len(ds))
    BY <1>1, UpTo
<1>3. T \subseteq 1..Len(ds)
    OBVIOUS
<1>4. u \in ToSet(ds) <=> T # {}
    BY <1>1 DEF ToSet
<1>5. Times(u, ds) = Cardinality(T)
    BY DEF Times
<1> HIDE DEF T
<1>6. IsFiniteSet(T)
    BY <1>2, <1>3, FS_Subset
<1>7. Cardinality(T) = 0 <=> T = {}
    BY <1>6, FS_EmptySet
<1>8. QED
    BY <1>4, <1>5, <1>7

LEMMA TimesNumber ==
    ASSUME NEW ds \in Seq(Uris), NEW u
    PROVE  Times(u, ds) \in Nat
<1> DEFINE T == {k \in 1..Len(ds) : ds[k] = u}
<1>1. Len(ds) \in Nat
    BY DepsFacts
<1>2. IsFiniteSet(1..Len(ds)) /\ T \subseteq 1..Len(ds)
    BY <1>1, UpTo
<1>3. Times(u, ds) = Cardinality(T)
    BY DEF Times
<1> HIDE DEF T
<1>4. IsFiniteSet(T)
    BY <1>2, FS_Subset
<1>5. QED
    BY <1>3, <1>4, FS_CardinalityType

\* Where one sorted list has a uri that the other is past, it lists it more often.
LEMMA FirstDifference ==
    ASSUME NEW driver, NEW r \in Seq(Uris), NEW s \in Seq(Uris), Sorted(driver, s),
           NEW k \in 1..Len(r), ~Less(driver, r[k], r[k]),
           \A j \in 1..(k - 1) : j \in 1..Len(s) /\ r[j] = s[j],
           k \in 1..Len(s) => Less(driver, r[k], s[k])
    PROVE  Times(r[k], s) < Times(r[k], r)
<1> DEFINE u == r[k]
           R == {i \in 1..Len(r) : r[i] = u}
           S == {i \in 1..Len(s) : s[i] = u}
<1>1. /\ Len(r) \in Nat /\ Len(s) \in Nat /\ u \in Uris
      /\ \A i \in 1..Len(s) : s[i] \in Uris
    BY DepsFacts
<1>2. ASSUME NEW i \in 1..Len(s), s[i] = u
      PROVE  i < k
  <2> SUFFICES ASSUME ~(i < k) PROVE FALSE
      OBVIOUS
  <2>1. k \in 1..Len(s)
      BY <1>1
  <2>2. Less(driver, u, s[k]) /\ ~Less(driver, u, u)
      BY <2>1
  <2>3. i # k
      BY <1>2, <2>2
  <2>4. k < i
      BY <2>1, <2>3
  <2>5. ~Less(driver, s[i], s[k])
      BY <2>1, <2>4 DEF Sorted
  <2>6. QED
      BY <1>2, <2>2, <2>5
<1>3. S \subseteq R
  <2> SUFFICES ASSUME NEW i \in 1..Len(s), s[i] = u PROVE i \in 1..Len(r) /\ r[i] = u
      OBVIOUS
  <2>1. i < k
      BY <1>2
  <2>2. i \in 1..(k - 1)
      BY <1>1, <2>1
  <2>3. QED
      BY <1>1, <2>2
<1>4. k \in R /\ k \notin S
    BY <1>2
<1>5. IsFiniteSet(1..Len(r))
    BY <1>1, UpTo
<1>6. R \subseteq 1..Len(r)
    OBVIOUS
<1>7. Times(u, r) = Cardinality(R) /\ Times(u, s) = Cardinality(S)
    BY DEF Times
<1> HIDE DEF R, S, u
<1>8. IsFiniteSet(R) /\ IsFiniteSet(S)
    BY <1>3, <1>5, <1>6, FS_Subset
<1>9. Cardinality(S) <= Cardinality(R) /\ Cardinality(S) # Cardinality(R)
    BY <1>3, <1>4, <1>8, FS_Subset
<1>10. Cardinality(S) \in Nat /\ Cardinality(R) \in Nat
    BY <1>8, FS_CardinalityType
<1>11. QED
    BY <1>7, <1>9, <1>10 DEF u

\* Two sorted lists with the same uris, each as often, are the same list.
LEMMA SortedUnique ==
    ASSUME NEW driver, NEW r \in Seq(Uris), NEW s \in Seq(Uris),
           Sorted(driver, r), Sorted(driver, s), Distinct(driver, ToSet(r) \union ToSet(s)),
           \A u \in ToSet(r) \union ToSet(s) : Times(u, r) = Times(u, s)
    PROVE  r = s
<1> SUFFICES ASSUME r # s PROVE FALSE
    OBVIOUS
<1>1. /\ Len(r) \in Nat /\ Len(s) \in Nat
      /\ \A i \in 1..Len(r) : r[i] \in Uris /\ r[i] \in ToSet(r)
      /\ \A i \in 1..Len(s) : s[i] \in Uris /\ s[i] \in ToSet(s)
    BY DepsFacts DEF ToSet
<1> DEFINE Same(k) == k \in 1..Len(r) /\ k \in 1..Len(s) /\ r[k] = s[k]
           T == {k \in Nat : (k \in 1..Len(r) \/ k \in 1..Len(s)) /\ ~Same(k)}
<1>2. T # {}
  <2> SUFFICES ASSUME T = {} PROVE FALSE
      OBVIOUS
  <2>1. \A k \in 1..Len(r) : Same(k)
      OBVIOUS
  <2>2. \A k \in 1..Len(s) : Same(k)
      OBVIOUS
  <2>3. Len(r) <= Len(s)
      BY <1>1, <2>1
  <2>4. Len(s) <= Len(r)
      BY <1>1, <2>2
  <2>5. Len(r) = Len(s)
      BY <1>1, <2>3, <2>4
  <2>6. QED
      BY <2>1, <2>5, SeqEqual
<1>3. PICK k \in T : \A j \in T : k <= j
    BY <1>2, LeastNumber
<1>4. k \in Nat /\ (k \in 1..Len(r) \/ k \in 1..Len(s)) /\ ~Same(k)
    OBVIOUS
<1>5. \A j \in 1..(k - 1) : Same(j)
  <2> SUFFICES ASSUME NEW j \in 1..(k - 1), ~Same(j) PROVE FALSE
      OBVIOUS
  <2>1. j \in Nat /\ j < k /\ (j \in 1..Len(r) \/ j \in 1..Len(s))
      BY <1>1, <1>4
  <2>2. j \in T
      BY <2>1
  <2>3. k <= j
      BY <1>3, <2>2
  <2>4. QED
      BY <1>4, <2>1, <2>3
<1> HIDE DEF T
<1>6. CASE k \in 1..Len(r) /\ (k \in 1..Len(s) => Less(driver, r[k], s[k]))
  <2>1. Times(r[k], s) < Times(r[k], r)
    <3>1. ~Less(driver, r[k], r[k])
        BY <1>1, <1>6, NotBeforeItself
    <3>2. QED
        BY <1>5, <1>6, <3>1, FirstDifference
  <2>2. Times(r[k], r) = Times(r[k], s)
      BY <1>1, <1>6
  <2>3. Times(r[k], r) \in Nat
      BY <1>1, TimesNumber
  <2>4. QED
      BY <2>1, <2>2, <2>3
<1>7. CASE k \in 1..Len(s) /\ (k \in 1..Len(r) => Less(driver, s[k], r[k]))
  <2>1. \A j \in 1..(k - 1) : j \in 1..Len(r) /\ s[j] = r[j]
      BY <1>5
  <2>2. Times(s[k], r) < Times(s[k], s)
    <3>1. ~Less(driver, s[k], s[k])
        BY <1>1, <1>7, NotBeforeItself
    <3>2. QED
        BY <1>7, <2>1, <3>1, FirstDifference
  <2>3. Times(s[k], r) = Times(s[k], s)
      BY <1>1, <1>7
  <2>4. Times(s[k], r) \in Nat
      BY <1>1, TimesNumber
  <2>5. QED
      BY <2>2, <2>3, <2>4
<1>8. k \in 1..Len(r) /\ k \in 1..Len(s)
        => Less(driver, r[k], s[k]) \/ Less(driver, s[k], r[k])
  <2> SUFFICES ASSUME k \in 1..Len(r), k \in 1..Len(s)
               PROVE  Less(driver, r[k], s[k]) \/ Less(driver, s[k], r[k])
      OBVIOUS
  <2>1. r[k] \in ToSet(r) \union ToSet(s) /\ s[k] \in ToSet(r) \union ToSet(s)
      BY <1>1
  <2>2. r[k] \in Uris /\ s[k] \in Uris /\ r[k] # s[k]
      BY <1>1, <1>4
  <2>3. QED
      BY <2>1, <2>2, LessTotal
<1>9. QED
    BY <1>4, <1>6, <1>7, <1>8

LEMMA OneOrder ==
    ASSUME NEW r, NEW s, OrderRight(r), OrderRight(s), r.proj.driver = s.proj.driver,
           \A u \in ToSet(r.deps) \union ToSet(s.deps) : Times(u, r.deps) = Times(u, s.deps),
           r.proj.driver = "nix" => ~SharedName(r.deps)
    PROVE  r.deps = s.deps
<1> DEFINE driver == r.proj.driver
<1>1. /\ r.deps \in Seq(Uris) /\ s.deps \in Seq(Uris)
      /\ Sorted(driver, r.deps) /\ Sorted(driver, s.deps)
    BY DEF OrderRight
<1>2. \A u \in ToSet(s.deps) : u \in ToSet(r.deps)
    BY <1>1, TimesListed
<1>3. driver = "nix" => \A u \in ToSet(r.deps) : u[2] \in Names
    BY DEF OrderRight
<1>4. Distinct(driver, ToSet(r.deps) \union ToSet(s.deps))
    BY <1>2, <1>3 DEF Distinct, SharedName
<1> HIDE DEF driver
<1>5. QED
    BY <1>1, <1>4, SortedUnique

\* ListedInOneOrder, for every workload: cargo's and pnpm's dependencies are listed
\* by uri and nix's by name, whatever the order of the lock file or the graph, and
\* builds with the same dependencies list them in the same order, unless fetches of
\* nix share a name (src/toolchain/cargo_lock.rs, resolve_dependencies; nix.rs).
THEOREM DepsInOneOrder == Spec => []ListedInOneOrder
<1>1. ResultsInv => ListedInOneOrder
  <2> SUFFICES ASSUME ResultsInv, NEW r \in Done, NEW s \in Done
               PROVE  /\ \A i, j \in 1..Len(r.deps) : i < j =>
                            IF r.proj.driver = "nix"
                            THEN NameRank[NameOf(r.deps[i])] <= NameRank[NameOf(r.deps[j])]
                            ELSE ~Before(r.deps[j], r.deps[i])
                      /\ /\ r.proj.driver = s.proj.driver
                         /\ \A u \in ToSet(r.deps) \union ToSet(s.deps) :
                               Times(u, r.deps) = Times(u, s.deps)
                         /\ r.proj.driver = "nix" => ~SharedName(r.deps)
                         => r.deps = s.deps
      BY DEF ListedInOneOrder
  <2>1. OrderRight(r) /\ OrderRight(s)
      BY DEF ResultsInv, Done
  <2>2. QED
      BY <2>1, ListSorted, OneOrder
<1>2. QED
    BY <1>1, ResultsInvariant, PTL

-----------------------------------------------------------------------------
(* The Merkle root determines the entries *)

LEMMA NatsByInduction ==
    ASSUME NEW T, 0 \in T, \A n \in Nat : n \in T => n + 1 \in T
    PROVE  Nat \subseteq T
<1> SUFFICES ASSUME Nat \ T # {} PROVE FALSE
    OBVIOUS
<1>1. PICK x \in Nat \ T : \A y \in Nat \ T : x <= y
    BY LeastNumber
<1>2. x # 0
    OBVIOUS
<1>3. x - 1 \in Nat
    BY <1>2
<1>4. x - 1 \in T
  <2>1. ~(x <= x - 1)
      BY <1>3
  <2>2. QED
      BY <1>1, <1>3, <2>1
<1>5. x - 1 + 1 = x
    BY <1>3
<1>6. QED
    BY <1>3, <1>4, <1>5

Leaves(entries) == [i \in 1..Len(entries) |-> <<"leaf", entries[i]>>]

\* f is the layers of entries up to layer n.
IsLayers(entries, n, f) ==
    f = [k \in 0..n |-> IF k = 0 THEN Leaves(entries) ELSE Raised(f[k - 1])]

LEMMA LayersExist ==
    ASSUME NEW entries, NEW n \in Nat
    PROVE  \E f : IsLayers(entries, n, f)
<1> DEFINE T == {m \in Nat : \E f : IsLayers(entries, m, f)}
<1>1. 0 \in T
  <2> DEFINE f == [k \in 0..0 |-> Leaves(entries)]
  <2>1. f = [k \in 0..0 |-> IF k = 0 THEN Leaves(entries) ELSE Raised(f[k - 1])]
      OBVIOUS
  <2> HIDE DEF f
  <2>2. IsLayers(entries, 0, f)
      BY <2>1 DEF IsLayers
  <2>3. QED
      BY <2>2
<1>2. ASSUME NEW m \in Nat, m \in T
      PROVE  m + 1 \in T
  <2>1. PICK f : IsLayers(entries, m, f)
      BY <1>2
  <2>2. \A k \in 0..m : f[k] = IF k = 0 THEN Leaves(entries) ELSE Raised(f[k - 1])
      BY <2>1 DEF IsLayers
  <2> DEFINE g == [k \in 0..(m + 1) |-> IF k <= m THEN f[k] ELSE Raised(f[m])]
  <2>3. ASSUME NEW k \in 0..(m + 1)
        PROVE  g[k] = IF k = 0 THEN Leaves(entries) ELSE Raised(g[k - 1])
    <3>1. CASE k = 0
      <4>1. k \in 0..m /\ g[k] = f[k]
          BY <3>1
      <4>2. QED
          BY <2>2, <3>1, <4>1
    <3>2. CASE k # 0 /\ k <= m
      <4>1. k \in 0..m /\ k - 1 \in 0..(m + 1) /\ k - 1 <= m
          BY <3>2
      <4>2. g[k] = f[k] /\ g[k - 1] = f[k - 1]
          BY <3>2, <4>1
      <4>3. f[k] = Raised(f[k - 1])
          BY <2>2, <3>2, <4>1
      <4>4. QED
          BY <3>2, <4>2, <4>3
    <3>3. CASE ~(k <= m)
      <4>1. k = m + 1 /\ k # 0 /\ k - 1 = m /\ m \in 0..(m + 1) /\ m <= m
          BY <3>3
      <4>2. g[m] = f[m] /\ g[k] = Raised(f[m])
          BY <3>3, <4>1
      <4>3. QED
          BY <4>1, <4>2
    <3>4. QED
        BY <3>1, <3>2, <3>3
  <2>4. DOMAIN g = 0..(m + 1) /\ g = [k \in 0..(m + 1) |-> g[k]]
      OBVIOUS
  <2> HIDE DEF g
  <2>5. IsLayers(entries, m + 1, g)
      BY <2>3, <2>4 DEF IsLayers
  <2>6. QED
      BY <2>5
<1>3. Nat \subseteq T
    BY <1>1, <1>2, NatsByInduction
<1>4. QED
    BY <1>3

\* What Layers is, layer by layer.
LEMMA LayersAre ==
    ASSUME NEW entries, Len(entries) \in Nat
    PROVE  /\ Layers(entries)[0] = Leaves(entries)
           /\ \A k \in 0..(Len(entries) - 1) :
                 Layers(entries)[k + 1] = Raised(Layers(entries)[k])
<1> DEFINE n == Len(entries)
           f == Layers(entries)
<1>1. \E g : IsLayers(entries, n, g)
    BY LayersExist
<1>2. IsLayers(entries, n, f)
    BY <1>1 DEF Layers, IsLayers, Leaves
<1> HIDE DEF f
<1>3. \A k \in 0..n : f[k] = IF k = 0 THEN Leaves(entries) ELSE Raised(f[k - 1])
    BY <1>2 DEF IsLayers
<1>4. f[0] = Leaves(entries)
    BY <1>3
<1>5. ASSUME NEW k \in 0..(n - 1) PROVE f[k + 1] = Raised(f[k])
  <2>1. k + 1 \in 0..n /\ k + 1 # 0 /\ k + 1 - 1 = k
      OBVIOUS
  <2>2. QED
      BY <1>3, <2>1
<1>6. QED
    BY <1>4, <1>5 DEF f

\* A layer is a list of trees.
IsLayer(l) == Len(l) \in Nat \ {0} /\ l = [i \in 1..Len(l) |-> l[i]]

LEMMA MappedLen ==
    ASSUME NEW n \in Nat, NEW f, f = [i \in 1..n |-> f[i]]
    PROVE  Len(f) = n
<1> DEFINE S == {f[i] : i \in 1..n}
<1>1. f \in [1..n -> S]
    OBVIOUS
<1>2. f \in Seq(S)
    BY <1>1, FunctionIsSeq
<1>3. DOMAIN f = 1..n
    OBVIOUS
<1>4. QED
    BY <1>2, <1>3, LenProperties

LEMMA HalvedFacts ==
    ASSUME NEW l, IsLayer(l), Len(l) # 1
    PROVE  /\ IsLayer(Halved(l)) /\ Len(Halved(l)) = (Len(l) + 1) \div 2
           /\ \A k \in 1..Len(Halved(l)) :
                 Halved(l)[k] = IF 2 * k <= Len(l) THEN <<"node", l[2 * k - 1], l[2 * k]>>
                                ELSE l[2 * k - 1]
<1> DEFINE h == Halved(l)
           m == (Len(l) + 1) \div 2
<1>1. Len(l) \in Nat \ {0} /\ m \in Nat \ {0}
    BY DEF IsLayer
<1>2. h = [k \in 1..m |-> IF 2 * k <= Len(l) THEN <<"node", l[2 * k - 1], l[2 * k]>>
                          ELSE l[2 * k - 1]]
    BY DEF Halved
<1>3. h = [k \in 1..m |-> h[k]]
    BY <1>2
<1>4. \A k \in 1..m : h[k] = IF 2 * k <= Len(l) THEN <<"node", l[2 * k - 1], l[2 * k]>>
                             ELSE l[2 * k - 1]
    BY <1>2
<1> HIDE DEF h, m
<1>5. Len(h) = m
    BY <1>1, <1>3, MappedLen
<1>6. QED
    BY <1>1, <1>3, <1>4, <1>5 DEF IsLayer, h, m

-----------------------------------------------------------------------------
(* The depth of a tree, along its first children *)

IsDepth(t, n) ==
    \E c : /\ c[0] = t
           /\ \A j \in 0..(n - 1) : c[j][1] = "node" /\ c[j + 1] = c[j][2]
           /\ c[n][1] = "leaf"

LEMMA LeafDepth ==
    ASSUME NEW x
    PROVE  IsDepth(<<"leaf", x>>, 0)
<1> DEFINE c == [j \in {0} |-> <<"leaf", x>>]
<1>1. c[0] = <<"leaf", x>> /\ c[0][1] = "leaf"
    OBVIOUS
<1>2. \A j \in 0..(0 - 1) : FALSE
    OBVIOUS
<1> HIDE DEF c
<1>3. QED
    BY <1>1, <1>2 DEF IsDepth

LEMMA NodeDepth ==
    ASSUME NEW x, NEW y, NEW n \in Nat, IsDepth(x, n)
    PROVE  IsDepth(<<"node", x, y>>, n + 1)
<1>1. PICK c : /\ c[0] = x
               /\ \A j \in 0..(n - 1) : c[j][1] = "node" /\ c[j + 1] = c[j][2]
               /\ c[n][1] = "leaf"
    BY DEF IsDepth
<1> DEFINE t == <<"node", x, y>>
           d == [j \in 0..(n + 1) |-> IF j = 0 THEN t ELSE c[j - 1]]
<1>2. t[1] = "node" /\ t[2] = x
    OBVIOUS
<1>3. d[0] = t /\ \A j \in 1..(n + 1) : d[j] = c[j - 1]
    OBVIOUS
<1> HIDE DEF t, d
<1>4. ASSUME NEW j \in 0..(n + 1 - 1)
      PROVE  d[j][1] = "node" /\ d[j + 1] = d[j][2]
  <2>1. j + 1 \in 1..(n + 1) /\ j + 1 - 1 = j
      OBVIOUS
  <2>2. d[j + 1] = c[j]
      BY <1>3, <2>1
  <2>3. CASE j = 0
      BY <1>1, <1>2, <1>3, <2>2, <2>3
  <2>4. CASE j # 0
    <3>1. j \in 1..(n + 1) /\ j - 1 \in 0..(n - 1) /\ j - 1 + 1 = j
        BY <2>4
    <3>2. d[j] = c[j - 1] /\ c[j - 1][1] = "node" /\ c[j] = c[j - 1][2]
        BY <1>1, <1>3, <3>1
    <3>3. QED
        BY <2>2, <3>2
  <2>5. QED
      BY <2>3, <2>4
<1>5. d[n + 1][1] = "leaf"
  <2>1. n + 1 \in 1..(n + 1) /\ n + 1 - 1 = n
      OBVIOUS
  <2>2. QED
      BY <1>1, <1>3, <2>1
<1>6. QED
    BY <1>3, <1>4, <1>5 DEF IsDepth, t

LEMMA DepthLeast ==
    ASSUME NEW t, NEW m \in Nat, NEW n \in Nat, IsDepth(t, m), IsDepth(t, n)
    PROVE  ~(m < n)
<1> SUFFICES ASSUME m < n PROVE FALSE
    OBVIOUS
<1>1. PICK c : /\ c[0] = t
               /\ \A j \in 0..(m - 1) : c[j][1] = "node" /\ c[j + 1] = c[j][2]
               /\ c[m][1] = "leaf"
    BY DEF IsDepth
<1>2. PICK d : /\ d[0] = t
               /\ \A j \in 0..(n - 1) : d[j][1] = "node" /\ d[j + 1] = d[j][2]
               /\ d[n][1] = "leaf"
    BY DEF IsDepth
<1> DEFINE T == {j \in Nat : j <= m => c[j] = d[j]}
<1>3. 0 \in T
    BY <1>1, <1>2
<1>4. ASSUME NEW j \in Nat, j \in T PROVE j + 1 \in T
  <2> SUFFICES ASSUME j + 1 <= m PROVE c[j + 1] = d[j + 1]
      OBVIOUS
  <2>1. c[j] = d[j] /\ j \in 0..(m - 1) /\ j \in 0..(n - 1)
      BY <1>4
  <2>2. QED
      BY <1>1, <1>2, <2>1
<1>5. Nat \subseteq T
    BY <1>3, <1>4, NatsByInduction
<1>6. c[m] = d[m]
    BY <1>5
<1>7. m \in 0..(n - 1)
    OBVIOUS
<1>8. d[m][1] = "node"
    BY <1>2, <1>7
<1>9. QED
    BY <1>1, <1>6, <1>8

LEMMA DepthUnique ==
    ASSUME NEW t, NEW m \in Nat, NEW n \in Nat, IsDepth(t, m), IsDepth(t, n)
    PROVE  m = n
<1>1. ~(m < n) /\ ~(n < m)
    BY DepthLeast
<1>2. QED
    BY <1>1

\* A layer at height j: all trees but the last have depth j, so has the first,
\* and the last has at most that.
AtHeight(l, j) ==
    /\ IsLayer(l)
    /\ IsDepth(l[1], j)
    /\ \A i \in 1..(Len(l) - 1) : IsDepth(l[i], j)
    /\ \E d \in 0..j : IsDepth(l[Len(l)], d)

LEMMA LeavesHeight ==
    ASSUME NEW entries, Len(entries) \in Nat \ {0}
    PROVE  /\ AtHeight(Leaves(entries), 0) /\ Len(Leaves(entries)) = Len(entries)
           /\ \A i \in 1..Len(entries) : Leaves(entries)[i] = <<"leaf", entries[i]>>
<1> DEFINE l == Leaves(entries)
           n == Len(entries)
<1>1. l = [i \in 1..n |-> l[i]] /\ \A i \in 1..n : l[i] = <<"leaf", entries[i]>>
    BY DEF Leaves
<1> HIDE DEF l
<1>2. Len(l) = n
    BY <1>1, MappedLen
<1>3. \A i \in 1..n : IsDepth(l[i], 0)
    BY <1>1, LeafDepth
<1>4. 1 \in 1..n /\ n \in 1..n /\ 0 \in 0..0 /\ \A i \in 1..(n - 1) : i \in 1..n
    OBVIOUS
<1>5. AtHeight(l, 0)
    BY <1>1, <1>2, <1>3, <1>4 DEF AtHeight, IsLayer
<1>6. QED
    BY <1>1, <1>2, <1>5 DEF l

LEMMA HalfFacts ==
    ASSUME NEW n \in Nat, n # 0, n # 1, NEW m, m = (n + 1) \div 2
    PROVE  /\ m \in Nat /\ 1 \in 1..m /\ 2 * 1 <= n /\ m \in 1..m
           /\ \A k \in 1..(m - 1) : k \in 1..m /\ 2 * k <= n
           /\ ~(2 * m <= n) => 2 * m - 1 = n
<1>1. m \in Nat /\ (2 * m = n \/ 2 * m = n + 1) /\ 1 <= m
    OBVIOUS
<1>2. QED
    BY <1>1

LEMMA ParentOf ==
    ASSUME NEW n \in Nat, NEW i \in 1..n
    PROVE  \E k \in 1..((n + 1) \div 2) : i = 2 * k - 1 \/ (i = 2 * k /\ 2 * k <= n)
<1> DEFINE k == (i + 1) \div 2
<1>1. k \in Nat /\ (2 * k = i \/ 2 * k = i + 1) /\ 1 <= k
    OBVIOUS
<1>2. k <= (n + 1) \div 2 /\ (n + 1) \div 2 \in Nat
    OBVIOUS
<1> HIDE DEF k
<1>3. k \in 1..((n + 1) \div 2) /\ (i = 2 * k - 1 \/ (i = 2 * k /\ 2 * k <= n))
    BY <1>1, <1>2
<1>4. QED
    BY <1>3

LEMMA HalvedHeight ==
    ASSUME NEW l, NEW j \in Nat, AtHeight(l, j), Len(l) # 1
    PROVE  AtHeight(Halved(l), j + 1)
<1> DEFINE h == Halved(l)
           n == Len(l)
           m == (n + 1) \div 2
<1>1. /\ IsLayer(l) /\ \A i \in 1..(n - 1) : IsDepth(l[i], j)
      /\ n \in Nat \ {0} /\ n # 1
    BY DEF AtHeight, IsLayer
<1>2. PICK d \in 0..j : IsDepth(l[n], d)
    BY DEF AtHeight
<1>3. /\ IsLayer(h) /\ Len(h) = m
      /\ \A k \in 1..m : h[k] = IF 2 * k <= n THEN <<"node", l[2 * k - 1], l[2 * k]>>
                                ELSE l[2 * k - 1]
    BY <1>1, HalvedFacts
<1> HIDE DEF h
<1>4. ASSUME NEW k \in 1..m, 2 * k <= n
      PROVE  IsDepth(h[k], j + 1)
  <2>1. 2 * k - 1 \in 1..(n - 1)
      BY <1>1, <1>4
  <2>2. IsDepth(l[2 * k - 1], j)
      BY <1>1, <2>1
  <2>3. h[k] = <<"node", l[2 * k - 1], l[2 * k]>>
      BY <1>3, <1>4
  <2>4. QED
      BY <2>2, <2>3, NodeDepth
<1>5. /\ 1 \in 1..m /\ 2 * 1 <= n /\ m \in 1..m
      /\ \A k \in 1..(m - 1) : k \in 1..m /\ 2 * k <= n
      /\ ~(2 * m <= n) => 2 * m - 1 = n
    BY <1>1, HalfFacts
<1>6. IsDepth(h[1], j + 1) /\ \A k \in 1..(m - 1) : IsDepth(h[k], j + 1)
    BY <1>4, <1>5
<1>7. \E e \in 0..(j + 1) : IsDepth(h[m], e)
  <2>1. CASE 2 * m <= n
    <3>1. IsDepth(h[m], j + 1) /\ j + 1 \in 0..(j + 1)
        BY <1>4, <1>5, <2>1
    <3>2. QED
        BY <3>1
  <2>2. CASE ~(2 * m <= n)
    <3>1. h[m] = l[n]
        BY <1>3, <1>5, <2>2
    <3>2. d \in 0..(j + 1)
        OBVIOUS
    <3>3. QED
        BY <1>2, <3>1, <3>2
  <2>3. QED
      BY <2>1, <2>2
<1>8. AtHeight(h, j + 1)
    BY <1>3, <1>6, <1>7 DEF AtHeight
<1>9. QED
    BY <1>8 DEF h

\* Two layers at one height with the same layer above them are the same: a tree
\* that moved up is less deep than one that was put together.
LEMMA HalvedSame ==
    ASSUME NEW l, NEW m, NEW j \in Nat, AtHeight(l, j), AtHeight(m, j), Len(l) # 1, Len(m) # 1,
           Halved(l) = Halved(m)
    PROVE  ~(Len(m) < Len(l))
<1> SUFFICES ASSUME Len(m) < Len(l) PROVE FALSE
    OBVIOUS
<1> DEFINE n == Len(l)
           p == Len(m)
           c == (n + 1) \div 2
           h == Halved(l)
<1>1. IsLayer(l) /\ IsLayer(m) /\ n \in Nat /\ p \in Nat /\ n # 0 /\ p # 0
    BY DEF AtHeight, IsLayer
<1>2. /\ Len(h) = c
      /\ \A k \in 1..c : h[k] = IF 2 * k <= n THEN <<"node", l[2 * k - 1], l[2 * k]>>
                                ELSE l[2 * k - 1]
    BY <1>1, HalvedFacts
<1>3. /\ Len(h) = (p + 1) \div 2
      /\ \A k \in 1..Len(h) : h[k] = IF 2 * k <= p THEN <<"node", m[2 * k - 1], m[2 * k]>>
                                     ELSE m[2 * k - 1]
    BY <1>1, HalvedFacts
<1> HIDE DEF h
<1>4. c = (p + 1) \div 2
    BY <1>2, <1>3
<1>5. 2 * c = n /\ p = 2 * c - 1 /\ c \in 1..c /\ ~(2 * c <= p) /\ 2 * c - 1 \in 1..(n - 1)
    BY <1>1, <1>4
<1>6. h[c] = <<"node", l[2 * c - 1], l[2 * c]>>
    BY <1>2, <1>5
<1>7. h[c] = m[p]
    BY <1>2, <1>3, <1>5
<1>8. IsDepth(l[2 * c - 1], j)
    BY <1>5 DEF AtHeight
<1>9. IsDepth(h[c], j + 1)
    BY <1>6, <1>8, NodeDepth
<1>10. PICK d \in 0..j : IsDepth(m[p], d)
    BY DEF AtHeight
<1>11. d = j + 1
    BY <1>7, <1>9, <1>10, DepthUnique
<1>12. QED
    BY <1>11

LEMMA HalvedInjective ==
    ASSUME NEW l, NEW m, NEW j \in Nat, AtHeight(l, j), AtHeight(m, j), Len(l) # 1, Len(m) # 1,
           Halved(l) = Halved(m)
    PROVE  l = m
<1> DEFINE n == Len(l)
           h == Halved(l)
<1>1. /\ IsLayer(l) /\ IsLayer(m) /\ n \in Nat /\ Len(m) \in Nat
      /\ l = [i \in 1..n |-> l[i]] /\ m = [i \in 1..Len(m) |-> m[i]]
    BY DEF AtHeight, IsLayer
<1>2. Len(m) = n
  <2>1. ~(Len(m) < Len(l)) /\ ~(Len(l) < Len(m))
      BY HalvedSame
  <2>2. Len(m) \in Nat /\ Len(l) \in Nat
      BY <1>1
  <2>3. QED
      BY <2>1, <2>2
<1>3. /\ Len(h) = (n + 1) \div 2
      /\ \A k \in 1..Len(h) : h[k] = IF 2 * k <= n THEN <<"node", l[2 * k - 1], l[2 * k]>>
                                     ELSE l[2 * k - 1]
    BY <1>1, HalvedFacts
<1>4. \A k \in 1..Len(h) : h[k] = IF 2 * k <= n THEN <<"node", m[2 * k - 1], m[2 * k]>>
                                  ELSE m[2 * k - 1]
    BY <1>1, <1>2, HalvedFacts
<1> HIDE DEF h
<1>5. ASSUME NEW k \in 1..Len(h)
      PROVE  l[2 * k - 1] = m[2 * k - 1] /\ (2 * k <= n => l[2 * k] = m[2 * k])
    BY <1>3, <1>4
<1>6. ASSUME NEW i \in 1..n PROVE l[i] = m[i]
  <2>1. PICK k \in 1..Len(h) : i = 2 * k - 1 \/ (i = 2 * k /\ 2 * k <= n)
      BY <1>1, <1>3, ParentOf
  <2>2. QED
      BY <1>5, <2>1
<1>7. QED
    BY <1>1, <1>2, <1>6

\* a is the height of the tree: the layers up to it halve, and then there is
\* only the root.
TreeHeight(entries, a) ==
    LET layer == Layers(entries)
    IN  /\ a \in 0..Len(entries)
        /\ \A j \in 0..a : AtHeight(layer[j], j)
        /\ \A j \in 0..(a - 1) : Len(layer[j]) # 1 /\ layer[j + 1] = Halved(layer[j])
        /\ Len(layer[a]) = 1 /\ layer[Len(entries)] = layer[a]

LEMMA HalvedShorter ==
    ASSUME NEW l \in Nat, l # 0, l # 1
    PROVE  (l + 1) \div 2 \in Nat /\ (l + 1) \div 2 <= l - 1
OBVIOUS

\* There are enough layers to reach the root.
LEMMA RootReached ==
    ASSUME NEW entries, Len(entries) \in Nat \ {0}
    PROVE  Len(Layers(entries)[Len(entries)]) = 1
<1> DEFINE n == Len(entries)
           f == Layers(entries)
           T == {k \in Nat : k <= n => IsLayer(f[k]) /\ (Len(f[k]) = 1 \/ Len(f[k]) <= n - k)}
<1>1. f[0] = Leaves(entries) /\ \A k \in 0..(n - 1) : f[k + 1] = Raised(f[k])
    BY LayersAre
<1> HIDE DEF f
<1>2. 0 \in T
  <2>1. IsLayer(f[0]) /\ Len(f[0]) = n
      BY <1>1, LeavesHeight DEF AtHeight
  <2>2. n <= n - 0
      OBVIOUS
  <2>3. QED
      BY <2>1, <2>2
<1>3. ASSUME NEW k \in Nat, k \in T PROVE k + 1 \in T
  <2> SUFFICES ASSUME k + 1 <= n
               PROVE  IsLayer(f[k + 1]) /\ (Len(f[k + 1]) = 1 \/ Len(f[k + 1]) <= n - (k + 1))
      OBVIOUS
  <2>1. k \in 0..(n - 1) /\ k <= n
      OBVIOUS
  <2>2. IsLayer(f[k]) /\ (Len(f[k]) = 1 \/ Len(f[k]) <= n - k)
      BY <1>3, <2>1
  <2>3. f[k + 1] = Raised(f[k])
      BY <1>1, <2>1
  <2>4. CASE Len(f[k]) = 1
      BY <2>2, <2>3, <2>4 DEF Raised
  <2>5. CASE Len(f[k]) # 1
    <3> DEFINE l == Len(f[k])
    <3>1. f[k + 1] = Halved(f[k])
        BY <2>3, <2>5 DEF Raised
    <3>2. IsLayer(f[k + 1]) /\ Len(f[k + 1]) = (l + 1) \div 2
        BY <2>2, <2>5, <3>1, HalvedFacts
    <3>3. l \in Nat /\ l # 0 /\ l # 1 /\ l <= n - k
        BY <2>2, <2>5 DEF IsLayer
    <3> HIDE DEF l
    <3>4. (l + 1) \div 2 \in Nat /\ (l + 1) \div 2 <= l - 1
        BY <3>3, HalvedShorter
    <3>5. Len(f[k + 1]) <= n - (k + 1)
        BY <3>2, <3>3, <3>4
    <3>6. QED
        BY <3>2, <3>5
  <2>6. QED
      BY <2>4, <2>5
<1>4. Nat \subseteq T
    BY <1>2, <1>3, NatsByInduction
<1>5. n \in T
    BY <1>4
<1>6. IsLayer(f[n]) /\ (Len(f[n]) = 1 \/ Len(f[n]) <= n - n)
    BY <1>5
<1>7. Len(f[n]) \in Nat /\ Len(f[n]) # 0
    BY <1>6 DEF IsLayer
<1>8. Len(f[n]) = 1
    BY <1>6, <1>7
<1>9. QED
    BY <1>8 DEF f

LEMMA HeightExists ==
    ASSUME NEW entries, Len(entries) \in Nat \ {0}
    PROVE  \E a : TreeHeight(entries, a)
<1> DEFINE n == Len(entries)
           f == Layers(entries)
           S == {k \in 0..n : Len(f[k]) = 1}
<1>1. f[0] = Leaves(entries) /\ \A k \in 0..(n - 1) : f[k + 1] = Raised(f[k])
    BY LayersAre
<1>2. Len(f[n]) = 1
    BY RootReached
<1> HIDE DEF f
<1>3. S \subseteq Nat /\ n \in S
    BY <1>2
<1>4. PICK a \in S : \A y \in S : a <= y
    BY <1>3, LeastNumber
<1>5. a \in 0..n /\ Len(f[a]) = 1
    OBVIOUS
<1>6. \A j \in 0..(a - 1) : Len(f[j]) # 1 /\ f[j + 1] = Halved(f[j])
  <2> SUFFICES ASSUME NEW j \in 0..(a - 1)
               PROVE  Len(f[j]) # 1 /\ f[j + 1] = Halved(f[j])
      OBVIOUS
  <2>1. j \in 0..n /\ j \in 0..(n - 1) /\ ~(a <= j)
      BY <1>5
  <2>2. Len(f[j]) # 1
      BY <1>4, <2>1
  <2>3. QED
      BY <1>1, <2>1, <2>2 DEF Raised
<1> DEFINE T == {j \in Nat : j <= a => AtHeight(f[j], j)}
<1>7. 0 \in T
    BY <1>1, LeavesHeight
<1>8. ASSUME NEW j \in Nat, j \in T PROVE j + 1 \in T
  <2> SUFFICES ASSUME j + 1 <= a PROVE AtHeight(f[j + 1], j + 1)
      OBVIOUS
  <2>1. j \in 0..(a - 1) /\ j <= a
      BY <1>5
  <2>2. AtHeight(f[j], j) /\ Len(f[j]) # 1 /\ f[j + 1] = Halved(f[j])
      BY <1>6, <1>8, <2>1
  <2>3. QED
      BY <2>2, HalvedHeight
<1>9. Nat \subseteq T
    BY <1>7, <1>8, NatsByInduction
<1>10. \A j \in 0..a : AtHeight(f[j], j)
    BY <1>5, <1>9
<1> DEFINE U == {d \in Nat : a + d <= n => f[a + d] = f[a]}
<1>11. 0 \in U
    BY <1>5
<1>12. ASSUME NEW d \in Nat, d \in U PROVE d + 1 \in U
  <2> SUFFICES ASSUME a + (d + 1) <= n PROVE f[a + (d + 1)] = f[a]
      OBVIOUS
  <2>1. a + d \in 0..(n - 1) /\ a + d <= n /\ a + (d + 1) = (a + d) + 1
      BY <1>5
  <2>2. f[a + d] = f[a]
      BY <1>12, <2>1
  <2>3. f[(a + d) + 1] = Raised(f[a])
      BY <1>1, <2>1, <2>2
  <2>4. QED
      BY <1>5, <2>1, <2>3 DEF Raised
<1>13. Nat \subseteq U
    BY <1>11, <1>12, NatsByInduction
<1>14. f[n] = f[a]
  <2>1. n - a \in Nat /\ a + (n - a) = n /\ n <= n
      BY <1>5
  <2>2. n - a \in U
      BY <1>13, <2>1
  <2>3. QED
      BY <2>1, <2>2
<1>15. TreeHeight(entries, a)
    BY <1>5, <1>6, <1>10, <1>14 DEF TreeHeight, f
<1>16. QED
    BY <1>15

\* compute_merkle_root, of hashes that do not collide: lists with the same root
\* are the same, whatever their lengths.
LEMMA MerkleInjective ==
    ASSUME NEW S, NEW e \in Seq(S), NEW g \in Seq(S), e # <<>>, g # <<>>,
           MerkleRoot(e) = MerkleRoot(g)
    PROVE  e = g
<1> DEFINE f == Layers(e)
           h == Layers(g)
<1>1. Len(e) \in Nat \ {0} /\ Len(g) \in Nat \ {0}
    BY LenProperties, EmptySeq
<1>2. PICK a : TreeHeight(e, a)
    BY <1>1, HeightExists
<1>3. PICK b : TreeHeight(g, b)
    BY <1>1, HeightExists
<1>4. f[Len(e)][1] = h[Len(g)][1]
    BY DEF MerkleRoot
<1>5. f[0] = Leaves(e) /\ h[0] = Leaves(g)
    BY <1>1, LayersAre
<1>6. /\ a \in 0..Len(e) /\ \A j \in 0..a : AtHeight(f[j], j)
      /\ \A j \in 0..(a - 1) : Len(f[j]) # 1 /\ f[j + 1] = Halved(f[j])
      /\ Len(f[a]) = 1 /\ f[Len(e)] = f[a]
    BY <1>2 DEF TreeHeight
<1>7. /\ b \in 0..Len(g) /\ \A j \in 0..b : AtHeight(h[j], j)
      /\ \A j \in 0..(b - 1) : Len(h[j]) # 1 /\ h[j + 1] = Halved(h[j])
      /\ Len(h[b]) = 1 /\ h[Len(g)] = h[b]
    BY <1>3 DEF TreeHeight
<1> HIDE DEF f, h
<1>8. a \in Nat /\ b \in Nat
    BY <1>1, <1>6, <1>7
<1>9. a \in 0..a /\ b \in 0..b
    BY <1>8
<1>10. AtHeight(f[a], a) /\ AtHeight(h[b], b)
    BY <1>6, <1>7, <1>9
<1>11. f[a][1] = h[b][1]
    BY <1>4, <1>6, <1>7
<1>12. a = b
  <2>1. IsDepth(f[a][1], a) /\ IsDepth(h[b][1], b)
      BY <1>10 DEF AtHeight
  <2>2. QED
      BY <1>8, <1>11, <2>1, DepthUnique
<1>13. f[a] = h[a]
  <2>1. f[a] = [i \in 1..1 |-> f[a][i]] /\ h[b] = [i \in 1..1 |-> h[b][i]]
    <3>1. IsLayer(f[a]) /\ Len(f[a]) = 1 /\ IsLayer(h[b]) /\ Len(h[b]) = 1
        BY <1>6, <1>7, <1>10 DEF AtHeight
    <3>2. QED
        BY <3>1 DEF IsLayer
  <2>2. \A i \in 1..1 : i = 1
      OBVIOUS
  <2>3. QED
      BY <1>11, <1>12, <2>1, <2>2
<1> DEFINE T == {d \in Nat : d <= a => f[a - d] = h[a - d]}
<1>14. 0 \in T
  <2>1. a - 0 = a
      BY <1>8
  <2>2. QED
      BY <1>13, <2>1
<1>15. ASSUME NEW d \in Nat, d \in T PROVE d + 1 \in T
  <2> SUFFICES ASSUME d + 1 <= a PROVE f[a - (d + 1)] = h[a - (d + 1)]
      OBVIOUS
  <2> DEFINE j == a - (d + 1)
  <2>1. j \in Nat /\ j \in 0..(a - 1) /\ j \in 0..a /\ j + 1 = a - d /\ d <= a
      BY <1>8
  <2> HIDE DEF j
  <2>2. f[j + 1] = h[j + 1]
      BY <1>15, <2>1
  <2>3. AtHeight(f[j], j) /\ Len(f[j]) # 1 /\ f[j + 1] = Halved(f[j])
      BY <1>6, <2>1
  <2>4. AtHeight(h[j], j) /\ Len(h[j]) # 1 /\ h[j + 1] = Halved(h[j])
      BY <1>7, <1>12, <2>1
  <2>5. f[j] = h[j]
      BY <2>1, <2>2, <2>3, <2>4, HalvedInjective
  <2>6. QED
      BY <2>5 DEF j
<1>16. Nat \subseteq T
    BY <1>14, <1>15, NatsByInduction
<1>17. f[0] = h[0]
  <2>1. a \in T /\ a <= a /\ a - a = 0
      BY <1>8, <1>16
  <2>2. QED
      BY <2>1
<1>18. Len(e) = Len(g)
    BY <1>1, <1>5, <1>17, LeavesHeight
<1>19. ASSUME NEW i \in 1..Len(e) PROVE e[i] = g[i]
  <2>1. f[0][i] = <<"leaf", e[i]>>
      BY <1>1, <1>5, LeavesHeight
  <2>2. h[0][i] = <<"leaf", g[i]>>
      BY <1>1, <1>5, <1>18, LeavesHeight
  <2>3. <<"leaf", e[i]>> = <<"leaf", g[i]>>
      BY <1>17, <2>1, <2>2
  <2>4. QED
      BY <2>3
<1>20. QED
    BY <1>18, <1>19, SeqEqual

-----------------------------------------------------------------------------
(* The entries determine what was recorded *)

Entry == {"sha1", "sha256", "version", "uri", "fetch"} \X (Nat \union Uris)

LEMMA ConcatAt ==
    ASSUME NEW S, NEW s \in Seq(S), NEW t \in Seq(S)
    PROVE  /\ s \o t \in Seq(S) /\ Len(s \o t) = Len(s) + Len(t)
           /\ Len(s) \in Nat /\ Len(t) \in Nat
           /\ \A i \in 1..Len(s) : (s \o t)[i] = s[i]
           /\ \A i \in 1..Len(t) : (s \o t)[Len(s) + i] = t[i]
<1>1. /\ s \o t \in Seq(S) /\ Len(s \o t) = Len(s) + Len(t)
      /\ \A i \in 1..(Len(s) + Len(t)) :
            (s \o t)[i] = IF i <= Len(s) THEN s[i] ELSE t[i - Len(s)]
    BY ConcatProperties
<1>2. Len(s) \in Nat /\ Len(t) \in Nat
    BY LenProperties
<1>3. \A i \in 1..Len(s) : (s \o t)[i] = s[i]
    BY <1>1, <1>2
<1>4. ASSUME NEW i \in 1..Len(t) PROVE (s \o t)[Len(s) + i] = t[i]
  <2>1. /\ Len(s) + i \in 1..(Len(s) + Len(t)) /\ ~(Len(s) + i <= Len(s))
        /\ Len(s) + i - Len(s) = i
      BY <1>2
  <2>2. QED
      BY <1>1, <2>1
<1>5. QED
    BY <1>1, <1>2, <1>3, <1>4

\* Four lists one after the other.
LEMMA ConcatFour ==
    ASSUME NEW S, NEW s \in Seq(S), NEW t \in Seq(S), NEW u \in Seq(S), NEW v \in Seq(S),
           NEW e, e = s \o t \o u \o v
    PROVE  /\ e \in Seq(S) /\ Len(e) = Len(s) + Len(t) + Len(u) + Len(v)
           /\ \A i \in 1..Len(s) : e[i] = s[i]
           /\ \A i \in 1..Len(t) : e[Len(s) + i] = t[i]
           /\ \A i \in 1..Len(u) : e[Len(s) + Len(t) + i] = u[i]
           /\ \A i \in 1..Len(v) : e[Len(s) + Len(t) + Len(u) + i] = v[i]
<1> DEFINE x == s \o t
           y == x \o u
<1>1. /\ x \in Seq(S) /\ Len(x) = Len(s) + Len(t) /\ Len(s) \in Nat /\ Len(t) \in Nat
      /\ \A i \in 1..Len(s) : x[i] = s[i]
      /\ \A i \in 1..Len(t) : x[Len(s) + i] = t[i]
    BY ConcatAt
<1> HIDE DEF x
<1>2. /\ y \in Seq(S) /\ Len(y) = Len(x) + Len(u) /\ Len(u) \in Nat
      /\ \A i \in 1..Len(x) : y[i] = x[i]
      /\ \A i \in 1..Len(u) : y[Len(x) + i] = u[i]
  <2>1. x \in Seq(S)
      BY <1>1
  <2>2. QED
      BY <2>1, ConcatAt
<1>3. e = y \o v
    BY DEF x
<1> HIDE DEF y
<1>4. /\ e \in Seq(S) /\ Len(e) = Len(y) + Len(v) /\ Len(v) \in Nat
      /\ \A i \in 1..Len(y) : e[i] = y[i]
      /\ \A i \in 1..Len(v) : e[Len(y) + i] = v[i]
  <2>1. y \in Seq(S)
      BY <1>2
  <2>2. QED
      BY <2>1, <1>3, ConcatAt
<1>5. ASSUME NEW i \in 1..Len(s) PROVE e[i] = s[i]
  <2>1. i \in 1..Len(x) /\ i \in 1..Len(y)
      BY <1>1, <1>2
  <2>2. QED
      BY <1>1, <1>2, <1>4, <2>1
<1>6. ASSUME NEW i \in 1..Len(t) PROVE e[Len(s) + i] = t[i]
  <2>1. Len(s) + i \in 1..Len(x) /\ Len(s) + i \in 1..Len(y)
      BY <1>1, <1>2
  <2>2. QED
      BY <1>1, <1>2, <1>4, <2>1
<1>7. ASSUME NEW i \in 1..Len(u) PROVE e[Len(s) + Len(t) + i] = u[i]
  <2>1. Len(x) + i \in 1..Len(y)
      BY <1>1, <1>2
  <2>2. e[Len(x) + i] = u[i]
      BY <1>2, <1>4, <2>1
  <2>3. QED
      BY <1>1, <2>2
<1>8. ASSUME NEW i \in 1..Len(v) PROVE e[Len(s) + Len(t) + Len(u) + i] = v[i]
  <2>1. Len(y) = Len(s) + Len(t) + Len(u)
      BY <1>1, <1>2
  <2>2. QED
      BY <1>4, <2>1
<1>9. Len(e) = Len(s) + Len(t) + Len(u) + Len(v)
    BY <1>1, <1>2, <1>4
<1>10. QED
    BY <1>4, <1>5, <1>6, <1>7, <1>8, <1>9

LEMMA InputFacts ==
    ASSUME NEW p \in Project
    PROVE  /\ p.commit \in Nat /\ p.tree \in Nat /\ p.lockfile \in Nat
           /\ p.tools \in Seq(Tool) /\ Len(p.tools) \in Nat
           /\ \A i \in 1..Len(p.tools) :
                 /\ p.tools[i] \in Tool
                 /\ p.tools[i].hash \in Nat /\ p.tools[i].version \in Nat
<1>1. p.commit \in Nat /\ p.tree \in Nat /\ p.lockfile \in Nat /\ p.tools \in Seq(Tool)
    BY DEF Project
<1>2. Len(p.tools) \in Nat /\ \A i \in 1..Len(p.tools) : p.tools[i] \in Tool
    BY <1>1, LenProperties, ElementOfSeq
<1>3. \A x \in Tool : x.hash \in Nat /\ x.version \in Nat
    BY DEF Tool
<1>4. QED
    BY <1>1, <1>2, <1>3

LEMMA HalfOf ==
    ASSUME NEW n \in Nat, NEW k \in 1..(2 * n)
    PROVE  IF k % 2 = 1 THEN (k + 1) \div 2 \in 1..n ELSE k \div 2 \in 1..n
OBVIOUS

LEMMA OddEven ==
    ASSUME NEW n \in Nat, NEW i \in 1..n
    PROVE  /\ 2 * i - 1 \in 1..(2 * n) /\ (2 * i - 1) % 2 = 1 /\ (2 * i - 1 + 1) \div 2 = i
           /\ 2 * i \in 1..(2 * n) /\ (2 * i) % 2 # 1 /\ (2 * i) \div 2 = i
OBVIOUS

LEMMA ToolFacts ==
    ASSUME NEW p \in Project
    PROVE  /\ ToolEntries(p) \in Seq(Entry) /\ Len(ToolEntries(p)) = 2 * Len(p.tools)
           /\ \A i \in 1..Len(p.tools) :
                 /\ ToolEntries(p)[2 * i - 1] = <<"sha256", p.tools[i].hash>>
                 /\ ToolEntries(p)[2 * i] = <<"version", p.tools[i].version>>
<1> DEFINE n == Len(p.tools)
           T == ToolEntries(p)
<1>1. n \in Nat /\ 2 * n \in Nat
    BY InputFacts
<1>2. T = [k \in 1..(2 * n) |->
              IF k % 2 = 1 THEN <<"sha256", p.tools[(k + 1) \div 2].hash>>
              ELSE <<"version", p.tools[k \div 2].version>>]
    BY DEF ToolEntries
<1>3. ASSUME NEW k \in 1..(2 * n)
      PROVE  (IF k % 2 = 1 THEN <<"sha256", p.tools[(k + 1) \div 2].hash>>
              ELSE <<"version", p.tools[k \div 2].version>>) \in Entry
  <2>1. CASE k % 2 = 1
    <3>1. (k + 1) \div 2 \in 1..n
        BY <1>1, <2>1, HalfOf
    <3>2. p.tools[(k + 1) \div 2].hash \in Nat
        BY <3>1, InputFacts
    <3>3. QED
        BY <2>1, <3>2 DEF Entry
  <2>2. CASE k % 2 # 1
    <3>1. k \div 2 \in 1..n
        BY <1>1, <2>2, HalfOf
    <3>2. p.tools[k \div 2].version \in Nat
        BY <3>1, InputFacts
    <3>3. QED
        BY <2>2, <3>2 DEF Entry
  <2>3. QED
      BY <2>1, <2>2
<1>4. T \in [1..(2 * n) -> Entry]
    BY <1>2, <1>3
<1>5. T \in Seq(Entry)
    BY <1>1, <1>4, FunctionIsSeq
<1>6. Len(T) = 2 * n
    BY <1>1, <1>4, <1>5, LenProperties
<1>7. ASSUME NEW i \in 1..n
      PROVE  /\ T[2 * i - 1] = <<"sha256", p.tools[i].hash>>
             /\ T[2 * i] = <<"version", p.tools[i].version>>
  <2>1. /\ 2 * i - 1 \in 1..(2 * n) /\ (2 * i - 1) % 2 = 1 /\ (2 * i - 1 + 1) \div 2 = i
        /\ 2 * i \in 1..(2 * n) /\ (2 * i) % 2 # 1 /\ (2 * i) \div 2 = i
      BY <1>1, OddEven
  <2>2. \A k \in 1..(2 * n) :
            T[k] = IF k % 2 = 1 THEN <<"sha256", p.tools[(k + 1) \div 2].hash>>
                   ELSE <<"version", p.tools[k \div 2].version>>
      BY <1>2
  <2> HIDE DEF T
  <2>3. QED
      BY <2>1, <2>2
<1>8. QED
    BY <1>5, <1>6, <1>7

LEMMA EachFacts ==
    ASSUME NEW kind \in {"uri", "fetch"}, NEW ds \in Seq(Uris),
           NEW e, e = [k \in 1..Len(ds) |-> <<kind, ds[k]>>]
    PROVE  /\ e \in Seq(Entry) /\ Len(e) = Len(ds)
           /\ \A k \in 1..Len(ds) : e[k] = <<kind, ds[k]>>
<1>1. Len(ds) \in Nat /\ \A k \in 1..Len(ds) : ds[k] \in Uris
    BY DepsFacts
<1>2. \A k \in 1..Len(ds) : <<kind, ds[k]>> \in Entry
    BY <1>1 DEF Entry
<1>3. e \in [1..Len(ds) -> Entry]
    BY <1>2
<1>4. e \in Seq(Entry)
    BY <1>1, <1>3, FunctionIsSeq
<1>5. Len(e) = Len(ds)
    BY <1>1, <1>3, <1>4, LenProperties
<1>6. QED
    BY <1>4, <1>5

\* What is where in the entries of cargo and pnpm.
UriShape(p, ds, e) ==
    /\ e \in Seq(Entry) /\ Len(e) = 3 + 2 * Len(p.tools) + Len(ds)
    /\ e[1] = <<"sha1", p.commit>> /\ e[2] = <<"sha1", p.tree>>
    /\ e[3 + 2 * Len(p.tools)] = <<"sha256", p.lockfile>>
    /\ \A k \in 1..(2 * Len(p.tools)) : e[2 + k] = ToolEntries(p)[k]
    /\ \A k \in 1..Len(ds) : e[3 + 2 * Len(p.tools) + k] = <<"uri", ds[k]>>

LEMMA UriEntries ==
    ASSUME NEW p \in Project, p.driver # "nix", NEW ds \in Seq(Uris),
           NEW e, e = MerkleEntries(p, ds)
    PROVE  UriShape(p, ds, e)
<1> DEFINE git == << <<"sha1", p.commit>>, <<"sha1", p.tree>> >>
           lock == << <<"sha256", p.lockfile>> >>
           each == [k \in 1..Len(ds) |-> <<"uri", ds[k]>>]
           tools == ToolEntries(p)
<1>1. /\ git \in Seq(Entry) /\ Len(git) = 2
      /\ git[1] = <<"sha1", p.commit>> /\ git[2] = <<"sha1", p.tree>>
      /\ lock \in Seq(Entry) /\ Len(lock) = 1 /\ lock[1] = <<"sha256", p.lockfile>>
  <2>1. /\ <<"sha1", p.commit>> \in Entry /\ <<"sha1", p.tree>> \in Entry
        /\ <<"sha256", p.lockfile>> \in Entry
      BY InputFacts DEF Entry
  <2>2. QED
      BY <2>1
<1>2. /\ each \in Seq(Entry) /\ Len(each) = Len(ds)
      /\ \A k \in 1..Len(ds) : each[k] = <<"uri", ds[k]>>
    BY EachFacts
<1>3. e = git \o tools \o lock \o each
    BY DEF MerkleEntries
<1>4. tools \in Seq(Entry) /\ Len(tools) = 2 * Len(p.tools) /\ Len(p.tools) \in Nat
    BY ToolFacts, InputFacts
<1> HIDE DEF git, lock, each, tools
<1>5. /\ e \in Seq(Entry) /\ Len(e) = Len(git) + Len(tools) + Len(lock) + Len(each)
      /\ \A i \in 1..Len(git) : e[i] = git[i]
      /\ \A i \in 1..Len(tools) : e[Len(git) + i] = tools[i]
      /\ \A i \in 1..Len(lock) : e[Len(git) + Len(tools) + i] = lock[i]
      /\ \A i \in 1..Len(each) : e[Len(git) + Len(tools) + Len(lock) + i] = each[i]
  <2>1. git \in Seq(Entry) /\ lock \in Seq(Entry) /\ each \in Seq(Entry) /\ tools \in Seq(Entry)
      BY <1>1, <1>2, <1>4
  <2>2. QED
      BY <1>3, <2>1, ConcatFour
<1>6. Len(ds) \in Nat
    BY DepsFacts
<1>7. /\ e[1] = <<"sha1", p.commit>> /\ e[2] = <<"sha1", p.tree>>
      /\ e[3 + 2 * Len(p.tools)] = <<"sha256", p.lockfile>>
  <2>1. 1 \in 1..2 /\ 2 \in 1..2 /\ 1 \in 1..1
      OBVIOUS
  <2>2. e[1] = git[1] /\ e[2] = git[2]
      BY <1>1, <1>5, <2>1
  <2>3. e[Len(git) + Len(tools) + 1] = lock[1]
      BY <1>1, <1>5, <2>1
  <2>4. Len(git) + Len(tools) + 1 = 3 + 2 * Len(p.tools)
      BY <1>1, <1>4
  <2>5. QED
      BY <1>1, <2>2, <2>3, <2>4
<1>8. Len(e) = 3 + 2 * Len(p.tools) + Len(ds)
    BY <1>1, <1>2, <1>4, <1>5, <1>6
<1>9. \A k \in 1..(2 * Len(p.tools)) : e[2 + k] = tools[k]
    BY <1>1, <1>4, <1>5
<1>10. \A k \in 1..Len(ds) : e[3 + 2 * Len(p.tools) + k] = <<"uri", ds[k]>>
  <2>1. Len(git) + Len(tools) + Len(lock) = 3 + 2 * Len(p.tools)
      BY <1>1, <1>4
  <2>2. QED
      BY <1>2, <1>5, <2>1
<1>11. QED
    BY <1>5, <1>7, <1>8, <1>9, <1>10 DEF tools, UriShape

\* What is where in the entries of nix.
FetchShape(p, ds, e) ==
    /\ e \in Seq(Entry) /\ Len(e) = 3 + Len(ds) + 2 * Len(p.tools)
    /\ e[1] = <<"sha1", p.commit>> /\ e[2] = <<"sha1", p.tree>>
    /\ e[3] = <<"sha256", p.lockfile>>
    /\ \A k \in 1..Len(ds) : e[3 + k] = <<"fetch", ds[k]>>
    /\ \A k \in 1..(2 * Len(p.tools)) : e[3 + Len(ds) + k] = ToolEntries(p)[k]

LEMMA FetchEntries ==
    ASSUME NEW p \in Project, p.driver = "nix", NEW ds \in Seq(Uris),
           NEW e, e = MerkleEntries(p, ds)
    PROVE  FetchShape(p, ds, e)
<1> DEFINE git == << <<"sha1", p.commit>>, <<"sha1", p.tree>> >>
           lock == << <<"sha256", p.lockfile>> >>
           each == [k \in 1..Len(ds) |-> <<"fetch", ds[k]>>]
           tools == ToolEntries(p)
<1>1. /\ git \in Seq(Entry) /\ Len(git) = 2
      /\ git[1] = <<"sha1", p.commit>> /\ git[2] = <<"sha1", p.tree>>
      /\ lock \in Seq(Entry) /\ Len(lock) = 1 /\ lock[1] = <<"sha256", p.lockfile>>
  <2>1. /\ <<"sha1", p.commit>> \in Entry /\ <<"sha1", p.tree>> \in Entry
        /\ <<"sha256", p.lockfile>> \in Entry
      BY InputFacts DEF Entry
  <2>2. QED
      BY <2>1
<1>2. /\ each \in Seq(Entry) /\ Len(each) = Len(ds)
      /\ \A k \in 1..Len(ds) : each[k] = <<"fetch", ds[k]>>
    BY EachFacts
<1>3. e = git \o lock \o each \o tools
    BY DEF MerkleEntries
<1>4. tools \in Seq(Entry) /\ Len(tools) = 2 * Len(p.tools) /\ Len(p.tools) \in Nat
    BY ToolFacts, InputFacts
<1> HIDE DEF git, lock, each, tools
<1>5. /\ e \in Seq(Entry) /\ Len(e) = Len(git) + Len(lock) + Len(each) + Len(tools)
      /\ \A i \in 1..Len(git) : e[i] = git[i]
      /\ \A i \in 1..Len(lock) : e[Len(git) + i] = lock[i]
      /\ \A i \in 1..Len(each) : e[Len(git) + Len(lock) + i] = each[i]
      /\ \A i \in 1..Len(tools) : e[Len(git) + Len(lock) + Len(each) + i] = tools[i]
  <2>1. git \in Seq(Entry) /\ lock \in Seq(Entry) /\ each \in Seq(Entry) /\ tools \in Seq(Entry)
      BY <1>1, <1>2, <1>4
  <2>2. QED
      BY <1>3, <2>1, ConcatFour
<1>6. Len(ds) \in Nat
    BY DepsFacts
<1>7. /\ e[1] = <<"sha1", p.commit>> /\ e[2] = <<"sha1", p.tree>>
      /\ e[3] = <<"sha256", p.lockfile>>
  <2>1. 1 \in 1..2 /\ 2 \in 1..2 /\ 1 \in 1..1
      OBVIOUS
  <2>2. e[1] = git[1] /\ e[2] = git[2]
      BY <1>1, <1>5, <2>1
  <2>3. e[Len(git) + 1] = lock[1]
      BY <1>1, <1>5, <2>1
  <2>4. Len(git) + 1 = 3
      BY <1>1
  <2>5. QED
      BY <1>1, <2>2, <2>3, <2>4
<1>8. Len(e) = 3 + Len(ds) + 2 * Len(p.tools)
    BY <1>1, <1>2, <1>4, <1>5, <1>6
<1>9. \A k \in 1..Len(ds) : e[3 + k] = <<"fetch", ds[k]>>
  <2>1. Len(git) + Len(lock) = 3
      BY <1>1
  <2>2. QED
      BY <1>2, <1>5, <2>1
<1>10. \A k \in 1..(2 * Len(p.tools)) : e[3 + Len(ds) + k] = tools[k]
  <2>1. Len(git) + Len(lock) + Len(each) = 3 + Len(ds)
      BY <1>1, <1>2, <1>6
  <2>2. QED
      BY <1>4, <1>5, <2>1
<1>11. QED
    BY <1>5, <1>7, <1>8, <1>9, <1>10 DEF tools, FetchShape

LEMMA EntriesListed ==
    ASSUME NEW p \in Project, NEW ds \in Seq(Uris), NEW e, e = MerkleEntries(p, ds)
    PROVE  e \in Seq(Entry) /\ e # <<>>
<1>1. Len(p.tools) \in Nat /\ Len(ds) \in Nat
    BY InputFacts, DepsFacts
<1>2. \A a, b \in Nat : 3 + a + 2 * b # 0 /\ 3 + 2 * b + a # 0
    OBVIOUS
<1>3. e \in Seq(Entry) /\ Len(e) # 0
  <2>1. CASE p.driver = "nix"
    <3>1. /\ e \in Seq(Entry)
          /\ Len(e) = 3 + Len(ds) + 2 * Len(p.tools)
      <4>1. FetchShape(p, ds, e)
          BY <2>1, FetchEntries
      <4>2. QED
          BY <4>1 DEF FetchShape
    <3>2. 3 + Len(ds) + 2 * Len(p.tools) # 0
        BY <1>1, <1>2, Zenon
    <3>3. QED
        BY <3>1, <3>2
  <2>2. CASE p.driver # "nix"
    <3>1. /\ e \in Seq(Entry)
          /\ Len(e) = 3 + 2 * Len(p.tools) + Len(ds)
      <4>1. UriShape(p, ds, e)
          BY <2>2, UriEntries
      <4>2. QED
          BY <4>1 DEF UriShape
    <3>2. 3 + 2 * Len(p.tools) + Len(ds) # 0
        BY <1>1, <1>2, Zenon
    <3>3. QED
        BY <3>1, <3>2
  <2>3. QED
      BY <2>1, <2>2
<1>4. QED
    BY <1>3, EmptySeq

\* As many tools: where one list has a version, the other would have a uri.
LEMMA UriToolsNotMore ==
    ASSUME NEW p \in Project, NEW q \in Project, p.driver # "nix", q.driver # "nix",
           NEW ds \in Seq(Uris), NEW es \in Seq(Uris),
           MerkleEntries(p, ds) = MerkleEntries(q, es)
    PROVE  ~(Len(p.tools) < Len(q.tools))
<1> SUFFICES ASSUME Len(p.tools) < Len(q.tools) PROVE FALSE
    OBVIOUS
<1> DEFINE e == MerkleEntries(p, ds)
           t == Len(p.tools)
           u == Len(q.tools)
<1>0. e = MerkleEntries(p, ds) /\ e = MerkleEntries(q, es)
    OBVIOUS
<1> HIDE DEF e
<1>1. /\ Len(e) = 3 + 2 * t + Len(ds)
      /\ \A k \in 1..Len(ds) : e[3 + 2 * t + k] = <<"uri", ds[k]>>
  <2>1. UriShape(p, ds, e)
      BY <1>0, UriEntries
  <2>2. QED
      BY <2>1 DEF UriShape
<1>2. /\ Len(e) = 3 + 2 * u + Len(es)
      /\ \A k \in 1..(2 * u) : e[2 + k] = ToolEntries(q)[k]
  <2>1. UriShape(q, es, e)
      BY <1>0, UriEntries
  <2>2. QED
      BY <2>1 DEF UriShape
<1>3. t \in Nat /\ u \in Nat /\ Len(ds) \in Nat /\ Len(es) \in Nat
    BY InputFacts, DepsFacts
<1>4. t + 1 \in 1..u
    BY <1>3
<1>5. ToolEntries(q)[2 * (t + 1)] = <<"version", q.tools[t + 1].version>>
    BY <1>4, ToolFacts
<1>6. 1 \in 1..Len(ds) /\ 2 * (t + 1) \in 1..(2 * u)
  <2>1. 3 + 2 * t + Len(ds) = 3 + 2 * u + Len(es)
      BY <1>1, <1>2
  <2>2. QED
      BY <1>3, <2>1
<1>7. e[3 + 2 * t + 1] = <<"uri", ds[1]>>
    BY <1>1, <1>6
<1>8. e[2 + 2 * (t + 1)] = <<"version", q.tools[t + 1].version>>
    BY <1>2, <1>5, <1>6
<1>9. 3 + 2 * t + 1 = 2 + 2 * (t + 1)
    BY <1>3
<1>10. <<"uri", ds[1]>> = <<"version", q.tools[t + 1].version>>
    BY <1>7, <1>8, <1>9
<1>11. QED
    BY <1>10

LEMMA FetchCounts ==
    ASSUME NEW t \in Nat, NEW u \in Nat, NEW d \in Nat, NEW e \in Nat,
           3 + d + 2 * t = 3 + e + 2 * u
    PROVE  /\ d = e => t = u
           /\ d < e => 1 \in 1..t /\ 1 \in 1..(2 * t) /\ d + 1 \in 1..e
OBVIOUS

\* As many fetches: where one list has a fetch, the other would have a hash.
LEMMA FetchesNotMore ==
    ASSUME NEW p \in Project, NEW q \in Project, p.driver = "nix", q.driver = "nix",
           NEW ds \in Seq(Uris), NEW es \in Seq(Uris),
           MerkleEntries(p, ds) = MerkleEntries(q, es)
    PROVE  ~(Len(ds) < Len(es))
<1> SUFFICES ASSUME Len(ds) < Len(es) PROVE FALSE
    OBVIOUS
<1> DEFINE e == MerkleEntries(p, ds)
           t == Len(p.tools)
           u == Len(q.tools)
           d == Len(ds)
<1>0. e = MerkleEntries(p, ds) /\ e = MerkleEntries(q, es)
    OBVIOUS
<1> HIDE DEF e
<1>1. /\ Len(e) = 3 + d + 2 * t
      /\ \A k \in 1..(2 * t) : e[3 + d + k] = ToolEntries(p)[k]
  <2>1. FetchShape(p, ds, e)
      BY <1>0, FetchEntries
  <2>2. QED
      BY <2>1 DEF FetchShape
<1>2. /\ Len(e) = 3 + Len(es) + 2 * u
      /\ \A k \in 1..Len(es) : e[3 + k] = <<"fetch", es[k]>>
  <2>1. FetchShape(q, es, e)
      BY <1>0, FetchEntries
  <2>2. QED
      BY <2>1 DEF FetchShape
<1>3. t \in Nat /\ u \in Nat /\ d \in Nat /\ Len(es) \in Nat
    BY InputFacts, DepsFacts
<1>4. d + 1 \in 1..Len(es) /\ 1 \in 1..t /\ 1 \in 1..(2 * t)
  <2>1. 3 + d + 2 * t = 3 + Len(es) + 2 * u
      BY <1>1, <1>2
  <2>2. QED
      BY <1>3, <2>1, FetchCounts
<1>5. ToolEntries(p)[2 * 1 - 1] = <<"sha256", p.tools[1].hash>>
    BY <1>4, ToolFacts
<1>6. e[3 + d + 1] = <<"sha256", p.tools[1].hash>>
  <2>1. e[3 + d + 1] = ToolEntries(p)[1]
      BY <1>1, <1>4, Zenon
  <2>2. 2 * 1 - 1 = 1
      OBVIOUS
  <2>3. QED
      BY <1>5, <2>1, <2>2
<1>7. e[3 + (d + 1)] = <<"fetch", es[d + 1]>>
    BY <1>2, <1>4
<1>8. 3 + d + 1 = 3 + (d + 1)
    BY <1>3
<1>9. <<"sha256", p.tools[1].hash>> = <<"fetch", es[d + 1]>>
    BY <1>6, <1>7, <1>8
<1>10. QED
    BY <1>9

LEMMA ToolsSame ==
    ASSUME NEW p \in Project, NEW q \in Project, Len(p.tools) = Len(q.tools),
           \A k \in 1..(2 * Len(p.tools)) : ToolEntries(p)[k] = ToolEntries(q)[k]
    PROVE  p.tools = q.tools
<1> DEFINE n == Len(p.tools)
<1>1. n \in Nat /\ p.tools \in Seq(Tool) /\ q.tools \in Seq(Tool)
    BY InputFacts
<1>2. ASSUME NEW i \in 1..n PROVE p.tools[i] = q.tools[i]
  <2>1. 2 * i - 1 \in 1..(2 * n) /\ 2 * i \in 1..(2 * n)
      BY <1>1
  <2>2. /\ ToolEntries(p)[2 * i - 1] = ToolEntries(q)[2 * i - 1]
        /\ ToolEntries(p)[2 * i] = ToolEntries(q)[2 * i]
      BY <2>1
  <2>3. /\ ToolEntries(p)[2 * i - 1] = <<"sha256", p.tools[i].hash>>
        /\ ToolEntries(p)[2 * i] = <<"version", p.tools[i].version>>
      BY ToolFacts
  <2>4. /\ ToolEntries(q)[2 * i - 1] = <<"sha256", q.tools[i].hash>>
        /\ ToolEntries(q)[2 * i] = <<"version", q.tools[i].version>>
      BY ToolFacts
  <2>5. /\ <<"sha256", p.tools[i].hash>> = <<"sha256", q.tools[i].hash>>
        /\ <<"version", p.tools[i].version>> = <<"version", q.tools[i].version>>
      BY <2>2, <2>3, <2>4
  <2>6. p.tools[i].hash = q.tools[i].hash /\ p.tools[i].version = q.tools[i].version
      BY <2>5
  <2>7. p.tools[i] \in Tool /\ q.tools[i] \in Tool
      BY InputFacts
  <2>8. QED
      BY <2>6, <2>7 DEF Tool
<1>3. QED
    BY <1>1, <1>2, SeqEqual

\* Where nix lists a fetch, or the hash of its tool, the others list the version of
\* theirs.
LEMMA EntriesTellNix ==
    ASSUME NEW p \in Project, NEW q \in Project, p.driver = "nix", q.driver # "nix",
           p.tools # <<>>, q.tools # <<>>, NEW ds \in Seq(Uris), NEW es \in Seq(Uris)
    PROVE  MerkleEntries(p, ds) # MerkleEntries(q, es)
<1> SUFFICES ASSUME MerkleEntries(p, ds) = MerkleEntries(q, es) PROVE FALSE
    OBVIOUS
<1> DEFINE e == MerkleEntries(p, ds)
           t == Len(p.tools)
           u == Len(q.tools)
<1>0. e = MerkleEntries(p, ds) /\ e = MerkleEntries(q, es)
    OBVIOUS
<1> HIDE DEF e
<1>1. FetchShape(p, ds, e) /\ UriShape(q, es, e)
    BY <1>0, FetchEntries, UriEntries
<1>2. t \in Nat /\ u \in Nat /\ t # 0 /\ u # 0 /\ Len(ds) \in Nat
    BY InputFacts, DepsFacts, EmptySeq
<1>3. 1 \in 1..t /\ 1 \in 1..u /\ 1 \in 1..(2 * t) /\ 2 \in 1..(2 * u)
    BY <1>2
<1>4. e[4] = <<"version", q.tools[1].version>>
  <2>1. ToolEntries(q)[2 * 1] = <<"version", q.tools[1].version>>
      BY <1>3, ToolFacts
  <2>2. e[2 + 2] = ToolEntries(q)[2]
      BY <1>1, <1>3 DEF UriShape
  <2>3. 2 + 2 = 4 /\ 2 * 1 = 2
      OBVIOUS
  <2>4. QED
      BY <2>1, <2>2, <2>3
<1>5. CASE Len(ds) # 0
  <2>1. 1 \in 1..Len(ds)
      BY <1>2, <1>5
  <2>2. e[3 + 1] = <<"fetch", ds[1]>>
      BY <1>1, <2>1 DEF FetchShape
  <2>3. <<"fetch", ds[1]>> = <<"version", q.tools[1].version>>
      BY <1>4, <2>2
  <2>4. QED
      BY <2>3
<1>6. CASE Len(ds) = 0
  <2>1. ToolEntries(p)[2 * 1 - 1] = <<"sha256", p.tools[1].hash>>
      BY <1>3, ToolFacts
  <2>2. e[3 + Len(ds) + 1] = ToolEntries(p)[1]
      BY <1>1, <1>3 DEF FetchShape
  <2>3. 3 + Len(ds) + 1 = 4 /\ 2 * 1 - 1 = 1
      BY <1>6
  <2>4. <<"sha256", p.tools[1].hash>> = <<"version", q.tools[1].version>>
      BY <1>4, <2>1, <2>2, <2>3
  <2>5. QED
      BY <2>4
<1>7. QED
    BY <1>5, <1>6

\* merkle_entries: the entries tell everything apart that is recorded.
LEMMA EntriesSame ==
    ASSUME NEW p \in Project, NEW q \in Project, p.driver = "nix" <=> q.driver = "nix",
           NEW ds \in Seq(Uris), NEW es \in Seq(Uris),
           MerkleEntries(p, ds) = MerkleEntries(q, es)
    PROVE  /\ p.commit = q.commit /\ p.tree = q.tree /\ p.lockfile = q.lockfile
           /\ p.tools = q.tools /\ ds = es
<1> DEFINE e == MerkleEntries(p, ds)
           t == Len(p.tools)
           u == Len(q.tools)
<1>0. e = MerkleEntries(p, ds) /\ e = MerkleEntries(q, es)
    OBVIOUS
<1> HIDE DEF e
<1>1. t \in Nat /\ u \in Nat /\ Len(ds) \in Nat /\ Len(es) \in Nat
    BY InputFacts, DepsFacts
<1>2. CASE p.driver # "nix"
  <2>1. /\ e[1] = <<"sha1", p.commit>> /\ e[2] = <<"sha1", p.tree>>
        /\ e[3 + 2 * t] = <<"sha256", p.lockfile>>
        /\ Len(e) = 3 + 2 * t + Len(ds)
        /\ \A k \in 1..(2 * t) : e[2 + k] = ToolEntries(p)[k]
        /\ \A k \in 1..Len(ds) : e[3 + 2 * t + k] = <<"uri", ds[k]>>
    <3>1. UriShape(p, ds, e)
        BY <1>0, <1>2, UriEntries
    <3>2. QED
        BY <3>1 DEF UriShape
  <2>2. /\ e[1] = <<"sha1", q.commit>> /\ e[2] = <<"sha1", q.tree>>
        /\ e[3 + 2 * u] = <<"sha256", q.lockfile>>
        /\ Len(e) = 3 + 2 * u + Len(es)
        /\ \A k \in 1..(2 * u) : e[2 + k] = ToolEntries(q)[k]
        /\ \A k \in 1..Len(es) : e[3 + 2 * u + k] = <<"uri", es[k]>>
    <3>1. UriShape(q, es, e)
        BY <1>0, <1>2, UriEntries
    <3>2. QED
        BY <3>1 DEF UriShape
  <2>3. ~(t < u) /\ ~(u < t)
      BY <1>2, UriToolsNotMore
  <2>4. t = u
      BY <1>1, <2>3
  <2>5. Len(ds) = Len(es)
    <3>1. 3 + 2 * t + Len(ds) = 3 + 2 * u + Len(es)
        BY <2>1, <2>2
    <3>2. QED
        BY <1>1, <2>4, <3>1
  <2>6. p.tools = q.tools
    <3>1. \A k \in 1..(2 * t) : ToolEntries(p)[k] = ToolEntries(q)[k]
        BY <2>1, <2>2, <2>4
    <3>2. QED
        BY <2>4, <3>1, ToolsSame
  <2>7. ASSUME NEW k \in 1..Len(ds) PROVE ds[k] = es[k]
    <3>1. <<"uri", ds[k]>> = <<"uri", es[k]>>
        BY <2>1, <2>2, <2>4, <2>5
    <3>2. QED
        BY <3>1
  <2>8. ds = es
      BY <2>5, <2>7, SeqEqual
  <2>9. /\ <<"sha1", p.commit>> = <<"sha1", q.commit>> /\ <<"sha1", p.tree>> = <<"sha1", q.tree>>
        /\ <<"sha256", p.lockfile>> = <<"sha256", q.lockfile>>
      BY <2>1, <2>2, <2>4
  <2>10. p.commit = q.commit /\ p.tree = q.tree /\ p.lockfile = q.lockfile
      BY <2>9
  <2>11. QED
      BY <2>6, <2>8, <2>10
<1>3. CASE p.driver = "nix"
  <2>1. /\ e[1] = <<"sha1", p.commit>> /\ e[2] = <<"sha1", p.tree>>
        /\ e[3] = <<"sha256", p.lockfile>>
        /\ Len(e) = 3 + Len(ds) + 2 * t
        /\ \A k \in 1..Len(ds) : e[3 + k] = <<"fetch", ds[k]>>
        /\ \A k \in 1..(2 * t) : e[3 + Len(ds) + k] = ToolEntries(p)[k]
    <3>1. FetchShape(p, ds, e)
        BY <1>0, <1>3, FetchEntries
    <3>2. QED
        BY <3>1 DEF FetchShape
  <2>2. /\ e[1] = <<"sha1", q.commit>> /\ e[2] = <<"sha1", q.tree>>
        /\ e[3] = <<"sha256", q.lockfile>>
        /\ Len(e) = 3 + Len(es) + 2 * u
        /\ \A k \in 1..Len(es) : e[3 + k] = <<"fetch", es[k]>>
        /\ \A k \in 1..(2 * u) : e[3 + Len(es) + k] = ToolEntries(q)[k]
    <3>1. FetchShape(q, es, e)
        BY <1>0, <1>3, FetchEntries
    <3>2. QED
        BY <3>1 DEF FetchShape
  <2>3. ~(Len(ds) < Len(es)) /\ ~(Len(es) < Len(ds))
      BY <1>3, FetchesNotMore
  <2>4. Len(ds) = Len(es)
      BY <1>1, <2>3
  <2>5. t = u
    <3>1. 3 + Len(ds) + 2 * t = 3 + Len(es) + 2 * u
        BY <2>1, <2>2
    <3>2. QED
        BY <1>1, <2>4, <3>1, FetchCounts
  <2>6. p.tools = q.tools
    <3>1. \A k \in 1..(2 * t) : ToolEntries(p)[k] = ToolEntries(q)[k]
        BY <2>1, <2>2, <2>4, <2>5
    <3>2. QED
        BY <2>5, <3>1, ToolsSame
  <2>7. ASSUME NEW k \in 1..Len(ds) PROVE ds[k] = es[k]
    <3>1. <<"fetch", ds[k]>> = <<"fetch", es[k]>>
        BY <2>1, <2>2, <2>4
    <3>2. QED
        BY <3>1
  <2>8. ds = es
      BY <2>4, <2>7, SeqEqual
  <2>9. /\ <<"sha1", p.commit>> = <<"sha1", q.commit>> /\ <<"sha1", p.tree>> = <<"sha1", q.tree>>
        /\ <<"sha256", p.lockfile>> = <<"sha256", q.lockfile>>
      BY <2>1, <2>2
  <2>10. p.commit = q.commit /\ p.tree = q.tree /\ p.lockfile = q.lockfile
      BY <2>9
  <2>11. QED
      BY <2>6, <2>8, <2>10
<1>4. QED
    BY <1>2, <1>3

-----------------------------------------------------------------------------
(* The root of a build *)

\* The projects that are built.
Projects == UNION {ToSet(w) : w \in Workloads}

GitAsAtStart(s) == s \in [DOMAIN Repos -> Repo] /\ \A d \in DOMAIN Repos : s[d].git = Repos[d].git

RootRight(r) ==
    /\ r.proj \in Projects /\ r.proj \in Project
    /\ r.proj.driver = "cargo" => ~Missing(r.proj)
    /\ r.root = MerkleRoot(MerkleEntries(r.proj, r.deps))
    /\ GitAsAtStart(r.consumed)

\* What is built comes from a workload, and repositories stay repositories.
OriginInv ==
    /\ IsSequence(todo) /\ ToSet(todo) \subseteq Projects
    /\ pc # "idle" => proj \in Projects
    /\ GitAsAtStart(repos)
    /\ pc = "artifacts" => GitAsAtStart(consumed)
    /\ \A r \in ToSet(results) : r.stage = "done" => RootRight(r)

LEMMA InProjects ==
    ASSUME NEW p \in Projects
    PROVE  /\ p \in Project
           /\ \E w \in Workloads : \E k \in 1..Len(w) : p = w[k]
<1>1. PICK w \in Workloads : p \in ToSet(w)
    BY DEF Projects
<1>2. w \in Seq(Project)
    BY InputsAssumption
<1>3. PICK k \in DOMAIN w : p = w[k]
    BY <1>1 DEF ToSet
<1>4. k \in 1..Len(w)
    BY <1>2, <1>3, LenProperties
<1>5. p \in Project
    BY <1>2, <1>3, <1>4, ElementOfSeq
<1>6. QED
    BY <1>3, <1>4, <1>5

\* A commit and what is not committed name what is built, up to the tools.
LEMMA SameCommit ==
    ASSUME NEW p \in Projects, NEW q \in Projects, p.commit = q.commit, p.work = q.work
    PROVE  Inputs(p) = [Inputs(q) EXCEPT !.tools = p.tools]
<1>1. PICK v \in Workloads : \E j \in 1..Len(v) : p = v[j]
    BY InProjects
<1>2. PICK j \in 1..Len(v) : p = v[j]
    BY <1>1
<1>3. PICK w \in Workloads : \E k \in 1..Len(w) : q = w[k]
    BY InProjects
<1>4. PICK k \in 1..Len(w) : q = w[k]
    BY <1>3
<1>5. v[j].commit = w[k].commit /\ v[j].work = w[k].work
        => Inputs(v[j]) = [Inputs(w[k]) EXCEPT !.tools = v[j].tools]
    BY InputsAssumption
<1>6. QED
    BY <1>2, <1>4, <1>5

LEMMA HasTools ==
    ASSUME NEW p \in Projects
    PROVE  p.tools # <<>>
<1>1. PICK v \in Workloads : \E j \in 1..Len(v) : p = v[j]
    BY InProjects
<1>2. PICK j \in 1..Len(v) : p = v[j]
    BY <1>1
<1>3. v[j].tools # <<>>
    BY InputsAssumption
<1>4. QED
    BY <1>2, <1>3

LEMMA HeadTailSet ==
    ASSUME NEW s, IsSequence(s), s # <<>>
    PROVE  Head(s) \in ToSet(s) /\ IsSequence(Tail(s)) /\ ToSet(Tail(s)) \subseteq ToSet(s)
<1>1. PICK S : s \in Seq(S)
    BY DEF IsSequence
<1>2. /\ Head(s) = s[1] /\ Tail(s) \in Seq(S) /\ Len(Tail(s)) = Len(s) - 1
      /\ \A i \in 1..Len(Tail(s)) : Tail(s)[i] = s[i + 1]
    BY <1>1, HeadTailProperties
<1>3. Len(s) \in Nat /\ Len(s) # 0 /\ DOMAIN s = 1..Len(s)
    BY <1>1, LenProperties, EmptySeq
<1>4. DOMAIN Tail(s) = 1..(Len(s) - 1)
    BY <1>2, LenProperties
<1>5. 1 \in DOMAIN s /\ \A i \in 1..(Len(s) - 1) : i + 1 \in DOMAIN s
    BY <1>3
<1>6. ToSet(Tail(s)) \subseteq ToSet(s)
    BY <1>2, <1>4, <1>5 DEF ToSet
<1>7. Head(s) \in ToSet(s)
    BY <1>2, <1>5 DEF ToSet
<1>8. QED
    BY <1>2, <1>6, <1>7 DEF IsSequence

LEMMA InitOrigin ==
    ASSUME Init
    PROVE  OriginInv
<1>1. todo \in Workloads /\ repos = Repos /\ pc = "idle" /\ results = <<>>
    BY DEF Init
<1>2. todo \in Seq(Project) /\ Repos \in [DOMAIN Repos -> Repo]
    BY <1>1, InputsAssumption
<1>3. IsSequence(todo) /\ ToSet(todo) \subseteq Projects
    BY <1>1, <1>2 DEF IsSequence, Projects
<1>4. GitAsAtStart(repos)
    BY <1>1, <1>2 DEF GitAsAtStart
<1>5. ToSet(results) = {}
    BY <1>1, NoUri
<1>6. QED
    BY <1>1, <1>3, <1>4, <1>5 DEF OriginInv

LEMMA ChangeRepoGit ==
    ASSUME BuildInv, OriginInv, ChangeRepo
    PROVE  GitAsAtStart(repos')
<1>1. repos' \in [DOMAIN Repos -> Repo]
    BY ChangeRepoKeeps DEF BuildInv, TypeInv
<1>2. repos \in [DOMAIN Repos -> Repo] /\ \A d \in DOMAIN Repos : repos[d].git = Repos[d].git
    BY DEF OriginInv, GitAsAtStart
<1>3. PICK d \in DOMAIN repos :
          \/ repos' = [repos EXCEPT ![d].dirty = TRUE]
          \/ repos' = [repos EXCEPT ![d].head = @ + 1, ![d].dirty = FALSE]
    BY DEF ChangeRepo
<1>4. ASSUME NEW x \in DOMAIN Repos PROVE repos'[x].git = repos[x].git
  <2>1. repos[x] \in Repo /\ x \in DOMAIN repos
      BY <1>2
  <2>2. /\ [repos[x] EXCEPT !.dirty = TRUE].git = repos[x].git
        /\ [[repos[x] EXCEPT !.head = @ + 1] EXCEPT !.dirty = FALSE].git = repos[x].git
      BY <2>1 DEF Repo
  <2>3. CASE x = d
    <3>1. \/ repos'[x] = [repos[x] EXCEPT !.dirty = TRUE]
          \/ repos'[x] = [[repos[x] EXCEPT !.head = @ + 1] EXCEPT !.dirty = FALSE]
        BY <1>2, <1>3, <2>1, <2>3
    <3>2. QED
        BY <2>2, <3>1
  <2>4. CASE x # d
      BY <1>2, <1>3, <2>1, <2>4
  <2>5. QED
      BY <2>3, <2>4
<1>5. QED
    BY <1>1, <1>2, <1>4 DEF GitAsAtStart

LEMMA NextOrigin ==
    ASSUME BuildInv, ResultsInv, OriginInv, [Next]_vars
    PROVE  OriginInv'
<1>1. CASE Start
  <2>1. /\ todo # <<>> /\ proj' = Head(todo) /\ todo' = Tail(todo)
        /\ pc' # "artifacts" /\ UNCHANGED <<repos, results>>
      BY <1>1 DEF Start
  <2>2. IsSequence(todo) /\ ToSet(todo) \subseteq Projects
      BY DEF OriginInv
  <2>3. Head(todo) \in ToSet(todo) /\ IsSequence(Tail(todo)) /\ ToSet(Tail(todo)) \subseteq ToSet(todo)
      BY <2>1, <2>2, HeadTailSet
  <2>4. IsSequence(todo') /\ ToSet(todo') \subseteq Projects /\ proj' \in Projects
      BY <2>1, <2>2, <2>3
  <2>5. QED
      BY <2>1, <2>4 DEF OriginInv
<1>2. CASE \/ CollectExternalPathDeps \/ ClassifyPinned \/ SkipMember \/ AssertClean
           \/ GitShaAt \/ ExtractFixedOutput \/ ParsePnpmPackage \/ Resolved
  <2>1. UNCHANGED <<todo, repos, proj, results>> /\ pc # "idle" /\ pc' # "artifacts"
      BY <1>2 DEF CollectExternalPathDeps, ClassifyPinned, SkipMember, AssertClean, AtPathDep,
                  AtPackage, buildVars, GitShaAt, ExtractFixedOutput, ParsePnpmPackage, Record,
                  Resolved
  <2>2. QED
      BY <2>1 DEF OriginInv
<1>3. CASE RunBuild
  <2>1. UNCHANGED <<todo, repos, proj, results>> /\ pc # "idle" /\ consumed' = repos
      BY <1>3 DEF RunBuild
  <2>2. QED
      BY <2>1 DEF OriginInv
<1>4. CASE StageBinary
  <2>1. UNCHANGED <<todo, repos, pc, proj, consumed, results>>
      BY <1>4 DEF StageBinary
  <2>2. QED
      BY <2>1 DEF OriginInv
<1>5. CASE UNCHANGED vars
  <2>1. UNCHANGED <<todo, repos, pc, proj, consumed, results>>
      BY <1>5 DEF vars, buildVars
  <2>2. QED
      BY <2>1 DEF OriginInv
<1>6. CASE ChangeRepo
  <2>1. UNCHANGED <<todo, pc, proj, consumed, results>>
      BY <1>6 DEF ChangeRepo, buildVars
  <2>2. GitAsAtStart(repos')
      BY <1>6, ChangeRepoGit
  <2>3. QED
      BY <2>1, <2>2 DEF OriginInv
<1>7. CASE \/ CollectFails \/ ClassifyFails \/ NotClean \/ ParsePnpmFails
           \/ BuildFails \/ NoDist \/ WriteProvenance
  <2>1. PICK stage, root : /\ Finish(stage, root)
                           /\ stage = "done" => /\ pc = "artifacts"
                                                /\ root = MerkleRoot(MerkleEntries(proj, deps))
      BY <1>7 DEF CollectFails, ClassifyFails, NotClean, ParsePnpmFails, Refuse, BuildFails,
                  NoDist, WriteProvenance
  <2> DEFINE r == Result(stage, root)
  <2>2. /\ results' = Append(results, r) /\ pc' = "idle" /\ UNCHANGED <<todo, repos>>
      BY <2>1 DEF Finish, Result
  <2>3. /\ r.stage = stage /\ r.proj = proj /\ r.deps = deps /\ r.root = root
        /\ r.consumed = consumed
      BY DEF Result
  <2> HIDE DEF r
  <2>4. ToSet(results') = ToSet(results) \union {r}
      BY <2>2, AppendSet DEF ResultsInv
  <2>5. ASSUME stage = "done" PROVE RootRight(r)
    <3>1. pc = "artifacts" /\ r.root = MerkleRoot(MerkleEntries(proj, deps))
        BY <2>1, <2>3, <2>5
    <3>2. proj \in Projects /\ GitAsAtStart(consumed)
        BY <3>1 DEF OriginInv
    <3>3. proj \in Project /\ (proj.driver = "cargo" => ~Missing(proj))
        BY <3>1 DEF BuildInv, TypeInv, CollectInv
    <3>4. QED
        BY <2>3, <3>1, <3>2, <3>3 DEF RootRight
  <2>6. \A x \in ToSet(results') : x.stage = "done" => RootRight(x)
      BY <2>3, <2>4, <2>5 DEF OriginInv
  <2>7. QED
      BY <2>2, <2>6 DEF OriginInv
<1>8. QED
    BY <1>1, <1>2, <1>3, <1>4, <1>5, <1>6, <1>7 DEF Next

\* The provenance of a build is about the project it was given
\* (src/toolchain/runner.rs, run).
THEOREM OriginInvariant == Spec => []OriginInv
<1>1. Init => OriginInv
    BY InitOrigin
<1>2. BuildInv /\ ResultsInv /\ OriginInv /\ [Next]_vars => OriginInv'
    BY NextOrigin
<1>3. QED
    BY <1>1, <1>2, BuildInvariant, ResultsInvariant, PTL DEF Spec

LEMMA SameTools ==
    ASSUME NEW p \in Project, NEW q \in Project, p.tools = q.tools,
           Inputs(p) = [Inputs(q) EXCEPT !.tools = p.tools]
    PROVE  Inputs(p) = Inputs(q)
BY DEF Project, Inputs

LEMMA RootDetermines ==
    ASSUME NEW r, NEW s, RootRight(r), RootRight(s), OrderRight(r), OrderRight(s),
           r.root = s.root
    PROVE  /\ Recorded(r) = Recorded(s) /\ r.deps = s.deps
           /\ r.proj.work = s.proj.work => Inputs(r.proj) = Inputs(s.proj)
<1> DEFINE p == r.proj
           q == s.proj
           e == MerkleEntries(p, r.deps)
           g == MerkleEntries(q, s.deps)
<1>1. /\ p \in Projects /\ q \in Projects /\ p \in Project /\ q \in Project
      /\ r.deps \in Seq(Uris) /\ s.deps \in Seq(Uris)
      /\ MerkleRoot(e) = MerkleRoot(g)
    BY DEF RootRight, OrderRight
<1>2. e \in Seq(Entry) /\ e # <<>> /\ g \in Seq(Entry) /\ g # <<>>
    BY <1>1, EntriesListed
<1>3. e = g
  <2> HIDE DEF e, g
  <2>1. QED
      BY <1>1, <1>2, MerkleInjective
<1>4. p.driver = "nix" <=> q.driver = "nix"
    BY <1>1, <1>3, HasTools, EntriesTellNix
<1>5. /\ p.commit = q.commit /\ p.tree = q.tree /\ p.lockfile = q.lockfile
      /\ p.tools = q.tools /\ r.deps = s.deps
    BY <1>1, <1>3, <1>4, EntriesSame
<1>6. Recorded(r) = Recorded(s)
    BY <1>5 DEF Recorded
<1>7. p.work = q.work => Inputs(p) = Inputs(q)
    BY <1>1, <1>5, SameCommit, SameTools
<1>8. QED
    BY <1>5, <1>6, <1>7

\* A build that accounts for a path dependency says which state of it it used.
LEMMA UsedIsRecorded ==
    ASSUME NEW r, PathsRight(r), RootRight(r), ~r.edited, NEW q \in PathPackages(r.proj),
           q.loc # 0, WellNamed(r.proj, q)
    PROVE  /\ q.loc \in DOMAIN Repos /\ r.consumed[q.loc] \in Repo
           /\ RecordsOf(r, q) = {Uri(1, q.name, q.version, 2, q.loc, r.consumed[q.loc].head)}
           /\ ~r.consumed[q.loc].dirty /\ r.consumed[q.loc].git = Repos[q.loc].git
<1>1. Accounted(r, q)
    BY DEF PathsRight
<1>2. /\ RecordsOf(r, q) = {Uri(1, q.name, q.version, 2, q.loc, r.consumed[q.loc].head)}
      /\ ~r.consumed[q.loc].dirty
    BY <1>1 DEF Accounted
<1>3. PICK d \in ToSet(r.proj.decls) : d.table = "member" /\ d.key = q.name /\ d.dir = q.loc
    BY DEF WellNamed
<1>4. d \in Outside(r.proj)
    BY <1>3 DEF Outside, Declarations
<1>5. ~Missing(r.proj)
    BY DEF RootRight, PathPackages
<1>6. q.loc \in DOMAIN Repos
    BY <1>3, <1>4, <1>5 DEF Missing
<1>7. GitAsAtStart(r.consumed)
    BY DEF RootRight
<1>8. QED
    BY <1>2, <1>6, <1>7 DEF GitAsAtStart

LEMMA SameFields ==
    ASSUME NEW p \in Project, NEW q \in Project, Inputs(p) = Inputs(q)
    PROVE  p.driver = q.driver /\ p.packages = q.packages /\ p.decls = q.decls
<1>1. /\ Inputs(p).driver = p.driver /\ Inputs(p).packages = p.packages
      /\ Inputs(p).decls = p.decls
    BY DEF Project, Inputs
<1>2. /\ Inputs(q).driver = q.driver /\ Inputs(q).packages = q.packages
      /\ Inputs(q).decls = q.decls
    BY DEF Project, Inputs
<1>3. QED
    BY <1>1, <1>2

LEMMA UsedSame ==
    ASSUME NEW r, NEW s, PathsRight(r), RootRight(r), PathsRight(s), RootRight(s),
           Inputs(r.proj) = Inputs(s.proj), r.deps = s.deps, ~r.edited, ~s.edited,
           \A q \in PathPackages(r.proj) : WellNamed(r.proj, q)
    PROVE  Used(r) = Used(s)
<1>0. /\ PathPackages(s.proj) = PathPackages(r.proj)
      /\ \A q \in PathPackages(r.proj) : WellNamed(s.proj, q)
  <2>1. /\ r.proj.driver = s.proj.driver /\ r.proj.packages = s.proj.packages
        /\ r.proj.decls = s.proj.decls
      BY SameFields DEF RootRight
  <2>2. QED
      BY <2>1 DEF PathPackages, WellNamed
<1>1. ASSUME NEW q \in PathPackages(r.proj), q.loc # 0
      PROVE  r.consumed[q.loc] = s.consumed[q.loc]
  <2> DEFINE x == r.consumed[q.loc]
             y == s.consumed[q.loc]
             u == Uri(1, q.name, q.version, 2, q.loc, x.head)
             v == Uri(1, q.name, q.version, 2, q.loc, y.head)
  <2>1. /\ x \in Repo /\ RecordsOf(r, q) = {u}
        /\ ~x.dirty /\ x.git = Repos[q.loc].git
      BY <1>1, UsedIsRecorded
  <2>2. /\ y \in Repo /\ RecordsOf(s, q) = {v}
        /\ ~y.dirty /\ y.git = Repos[q.loc].git
      BY <1>0, <1>1, UsedIsRecorded
  <2>3. RecordsOf(r, q) = RecordsOf(s, q)
      BY DEF RecordsOf
  <2>4. u[6] = x.head /\ v[6] = y.head
      BY DEF Uri
  <2> HIDE DEF x, y, u, v
  <2>5. x.head = y.head
      BY <2>1, <2>2, <2>3, <2>4
  <2>6. x = y
      BY <2>1, <2>2, <2>5 DEF Repo
  <2>7. QED
      BY <2>6 DEF x, y
<1> DEFINE Q == {x \in PathPackages(r.proj) : x.loc # 0}
<1>2. Used(r) = {<<q.loc, r.consumed[q.loc]>> : q \in Q}
    BY DEF Used
<1>3. Used(s) = {<<q.loc, s.consumed[q.loc]>> : q \in Q}
    BY <1>0 DEF Used
<1>4. \A q \in Q : <<q.loc, r.consumed[q.loc]>> = <<q.loc, s.consumed[q.loc]>>
    BY <1>1
<1> HIDE DEF Q
<1>5. QED
    BY <1>2, <1>3, <1>4

\* SameRootSameInputs, for every workload and every number of tools and
\* dependencies: builds with the same Merkle root recorded the same inputs; if what
\* was not committed of their work trees is the same too, they were builds of the
\* same manifests and sources, and used the same of the repositories beside them if
\* their path dependencies are well named and were left alone
\* (src/toolchain/runner.rs, compute_merkle_root).
THEOREM RootBindsInputs == Spec => []SameRootSameInputs
<1>1. ResultsInv /\ OriginInv => SameRootSameInputs
  <2> SUFFICES ASSUME ResultsInv, OriginInv, NEW r \in Done, NEW s \in Done, r.root = s.root
               PROVE  /\ Recorded(r) = Recorded(s)
                      /\ r.proj.work = s.proj.work =>
                            /\ Inputs(r.proj) = Inputs(s.proj)
                            /\ /\ ~r.edited /\ ~s.edited
                               /\ \A q \in PathPackages(r.proj) : WellNamed(r.proj, q)
                               => Used(r) = Used(s)
      BY DEF SameRootSameInputs
  <2>1. /\ RootRight(r) /\ OrderRight(r) /\ PathsRight(r)
        /\ RootRight(s) /\ OrderRight(s) /\ PathsRight(s)
      BY DEF ResultsInv, OriginInv, Done
  <2>2. /\ Recorded(r) = Recorded(s) /\ r.deps = s.deps
        /\ r.proj.work = s.proj.work => Inputs(r.proj) = Inputs(s.proj)
      BY <2>1, RootDetermines
  <2>3. QED
      BY <2>1, <2>2, UsedSame
<1>2. QED
    BY <1>1, ResultsInvariant, OriginInvariant, PTL
=============================================================================
