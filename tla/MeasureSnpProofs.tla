-------------------------- MODULE MeasureSnpProofs --------------------------
(***************************************************************************)
(* For every IGVM file and every page size: measure_snp folds each page    *)
(* into the digest exactly once, in the order of the file, and an insert   *)
(* overtakes exactly the pages of the batch that is open.                  *)
(***************************************************************************)
EXTENDS MeasureSnp, WellFoundedInduction, TLAPS

LEMMA LargestIndex ==
    ASSUME NEW n \in Nat, NEW T, T \subseteq 1..n, T # {}
    PROVE  \E x \in T : \A y \in T : y <= x
<1> DEFINE U == {n - x : x \in T}
<1>1. U \subseteq Nat
  <2>1. \A x \in T : n - x \in Nat
    OBVIOUS
  <2>2. QED
    BY <2>1
<1>2. U # {}
    OBVIOUS
<1>3. \E u \in U : \A v \in U : u <= v
  <2> HIDE DEF U
  <2>1. PICK u \in U : \A v \in U : ~(<<v, u>> \in OpToRel(<, Nat))
    BY <1>1, <1>2, NatLessThanWellFounded, WFMin, Zenon
  <2>2. \A v \in U : ~(v < u)
    BY <1>1, <2>1 DEF OpToRel
  <2>3. QED
    BY <1>1, <2>2
<1>4. PICK x \in T : \A v \in U : n - x <= v
    BY <1>3
<1>5. \A y \in T : n - x <= n - y
    BY <1>4
<1>6. \A y \in T : y <= x
    BY <1>5
<1>7. QED
    BY <1>6

LEMMA PagesAreNat ==
    ASSUME NEW n \in Nat
    PROVE  DivCeil(n, PageSize) \in Nat
BY MeasureAssumption DEF DivCeil

LEMMA AddressIsNat ==
    ASSUME NEW g \in Nat, NEW pg \in Nat \ {0}
    PROVE  g + (pg - 1) * PageSize \in Nat
BY MeasureAssumption

LEMMA DirectiveAt ==
    ASSUME MeasureTypeOK, NEW i \in 1..Len(Dirs)
    PROVE  Dirs[i] \in Directive
BY DEF MeasureTypeOK, IgvmFile, Dirs

LEMMA DirsLength == MeasureTypeOK => Dirs \in Seq(Directive) /\ Len(Dirs) \in Nat
BY DEF MeasureTypeOK, IgvmFile, Dirs

LEMMA PaddedIsSeq ==
    ASSUME NEW data \in Seq(Cells)
    PROVE  Padded(data) \in Seq(Cells)
BY MeasureAssumption DEF Padded

LEMMA ClassifyType ==
    ASSUME NEW d \in Directive
    PROVE  /\ Classify(d).type \in {"NORMAL", "UNMEASURED", "SECRETS", "CPUID"}
           /\ Classify(d).contents \in Seq(Cells)
           /\ Classify(d).has \in BOOLEAN
<1>1. /\ d.type \in {"NORMAL", "SECRETS", "CPUID"} /\ d.unmeasured \in BOOLEAN
      /\ d.data \in Seq(Cells)
    BY DEF Directive
<1>2. Padded(d.data) \in Seq(Cells) /\ <<>> \in Seq(Cells)
    BY <1>1, PaddedIsSeq
<1>3. CASE d.type = "NORMAL" /\ ~d.unmeasured
    BY <1>2, <1>3 DEF Classify
<1>4. CASE d.type = "NORMAL" /\ d.unmeasured
    BY <1>2, <1>4 DEF Classify, Zeros
<1>5. CASE d.type # "NORMAL"
    BY <1>1, <1>2, <1>5 DEF Classify, Zeros
<1>6. QED
    BY <1>3, <1>4, <1>5

LEMMA EntryTypes ==
    ASSUME NEW d \in Directive
    PROVE  PageEntry(d) \in Entry /\ VmsaEntry(d) \in Entry
<1>1. d.gpa \in Nat /\ d.data \in Seq(Cells)
    BY DEF Directive
<1>2. PageEntry(d) \in Entry
    BY <1>1, ClassifyType DEF PageEntry, PageInfo, Entry
<1>3. VmsaEntry(d) \in Entry
    BY <1>1 DEF VmsaEntry, PageInfo, Entry
<1>4. QED
    BY <1>2, <1>3

LEMMA InsertType ==
    ASSUME MeasureTypeOK, NEW d \in Directive, AreasOf(d.index) # {}
    PROVE  InsertEntries(d) \in Seq(Entry)
<1>1. AreasOf(d.index) \subseteq 1..Len(Dirs) /\ Len(Dirs) \in Nat
    BY DirsLength DEF AreasOf
<1>2. \E i \in AreasOf(d.index) : \A j \in AreasOf(d.index) : j <= i
    BY <1>1, LargestIndex
<1>3. (CHOOSE i \in AreasOf(d.index) : \A j \in AreasOf(d.index) : j <= i) \in 1..Len(Dirs)
    BY <1>1, <1>2
<1>4. AreaSize(d.index) \in Nat
    BY <1>3, DirectiveAt DEF AreaSize, Directive
<1>5. DivCeil(AreaSize(d.index), PageSize) \in Nat
    BY <1>4, PagesAreNat
<1>6. ASSUME NEW pg \in 1..DivCeil(AreaSize(d.index), PageSize)
      PROVE  PageInfo("UNMEASURED", d.gpa + (pg - 1) * PageSize, Zeros) \in Entry
  <2>1. d.gpa + (pg - 1) * PageSize \in Nat
    BY <1>5, <1>6, AddressIsNat DEF Directive
  <2>2. QED
    BY <2>1 DEF PageInfo, Entry, Zeros
<1>7. QED
    BY <1>5, <1>6 DEF InsertEntries

-----------------------------------------------------------------------------
SnpInsert(i) == Dirs[i].kind = "insert" /\ ForSnp(Dirs[i])

\* The entries of directive i are in the digest where `when` says.
Placed(i) ==
    /\ when[i] \in Nat \ {0}
    /\ when[i] + Len(EntriesOf(i)) <= Len(ld) + 1
    /\ \A k \in 1..Len(EntriesOf(i)) : ld[when[i] + k - 1] = EntriesOf(i)[k]

\* Position p of the digest belongs to a measured directive.
Owned(p) == \E i \in DOMAIN when : when[i] <= p /\ p < when[i] + Len(EntriesOf(i))

DigestInv ==
    /\ \A i \in DOMAIN when : Placed(i)
    /\ \A p \in 1..Len(ld) : Owned(p)

\* What is measured is a page, a VMSA or an insert of a known area that the loop
\* has passed.
WhenInv ==
    /\ DOMAIN when \subseteq 1..(dir_idx - 1)
    /\ \A i \in DOMAIN when :
          SnpPage(i) \/ SnpVmsa(i) \/ (SnpInsert(i) /\ AreasOf(Dirs[i].index) # {})

\* A list of directives that each add one entry, in the order of the file.
Queued(pending) ==
    /\ pending \in Pending
    /\ \A k \in 1..Len(pending) : /\ pending[k].idx \in 1..(dir_idx - 1)
                                   /\ EntriesOf(pending[k].idx) = <<pending[k].entry>>
    /\ \A k, l \in 1..Len(pending) : k < l => pending[k].idx < pending[l].idx

LEMMA EntriesType ==
    ASSUME MeasureTypeOK, NEW i \in 1..Len(Dirs),
           SnpPage(i) \/ SnpVmsa(i) \/ (SnpInsert(i) /\ AreasOf(Dirs[i].index) # {})
    PROVE  EntriesOf(i) \in Seq(Entry)
<1>1. Dirs[i] \in Directive
    BY DirectiveAt
<1>2. CASE SnpPage(i) \/ SnpVmsa(i)
    BY <1>1, <1>2, EntryTypes DEF EntriesOf
<1>3. CASE ~SnpPage(i) /\ ~SnpVmsa(i)
  <2>1. EntriesOf(i) = InsertEntries(Dirs[i])
    BY <1>3 DEF EntriesOf
  <2>2. QED
    BY <1>1, <1>3, <2>1, InsertType
<1>4. QED
    BY <1>2, <1>3

LEMMA SameFile ==
    ASSUME file' = file
    PROVE  /\ Dirs' = Dirs
           /\ \A i : /\ SnpPage(i)' = SnpPage(i)
                     /\ SnpVmsa(i)' = SnpVmsa(i)
                     /\ SnpInsert(i)' = SnpInsert(i)
                     /\ EntriesOf(i)' = EntriesOf(i)
                     /\ BeginsBatch(i)' = BeginsBatch(i)
                     /\ AreasOf(i)' = AreasOf(i)
BY DEF Dirs, SnpPage, SnpVmsa, SnpInsert, EntriesOf, InsertEntries, AreaSize, AreasOf, BeginsBatch

LEMMA ConcatAt ==
    ASSUME NEW S, NEW a \in Seq(S), NEW b \in Seq(S)
    PROVE  /\ a \o b \in Seq(S)
           /\ Len(a) \in Nat /\ Len(b) \in Nat
           /\ Len(a \o b) = Len(a) + Len(b)
           /\ \A p \in 1..Len(a) : (a \o b)[p] = a[p]
           /\ \A k \in 1..Len(b) : (a \o b)[Len(a) + k] = b[k]
OBVIOUS

LEMMA ElementsOf ==
    ASSUME NEW S, NEW s \in Seq(S)
    PROVE  Len(s) \in Nat /\ \A k \in 1..Len(s) : s[k] \in S
OBVIOUS

LEMMA QueuedLength ==
    ASSUME NEW pending \in Pending
    PROVE  /\ Len(pending) \in Nat
           /\ Entries(pending) \in Seq(Entry)
           /\ Len(Entries(pending)) = Len(pending)
           /\ \A k \in 1..Len(pending) : Entries(pending)[k] = pending[k].entry
           /\ \A k \in 1..Len(pending) : pending[k].idx \in Nat
<1>1. Len(pending) \in Nat /\ \A k \in 1..Len(pending) : pending[k] \in [idx : Nat, entry : Entry]
    BY ElementsOf, Zenon DEF Pending
<1>2. \A k \in 1..Len(pending) : pending[k].idx \in Nat /\ pending[k].entry \in Entry
    BY <1>1
<1>3. QED
    BY <1>1, <1>2 DEF Entries

\* Where the directives of a list are once it is folded into the digest.
LEMMA StampedAt ==
    ASSUME MeasureTypeOK, NEW pending, Queued(pending),
           \A k \in 1..Len(pending) : pending[k].idx \notin DOMAIN when
    PROVE  /\ DOMAIN Stamped(pending) =
                  DOMAIN when \union {pending[k].idx : k \in 1..Len(pending)}
           /\ \A i \in DOMAIN when : Stamped(pending)[i] = when[i]
           /\ \A k \in 1..Len(pending) : Stamped(pending)[pending[k].idx] = Len(ld) + k
<1> DEFINE idxs == {pending[k].idx : k \in 1..Len(pending)}
<1>1. /\ Len(pending) \in Nat
      /\ \A k \in 1..Len(pending) : pending[k].idx \in Nat
    BY QueuedLength DEF Queued
<1>2. ASSUME NEW k \in 1..Len(pending)
      PROVE  (CHOOSE l \in 1..Len(pending) : pending[l].idx = pending[k].idx) = k
  <2>1. \A l \in 1..Len(pending) : pending[l].idx = pending[k].idx => l = k
    <3>1. \A l \in 1..Len(pending) : /\ l < k => pending[l].idx < pending[k].idx
                                     /\ k < l => pending[k].idx < pending[l].idx
      BY <1>1 DEF Queued
    <3>2. QED
      BY <1>1, <3>1
  <2>2. QED
    BY <2>1
<1>3. Stamped(pending) = [i \in DOMAIN when \union idxs |->
            IF i \in idxs
            THEN Len(ld) + (CHOOSE l \in 1..Len(pending) : pending[l].idx = i)
            ELSE when[i]]
    BY DEF Stamped
<1>4. DOMAIN Stamped(pending) = DOMAIN when \union idxs
    BY <1>3
<1>5. \A i \in DOMAIN when : i \notin idxs
    OBVIOUS
<1>6. \A i \in DOMAIN when : Stamped(pending)[i] = when[i]
    BY <1>3, <1>5
<1>7. ASSUME NEW k \in 1..Len(pending)
      PROVE  Stamped(pending)[pending[k].idx] = Len(ld) + k
  <2>1. pending[k].idx \in idxs
    OBVIOUS
  <2> HIDE DEF idxs
  <2>2. Stamped(pending)[pending[k].idx]
           = Len(ld) + (CHOOSE l \in 1..Len(pending) : pending[l].idx = pending[k].idx)
    BY <1>3, <2>1
  <2>3. (CHOOSE l \in 1..Len(pending) : pending[l].idx = pending[k].idx) = k
    BY <1>2
  <2>4. QED
    BY <2>2, <2>3
<1>8. QED
    BY <1>4, <1>6, <1>7

\* Folding a list into the digest keeps DigestInv.
LEMMA FoldIn ==
    ASSUME MeasureTypeOK, WhenInv, DigestInv, file' = file, NEW pending, Queued(pending),
           \A k \in 1..Len(pending) : pending[k].idx \notin DOMAIN when,
           ld' = ld \o Entries(pending), when' = Stamped(pending)
    PROVE  /\ ld' \in Seq(Entry)
           /\ Len(ld') = Len(ld) + Len(pending)
           /\ DOMAIN when' = DOMAIN when \union {pending[k].idx : k \in 1..Len(pending)}
           /\ \A i \in DOMAIN when : when'[i] = when[i]
           /\ \A k \in 1..Len(pending) : when'[pending[k].idx] = Len(ld) + k
           /\ DigestInv'
<1>1. /\ Len(pending) \in Nat
      /\ Entries(pending) \in Seq(Entry)
      /\ Len(Entries(pending)) = Len(pending)
      /\ \A k \in 1..Len(pending) : Entries(pending)[k] = pending[k].entry
    BY QueuedLength DEF Queued
<1>2. /\ ld \in Seq(Entry) /\ ld' \in Seq(Entry) /\ Len(ld) \in Nat
      /\ Len(ld') = Len(ld) + Len(pending)
      /\ \A p \in 1..Len(ld) : ld'[p] = ld[p]
      /\ \A k \in 1..Len(pending) : ld'[Len(ld) + k] = pending[k].entry
  <2>1. ld \in Seq(Entry)
    BY DEF MeasureTypeOK
  <2>2. /\ ld' \in Seq(Entry) /\ Len(ld) \in Nat
        /\ Len(ld') = Len(ld) + Len(Entries(pending))
        /\ \A p \in 1..Len(ld) : ld'[p] = ld[p]
        /\ \A k \in 1..Len(Entries(pending)) : ld'[Len(ld) + k] = Entries(pending)[k]
    <3> DEFINE E == Entries(pending)
    <3>1. E \in Seq(Entry)
      BY <1>1
    <3> HIDE DEF E
    <3>2. /\ ld \o E \in Seq(Entry) /\ Len(ld) \in Nat
          /\ Len(ld \o E) = Len(ld) + Len(E)
          /\ \A p \in 1..Len(ld) : (ld \o E)[p] = ld[p]
          /\ \A k \in 1..Len(E) : (ld \o E)[Len(ld) + k] = E[k]
      BY <2>1, <3>1, ConcatAt
    <3>3. ld' = ld \o E
      BY DEF E
    <3>4. QED
      BY <3>2, <3>3 DEF E
  <2>3. QED
    BY <1>1, <2>1, <2>2
<1>3. /\ DOMAIN when' = DOMAIN when \union {pending[k].idx : k \in 1..Len(pending)}
      /\ \A i \in DOMAIN when : when'[i] = when[i]
      /\ \A k \in 1..Len(pending) : when'[pending[k].idx] = Len(ld) + k
    BY StampedAt
<1>4. \A i : EntriesOf(i)' = EntriesOf(i)
    BY SameFile
<1>5. ASSUME NEW i \in DOMAIN when
      PROVE  Placed(i)'
  <2>1. /\ when[i] \in Nat \ {0}
        /\ when[i] + Len(EntriesOf(i)) <= Len(ld) + 1
        /\ \A k \in 1..Len(EntriesOf(i)) : ld[when[i] + k - 1] = EntriesOf(i)[k]
    BY DEF DigestInv, Placed
  <2>2. Len(EntriesOf(i)) \in Nat /\ Len(ld) \in Nat
    <3>1. i \in 1..Len(Dirs)
      BY DirsLength DEF WhenInv, MeasureTypeOK
    <3>2. EntriesOf(i) \in Seq(Entry)
      BY <3>1, EntriesType DEF WhenInv
    <3>3. QED
      BY <1>2, <3>2
  <2>3. \A k \in 1..Len(EntriesOf(i)) :
            when[i] + k - 1 \in 1..Len(ld) /\ ld'[when[i] + k - 1] = EntriesOf(i)[k]
    BY <1>2, <2>1, <2>2
  <2>4. when[i] + Len(EntriesOf(i)) <= Len(ld') + 1
    BY <1>1, <1>2, <2>1, <2>2
  <2>5. QED
    BY <1>3, <1>4, <2>1, <2>3, <2>4 DEF Placed
<1>6. ASSUME NEW k \in 1..Len(pending)
      PROVE  Placed(pending[k].idx)'
  <2>1. EntriesOf(pending[k].idx) = <<pending[k].entry>>
    BY DEF Queued
  <2>2. /\ when'[pending[k].idx] = Len(ld) + k
        /\ Len(ld) \in Nat
        /\ ld'[Len(ld) + k] = pending[k].entry
    BY <1>2, <1>3, Zenon
  <2>3. Len(EntriesOf(pending[k].idx)) = 1 /\ EntriesOf(pending[k].idx)[1] = pending[k].entry
    BY <2>1
  <2>4. /\ Len(ld) + k \in Nat \ {0}
        /\ Len(ld) + k + 1 <= Len(ld') + 1
        /\ \A j \in 1..1 : j = 1 /\ Len(ld) + k + j - 1 = Len(ld) + k
    BY <1>1, <1>2, <2>2
  <2>5. QED
    BY <1>4, <2>2, <2>3, <2>4 DEF Placed
<1>7. ASSUME NEW p \in 1..Len(ld')
      PROVE  Owned(p)'
  <2>0. Len(ld) \in Nat
    BY <1>2
  <2>1. CASE p \in 1..Len(ld)
    <3>1. Owned(p)
      BY <2>1 DEF DigestInv
    <3>2. QED
      BY <1>3, <1>4, <3>1 DEF Owned
  <2>2. CASE p \notin 1..Len(ld)
    <3>1. PICK k \in 1..Len(pending) : p = Len(ld) + k
      <4>1. p - Len(ld) \in 1..Len(pending) /\ p = Len(ld) + (p - Len(ld))
        BY <1>1, <1>2, <2>0, <2>2
      <4>2. QED
        BY <4>1
    <3>2. Len(EntriesOf(pending[k].idx)) = 1
      BY DEF Queued
    <3>3. when'[pending[k].idx] <= p /\ p < when'[pending[k].idx] + 1
      <4>1. when'[pending[k].idx] = p
        BY <1>3, <3>1, Zenon
      <4>2. QED
        BY <1>2, <4>1
    <3>4. pending[k].idx \in DOMAIN when'
      BY <1>3
    <3>5. QED
      BY <1>4, <3>2, <3>3, <3>4 DEF Owned
  <2>3. QED
    BY <2>1, <2>2
<1>8. DigestInv'
    BY <1>3, <1>5, <1>6, <1>7 DEF DigestInv
<1>9. QED
    BY <1>2, <1>3, <1>8

-----------------------------------------------------------------------------
BatchInv ==
    /\ Queued(batch)
    /\ \A k \in 1..Len(batch) : SnpPage(batch[k].idx) /\ batch[k].idx \notin DOMAIN when

VmsaInv ==
    /\ Queued(vmsas)
    /\ \A k \in 1..Len(vmsas) : SnpVmsa(vmsas[k].idx)
    /\ \A i \in 1..(dir_idx - 1) : SnpVmsa(i) => \E k \in 1..Len(vmsas) : vmsas[k].idx = i
    /\ mpc # "done" => \A i \in DOMAIN when : ~SnpVmsa(i)

\* A page is measured or pending, and pending pages come after measured ones.
PagesInv ==
    /\ \A i \in 1..(dir_idx - 1) : SnpPage(i) =>
          i \in DOMAIN when \/ \E k \in 1..Len(batch) : batch[k].idx = i
    /\ \A i \in DOMAIN when : SnpPage(i) => \A k \in 1..Len(batch) : i < batch[k].idx

OrderInv ==
    \A i, j \in DOMAIN when :
        /\ SnpPage(i) /\ SnpPage(j) /\ i < j => when[i] < when[j]
        /\ SnpVmsa(j) /\ (SnpPage(i) \/ (SnpVmsa(i) /\ i < j)) => when[i] < when[j]

\* prev is the last page for SNP before the loop's place.
PrevInv ==
    /\ prev.idx = 0 => \A i \in 1..(dir_idx - 1) : ~SnpPage(i)
    /\ prev.idx # 0 =>
          /\ SnpPage(prev.idx)
          /\ prev.gpa = Dirs[prev.idx].gpa
          /\ prev.type = Classify(Dirs[prev.idx]).type
          /\ prev.has = Classify(Dirs[prev.idx]).has
          /\ \A i \in (prev.idx + 1)..(dir_idx - 1) : ~SnpPage(i)

\* In the loop a page is measured exactly when a page after it begins a batch.
OpenInv ==
    mpc = "loop" => \A i \in 1..(dir_idx - 1) : SnpPage(i) =>
        (i \in DOMAIN when <=> \E k \in (i + 1)..(dir_idx - 1) : SnpPage(k) /\ BeginsBatch(k))

PhaseInv ==
    /\ mpc = "ready" => dir_idx = 1
    /\ mpc \in {"vmsa", "done"} => dir_idx = Len(Dirs) + 1 /\ batch = <<>>
    /\ mpc = "done" => \A k \in 1..Len(vmsas) : vmsas[k].idx \in DOMAIN when

MInv ==
    /\ MeasureTypeOK
    /\ WhenInv /\ DigestInv
    /\ BatchInv /\ VmsaInv /\ PagesInv /\ OrderInv
    /\ PrevInv /\ OpenInv /\ InsertOvertakesOpenBatch
    /\ PhaseInv

\* The end of the digest is behind everything measured.
LEMMA MeasuredBefore ==
    ASSUME MInv, NEW i \in DOMAIN when
    PROVE  /\ when[i] \in Nat \ {0} /\ Len(ld) \in Nat
           /\ when[i] <= Len(ld) + 1
           /\ SnpPage(i) \/ SnpVmsa(i) => when[i] <= Len(ld)
<1>1. i \in 1..Len(Dirs)
    BY DirsLength DEF MInv, WhenInv, MeasureTypeOK
<1>2. EntriesOf(i) \in Seq(Entry) /\ ld \in Seq(Entry)
    BY <1>1, EntriesType DEF MInv, WhenInv, MeasureTypeOK
<1>3. /\ when[i] \in Nat \ {0}
      /\ when[i] + Len(EntriesOf(i)) <= Len(ld) + 1
    BY DEF MInv, DigestInv, Placed
<1>4. SnpPage(i) \/ SnpVmsa(i) => Len(EntriesOf(i)) = 1
    BY DEF EntriesOf
<1>5. Len(EntriesOf(i)) \in Nat /\ Len(ld) \in Nat
    BY <1>2
<1>6. QED
    BY <1>3, <1>4, <1>5

LEMMA Kinds ==
    ASSUME NEW i
    PROVE  /\ SnpPage(i) => ~SnpVmsa(i) /\ ~SnpInsert(i) /\ Dirs[i].kind # "insert"
           /\ SnpVmsa(i) => ~SnpInsert(i) /\ Dirs[i].kind # "insert"
BY DEF SnpPage, SnpVmsa, SnpInsert

\* flush_batch: what holds once the pending batch is in the digest.
LEMMA FlushStep ==
    ASSUME MInv, file' = file, Flush, mpc # "done"
    PROVE  /\ ld' \in Seq(Entry) /\ DigestInv'
           /\ DOMAIN when' \subseteq 1..(dir_idx - 1)
           /\ \A i \in DOMAIN when' :
                 SnpPage(i) \/ (SnpInsert(i) /\ AreasOf(Dirs[i].index) # {})
           /\ \A i \in 1..(dir_idx - 1) : SnpPage(i) => i \in DOMAIN when'
           /\ OrderInv'
           /\ InsertOvertakesOpenBatch'
<1>0. /\ MeasureTypeOK /\ WhenInv /\ DigestInv /\ BatchInv /\ VmsaInv /\ PagesInv /\ OrderInv
      /\ InsertOvertakesOpenBatch
    BY DEF MInv
<1>1. /\ Queued(batch)
      /\ \A k \in 1..Len(batch) : SnpPage(batch[k].idx) /\ batch[k].idx \notin DOMAIN when
      /\ ld' = ld \o Entries(batch) /\ when' = Stamped(batch)
    BY <1>0 DEF BatchInv, Flush
<1>2. /\ ld' \in Seq(Entry) /\ DigestInv'
      /\ Len(ld') = Len(ld) + Len(batch)
      /\ DOMAIN when' = DOMAIN when \union {batch[k].idx : k \in 1..Len(batch)}
      /\ \A i \in DOMAIN when : when'[i] = when[i]
      /\ \A k \in 1..Len(batch) : when'[batch[k].idx] = Len(ld) + k
    BY <1>0, <1>1, FoldIn
<1>3. /\ Len(batch) \in Nat /\ Len(ld) \in Nat
      /\ \A k \in 1..Len(batch) : batch[k].idx \in Nat
    BY <1>0, <1>1, QueuedLength DEF Queued, MeasureTypeOK
<1>4. \A i \in DOMAIN when' : SnpPage(i) \/ (SnpInsert(i) /\ AreasOf(Dirs[i].index) # {})
    BY <1>0, <1>1, <1>2 DEF WhenInv, VmsaInv
<1>5. DOMAIN when' \subseteq 1..(dir_idx - 1)
    BY <1>0, <1>1, <1>2 DEF WhenInv, Queued
<1>6. \A i \in 1..(dir_idx - 1) : SnpPage(i) => i \in DOMAIN when'
    BY <1>0, <1>2 DEF PagesInv
<1>7. ASSUME NEW i \in DOMAIN when', NEW j \in DOMAIN when', SnpPage(i), SnpPage(j), i < j
      PROVE  when'[i] < when'[j]
  <2>1. CASE j \in DOMAIN when
    <3>1. i \in DOMAIN when
      <4>1. ASSUME NEW k \in 1..Len(batch), i = batch[k].idx
            PROVE  FALSE
        <5>1. j < i /\ i \in Nat /\ j \in Nat
          BY <1>0, <1>3, <1>5, <1>7, <2>1, <4>1 DEF PagesInv
        <5>2. QED
          BY <1>7, <5>1
      <4>2. QED
        BY <1>2, <4>1
    <3>2. QED
      BY <1>0, <1>2, <1>7, <2>1, <3>1 DEF OrderInv
  <2>2. ASSUME NEW l \in 1..Len(batch), j = batch[l].idx
        PROVE  when'[i] < when'[j]
    <3>1. CASE i \in DOMAIN when
      <4>1. when'[i] = when[i] /\ when[i] \in Nat /\ when[i] <= Len(ld)
        BY <1>2, <1>7, <3>1, MeasuredBefore
      <4>2. when'[j] = Len(ld) + l
        BY <1>2, <2>2
      <4>3. QED
        BY <1>3, <4>1, <4>2
    <3>2. ASSUME NEW k \in 1..Len(batch), i = batch[k].idx
          PROVE  when'[i] < when'[j]
      <4>1. k < l
        <5>1. l < k => batch[l].idx < batch[k].idx
          BY <1>1 DEF Queued
        <5>2. i \in Nat /\ j \in Nat /\ k \in Nat /\ l \in Nat
          BY <1>3, <2>2, <3>2
        <5>3. k # l
          BY <1>7, <2>2, <3>2, <5>2
        <5>4. QED
          BY <1>7, <2>2, <3>2, <5>1, <5>2, <5>3
      <4>2. when'[i] = Len(ld) + k /\ when'[j] = Len(ld) + l
        BY <1>2, <2>2, <3>2
      <4>3. QED
        BY <1>3, <4>1, <4>2
    <3>3. QED
      BY <1>2, <3>1, <3>2
  <2>3. QED
    BY <1>2, <2>1, <2>2
<1>8. OrderInv'
  <2>1. \A i \in DOMAIN when' : ~SnpVmsa(i)
    BY <1>4, Kinds
  <2>2. QED
    BY <1>7, <2>1, SameFile DEF OrderInv
<1>9. InsertOvertakesOpenBatch'
  <2>1. ASSUME NEW j \in DOMAIN when', Dirs[j].kind = "insert",
               NEW i \in 1..(j - 1), SnpPage(i)
        PROVE  (i \in DOMAIN when' /\ when'[i] < when'[j])
                 <=> \E k \in (i + 1)..(j - 1) : SnpPage(k) /\ BeginsBatch(k)
    <3>1. j \in DOMAIN when /\ when'[j] = when[j]
      BY <1>1, <1>2, <2>1, Kinds
    <3>2. (i \in DOMAIN when /\ when[i] < when[j])
             <=> \E k \in (i + 1)..(j - 1) : SnpPage(k) /\ BeginsBatch(k)
      BY <1>0, <2>1, <3>1 DEF InsertOvertakesOpenBatch
    <3>3. CASE i \in DOMAIN when
      BY <1>2, <3>1, <3>2, <3>3
    <3>4. CASE i \notin DOMAIN when
      <4>1. ASSUME NEW k \in 1..Len(batch), i = batch[k].idx
            PROVE  ~(when'[i] < when'[j])
        <5>1. when'[i] = Len(ld) + k
          BY <1>2, <4>1
        <5>2. when'[j] \in Nat /\ when'[j] <= Len(ld) + 1
          BY <3>1, MeasuredBefore
        <5>3. QED
          BY <1>3, <5>1, <5>2
      <4>2. QED
        BY <1>2, <3>2, <3>4, <4>1
    <3>5. QED
      BY <3>3, <3>4
  <2>2. QED
    BY <2>1, SameFile DEF InsertOvertakesOpenBatch
<1>10. QED
    BY <1>2, <1>4, <1>5, <1>6, <1>8, <1>9

-----------------------------------------------------------------------------
\* One step of measure_snp keeps the invariant, one lemma for each action.
LEMMA QuietStep ==
    ASSUME MInv, UNCHANGED <<file, dir_idx, ld, batch, prev, vmsas, when>>,
           \/ mpc' = mpc
           \/ mpc = "ready" /\ mpc' \in {"loop", "failed"}
           \/ mpc = "loop" /\ mpc' = "failed"
    PROVE  MInv'
<1>1. /\ MeasureTypeOK /\ WhenInv /\ DigestInv /\ BatchInv /\ VmsaInv /\ PagesInv /\ OrderInv
      /\ PrevInv /\ OpenInv /\ InsertOvertakesOpenBatch /\ PhaseInv
    BY DEF MInv
<1>2. MeasureTypeOK'
    BY <1>1 DEF MeasureTypeOK, Dirs
<1>3. WhenInv' /\ DigestInv' /\ PagesInv' /\ OrderInv' /\ InsertOvertakesOpenBatch'
  <2>1. WhenInv' /\ DigestInv'
    BY <1>1, SameFile DEF WhenInv, DigestInv, Placed, Owned
  <2>2. PagesInv' /\ OrderInv'
    BY <1>1, SameFile DEF PagesInv, OrderInv
  <2>3. InsertOvertakesOpenBatch'
    BY <1>1, SameFile DEF InsertOvertakesOpenBatch
  <2>4. QED
    BY <2>1, <2>2, <2>3
<1>4. BatchInv' /\ VmsaInv' /\ PrevInv'
    BY <1>1, SameFile DEF BatchInv, VmsaInv, Queued, PrevInv
<1>5. OpenInv'
    BY <1>1, SameFile DEF OpenInv, PhaseInv
<1>6. PhaseInv'
    BY <1>1, SameFile DEF PhaseInv
<1>7. QED
    BY <1>2, <1>3, <1>4, <1>5, <1>6 DEF MInv

LEMMA DigestKept ==
    ASSUME DigestInv, OrderInv, InsertOvertakesOpenBatch, UNCHANGED <<file, ld, when>>
    PROVE  DigestInv' /\ OrderInv' /\ InsertOvertakesOpenBatch'
<1>1. DigestInv'
    BY SameFile DEF DigestInv, Placed, Owned
<1>2. OrderInv'
    BY SameFile DEF OrderInv
<1>3. InsertOvertakesOpenBatch'
    BY SameFile DEF InsertOvertakesOpenBatch
<1>4. QED
    BY <1>1, <1>2, <1>3

LEMMA SkipStep ==
    ASSUME MInv, SkipDirective
    PROVE  MInv'
<1>1. /\ MeasureTypeOK /\ WhenInv /\ DigestInv /\ BatchInv /\ VmsaInv /\ PagesInv /\ OrderInv
      /\ PrevInv /\ OpenInv /\ InsertOvertakesOpenBatch
    BY DEF MInv
<1>2. /\ mpc = "loop" /\ dir_idx <= Len(Dirs) /\ dir_idx' = dir_idx + 1
      /\ UNCHANGED <<file, mpc, ld, batch, prev, vmsas, when>>
      /\ ~SnpPage(dir_idx) /\ ~SnpVmsa(dir_idx)
    BY DEF SkipDirective, Dir, SnpPage, SnpVmsa
<1>3. /\ dir_idx \in Nat /\ Len(Dirs) \in Nat /\ prev.idx \in Nat
      /\ 1..(dir_idx' - 1) = 1..(dir_idx - 1) \union {dir_idx}
    BY <1>1, <1>2, DirsLength DEF MeasureTypeOK
<1>4. MeasureTypeOK'
    BY <1>1, <1>2, <1>3 DEF MeasureTypeOK, Dirs
<1>5. WhenInv' /\ DigestInv' /\ OrderInv' /\ InsertOvertakesOpenBatch'
  <2>1. WhenInv'
    BY <1>1, <1>2, <1>3, SameFile DEF WhenInv
  <2>2. DigestInv' /\ OrderInv' /\ InsertOvertakesOpenBatch'
    BY <1>1, <1>2, DigestKept
  <2>3. QED
    BY <2>1, <2>2
<1>6. BatchInv' /\ VmsaInv' /\ PagesInv'
    BY <1>1, <1>2, <1>3, SameFile DEF BatchInv, VmsaInv, Queued, PagesInv
<1>7. PrevInv'
  <2>1. \A i \in 1..(dir_idx' - 1) : i \in 1..(dir_idx - 1) \/ i = dir_idx
    BY <1>3
  <2>2. \A i \in (prev.idx + 1)..(dir_idx' - 1) :
            i \in (prev.idx + 1)..(dir_idx - 1) \/ i = dir_idx
    BY <1>2, <1>3
  <2>3. QED
    BY <1>1, <1>2, <2>1, <2>2, SameFile DEF PrevInv
<1>8. OpenInv'
  <2>1. ASSUME NEW i \in 1..(dir_idx - 1), SnpPage(i)
        PROVE  (\E k \in (i + 1)..(dir_idx' - 1) : SnpPage(k) /\ BeginsBatch(k))
                 <=> \E k \in (i + 1)..(dir_idx - 1) : SnpPage(k) /\ BeginsBatch(k)
    <3>1. \A k \in (i + 1)..(dir_idx' - 1) : k \in (i + 1)..(dir_idx - 1) \/ k = dir_idx
      BY <1>2, <1>3
    <3>2. \A k \in (i + 1)..(dir_idx - 1) : k \in (i + 1)..(dir_idx' - 1)
      BY <1>2, <1>3
    <3>3. QED
      BY <1>2, <3>1, <3>2
  <2>2. QED
    BY <1>1, <1>2, <1>3, <2>1, SameFile DEF OpenInv
<1>9. PhaseInv'
    BY <1>2 DEF PhaseInv
<1>10. QED
    BY <1>4, <1>5, <1>6, <1>7, <1>8, <1>9 DEF MInv

LEMMA FlushRestStep ==
    ASSUME MInv, FlushRest
    PROVE  MInv'
<1>1. /\ MeasureTypeOK /\ WhenInv /\ VmsaInv /\ PrevInv
    BY DEF MInv
<1>2. /\ mpc = "loop" /\ mpc' = "vmsa" /\ dir_idx > Len(Dirs) /\ batch' = <<>>
      /\ UNCHANGED <<file, dir_idx, prev, vmsas>> /\ Flush
    BY DEF FlushRest
<1>3. /\ ld' \in Seq(Entry) /\ DigestInv'
      /\ DOMAIN when' \subseteq 1..(dir_idx - 1)
      /\ \A i \in DOMAIN when' : SnpPage(i) \/ (SnpInsert(i) /\ AreasOf(Dirs[i].index) # {})
      /\ \A i \in 1..(dir_idx - 1) : SnpPage(i) => i \in DOMAIN when'
      /\ OrderInv'
      /\ InsertOvertakesOpenBatch'
    BY <1>2, FlushStep
<1>4. dir_idx = Len(Dirs) + 1
    BY <1>1, <1>2, DirsLength DEF MeasureTypeOK
<1>5. MeasureTypeOK'
  <2>1. batch' \in Pending
    BY <1>2 DEF Pending
  <2>2. DOMAIN when' \subseteq 1..Len(Dirs) /\ \A i \in DOMAIN when' : when'[i] \in Nat
    BY <1>1, <1>3, <1>4, DirsLength DEF DigestInv, Placed
  <2>3. QED
    BY <1>1, <1>2, <1>3, <2>1, <2>2 DEF MeasureTypeOK, Dirs
<1>6. WhenInv' /\ PrevInv'
    BY <1>1, <1>2, <1>3, SameFile DEF WhenInv, PrevInv
<1>7. BatchInv' /\ PagesInv'
  <2>1. batch' \in Pending /\ Len(batch') = 0 /\ 1..Len(batch') = {}
    BY <1>2 DEF Pending
  <2>2. QED
    BY <1>2, <1>3, <2>1, SameFile DEF BatchInv, Queued, PagesInv
<1>8. VmsaInv'
    BY <1>1, <1>2, <1>3, Kinds, SameFile DEF VmsaInv, Queued
<1>9. OpenInv' /\ PhaseInv'
    BY <1>2, <1>4, SameFile DEF OpenInv, PhaseInv
<1>10. QED
    BY <1>3, <1>5, <1>6, <1>7, <1>8, <1>9 DEF MInv

LEMMA VmsaPagesStep ==
    ASSUME MInv, MeasureVmsaPages
    PROVE  MInv'
<1>1. /\ MeasureTypeOK /\ WhenInv /\ DigestInv /\ BatchInv /\ VmsaInv /\ PagesInv /\ OrderInv
      /\ PrevInv /\ InsertOvertakesOpenBatch /\ PhaseInv
    BY DEF MInv
<1>2. /\ mpc = "vmsa" /\ mpc' = "done"
      /\ UNCHANGED <<file, dir_idx, batch, prev, vmsas>>
      /\ ld' = ld \o Entries(vmsas) /\ when' = Stamped(vmsas)
    BY DEF MeasureVmsaPages
<1>3. /\ dir_idx = Len(Dirs) + 1 /\ batch = <<>> /\ Queued(vmsas)
      /\ \A k \in 1..Len(vmsas) : SnpVmsa(vmsas[k].idx) /\ vmsas[k].idx \notin DOMAIN when
    BY <1>1, <1>2 DEF PhaseInv, VmsaInv
<1>4. /\ ld' \in Seq(Entry) /\ DigestInv'
      /\ DOMAIN when' = DOMAIN when \union {vmsas[k].idx : k \in 1..Len(vmsas)}
      /\ \A i \in DOMAIN when : when'[i] = when[i]
      /\ \A k \in 1..Len(vmsas) : when'[vmsas[k].idx] = Len(ld) + k
    BY <1>1, <1>2, <1>3, FoldIn
<1>5. /\ Len(vmsas) \in Nat /\ Len(ld) \in Nat
      /\ \A k \in 1..Len(vmsas) : vmsas[k].idx \in Nat
    BY <1>1, <1>3, QueuedLength DEF Queued, MeasureTypeOK
<1>6. WhenInv'
    BY <1>1, <1>2, <1>3, <1>4, SameFile DEF WhenInv, Queued
<1>7. MeasureTypeOK'
  <2>1. DOMAIN when' \subseteq 1..Len(Dirs) /\ \A i \in DOMAIN when' : when'[i] \in Nat
    BY <1>1, <1>2, <1>3, <1>4, <1>6, DirsLength DEF WhenInv, DigestInv, Placed
  <2>2. QED
    BY <1>1, <1>2, <1>4, <2>1 DEF MeasureTypeOK, Dirs
<1>8. BatchInv' /\ PagesInv'
  <2>1. Len(batch) = 0 /\ 1..Len(batch) = {}
    BY <1>3
  <2>2. QED
    BY <1>1, <1>2, <1>4, <2>1, SameFile DEF BatchInv, Queued, PagesInv
<1>9. VmsaInv' /\ PrevInv'
    BY <1>1, <1>2, SameFile DEF VmsaInv, Queued, PrevInv
<1>10. OpenInv' /\ PhaseInv'
    BY <1>2, <1>3, <1>4, SameFile DEF OpenInv, PhaseInv
<1>11. ASSUME NEW i \in DOMAIN when', NEW j \in DOMAIN when'
       PROVE  /\ SnpPage(i) /\ SnpPage(j) /\ i < j => when'[i] < when'[j]
              /\ SnpVmsa(j) /\ (SnpPage(i) \/ (SnpVmsa(i) /\ i < j)) => when'[i] < when'[j]
  <2>1. ASSUME SnpPage(i), SnpPage(j), i < j
        PROVE  when'[i] < when'[j]
    <3>1. i \in DOMAIN when /\ j \in DOMAIN when
      BY <1>3, <1>4, <2>1, Kinds
    <3>2. QED
      BY <1>1, <1>4, <2>1, <3>1 DEF OrderInv
  <2>2. ASSUME SnpVmsa(j), SnpPage(i) \/ (SnpVmsa(i) /\ i < j)
        PROVE  when'[i] < when'[j]
    <3>1. PICK l \in 1..Len(vmsas) : j = vmsas[l].idx
      BY <1>1, <1>2, <1>4, <2>2 DEF VmsaInv
    <3>2. when'[j] = Len(ld) + l
      BY <1>4, <3>1
    <3>3. CASE i \in DOMAIN when
      <4>1. when'[i] = when[i] /\ when[i] \in Nat /\ when[i] <= Len(ld)
        BY <1>4, <2>2, <3>3, MeasuredBefore
      <4>2. QED
        BY <1>5, <3>2, <4>1
    <3>4. ASSUME NEW k \in 1..Len(vmsas), i = vmsas[k].idx
          PROVE  when'[i] < when'[j]
      <4>1. i < j
        BY <1>3, <2>2, <3>4, Kinds
      <4>2. k < l
        <5>1. l < k => vmsas[l].idx < vmsas[k].idx
          BY <1>3 DEF Queued
        <5>2. i \in Nat /\ j \in Nat /\ k \in Nat /\ l \in Nat
          BY <1>5, <3>1, <3>4
        <5>3. k # l
          BY <3>1, <3>4, <4>1, <5>2
        <5>4. QED
          BY <3>1, <3>4, <4>1, <5>1, <5>2, <5>3
      <4>3. when'[i] = Len(ld) + k
        BY <1>4, <3>4
      <4>4. QED
        BY <1>5, <3>2, <4>2, <4>3
    <3>5. QED
      BY <1>4, <3>3, <3>4
  <2>3. QED
    BY <2>1, <2>2
<1>12. OrderInv'
    BY <1>2, <1>11, SameFile DEF OrderInv
<1>13. InsertOvertakesOpenBatch'
  <2>1. ASSUME NEW j \in DOMAIN when', Dirs[j].kind = "insert",
               NEW i \in 1..(j - 1), SnpPage(i)
        PROVE  (i \in DOMAIN when' /\ when'[i] < when'[j])
                 <=> \E k \in (i + 1)..(j - 1) : SnpPage(k) /\ BeginsBatch(k)
    <3>1. j \in DOMAIN when /\ when'[j] = when[j]
      BY <1>3, <1>4, <2>1, Kinds
    <3>2. i \in DOMAIN when' <=> i \in DOMAIN when
      BY <1>3, <1>4, <2>1, Kinds
    <3>3. QED
      BY <1>1, <1>4, <2>1, <3>1, <3>2 DEF InsertOvertakesOpenBatch
  <2>2. QED
    BY <2>1, <1>2, SameFile DEF InsertOvertakesOpenBatch
<1>14. QED
    BY <1>4, <1>6, <1>7, <1>8, <1>9, <1>10, <1>12, <1>13 DEF MInv

LEMMA AppendAt ==
    ASSUME NEW S, NEW q \in Seq(S), NEW x \in S
    PROVE  /\ Append(q, x) \in Seq(S)
           /\ Len(q) \in Nat /\ Len(Append(q, x)) = Len(q) + 1
           /\ \A k \in 1..Len(q) : Append(q, x)[k] = q[k]
           /\ Append(q, x)[Len(q) + 1] = x
OBVIOUS

\* r is list q with the directive at the loop's place at its end.
Grown(q, r) ==
    /\ r \in Pending /\ Len(q) \in Nat /\ Len(r) = Len(q) + 1
    /\ \A k \in 1..Len(q) : r[k] = q[k]
    /\ r[Len(q) + 1].idx = dir_idx
    /\ \A k \in 1..Len(r) : k \in 1..Len(q) \/ k = Len(q) + 1
    /\ \A k \in 1..Len(r) : /\ r[k].idx \in 1..dir_idx
                             /\ EntriesOf(r[k].idx) = <<r[k].entry>>
    /\ \A k, l \in 1..Len(r) : k < l => r[k].idx < r[l].idx

LEMMA QueuedAppend ==
    ASSUME MeasureTypeOK, NEW q, Queued(q), NEW e \in Entry, NEW r,
           EntriesOf(dir_idx) = <<e>>, dir_idx <= Len(Dirs),
           r = Append(q, [idx |-> dir_idx, entry |-> e])
    PROVE  Grown(q, r)
<1> DEFINE x == [idx |-> dir_idx, entry |-> e]
<1>1. dir_idx \in Nat \ {0} /\ x \in [idx : Nat, entry : Entry] /\ x.idx = dir_idx /\ x.entry = e
    BY DirsLength DEF MeasureTypeOK
<1>0. r = Append(q, x)
    OBVIOUS
<1> HIDE DEF x
<1>2. q \in Seq([idx : Nat, entry : Entry])
    BY DEF Queued, Pending
<1>3. /\ r \in Seq([idx : Nat, entry : Entry])
      /\ Len(q) \in Nat /\ Len(r) = Len(q) + 1
      /\ \A k \in 1..Len(q) : r[k] = q[k]
      /\ r[Len(q) + 1] = x
    BY <1>0, <1>1, <1>2, AppendAt
<1>4. \A k \in 1..Len(r) : k \in 1..Len(q) \/ k = Len(q) + 1
    BY <1>3
<1>5. \A k \in 1..Len(q) : q[k].idx \in 1..(dir_idx - 1) /\ EntriesOf(q[k].idx) = <<q[k].entry>>
    BY DEF Queued
<1>6. ASSUME NEW k \in 1..Len(r)
      PROVE  r[k].idx \in 1..dir_idx /\ EntriesOf(r[k].idx) = <<r[k].entry>>
  <2>1. CASE k \in 1..Len(q)
    <3>1. r[k] = q[k] /\ q[k].idx \in 1..(dir_idx - 1) /\ EntriesOf(q[k].idx) = <<q[k].entry>>
      BY <1>3, <1>5, <2>1
    <3>2. q[k].idx \in 1..dir_idx
      BY <1>1, <3>1
    <3>3. QED
      BY <3>1, <3>2
  <2>2. CASE k = Len(q) + 1
    BY <1>1, <1>3, <2>2
  <2>3. QED
    BY <1>4, <2>1, <2>2
<1>7. ASSUME NEW k \in 1..Len(r), NEW l \in 1..Len(r), k < l
      PROVE  r[k].idx < r[l].idx
  <2>1. k \in 1..Len(q)
    BY <1>3, <1>7
  <2>2. CASE l \in 1..Len(q)
    BY <1>3, <1>7, <2>1, <2>2 DEF Queued
  <2>3. CASE l = Len(q) + 1
    <3>1. r[k].idx \in 1..(dir_idx - 1) /\ r[l].idx = dir_idx
      BY <1>1, <1>3, <1>5, <2>1, <2>3
    <3>2. QED
      BY <1>1, <3>1
  <2>4. QED
    BY <1>4, <2>2, <2>3
<1>8. r \in Pending
    BY <1>3 DEF Pending
<1>9. r[Len(q) + 1].idx = dir_idx
    BY <1>1, <1>3
<1>10. QED
    BY <1>3, <1>4, <1>6, <1>7, <1>8, <1>9 DEF Grown

LEMMA CollectVmsaStep ==
    ASSUME MInv, CollectVmsa
    PROVE  MInv'
<1>1. /\ MeasureTypeOK /\ WhenInv /\ DigestInv /\ BatchInv /\ VmsaInv /\ PagesInv /\ OrderInv
      /\ PrevInv /\ OpenInv /\ InsertOvertakesOpenBatch
    BY DEF MInv
<1>2. /\ mpc = "loop" /\ dir_idx <= Len(Dirs) /\ dir_idx' = dir_idx + 1
      /\ UNCHANGED <<file, mpc, ld, batch, prev, when>>
      /\ SnpVmsa(dir_idx) /\ ~SnpPage(dir_idx)
      /\ vmsas' = Append(vmsas, [idx |-> dir_idx, entry |-> VmsaEntry(Dirs[dir_idx])])
    BY DEF CollectVmsa, At, Dir, SnpPage, SnpVmsa
<1>3. /\ dir_idx \in Nat \ {0} /\ Len(Dirs) \in Nat /\ prev.idx \in Nat
      /\ 1..(dir_idx' - 1) = 1..(dir_idx - 1) \union {dir_idx}
      /\ dir_idx' - 1 = dir_idx
    BY <1>1, <1>2, DirsLength DEF MeasureTypeOK
<1>4. Grown(vmsas, vmsas')
  <2>1. VmsaEntry(Dirs[dir_idx]) \in Entry
    BY <1>1, <1>2, <1>3, DirectiveAt, EntryTypes
  <2>2. EntriesOf(dir_idx) = <<VmsaEntry(Dirs[dir_idx])>>
    BY <1>2 DEF EntriesOf
  <2>3. Queued(vmsas)
    BY <1>1 DEF VmsaInv
  <2>4. QED
    BY <1>1, <1>2, <2>1, <2>2, <2>3, QueuedAppend
<1>5. MeasureTypeOK'
    BY <1>1, <1>2, <1>3, <1>4 DEF MeasureTypeOK, Dirs, Grown
<1>6. WhenInv' /\ DigestInv' /\ OrderInv' /\ InsertOvertakesOpenBatch'
  <2>1. WhenInv'
    BY <1>1, <1>2, <1>3, SameFile DEF WhenInv
  <2>2. DigestInv' /\ OrderInv' /\ InsertOvertakesOpenBatch'
    BY <1>1, <1>2, DigestKept
  <2>3. QED
    BY <2>1, <2>2
<1>7. BatchInv' /\ PagesInv'
    BY <1>1, <1>2, <1>3, SameFile DEF BatchInv, Queued, PagesInv
<1>8. VmsaInv'
  <2>1. Queued(vmsas)'
    BY <1>2, <1>3, <1>4, SameFile DEF Queued, Grown
  <2>2. \A k \in 1..Len(vmsas') : SnpVmsa(vmsas'[k].idx)
    BY <1>1, <1>2, <1>4 DEF VmsaInv, Grown
  <2>3. ASSUME NEW i \in 1..(dir_idx' - 1), SnpVmsa(i)
        PROVE  \E k \in 1..Len(vmsas') : vmsas'[k].idx = i
    <3>1. CASE i = dir_idx
      BY <1>4, <3>1 DEF Grown
    <3>2. CASE i \in 1..(dir_idx - 1)
      <4>1. PICK k \in 1..Len(vmsas) : vmsas[k].idx = i
        BY <1>1, <2>3, <3>2 DEF VmsaInv
      <4>2. k \in 1..Len(vmsas') /\ vmsas'[k].idx = i
        BY <1>4, <4>1 DEF Grown
      <4>3. QED
        BY <4>2
    <3>3. QED
      BY <1>3, <3>1, <3>2
  <2>4. QED
    BY <1>1, <1>2, <2>1, <2>2, <2>3, SameFile DEF VmsaInv
<1>9. PrevInv'
  <2>1. \A i \in (prev.idx + 1)..(dir_idx' - 1) :
            i \in (prev.idx + 1)..(dir_idx - 1) \/ i = dir_idx
    BY <1>2, <1>3
  <2>2. QED
    BY <1>1, <1>2, <1>3, <2>1, SameFile DEF PrevInv
<1>10. OpenInv'
  <2>1. ASSUME NEW i \in 1..(dir_idx - 1), SnpPage(i)
        PROVE  (\E k \in (i + 1)..(dir_idx' - 1) : SnpPage(k) /\ BeginsBatch(k))
                 <=> \E k \in (i + 1)..(dir_idx - 1) : SnpPage(k) /\ BeginsBatch(k)
    <3>1. \A k \in (i + 1)..(dir_idx' - 1) : k \in (i + 1)..(dir_idx - 1) \/ k = dir_idx
      BY <1>2, <1>3
    <3>2. \A k \in (i + 1)..(dir_idx - 1) : k \in (i + 1)..(dir_idx' - 1)
      BY <1>2, <1>3
    <3>3. QED
      BY <1>2, <3>1, <3>2
  <2>2. QED
    BY <1>1, <1>2, <1>3, <2>1, SameFile DEF OpenInv
<1>11. PhaseInv'
    BY <1>2 DEF PhaseInv
<1>12. QED
    BY <1>5, <1>6, <1>7, <1>8, <1>9, <1>10, <1>11 DEF MInv

\* Folding the pages of a parameter area into the digest keeps DigestInv.
LEMMA InsertIn ==
    ASSUME MInv, MeasureInsert
    PROVE  /\ ld' \in Seq(Entry)
           /\ DOMAIN when' = DOMAIN when \union {dir_idx}
           /\ dir_idx \notin DOMAIN when
           /\ \A i \in DOMAIN when : when'[i] = when[i]
           /\ when'[dir_idx] = Len(ld) + 1
           /\ DigestInv'
<1>0. MeasureTypeOK /\ WhenInv /\ DigestInv
    BY DEF MInv
<1>1. /\ dir_idx <= Len(Dirs) /\ AreasOf(Dirs[dir_idx].index) # {}
      /\ SnpInsert(dir_idx) /\ ~SnpPage(dir_idx) /\ ~SnpVmsa(dir_idx)
      /\ ld' = ld \o InsertEntries(Dirs[dir_idx])
      /\ when' = [i \in DOMAIN when \union {dir_idx} |->
                     IF i = dir_idx THEN Len(ld) + 1 ELSE when[i]]
      /\ file' = file
    BY DEF MeasureInsert, At, Dir, SnpInsert, SnpPage, SnpVmsa
<1>2. dir_idx \in 1..Len(Dirs) /\ dir_idx \notin DOMAIN when
    BY <1>0, <1>1, DirsLength DEF MeasureTypeOK, WhenInv
<1> DEFINE E == EntriesOf(dir_idx)
<1>3. E \in Seq(Entry) /\ ld' = ld \o E
    BY <1>0, <1>1, <1>2, EntriesType DEF EntriesOf
<1>4. \A i : EntriesOf(i)' = EntriesOf(i)
    BY <1>1, SameFile
<1> HIDE DEF E
<1>5. /\ ld \in Seq(Entry) /\ ld' \in Seq(Entry) /\ Len(ld) \in Nat /\ Len(E) \in Nat
      /\ Len(ld') = Len(ld) + Len(E)
      /\ \A p \in 1..Len(ld) : ld'[p] = ld[p]
      /\ \A k \in 1..Len(E) : ld'[Len(ld) + k] = E[k]
  <2>1. ld \in Seq(Entry)
    BY <1>0 DEF MeasureTypeOK
  <2>2. QED
    BY <1>3, <2>1, ConcatAt
<1>6. /\ DOMAIN when' = DOMAIN when \union {dir_idx}
      /\ \A i \in DOMAIN when : when'[i] = when[i]
      /\ when'[dir_idx] = Len(ld) + 1
    BY <1>1, <1>2
<1>7. ASSUME NEW i \in DOMAIN when
      PROVE  Placed(i)'
  <2>1. /\ when[i] \in Nat \ {0}
        /\ when[i] + Len(EntriesOf(i)) <= Len(ld) + 1
        /\ \A k \in 1..Len(EntriesOf(i)) : ld[when[i] + k - 1] = EntriesOf(i)[k]
    BY <1>0 DEF DigestInv, Placed
  <2>2. Len(EntriesOf(i)) \in Nat
    <3>1. i \in 1..Len(Dirs)
      BY <1>0, DirsLength DEF WhenInv, MeasureTypeOK
    <3>2. EntriesOf(i) \in Seq(Entry)
      BY <1>0, <3>1, EntriesType DEF WhenInv
    <3>3. QED
      BY <3>2
  <2>3. \A k \in 1..Len(EntriesOf(i)) :
            when[i] + k - 1 \in 1..Len(ld) /\ ld'[when[i] + k - 1] = EntriesOf(i)[k]
    <3>1. \A k \in 1..Len(EntriesOf(i)) : when[i] + k - 1 \in 1..Len(ld)
      BY <1>5, <2>1, <2>2
    <3>2. QED
      BY <1>5, <2>1, <3>1
  <2>4. when[i] + Len(EntriesOf(i)) <= Len(ld') + 1
    BY <1>5, <2>1, <2>2
  <2>5. QED
    BY <1>4, <1>6, <2>1, <2>3, <2>4 DEF Placed
<1>8. ASSUME NEW i, i = dir_idx
      PROVE  Placed(i)'
  <2>1. \A k \in 1..Len(E) : ld'[Len(ld) + 1 + k - 1] = E[k]
    BY <1>5
  <2>2. Len(ld) + 1 \in Nat \ {0} /\ Len(ld) + 1 + Len(E) <= Len(ld') + 1
    BY <1>5
  <2>3. when'[i] = Len(ld) + 1 /\ EntriesOf(i)' = E
    BY <1>4, <1>6, <1>8 DEF E
  <2>4. QED
    BY <2>1, <2>2, <2>3 DEF Placed
<1>9. ASSUME NEW p \in 1..Len(ld')
      PROVE  Owned(p)'
  <2>1. CASE p \in 1..Len(ld)
    <3>1. Owned(p)
      BY <1>0, <2>1 DEF DigestInv
    <3>2. QED
      BY <1>4, <1>6, <3>1 DEF Owned
  <2>2. CASE p \notin 1..Len(ld)
    <3>1. Len(ld) + 1 <= p /\ p < Len(ld) + 1 + Len(E)
      BY <1>5, <2>2
    <3>2. PICK i : i = dir_idx
      OBVIOUS
    <3>3. i \in DOMAIN when' /\ when'[i] = Len(ld) + 1 /\ EntriesOf(i)' = E
      BY <1>4, <1>6, <3>2 DEF E
    <3>4. QED
      BY <3>1, <3>3 DEF Owned
  <2>3. QED
    BY <2>1, <2>2
<1>10. DigestInv'
    BY <1>6, <1>7, <1>8, <1>9 DEF DigestInv
<1>11. QED
    BY <1>2, <1>5, <1>6, <1>10

LEMMA InsertStep ==
    ASSUME MInv, MeasureInsert
    PROVE  MInv'
<1>1. /\ MeasureTypeOK /\ WhenInv /\ BatchInv /\ VmsaInv /\ PagesInv /\ OrderInv
      /\ PrevInv /\ OpenInv /\ InsertOvertakesOpenBatch
    BY DEF MInv
<1>2. /\ mpc = "loop" /\ dir_idx <= Len(Dirs) /\ dir_idx' = dir_idx + 1
      /\ UNCHANGED <<file, mpc, batch, prev, vmsas>>
      /\ SnpInsert(dir_idx) /\ ~SnpPage(dir_idx) /\ ~SnpVmsa(dir_idx)
      /\ AreasOf(Dirs[dir_idx].index) # {}
    BY DEF MeasureInsert, At, Dir, SnpInsert, SnpPage, SnpVmsa
<1>3. /\ dir_idx \in Nat \ {0} /\ Len(Dirs) \in Nat /\ prev.idx \in Nat
      /\ 1..(dir_idx' - 1) = 1..(dir_idx - 1) \union {dir_idx}
      /\ dir_idx' - 1 = dir_idx
    BY <1>1, <1>2, DirsLength DEF MeasureTypeOK
<1>4. /\ ld' \in Seq(Entry)
      /\ DOMAIN when' = DOMAIN when \union {dir_idx}
      /\ dir_idx \notin DOMAIN when
      /\ \A i \in DOMAIN when : when'[i] = when[i]
      /\ when'[dir_idx] = Len(ld) + 1
      /\ DigestInv'
    BY InsertIn
<1>5. WhenInv'
    BY <1>1, <1>2, <1>3, <1>4, SameFile DEF WhenInv
<1>6. MeasureTypeOK'
  <2>1. DOMAIN when' \subseteq 1..Len(Dirs) /\ \A i \in DOMAIN when' : when'[i] \in Nat
    BY <1>2, <1>3, <1>4, <1>5 DEF WhenInv, DigestInv, Placed
  <2>2. QED
    BY <1>1, <1>2, <1>3, <1>4, <2>1, SMTT(20) DEF MeasureTypeOK, Dirs
<1>7. BatchInv'
  <2>1. \A k \in 1..Len(batch) : batch[k].idx \notin DOMAIN when'
    BY <1>1, <1>2, <1>4 DEF BatchInv
  <2>2. QED
    BY <1>1, <1>2, <1>3, <2>1, SameFile DEF BatchInv, Queued
<1>8. VmsaInv'
    BY <1>1, <1>2, <1>3, <1>4, SameFile DEF VmsaInv, Queued
<1>9. PagesInv'
  <2>1. ASSUME NEW i \in 1..(dir_idx' - 1), SnpPage(i)
        PROVE  i \in DOMAIN when' \/ \E k \in 1..Len(batch) : batch[k].idx = i
    BY <1>1, <1>2, <1>3, <1>4, <2>1 DEF PagesInv
  <2>2. \A i \in DOMAIN when' : SnpPage(i) => \A k \in 1..Len(batch) : i < batch[k].idx
    BY <1>1, <1>2, <1>4 DEF PagesInv
  <2>3. QED
    BY <1>2, <2>1, <2>2, SameFile DEF PagesInv
<1>10. OrderInv'
  <2>1. ASSUME NEW i \in DOMAIN when', NEW j \in DOMAIN when'
        PROVE  /\ SnpPage(i) /\ SnpPage(j) /\ i < j => when'[i] < when'[j]
               /\ SnpVmsa(j) /\ (SnpPage(i) \/ (SnpVmsa(i) /\ i < j)) => when'[i] < when'[j]
    BY <1>1, <1>2, <1>4 DEF OrderInv
  <2>2. QED
    BY <1>2, <2>1, SameFile DEF OrderInv
<1>11. PrevInv'
  <2>1. \A i \in (prev.idx + 1)..(dir_idx' - 1) :
            i \in (prev.idx + 1)..(dir_idx - 1) \/ i = dir_idx
    BY <1>2, <1>3
  <2>2. QED
    BY <1>1, <1>2, <1>3, <2>1, SameFile DEF PrevInv
<1>12. OpenInv'
  <2>1. ASSUME NEW i \in 1..(dir_idx - 1), SnpPage(i)
        PROVE  (\E k \in (i + 1)..(dir_idx' - 1) : SnpPage(k) /\ BeginsBatch(k))
                 <=> \E k \in (i + 1)..(dir_idx - 1) : SnpPage(k) /\ BeginsBatch(k)
    <3>1. \A k \in (i + 1)..(dir_idx' - 1) : k \in (i + 1)..(dir_idx - 1) \/ k = dir_idx
      BY <1>2, <1>3
    <3>2. \A k \in (i + 1)..(dir_idx - 1) : k \in (i + 1)..(dir_idx' - 1)
      BY <1>2, <1>3
    <3>3. QED
      BY <1>2, <3>1, <3>2
  <2>2. \A i \in 1..(dir_idx - 1) : i \in DOMAIN when' <=> i \in DOMAIN when
    BY <1>3, <1>4
  <2>3. QED
    BY <1>1, <1>2, <1>3, <2>1, <2>2, SameFile DEF OpenInv
<1>13. InsertOvertakesOpenBatch'
  <2>1. ASSUME NEW j \in DOMAIN when', Dirs[j].kind = "insert",
               NEW i \in 1..(j - 1), SnpPage(i)
        PROVE  (i \in DOMAIN when' /\ when'[i] < when'[j])
                 <=> \E k \in (i + 1)..(j - 1) : SnpPage(k) /\ BeginsBatch(k)
    <3>1. i \in DOMAIN when' <=> i \in DOMAIN when
      BY <1>2, <1>4, <2>1
    <3>2. CASE j \in DOMAIN when
      BY <1>1, <1>4, <2>1, <3>1, <3>2 DEF InsertOvertakesOpenBatch
    <3>3. CASE j = dir_idx
      <4>1. i \in DOMAIN when => when'[i] < when'[j]
        <5>1. ASSUME i \in DOMAIN when
              PROVE  when'[i] < when'[j]
          <6>1. when'[i] = when[i] /\ when[i] \in Nat /\ Len(ld) \in Nat /\ when[i] <= Len(ld)
            BY <1>4, <2>1, <5>1, MeasuredBefore
          <6>2. when'[j] = Len(ld) + 1
            BY <1>4, <3>3
          <6>3. QED
            BY <6>1, <6>2
        <5>2. QED
          BY <5>1
      <4>2. i \in DOMAIN when
              <=> \E k \in (i + 1)..(dir_idx - 1) : SnpPage(k) /\ BeginsBatch(k)
        BY <1>1, <1>2, <2>1, <3>3 DEF OpenInv
      <4>3. QED
        BY <3>1, <3>3, <4>1, <4>2
    <3>4. QED
      BY <1>4, <3>2, <3>3
  <2>2. QED
    BY <1>2, <2>1, SameFile DEF InsertOvertakesOpenBatch
<1>14. PhaseInv'
    BY <1>2 DEF PhaseInv
<1>15. QED
    BY <1>4, <1>5, <1>6, <1>7, <1>8, <1>9, <1>10, <1>11, <1>12, <1>13, <1>14 DEF MInv

\* The test of the loop, on what it remembers of the last page, is the one on
\* the directives of the file.
LEMMA BreaksAtBatch ==
    ASSUME MInv, dir_idx <= Len(Dirs), prev.idx # 0
    PROVE  Continues(prev, dir_idx, Dirs[dir_idx]) <=> ~BeginsBatch(dir_idx)
<1>1. /\ SnpPage(prev.idx) /\ prev.gpa = Dirs[prev.idx].gpa
      /\ prev.type = Classify(Dirs[prev.idx]).type
      /\ prev.has = Classify(Dirs[prev.idx]).has
      /\ \A i \in (prev.idx + 1)..(dir_idx - 1) : ~SnpPage(i)
    BY DEF MInv, PrevInv
<1>2. prev.idx \in 1..(dir_idx - 1) /\ dir_idx \in Nat
    BY DirsLength DEF MInv, MeasureTypeOK
<1>3. dir_idx > 1
    BY <1>2
<1>4. CASE dir_idx = prev.idx + 1
  <2>1. dir_idx - 1 = prev.idx
    BY <1>2, <1>4
  <2>2. QED
    BY <1>1, <1>3, <1>4, <2>1 DEF Continues, BeginsBatch
<1>5. CASE dir_idx # prev.idx + 1
  <2>1. dir_idx - 1 \in (prev.idx + 1)..(dir_idx - 1)
    BY <1>2, <1>5
  <2>2. ~SnpPage(dir_idx - 1)
    BY <1>1, <2>1
  <2>3. QED
    BY <1>5, <2>2 DEF Continues, BeginsBatch
<1>6. QED
    BY <1>4, <1>5

LEMMA BatchPageStep ==
    ASSUME MInv, BatchPage
    PROVE  MInv'
<1> DEFINE breaks == prev.idx # 0 /\ ~Continues(prev, dir_idx, Dirs[dir_idx])
           pending == IF breaks THEN <<>> ELSE batch
           e == PageEntry(Dirs[dir_idx])
<1>1. /\ MeasureTypeOK /\ WhenInv /\ DigestInv /\ BatchInv /\ VmsaInv /\ PagesInv /\ OrderInv
      /\ PrevInv /\ OpenInv /\ InsertOvertakesOpenBatch
    BY DEF MInv
<1>2. /\ mpc = "loop" /\ dir_idx <= Len(Dirs) /\ dir_idx' = dir_idx + 1
      /\ UNCHANGED <<file, mpc, vmsas>>
      /\ SnpPage(dir_idx) /\ ~SnpVmsa(dir_idx)
      /\ IF breaks THEN Flush ELSE UNCHANGED <<ld, when>>
      /\ batch' = Append(pending, [idx |-> dir_idx, entry |-> e])
      /\ prev' = [idx |-> dir_idx, gpa |-> Dirs[dir_idx].gpa,
                  type |-> Classify(Dirs[dir_idx]).type, has |-> Classify(Dirs[dir_idx]).has]
    BY DEF BatchPage, At, Dir, SnpPage, SnpVmsa
<1>3. /\ dir_idx \in Nat \ {0} /\ Len(Dirs) \in Nat /\ prev.idx \in Nat
      /\ 1..(dir_idx' - 1) = 1..(dir_idx - 1) \union {dir_idx}
      /\ dir_idx' - 1 = dir_idx
      /\ dir_idx \in 1..Len(Dirs)
    BY <1>1, <1>2, DirsLength DEF MeasureTypeOK
<1>4. breaks => BeginsBatch(dir_idx)
    BY <1>2, BreaksAtBatch
<1>5. ~breaks => prev.idx = 0 \/ ~BeginsBatch(dir_idx)
    BY <1>2, BreaksAtBatch
<1>6. /\ e \in Entry /\ EntriesOf(dir_idx) = <<e>>
    BY <1>1, <1>2, <1>3, DirectiveAt, EntryTypes DEF EntriesOf
<1>7. Queued(pending)
  <2>1. Queued(<<>>)
    <3>1. <<>> \in Pending /\ 1..Len(<<>>) = {}
      BY DEF Pending
    <3>2. QED
      BY <3>1 DEF Queued
  <2>2. QED
    BY <1>1, <2>1 DEF BatchInv
\* The digest, which changes only when the batch is flushed.
<1>8. /\ ld' \in Seq(Entry) /\ DigestInv'
      /\ DOMAIN when' \subseteq 1..(dir_idx - 1)
      /\ \A i \in DOMAIN when' : /\ SnpPage(i) \/ (SnpInsert(i) /\ AreasOf(Dirs[i].index) # {})
                                 /\ ~SnpVmsa(i)
      /\ OrderInv'
      /\ InsertOvertakesOpenBatch'
  <2>1. CASE breaks
    BY <1>2, <2>1, FlushStep, Kinds
  <2>2. CASE ~breaks
    <3>1. DigestInv' /\ OrderInv' /\ InsertOvertakesOpenBatch'
      BY <1>1, <1>2, <2>2, DigestKept
    <3>2. QED
      BY <1>1, <1>2, <2>2, <3>1 DEF WhenInv, VmsaInv, MeasureTypeOK
  <2>3. QED
    BY <2>1, <2>2
<1>9. breaks => \A i \in 1..(dir_idx - 1) : SnpPage(i) => i \in DOMAIN when'
    BY <1>2, FlushStep
<1>10. ~breaks => when' = when /\ pending = batch
    BY <1>2
<1>11. breaks => pending = <<>> /\ Len(pending) = 0
    OBVIOUS
<1> HIDE DEF breaks, pending, e
<1>12. Grown(pending, batch')
    BY <1>1, <1>2, <1>6, <1>7, QueuedAppend
<1>13. MeasureTypeOK'
  <2>1. DOMAIN when' \subseteq 1..Len(Dirs) /\ \A i \in DOMAIN when' : when'[i] \in Nat
    BY <1>2, <1>3, <1>8 DEF DigestInv, Placed
  <2>2. prev' \in [idx : 0..(dir_idx' - 1), gpa : Nat,
                   type : {"NORMAL", "UNMEASURED", "SECRETS", "CPUID"}, has : BOOLEAN]
    <3>1. Dirs[dir_idx] \in Directive
      BY <1>1, <1>3, DirectiveAt
    <3>2. Dirs[dir_idx].gpa \in Nat /\ dir_idx \in 0..(dir_idx' - 1)
      BY <1>3, <3>1 DEF Directive
    <3>3. QED
      BY <1>2, <3>1, <3>2, ClassifyType
  <2>3. dir_idx' \in 1..(Len(Dirs) + 1)
    BY <1>2, <1>3
  <2>4. QED
    BY <1>1, <1>2, <1>8, <1>12, <2>1, <2>2, <2>3 DEF MeasureTypeOK, Dirs, Grown
<1>14. WhenInv'
  <2>1. DOMAIN when' \subseteq 1..(dir_idx' - 1)
    BY <1>3, <1>8
  <2>2. QED
    BY <1>2, <1>8, <2>1, SameFile DEF WhenInv
<1>15. BatchInv'
  <2>1. Queued(batch)'
    BY <1>2, <1>3, <1>12, SameFile DEF Queued, Grown
  <2>2. ASSUME NEW k \in 1..Len(batch')
        PROVE  SnpPage(batch'[k].idx) /\ batch'[k].idx \notin DOMAIN when'
    <3>1. CASE k = Len(pending) + 1
      <4>1. batch'[k].idx = dir_idx
        BY <1>12, <3>1 DEF Grown
      <4>2. dir_idx \notin DOMAIN when'
        BY <1>3, <1>8
      <4>3. QED
        BY <1>2, <4>1, <4>2
    <3>2. CASE k \in 1..Len(pending)
      <4>1. ~breaks
        BY <1>11, <3>2
      <4>2. batch'[k] = batch[k] /\ k \in 1..Len(batch)
        BY <1>10, <1>12, <3>2, <4>1 DEF Grown
      <4>3. QED
        BY <1>1, <1>10, <4>1, <4>2 DEF BatchInv
    <3>3. QED
      BY <1>12, <3>1, <3>2 DEF Grown
  <2>3. QED
    BY <1>2, <2>1, <2>2, SameFile DEF BatchInv
<1>16. VmsaInv'
    BY <1>1, <1>2, <1>3, <1>8, SameFile DEF VmsaInv, Queued
<1>17. PagesInv'
  <2>1. ASSUME NEW i \in 1..(dir_idx' - 1), SnpPage(i)
        PROVE  i \in DOMAIN when' \/ \E k \in 1..Len(batch') : batch'[k].idx = i
    <3>1. CASE i = dir_idx
      <4>1. Len(pending) + 1 \in 1..Len(batch') /\ batch'[Len(pending) + 1].idx = i
        BY <1>12, <3>1 DEF Grown
      <4>2. QED
        BY <4>1
    <3>2. CASE i \in 1..(dir_idx - 1) /\ breaks
      BY <1>9, <2>1, <3>2
    <3>3. CASE i \in 1..(dir_idx - 1) /\ ~breaks
      <4>1. ASSUME NEW k \in 1..Len(batch), batch[k].idx = i
            PROVE  k \in 1..Len(batch') /\ batch'[k].idx = i
        BY <1>10, <1>12, <3>3, <4>1 DEF Grown
      <4>2. i \in DOMAIN when \/ \E k \in 1..Len(batch) : batch[k].idx = i
        BY <1>1, <2>1, <3>3 DEF PagesInv
      <4>3. QED
        BY <1>10, <3>3, <4>1, <4>2
    <3>4. QED
      BY <1>3, <3>1, <3>2, <3>3
  <2>2. ASSUME NEW i \in DOMAIN when', SnpPage(i), NEW k \in 1..Len(batch')
        PROVE  i < batch'[k].idx
    <3>1. CASE k = Len(pending) + 1
      <4>1. batch'[k].idx = dir_idx /\ i \in 1..(dir_idx - 1)
        BY <1>8, <1>12, <3>1 DEF Grown
      <4>2. QED
        BY <1>3, <4>1
    <3>2. CASE k \in 1..Len(pending)
      <4>1. ~breaks
        BY <1>11, <3>2
      <4>2. batch'[k] = batch[k] /\ k \in 1..Len(batch)
        BY <1>10, <1>12, <3>2, <4>1 DEF Grown
      <4>3. QED
        BY <1>1, <1>10, <2>2, <4>1, <4>2 DEF PagesInv
    <3>3. QED
      BY <1>12, <3>1, <3>2 DEF Grown
  <2>3. QED
    BY <1>2, <2>1, <2>2, SameFile DEF PagesInv
<1>18. PrevInv'
  <2>1. /\ prev'.idx = dir_idx /\ prev'.gpa = Dirs[dir_idx].gpa
        /\ prev'.type = Classify(Dirs[dir_idx]).type
        /\ prev'.has = Classify(Dirs[dir_idx]).has
    BY <1>2
  <2>2. (prev'.idx + 1)..(dir_idx' - 1) = {} /\ prev'.idx # 0
    BY <1>3, <2>1
  <2>3. Dirs' = Dirs /\ SnpPage(prev'.idx)
    BY <1>2, <2>1, SameFile
  <2>4. QED
    BY <1>2, <2>1, <2>2, <2>3, SameFile DEF PrevInv
<1>19. OpenInv'
  <2>1. ASSUME NEW i \in 1..(dir_idx' - 1), SnpPage(i)
        PROVE  i \in DOMAIN when'
                 <=> \E k \in (i + 1)..(dir_idx' - 1) : SnpPage(k) /\ BeginsBatch(k)
    <3>1. CASE i = dir_idx
      <4>1. (i + 1)..(dir_idx' - 1) = {} /\ i \notin DOMAIN when'
        BY <1>3, <1>8, <3>1
      <4>2. QED
        BY <4>1
    <3>2. CASE i \in 1..(dir_idx - 1) /\ breaks
      <4>1. dir_idx \in (i + 1)..(dir_idx' - 1)
        BY <1>3, <3>2
      <4>2. QED
        BY <1>2, <1>4, <1>9, <2>1, <3>2, <4>1
    <3>3. CASE i \in 1..(dir_idx - 1) /\ ~breaks
      <4>1. ~BeginsBatch(dir_idx)
        BY <1>1, <1>5, <2>1, <3>3 DEF PrevInv
      <4>2. \A k \in (i + 1)..(dir_idx' - 1) : k \in (i + 1)..(dir_idx - 1) \/ k = dir_idx
        BY <1>3, <3>3
      <4>3. \A k \in (i + 1)..(dir_idx - 1) : k \in (i + 1)..(dir_idx' - 1)
        BY <1>3, <3>3
      <4>4. i \in DOMAIN when
              <=> \E k \in (i + 1)..(dir_idx - 1) : SnpPage(k) /\ BeginsBatch(k)
        BY <1>1, <1>2, <2>1, <3>3 DEF OpenInv
      <4>5. QED
        BY <1>10, <3>3, <4>1, <4>2, <4>3, <4>4
    <3>4. QED
      BY <1>3, <3>1, <3>2, <3>3
  <2>2. QED
    BY <1>2, <2>1, SameFile DEF OpenInv
<1>20. PhaseInv'
    BY <1>2 DEF PhaseInv
<1>21. QED
    BY <1>8, <1>13, <1>14, <1>15, <1>16, <1>17, <1>18, <1>19, <1>20 DEF MInv

LEMMA InitMInv == file \in IgvmFile /\ MeasureInit => MInv
<1> SUFFICES ASSUME file \in IgvmFile, MeasureInit PROVE MInv
    OBVIOUS
<1>1. /\ dir_idx = 1 /\ 1..(dir_idx - 1) = {} /\ DOMAIN when = {}
      /\ ld = <<>> /\ batch = <<>> /\ vmsas = <<>> /\ mpc = "ready" /\ prev = NoPage
    BY DEF MeasureInit
<1>2. file \in IgvmFile /\ Dirs \in Seq(Directive) /\ Len(Dirs) \in Nat
    BY DEF IgvmFile, Dirs
<1>3. <<>> \in Pending /\ <<>> \in Seq(Entry) /\ 1..Len(<<>>) = {}
    BY DEF Pending
<1>4. NoPage \in [idx : 0..(dir_idx - 1), gpa : Nat,
                  type : {"NORMAL", "UNMEASURED", "SECRETS", "CPUID"}, has : BOOLEAN]
    BY <1>1 DEF NoPage
<1>5. MeasureTypeOK
    BY <1>1, <1>2, <1>3, <1>4 DEF MeasureTypeOK
<1>6. WhenInv /\ DigestInv /\ OrderInv /\ OpenInv /\ InsertOvertakesOpenBatch /\ PhaseInv
    BY <1>1, <1>3 DEF WhenInv, DigestInv, OrderInv, OpenInv, InsertOvertakesOpenBatch, PhaseInv
<1>7. BatchInv /\ VmsaInv /\ PagesInv
    BY <1>1, <1>3 DEF BatchInv, VmsaInv, Queued, PagesInv
<1>8. PrevInv
    BY <1>1 DEF PrevInv, NoPage
<1>9. QED
    BY <1>5, <1>6, <1>7, <1>8 DEF MInv

LEMMA StepMInv == MInv /\ [MeasureStep]_measureVars => MInv'
<1> SUFFICES ASSUME MInv, [MeasureStep]_measureVars
             PROVE  MInv'
    OBVIOUS
<1>1. CASE UNCHANGED measureVars \/ FindSnpCompat \/ UnknownArea
    BY <1>1, QuietStep DEF measureVars, FindSnpCompat, UnknownArea, At
<1>2. QED
    BY <1>1, BatchPageStep, CollectVmsaStep, InsertStep, SkipStep, FlushRestStep, VmsaPagesStep
    DEF MeasureStep

\* The inductive invariant of measure_snp.
THEOREM MeasureInvariant == MeasureSpec => []MInv
<1>1. file \in Foreign => file \in IgvmFile
    BY ForeignAssumption
<1>2. QED
    BY <1>1, InitMInv, StepMInv, PTL DEF MeasureSpec

\* The state of measure_snp has its type for every file.
THEOREM MeasureTypeCorrect == MeasureSpec => []MeasureTypeOK
<1>1. MInv => MeasureTypeOK
    BY DEF MInv
<1>2. QED
    BY MeasureInvariant, <1>1, PTL

LEMMA MInvExact ==
    ASSUME MInv
    PROVE  MeasuredExactly
<1>0. /\ MeasureTypeOK /\ WhenInv /\ DigestInv /\ BatchInv /\ VmsaInv /\ PagesInv
      /\ PhaseInv
  BY DEF MInv
<1>1. \A i \in 1..(dir_idx - 1) : SnpPage(i) =>
        (i \in DOMAIN when <=> ~\E k \in 1..Len(batch) : batch[k].idx = i)
  BY <1>0 DEF PagesInv, BatchInv
<1>2. ASSUME NEW i \in DOMAIN when, NEW k \in 1..Len(EntriesOf(i))
      PROVE  when[i] + k - 1 \in 1..Len(ld) /\ ld[when[i] + k - 1] = EntriesOf(i)[k]
  <2>1. EntriesOf(i) \in Seq(Entry) /\ ld \in Seq(Entry)
    <3>1. i \in 1..Len(Dirs)
      BY <1>0, DirsLength DEF WhenInv, MeasureTypeOK
    <3>2. QED
      BY <1>0, <3>1, EntriesType DEF WhenInv, MeasureTypeOK
  <2>2. Len(EntriesOf(i)) \in Nat /\ Len(ld) \in Nat
    BY <2>1
  <2>3. /\ when[i] \in Nat \ {0} /\ when[i] + Len(EntriesOf(i)) <= Len(ld) + 1
        /\ ld[when[i] + k - 1] = EntriesOf(i)[k]
    BY <1>0 DEF DigestInv, Placed
  <2>4. QED
    BY <2>2, <2>3
<1>3. \A p \in 1..Len(ld) : \E i \in DOMAIN when :
          when[i] <= p /\ p < when[i] + Len(EntriesOf(i))
  BY <1>0 DEF DigestInv, Owned
<1>4. ASSUME mpc = "done"
      PROVE  batch = <<>> /\ \A i \in 1..Len(Dirs) : SnpVmsa(i) => i \in DOMAIN when
  <2>1. batch = <<>> /\ dir_idx - 1 = Len(Dirs)
        /\ \A k \in 1..Len(vmsas) : vmsas[k].idx \in DOMAIN when
    BY <1>0, <1>4, DirsLength DEF PhaseInv
  <2>2. QED
    BY <1>0, <2>1 DEF VmsaInv
<1>5. QED
  BY <1>1, <1>2, <1>3, <1>4 DEF MeasuredExactly

\* Every page is in the digest or pending, never both and never neither, and the
\* digest holds what was measured and nothing else, for every file (measure_snp).
THEOREM PagesMeasuredExactly == MeasureSpec => []MeasuredExactly
<1>1. MInv => MeasuredExactly
    BY MInvExact
<1>2. QED
    BY MeasureInvariant, <1>1, PTL

LEMMA MInvOrder ==
    ASSUME MInv
    PROVE  MeasuredInOrder
<1>0. /\ MeasureTypeOK /\ WhenInv /\ PagesInv /\ OrderInv
  BY DEF MInv
<1>1. ASSUME NEW i \in 1..Len(Dirs), NEW j \in 1..Len(Dirs),
             SnpPage(i), SnpPage(j), i < j, j \in DOMAIN when
      PROVE  i \in DOMAIN when /\ when[i] < when[j]
  <2>1. i \in 1..(dir_idx - 1)
    BY <1>0, <1>1, DirsLength DEF WhenInv, MeasureTypeOK
  <2>2. ASSUME NEW k \in 1..Len(batch), batch[k].idx = i
        PROVE  FALSE
    <3>1. j < i
      BY <1>0, <1>1, <2>2 DEF PagesInv
    <3>2. QED
      BY <1>1, <3>1
  <2>3. i \in DOMAIN when
    BY <1>0, <1>1, <2>1, <2>2 DEF PagesInv
  <2>4. QED
    BY <1>0, <1>1, <2>3 DEF OrderInv
<1>2. QED
  BY <1>0, <1>1 DEF MeasuredInOrder, OrderInv

\* Pages enter the digest in the order of the file, and VMSAs last, for every
\* file (measure_snp, measure_vmsa_pages).
THEOREM PagesMeasuredInOrder == MeasureSpec => []MeasuredInOrder
<1>1. MInv => MeasuredInOrder
    BY MInvOrder
<1>2. QED
    BY MeasureInvariant, <1>1, PTL

\* An insert overtakes exactly the pages of the batch that is open where it
\* stands, for every file (measure_snp).
THEOREM InsertsOvertakeOpenBatch == MeasureSpec => []InsertOvertakesOpenBatch
<1>1. MInv => InsertOvertakesOpenBatch
    BY DEF MInv
<1>2. QED
    BY MeasureInvariant, <1>1, PTL
=============================================================================
