----------------------------- MODULE MeasureSnp -----------------------------
(***************************************************************************)
(* The launch digest of an IGVM file as `igvm-tools` computes it           *)
(* (crates/igvm-tools/src/measure.rs, measure_snp): one pass over the      *)
(* directives of the file that replays what QEMU and KVM do at launch.     *)
(* Page data waits in a batch that is folded into the digest when a page   *)
(* does not continue it; parameter inserts are folded in at once, while a  *)
(* batch may be pending; the VMSAs come last.                              *)
(*                                                                         *)
(* The digest is a hash chain, so `ld` is the sequence of the PAGE_INFO    *)
(* entries that went into it.  Memory is counted in cells; a page has      *)
(* PageSize of them.                                                       *)
(***************************************************************************)
EXTENDS Naturals, Sequences

CONSTANTS
    PageSize,   \* cells in a page
    Cells,      \* what a cell can hold
    ZeroCell,   \* what padding holds
    Foreign     \* IGVM files that were not built here, to be measured

ASSUME MeasureAssumption ==
    /\ PageSize \in Nat \ {0}
    /\ ZeroCell \in Cells

Platforms == {"snp", "native"}

\* One variable header of an IGVM file.  The fields a kind does not use have
\* their value in Blank.
Directive ==
    [kind : {"page", "vmsa", "area", "insert", "other"},
     mask : SUBSET Platforms,   \* compatibility_mask
     gpa : Nat,
     unmeasured : BOOLEAN,
     type : {"NORMAL", "SECRETS", "CPUID"},
     data : Seq(Cells),
     index : Nat,               \* parameter area
     size : Nat]                \* of a parameter area

Blank == [kind |-> "other", mask |-> {}, gpa |-> 0, unmeasured |-> FALSE,
          type |-> "NORMAL", data |-> <<>>, index |-> 0, size |-> 0]

IgvmFile == [platforms : SUBSET Platforms, directives : Seq(Directive)]

ASSUME ForeignAssumption == Foreign \subseteq IgvmFile

\* The hash of a page that is not measured, or that the host fills in.
Zeros == <<>>

DivCeil(n, m) == (n + m - 1) \div m

Padded(data) ==
    [i \in 1..PageSize |-> IF i <= Len(data) THEN data[i] ELSE ZeroCell]

VARIABLES
    file,       \* the file being measured
    mpc,        \* "ready", "loop", "vmsa", "done", "failed"
    dir_idx,    \* the directive the loop is at
    ld,         \* launch digest
    batch,      \* pending_batch: [idx, entry]
    prev,       \* the last page seen: [idx, gpa, type, has]; idx = 0 for none
    vmsas,      \* vmsa_pages: [idx, entry]
    when        \* history: position in ld of a measured directive's first entry

measureVars == <<file, mpc, dir_idx, ld, batch, prev, vmsas, when>>

NoPage == [idx |-> 0, gpa |-> 0, type |-> "NORMAL", has |-> FALSE]

Dirs == file.directives

Dir == Dirs[dir_idx]

\* Page type, hash of the contents and whether the page has data.
Classify(d) ==
    CASE d.type = "NORMAL" /\ ~d.unmeasured ->
            [type |-> "NORMAL", contents |-> Padded(d.data), has |-> d.data # <<>>]
      [] d.type = "NORMAL" /\ d.unmeasured ->
            [type |-> "UNMEASURED", contents |-> Zeros, has |-> FALSE]
      [] OTHER -> [type |-> d.type, contents |-> Zeros, has |-> FALSE]

PageInfo(type, gpa, contents) == [type |-> type, gpa |-> gpa, contents |-> contents]

PageEntry(d) == PageInfo(Classify(d).type, d.gpa, Classify(d).contents)

\* Every VMSA is measured at the same address, VMSA_GPA.
VmsaEntry(d) == PageInfo("VMSA", 0, d.data)

ForSnp(d) == "snp" \in d.mask

AreasOf(index) ==
    {i \in 1..Len(Dirs) : Dirs[i].kind = "area" /\ Dirs[i].index = index}

\* The last definition of an area stands.
AreaSize(index) ==
    Dirs[CHOOSE i \in AreasOf(index) : \A j \in AreasOf(index) : j <= i].size

InsertEntries(d) ==
    [pg \in 1..DivCeil(AreaSize(d.index), PageSize) |->
        PageInfo("UNMEASURED", d.gpa + (pg - 1) * PageSize, Zeros)]

Entries(pending) == [k \in 1..Len(pending) |-> pending[k].entry]

\* `when` once the entries of a batch are at the end of ld.
Stamped(pending) ==
    LET idxs == {pending[k].idx : k \in 1..Len(pending)}
    IN  [i \in DOMAIN when \union idxs |->
            IF i \in idxs
            THEN Len(ld) + (CHOOSE k \in 1..Len(pending) : pending[k].idx = i)
            ELSE when[i]]

Flush ==
    /\ ld' = ld \o Entries(batch)
    /\ when' = Stamped(batch)

MeasureInit ==
    /\ mpc = "ready"
    /\ dir_idx = 1
    /\ ld = <<>>
    /\ batch = <<>>
    /\ prev = NoPage
    /\ vmsas = <<>>
    /\ when = [i \in {} |-> 0]

FindSnpCompat ==
    /\ mpc = "ready"
    /\ mpc' = IF "snp" \in file.platforms THEN "loop" ELSE "failed"
    /\ UNCHANGED <<file, dir_idx, ld, batch, prev, vmsas, when>>

At(kind) == mpc = "loop" /\ dir_idx <= Len(Dirs) /\ Dir.kind = kind /\ ForSnp(Dir)

\* Page d, at index i, goes on where page p ended.
Continues(p, i, d) ==
    /\ Classify(d).type = p.type
    /\ Classify(d).has = p.has
    /\ d.gpa = p.gpa + PageSize
    /\ i = p.idx + 1

\* Fault: the last page of a batch is measured first.
BatchPageInFront ==
    LET breaks == prev.idx # 0 /\ ~Continues(prev, dir_idx, Dir)
        pending == IF breaks THEN <<>> ELSE batch
    IN  /\ At("page")
        /\ IF breaks THEN Flush ELSE UNCHANGED <<ld, when>>
        /\ batch' = <<[idx |-> dir_idx, entry |-> PageEntry(Dir)]>> \o pending
        /\ prev' = [idx |-> dir_idx, gpa |-> Dir.gpa,
                    type |-> Classify(Dir).type, has |-> Classify(Dir).has]
        /\ dir_idx' = dir_idx + 1
        /\ UNCHANGED <<file, mpc, vmsas>>

BatchPage ==
    LET breaks == prev.idx # 0 /\ ~Continues(prev, dir_idx, Dir)
        pending == IF breaks THEN <<>> ELSE batch
    IN  /\ At("page")
        /\ IF breaks THEN Flush ELSE UNCHANGED <<ld, when>>
        /\ batch' = Append(pending, [idx |-> dir_idx, entry |-> PageEntry(Dir)])
        /\ prev' = [idx |-> dir_idx, gpa |-> Dir.gpa,
                    type |-> Classify(Dir).type, has |-> Classify(Dir).has]
        /\ dir_idx' = dir_idx + 1
        /\ UNCHANGED <<file, mpc, vmsas>>

CollectVmsa ==
    /\ At("vmsa")
    /\ vmsas' = Append(vmsas, [idx |-> dir_idx, entry |-> VmsaEntry(Dir)])
    /\ dir_idx' = dir_idx + 1
    /\ UNCHANGED <<file, mpc, ld, batch, prev, when>>

\* Fault: an insert flushes the pending batch.
MeasureInsertFlushing ==
    /\ At("insert")
    /\ AreasOf(Dir.index) # {}
    /\ ld' = ld \o Entries(batch) \o InsertEntries(Dir)
    /\ when' = [i \in DOMAIN Stamped(batch) \union {dir_idx} |->
                    IF i = dir_idx THEN Len(ld) + Len(batch) + 1 ELSE Stamped(batch)[i]]
    /\ batch' = <<>>
    /\ dir_idx' = dir_idx + 1
    /\ UNCHANGED <<file, mpc, prev, vmsas>>

\* The pending batch is not flushed.
MeasureInsert ==
    /\ At("insert")
    /\ AreasOf(Dir.index) # {}
    /\ ld' = ld \o InsertEntries(Dir)
    /\ when' = [i \in DOMAIN when \union {dir_idx} |->
                    IF i = dir_idx THEN Len(ld) + 1 ELSE when[i]]
    /\ dir_idx' = dir_idx + 1
    /\ UNCHANGED <<file, mpc, batch, prev, vmsas>>

UnknownArea ==
    /\ At("insert")
    /\ AreasOf(Dir.index) = {}
    /\ mpc' = "failed"
    /\ UNCHANGED <<file, dir_idx, ld, batch, prev, vmsas, when>>

\* Directives for another platform and kinds that are not measured.
SkipDirective ==
    /\ mpc = "loop" /\ dir_idx <= Len(Dirs)
    /\ ~ForSnp(Dir) \/ Dir.kind \notin {"page", "vmsa", "insert"}
    /\ dir_idx' = dir_idx + 1
    /\ UNCHANGED <<file, mpc, ld, batch, prev, vmsas, when>>

\* Fault: what is left in the batch is dropped.
DropRest ==
    /\ mpc = "loop" /\ dir_idx > Len(Dirs)
    /\ batch' = <<>>
    /\ mpc' = "vmsa"
    /\ UNCHANGED <<file, dir_idx, ld, prev, vmsas, when>>

FlushRest ==
    /\ mpc = "loop" /\ dir_idx > Len(Dirs)
    /\ Flush
    /\ batch' = <<>>
    /\ mpc' = "vmsa"
    /\ UNCHANGED <<file, dir_idx, prev, vmsas>>

MeasureVmsaPages ==
    /\ mpc = "vmsa"
    /\ ld' = ld \o Entries(vmsas)
    /\ when' = Stamped(vmsas)
    /\ mpc' = "done"
    /\ UNCHANGED <<file, dir_idx, batch, prev, vmsas>>

MeasureStep ==
    \/ FindSnpCompat
    \/ BatchPage \/ CollectVmsa \/ MeasureInsert \/ UnknownArea \/ SkipDirective
    \/ FlushRest \/ MeasureVmsaPages

\* `igvm-tools measure` of one file.
MeasureSpec ==
    /\ file \in Foreign /\ MeasureInit
    /\ [][MeasureStep]_measureVars

-----------------------------------------------------------------------------
(* Properties *)

Entry == [type : {"NORMAL", "UNMEASURED", "SECRETS", "CPUID", "VMSA"}, gpa : Nat,
          contents : Seq(Cells)]

Pending == Seq([idx : Nat, entry : Entry])

\* The state of measure_snp has its type, and what it keeps points into the file.
MeasureTypeOK ==
    /\ file \in IgvmFile
    /\ mpc \in {"ready", "loop", "vmsa", "done", "failed"}
    /\ dir_idx \in 1..(Len(Dirs) + 1)
    /\ ld \in Seq(Entry)
    /\ batch \in Pending
    /\ vmsas \in Pending
    /\ prev \in [idx : 0..(dir_idx - 1), gpa : Nat,
                 type : {"NORMAL", "UNMEASURED", "SECRETS", "CPUID"}, has : BOOLEAN]
    /\ DOMAIN when \subseteq 1..Len(Dirs)
    /\ \A i \in DOMAIN when : when[i] \in Nat

SnpPage(i) == Dirs[i].kind = "page" /\ ForSnp(Dirs[i])
SnpVmsa(i) == Dirs[i].kind = "vmsa" /\ ForSnp(Dirs[i])

\* Entries a measured directive adds to the digest.
EntriesOf(i) ==
    IF SnpPage(i) THEN <<PageEntry(Dirs[i])>>
    ELSE IF SnpVmsa(i) THEN <<VmsaEntry(Dirs[i])>>
    ELSE InsertEntries(Dirs[i])

\* Every page the loop has passed has been folded into the digest, or is still
\* pending, never both and never neither, whatever broke the batches; the digest
\* holds the entries of the measured directives at their places and nothing
\* else, and once measuring is over nothing is pending.
MeasuredExactly ==
    /\ \A i \in 1..(dir_idx - 1) : SnpPage(i) =>
          (i \in DOMAIN when <=> ~\E k \in 1..Len(batch) : batch[k].idx = i)
    /\ \A i \in DOMAIN when : \A k \in 1..Len(EntriesOf(i)) :
          when[i] + k - 1 \in 1..Len(ld) /\ ld[when[i] + k - 1] = EntriesOf(i)[k]
    /\ \A p \in 1..Len(ld) : \E i \in DOMAIN when :
          when[i] <= p /\ p < when[i] + Len(EntriesOf(i))
    /\ mpc = "done" => batch = <<>> /\ \A i \in 1..Len(Dirs) : SnpVmsa(i) => i \in DOMAIN when

\* Pages enter the digest in the order of the file, and VMSAs after everything
\* else, in the order of the file.
MeasuredInOrder ==
    \A i, j \in 1..Len(Dirs) :
        /\ SnpPage(i) /\ SnpPage(j) /\ i < j /\ j \in DOMAIN when
           => i \in DOMAIN when /\ when[i] < when[j]
        /\ i \in DOMAIN when /\ j \in DOMAIN when /\ SnpVmsa(j)
           /\ (SnpPage(i) \/ (SnpVmsa(i) /\ i < j)) => when[i] < when[j]

\* A page begins a batch unless the directive right before it is a page for SNP
\* of the same kind at the address right below.
BeginsBatch(k) ==
    ~ /\ k > 1 /\ SnpPage(k - 1)
      /\ Classify(Dirs[k]).type = Classify(Dirs[k - 1]).type
      /\ Classify(Dirs[k]).has = Classify(Dirs[k - 1]).has
      /\ Dirs[k].gpa = Dirs[k - 1].gpa + PageSize

\* An insert overtakes exactly the pages of the batch that is open where it
\* stands in the file: a page before it is measured first if and only if a page
\* between the two begins another batch.  This is the interleaving QEMU has.
InsertOvertakesOpenBatch ==
    \A j \in DOMAIN when : Dirs[j].kind = "insert" =>
        \A i \in 1..(j - 1) : SnpPage(i) =>
            ((i \in DOMAIN when /\ when[i] < when[j])
              <=> \E k \in (i + 1)..(j - 1) : SnpPage(k) /\ BeginsBatch(k))
=============================================================================
