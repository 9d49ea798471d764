----------------------------- MODULE LaunchImage -----------------------------
(***************************************************************************)
(* From the inputs of `igvm-tools build` to the verdict of `kettle verify  *)
(* --igvm --image`: an IGVM file is put together                           *)
(* (crates/igvm-tools/src/build.rs, builder.rs, hob.rs) and measured, a    *)
(* machine is launched from it, and a verifier measures a file, recovers   *)
(* the kernel's command line from it (extract.rs) and compares the root    *)
(* hash with the one stored on a disk image (src/verity.rs,                *)
(* src/commands/verify.rs).                                                *)
(***************************************************************************)
EXTENDS MeasureSnp, SequencesExt

CONSTANTS
    Workloads,  \* [builds, others]: what `igvm-tools build` is run with, a sequence of
                \* BuildConfig, and the IGVM files at hand that were made elsewhere
    Disks,      \* disk images given to `kettle verify --image`
    MaxVps,     \* processors whose index fits in 16 bits
    Top1M,      \* the address the low copy of the firmware ends at
    LowMax,     \* size of the largest low copy
    BlobBase,   \* the address blobs are placed from
    Top4G       \* the address the firmware ends at

BlobTypes == <<"Pk", "Kek", "Db", "Dbx", "Shim", "Kernel">>

RegionTypes == {"SevMemory", "SevSvsmCca", "SevHashes", "SevSecrets", "SevCpuid",
                "IgvmParamArea", "IgvmParamMemoryMap", "IgvmParamVpCount",
                "IgvmHobArea"}

Region == [type : RegionTypes, base : Nat, size : Nat \ {0}]

\* What OvmfMeta::new finds in a firmware: no metadata at all leaves no regions
\* and no reset address, and build treats the two the same.
Firmware == [cells : Seq(Cells), regions : Seq(Region), reset : BOOLEAN]

\* The regions of a firmware that are of a type, and the first of them.
RegionsOf(fw, type) == {k \in 1..Len(fw.regions) : fw.regions[k].type = type}

FirstRegion(fw, type) ==
    fw.regions[CHOOSE k \in RegionsOf(fw, type) : \A l \in RegionsOf(fw, type) : k <= l]

\* IgvmDataList::add: where the first k blobs end.  A blob begins at the first page
\* after the one before it.
BlobEnd(c) ==
    LET end[k \in 0..Len(BlobTypes)] ==
            IF k = 0 THEN BlobBase
            ELSE IF BlobTypes[k] \notin DOMAIN c.blobs THEN end[k - 1]
            ELSE end[k - 1] + DivCeil(Len(c.blobs[BlobTypes[k]]), PageSize) * PageSize
    IN  end

Rank(t) == CHOOSE k \in 1..Len(BlobTypes) : BlobTypes[k] = t

BlobAddr(c, t) == BlobEnd(c)[Rank(t) - 1]

\* The entry of the HOB list for a blob.
HobOf(c, t) ==
    IF t \in DOMAIN c.blobs
    THEN << <<"hob", t, BlobAddr(c, t), Len(c.blobs[t])>> >> ELSE <<>>

Hobs(c) ==
    FlattenSeq([k \in 1..Len(BlobTypes) |-> HobOf(c, BlobTypes[k])]) \o << <<"end">> >>

VmsaCell(kind) == <<"vmsa", kind>>

VarsBase(c) == Top4G - Len(c.vars) - Len(c.firmware.cells)

\* A BuildConfig.  c.blobs has the blobs that are given, by type.  Firmware and
\* variables fit below 4 GB.
IsBuildConfig(c) ==
    /\ c.firmware \in Firmware
    /\ c.vars \in Seq(Cells)
    /\ DOMAIN c.blobs \subseteq ToSet(BlobTypes)
    /\ \A t \in DOMAIN c.blobs : c.blobs[t] \in Seq(Cells)
    /\ c.platform \in SUBSET Platforms \ {{}}
    /\ c.boot \in {"real16", "flat32"}
    /\ c.smp \in Nat
    /\ Len(c.vars) + Len(c.firmware.cells) <= Top4G

Config == UNION {ToSet(w.builds) : w \in Workloads}

\* The fields of a disk image that decide what its root hash is.
Disk == [gpt : BOOLEAN,         \* GPT header, entry size and table are sound
         verity : BOOLEAN,      \* there is a root-verity partition on the disk
         superblock : BOOLEAN,  \* magic, version and salt length are sound
         algo : {"sha256", "sha512", "other"},
         salt : Nat,
         bs : Nat,              \* hash_block_size
         part : Seq(Cells)]     \* the partition, as read from the disk

ASSUME LaunchAssumption ==
    /\ \A a \in {Top1M, LowMax, BlobBase, Top4G} : a \in Nat /\ a % PageSize = 0
    /\ LowMax <= Top1M
    /\ MaxVps \in Nat \ {0}
    /\ Workloads \subseteq [builds : Seq(Config), others : SUBSET IgvmFile]
    /\ \A c \in Config : IsBuildConfig(c)
    /\ Disks \subseteq Disk

\* Memory can hold what build writes itself.
ASSUME CellsAssumption ==
    /\ \A c \in Config : Hobs(c) \in Seq(Cells)
    /\ \A kind \in {"real16", "flat32", "ap"} : VmsaCell(kind) \in Cells

SevTypes == {"SevMemory", "SevSvsmCca", "SevHashes", "SevSecrets", "SevCpuid"}

\* The layout build relies on and does not check: regions that become page data
\* begin at a page, parameter areas are whole pages, and the HOB area and the
\* blobs lie below the variables and the firmware (a blob takes at least a page).
ASSUME LayoutAssumption ==
    \A c \in Config :
        /\ \A r \in ToSet(c.firmware.regions) :
              /\ r.type \in SevTypes \union {"IgvmHobArea", "IgvmParamArea"}
                    => r.base % PageSize = 0
              /\ r.type = "IgvmParamArea" => r.size % PageSize = 0
              /\ r.type = "IgvmHobArea" =>
                    r.base + r.size <= VarsBase(c) /\ r.base + PageSize <= VarsBase(c)
        /\ BlobEnd(c)[Len(BlobTypes)] + PageSize <= VarsBase(c)

\* n cells at a and m cells at b do not meet.
Clear(a, n, b, m) == a + n <= b \/ b + m <= a

\* Nor does build check that regions are clear of each other: SEV regions and
\* parameter areas lie between the low copy of the firmware and the variables,
\* SEV regions do not meet, parameter areas meet neither the HOB area nor the
\* blobs, and the HOB list fits its area.  SEV regions may meet the other two.
ASSUME SeparationAssumption ==
    \A c \in Config :
        LET rs == c.firmware.regions
            sev == {k \in 1..Len(rs) : rs[k].type \in SevTypes}
            params == RegionsOf(c.firmware, "IgvmParamArea")
            hobs == RegionsOf(c.firmware, "IgvmHobArea")
        IN  /\ Top1M <= VarsBase(c)
            /\ \A k \in sev \union params :
                  Top1M <= rs[k].base /\ rs[k].base + rs[k].size <= VarsBase(c)
            /\ \A k, l \in sev :
                  k # l => Clear(rs[k].base, rs[k].size, rs[l].base, rs[l].size)
            /\ \A k \in params :
                  /\ \A l \in hobs : Clear(rs[k].base, rs[k].size, rs[l].base, rs[l].size)
                  /\ rs[k].base + rs[k].size <= BlobBase
                     \/ BlobEnd(c)[Len(BlobTypes)] <= rs[k].base
            /\ \A l \in hobs : Len(Hobs(c)) <= rs[l].size

\* A cell that extract.rs takes for the HOB entry of a kernel.
IsKernelHob(cell) == cell[1] = "hob" /\ cell[2] = "Kernel"

\* What recovering a kernel relies on: the HOB area lies between the low copy of
\* the firmware and the blobs, and nothing but a kernel looks like its entry.
ASSUME RecoveryAssumption ==
    /\ ~IsKernelHob(ZeroCell)
    /\ \A c \in Config :
          /\ \A l \in RegionsOf(c.firmware, "IgvmHobArea") :
                LET hob == c.firmware.regions[l]
                IN  Top1M <= hob.base /\ hob.base + hob.size <= BlobBase
          /\ \A cell \in ToSet(c.firmware.cells) \union ToSet(c.vars) : ~IsKernelHob(cell)
          /\ \A t \in DOMAIN c.blobs \ {"Kernel"} :
                \A cell \in ToSet(c.blobs[t]) : ~IsKernelHob(cell)

VARIABLES
    todo,       \* configurations still to be built
    pc,         \* where build, or verify, is
    cfg,        \* the configuration being built
    builder,    \* Builder: [platforms, directives]
    results,    \* what the builds came to: [cfg, ok, file, digest]
    others,     \* IGVM files that were made elsewhere
    machine,    \* the file the attested machine was launched from
    attested,   \* the launch digest the machine attests
    given,      \* the file at --igvm
    changed,    \* the file was replaced after it was measured
    checks,     \* results of the verifier: [igvm, image]
    disk        \* the disk image at --image

buildVars == <<todo, cfg, builder>>
verifyVars == <<machine, attested, given, changed, checks, disk>>

imageVars == <<buildVars, pc, results, others, verifyVars>>
vars == <<measureVars, imageVars>>

NoFile == [platforms |-> {}, directives |-> <<>>]

Goto(l) == pc' = l

-----------------------------------------------------------------------------
(* Builder *)

Mask == builder.platforms   \* compatibility_mask_all

Add(ds) == builder' = [builder EXCEPT !.directives = @ \o ds]

Page(gpa, mask, unmeasured, type, data) ==
    [Blank EXCEPT !.kind = "page", !.mask = mask, !.gpa = gpa,
                  !.unmeasured = unmeasured, !.type = type, !.data = data]

EmptyPages(base, size, type) ==
    [pg \in 1..DivCeil(size, PageSize) |->
        Page(base + (pg - 1) * PageSize, {"snp"}, FALSE, type, <<>>)]

Least(a, b) == IF a < b THEN a ELSE b

DataPages(base, data, unmeasured) ==
    [pg \in 1..DivCeil(Len(data), PageSize) |->
        Page(base + (pg - 1) * PageSize, Mask, unmeasured, "NORMAL",
             SubSeq(data, (pg - 1) * PageSize + 1, Least(pg * PageSize, Len(data))))]

\* The elements of s at the positions in K, in their order.
Retain(s, K) ==
    LET kept[k \in 0..Len(s)] ==
            IF k = 0 THEN <<>>
            ELSE IF k \in K THEN Append(kept[k - 1], s[k]) ELSE kept[k - 1]
    IN  kept[Len(s)]

PageDataType(type) ==
    CASE type = "SevSecrets" -> "SECRETS"
      [] type = "SevCpuid" -> "CPUID"
      [] OTHER -> "NORMAL"

RegionPages(r) == EmptyPages(r.base, r.size, PageDataType(r.type))

\* Fault: pages of the parameter areas are added as page data too.
OvmfSnpPagesEverywhere ==
    FlattenSeq([k \in 1..Len(cfg.firmware.regions) |->
        LET r == cfg.firmware.regions[k]
        IN  IF r.type \in SevTypes THEN RegionPages(r) ELSE <<>>])

InParamArea(gpa) ==
    \E k \in RegionsOf(cfg.firmware, "IgvmParamArea") :
        LET area == cfg.firmware.regions[k]
        IN  gpa >= area.base /\ gpa < area.base + area.size

\* Pages inside a parameter area are left to the insert.
SnpPages(r) ==
    IF r.type \in SevTypes
    THEN Retain(RegionPages(r),
                {k \in 1..Len(RegionPages(r)) : ~InParamArea(RegionPages(r)[k].gpa)})
    ELSE <<>>

OvmfSnpPages ==
    FlattenSeq([k \in 1..Len(cfg.firmware.regions) |-> SnpPages(cfg.firmware.regions[k])])

Vmsa(ap) ==
    [Blank EXCEPT !.kind = "vmsa", !.mask = {"snp"},
                  !.data = <<VmsaCell(IF ap THEN "ap" ELSE cfg.boot)>>]

IgvmParams ==
    LET area == FirstRegion(cfg.firmware, "IgvmParamArea")
        params == RegionsOf(cfg.firmware, "IgvmParamMemoryMap")
                  \union RegionsOf(cfg.firmware, "IgvmParamVpCount")
    IN  IF RegionsOf(cfg.firmware, "IgvmParamArea") = {} THEN <<>>
        ELSE <<[Blank EXCEPT !.kind = "area", !.size = area.size]>>
             \o [k \in 1..Cardinality(params) |-> Blank]
             \o <<[Blank EXCEPT !.kind = "insert", !.mask = Mask, !.gpa = area.base]>>

\* Page d lies in the way of size cells at base; no size is less than a page.
InRange(d, base, size) ==
    /\ d.kind = "page"
    /\ base <= d.gpa /\ d.gpa < base + (IF size < PageSize THEN PageSize ELSE size)

RemovePageDataInRange(ds, base, size) ==
    Retain(ds, {k \in 1..Len(ds) : ~InRange(ds[k], base, size)})

\* Fault: shim and kernel are both left out of the measurement.
IsMeasuredWrongly(t) == t \notin {"Shim", "Kernel"}

IsMeasured(t) == t # "Shim"

\* IgvmDataList::blobs
Blobs(measured) ==
    Retain(BlobTypes, {k \in 1..Len(BlobTypes) : /\ BlobTypes[k] \in DOMAIN cfg.blobs
                                                 /\ IsMeasured(BlobTypes[k]) = measured})

PlaceBlob(ds, t) ==
    RemovePageDataInRange(ds, BlobAddr(cfg, t), Len(cfg.blobs[t]))
    \o DataPages(BlobAddr(cfg, t), cfg.blobs[t], ~IsMeasured(t))

\* The blobs are placed one after the other, the measured ones first; what is in
\* the way of one is removed.
PlaceBlobs(ds) ==
    LET order == Blobs(TRUE) \o Blobs(FALSE)
        placed[k \in 0..Len(order)] ==
            IF k = 0 THEN ds ELSE PlaceBlob(placed[k - 1], order[k])
    IN  placed[Len(order)]

SortKey(d) == IF d.kind = "page" THEN d.gpa ELSE 0

\* A stable sort by address; what is not page data comes first.
Before(ds, i, j) ==
    SortKey(ds[i]) < SortKey(ds[j]) \/ (SortKey(ds[i]) = SortKey(ds[j]) /\ i < j)

Place(ds, i) == Cardinality({j \in 1..Len(ds) : Before(ds, j, i)}) + 1

Sorted(ds) == [k \in 1..Len(ds) |-> ds[CHOOSE i \in 1..Len(ds) : Place(ds, i) = k]]

-----------------------------------------------------------------------------
(* igvm-tools build *)

StartBuild ==
    /\ pc = "idle" /\ todo # <<>>
    /\ cfg' = Head(todo) /\ todo' = Tail(todo)
    /\ builder' = [platforms |-> {}, directives |-> <<>>]
    /\ Goto("platform")
    /\ UNCHANGED <<measureVars, results, others, verifyVars>>

Finish(ok, f, digest) ==
    /\ results' = Append(results, [cfg |-> cfg, ok |-> ok, file |-> f, digest |-> digest])
    /\ Goto("idle")

NeedsReset == "snp" \in cfg.platform /\ cfg.smp > 1

\* None asked for is one.
Processors(c) == IF c.smp > 1 THEN c.smp ELSE 1

\* u16::try_from of the index of an application processor.
IndexesFit == "snp" \in cfg.platform => Processors(cfg) <= MaxVps

\* Fault: an index is cut to 16 bits.
AddPlatformsTruncating ==
    LET native == IF "native" \in cfg.platform /\ cfg.boot = "flat32"
                  THEN <<Blank>> ELSE <<>>
        snp == IF "snp" \in cfg.platform
               THEN [vp \in 1..Processors(cfg) |-> Vmsa(vp > 1)] \o OvmfSnpPages ELSE <<>>
    IN  /\ pc = "platform"
        /\ NeedsReset => cfg.firmware.reset
        /\ builder' = [platforms |-> cfg.platform, directives |-> native \o snp]
        /\ Goto("params")
        /\ UNCHANGED <<measureVars, todo, cfg, results, others, verifyVars>>

AddPlatforms ==
    LET native == IF "native" \in cfg.platform /\ cfg.boot = "flat32"
                  THEN <<Blank>> ELSE <<>>
        snp == IF "snp" \in cfg.platform
               THEN [vp \in 1..Processors(cfg) |-> Vmsa(vp > 1)] \o OvmfSnpPages ELSE <<>>
    IN  /\ pc = "platform"
        /\ NeedsReset => cfg.firmware.reset
        /\ IndexesFit
        /\ builder' = [platforms |-> cfg.platform, directives |-> native \o snp]
        /\ Goto("params")
        /\ UNCHANGED <<measureVars, todo, cfg, results, others, verifyVars>>

NoResetAddr ==
    /\ pc = "platform"
    /\ NeedsReset /\ ~cfg.firmware.reset
    /\ Finish(FALSE, NoFile, <<>>)
    /\ UNCHANGED <<measureVars, buildVars, others, verifyVars>>

TooManyVps ==
    /\ pc = "platform"
    /\ NeedsReset => cfg.firmware.reset
    /\ ~IndexesFit
    /\ Finish(FALSE, NoFile, <<>>)
    /\ UNCHANGED <<measureVars, buildVars, others, verifyVars>>

AddParamsAndFirmware ==
    LET fw == cfg.firmware.cells
        low == Least(LowMax, Len(fw))
    IN  /\ pc = "params"
        /\ Add(IgvmParams
               \o (IF cfg.boot = "real16"
                   THEN DataPages(Top1M - low, SubSeq(fw, Len(fw) - low + 1, Len(fw)), FALSE)
                   ELSE <<>>)
               \o DataPages(Top4G - Len(fw), fw, FALSE)
               \o DataPages(VarsBase(cfg), cfg.vars, FALSE))
        /\ Goto("hob")
        /\ UNCHANGED <<measureVars, todo, cfg, results, others, verifyVars>>

AddHobData ==
    LET hob == FirstRegion(cfg.firmware, "IgvmHobArea")
        cleared == RemovePageDataInRange(builder.directives, hob.base, hob.size)
    IN  /\ pc = "hob"
        /\ DOMAIN cfg.blobs = {} \/ RegionsOf(cfg.firmware, "IgvmHobArea") # {}
        /\ builder' = IF DOMAIN cfg.blobs = {} THEN builder
                      ELSE [builder EXCEPT !.directives =
                                PlaceBlobs(cleared \o DataPages(hob.base, Hobs(cfg), FALSE))]
        /\ Goto("finalize")
        /\ UNCHANGED <<measureVars, todo, cfg, results, others, verifyVars>>

NoHobArea ==
    /\ pc = "hob"
    /\ DOMAIN cfg.blobs # {} /\ RegionsOf(cfg.firmware, "IgvmHobArea") = {}
    /\ Finish(FALSE, NoFile, <<>>)
    /\ UNCHANGED <<measureVars, buildVars, others, verifyVars>>

\* measure_snp starts on f.
Measure(f) ==
    /\ file' = f
    /\ mpc' = "ready" /\ dir_idx' = 1
    /\ ld' = <<>> /\ batch' = <<>> /\ vmsas' = <<>>
    /\ prev' = NoPage
    /\ when' = [i \in {} |-> 0]

\* IgvmFile::new refuses page data and inserts that do not begin at a page, and
\* parameter areas that are not whole pages.
Aligned(ds) ==
    \A k \in 1..Len(ds) :
        /\ ds[k].kind \in {"page", "insert"} => ds[k].gpa % PageSize = 0
        /\ ds[k].kind = "area" => ds[k].size % PageSize = 0

Finalize ==
    /\ pc = "finalize" /\ Aligned(builder.directives)
    /\ Measure([platforms |-> builder.platforms, directives |-> Sorted(builder.directives)])
    /\ Goto("measure")
    /\ UNCHANGED <<buildVars, results, others, verifyVars>>

FinalizeFails ==
    /\ pc = "finalize" /\ ~Aligned(builder.directives)
    /\ Finish(FALSE, NoFile, <<>>)
    /\ UNCHANGED <<measureVars, buildVars, others, verifyVars>>

MeasureLoop == MeasureStep /\ UNCHANGED imageVars

\* build always measures: a file without the SNP platform is an error.
Built ==
    /\ pc = "measure" /\ mpc \in {"done", "failed"}
    /\ Finish(mpc = "done", IF mpc = "done" THEN file ELSE NoFile,
              IF mpc = "done" THEN ld ELSE <<>>)
    /\ UNCHANGED <<measureVars, buildVars, others, verifyVars>>

-----------------------------------------------------------------------------
(* kettle verify --igvm --image *)

\* The files of the builds that succeeded.
Images == {r.file : r \in {q \in ToSet(results) : q.ok}}

\* Any file can be launched, and any file can be at --igvm.
Files == Images \union others

\* Fault: a build that failed leaves a file to launch from.
LaunchAnything ==
    /\ pc = "idle" /\ todo = <<>> /\ machine = NoFile
    /\ machine' \in {r.file : r \in ToSet(results)} \union others
    /\ Measure(machine')
    /\ Goto("launch")
    /\ UNCHANGED <<buildVars, results, others, attested, given, changed, checks, disk>>

\* A machine is launched: its digest is the one measure_snp replays.
Launch ==
    /\ pc = "idle" /\ todo = <<>> /\ machine = NoFile
    /\ machine' \in Files
    /\ Measure(machine')
    /\ Goto("launch")
    /\ UNCHANGED <<buildVars, results, others, attested, given, changed, checks, disk>>

\* The machine runs and attests, and the verifier measures the file it was given.
Attest ==
    /\ pc = "launch" /\ mpc = "done"
    /\ attested' = ld
    /\ given' \in Files
    /\ Measure(given')
    /\ Goto("verify_igvm")
    /\ UNCHANGED <<buildVars, results, others, machine, changed, checks, disk>>

\* Fault: a file that cannot be measured is not held against the machine.
VerifyIgvmMeasurementLeniently ==
    /\ pc = "verify_igvm" /\ mpc \in {"done", "failed"}
    /\ checks' = [checks EXCEPT !.igvm =
                     IF mpc = "failed" \/ ld = attested THEN "pass" ELSE "fail"]
    /\ Goto("verify_image")
    /\ UNCHANGED <<measureVars, buildVars, results, others, machine, attested, given,
                   changed, disk>>

VerifyIgvmMeasurement ==
    /\ pc = "verify_igvm" /\ mpc \in {"done", "failed"}
    /\ checks' = [checks EXCEPT !.igvm =
                     IF mpc = "done" /\ ld = attested THEN "pass" ELSE "fail"]
    /\ Goto("verify_image")
    /\ UNCHANGED <<measureVars, buildVars, results, others, machine, attested, given,
                   changed, disk>>

\* The file is replaced between the two reads of it.
ReplaceFile ==
    /\ pc = "verify_image"
    /\ given' \in Files \ {given}
    /\ changed' = TRUE
    /\ UNCHANGED <<measureVars, buildVars, pc, results, others, machine, attested,
                   checks, disk>>

\* Guest pages by address, from the page data at the positions in I; a later page
\* replaces an earlier one.
PagesAt(f, I) ==
    LET ds == f.directives
        at(g) == {i \in I : ds[i].gpa = g}
    IN  [g \in {ds[i].gpa : i \in I} |-> Padded(ds[Max(at(g))].data)]

\* page_map: whatever its platform, and measured or not, a page with data counts.
PageMap(f) ==
    PagesAt(f, {i \in 1..Len(f.directives) :
                    f.directives[i].kind = "page" /\ f.directives[i].data # <<>>})

\* The addresses of the kernel's HOB entries.
KernelHobs(pages) ==
    {p \in (DOMAIN pages) \X (1..PageSize) : IsKernelHob(pages[p[1]][p[2]])}

\* Fault: the last entry is taken.
FindLastKernelBlob(pages) ==
    LET p == CHOOSE p \in KernelHobs(pages) :
                 \A q \in KernelHobs(pages) : q[1] + q[2] <= p[1] + p[2]
    IN  IF KernelHobs(pages) = {} THEN <<>> ELSE <<pages[p[1]][p[2]]>>

\* The first entry in the order of addresses, or none.
FindKernelBlob(pages) ==
    LET p == CHOOSE p \in KernelHobs(pages) :
                 \A q \in KernelHobs(pages) : p[1] + p[2] <= q[1] + q[2]
    IN  IF KernelHobs(pages) = {} THEN <<>> ELSE <<pages[p[1]][p[2]]>>

Reassemble(pages, addr, length) ==
    LET skip == addr % PageSize
        gpas == [k \in 1..DivCeil(length + skip, PageSize) |->
                    addr - skip + (k - 1) * PageSize]
        out == FlattenSeq([k \in DOMAIN gpas |-> pages[gpas[k]]])
    IN  IF length > Cardinality(DOMAIN pages) * PageSize
           \/ ~(ToSet(gpas) \subseteq DOMAIN pages)
        THEN <<>>
        ELSE <<SubSeq(out, skip + 1, skip + length)>>

\* The kernel blob in guest pages, or none.
KernelIn(pages) ==
    LET hob == FindKernelBlob(pages)
    IN  IF hob = <<>> THEN <<>> ELSE Reassemble(pages, hob[1][3], hob[1][4])

\* The kernel blob recovered from a file, or none.
KernelBlob(f) == KernelIn(PageMap(f))

\* The value of the first roothash= of a kernel's command line, or none.
RoothashFromCmdline(kernel) ==
    LET hits == SelectSeq(kernel, LAMBDA c : c[1] = "roothash")
    IN  IF hits = <<>> THEN <<>> ELSE <<hits[1][2]>>

\* Fault: the first block of the partition, which is the superblock, is hashed.
StoredRoothashFirstBlock(d) ==
    IF d.gpt /\ d.verity /\ Len(d.part) >= PageSize /\ 2 * d.bs <= Len(d.part)
       /\ d.superblock /\ d.algo # "other"
    THEN << <<d.algo, d.salt, SubSeq(d.part, 1, d.bs)>> >>
    ELSE <<>>

\* H(salt || block at hash_block_size), or none.
StoredRoothash(d) ==
    IF d.gpt /\ d.verity /\ Len(d.part) >= PageSize /\ 2 * d.bs <= Len(d.part)
       /\ d.superblock /\ d.algo # "other"
    THEN << <<d.algo, d.salt, SubSeq(d.part, d.bs + 1, 2 * d.bs)>> >>
    ELSE <<>>

VerifyImageRoothash ==
    LET kernel == KernelBlob(given)
        committed == IF kernel = <<>> THEN <<>> ELSE RoothashFromCmdline(kernel[1])
    IN  /\ pc = "verify_image"
        /\ disk' \in Disks
        /\ checks' = [checks EXCEPT !.image =
                         IF committed # <<>> /\ committed = StoredRoothash(disk')
                         THEN "pass" ELSE "fail"]
        /\ Goto("verdict")
        /\ UNCHANGED <<measureVars, buildVars, results, others, machine, attested, given,
                       changed>>

\* Either builds and a verification, or `igvm-tools measure` of a foreign file.
Init ==
    /\ MeasureInit
    /\ \/ /\ \E w \in Workloads : todo = w.builds /\ others = w.others
          /\ file = NoFile /\ pc = "idle"
       \/ todo = <<>> /\ others = {} /\ file \in Foreign /\ pc = "measure_only"
    /\ cfg = <<>>
    /\ builder = [platforms |-> {}, directives |-> <<>>]
    /\ results = <<>>
    /\ machine = NoFile /\ attested = <<>> /\ given = NoFile /\ changed = FALSE
    /\ checks = [igvm |-> "none", image |-> "none"]
    /\ disk = <<>>

Next ==
    \/ StartBuild \/ AddPlatforms \/ NoResetAddr \/ TooManyVps \/ AddParamsAndFirmware
    \/ AddHobData \/ NoHobArea \/ Finalize \/ FinalizeFails
    \/ pc \in {"measure", "launch", "verify_igvm", "measure_only"} /\ MeasureLoop
    \/ Built
    \/ Launch \/ Attest \/ VerifyIgvmMeasurement \/ ReplaceFile \/ VerifyImageRoothash

Spec == Init /\ [][Next]_vars

-----------------------------------------------------------------------------
(* Properties *)

Has(c, t) == t \in DOMAIN c.blobs

EmptyShim(c) == Has(c, "Shim") /\ c.blobs["Shim"] = <<>>

\* A build comes to a file exactly when it is for SNP (so never for the native
\* platform alone), the indexes of its processors fit in 16 bits, its firmware
\* names a reset vector if there are application processors and a HOB area if
\* there is a blob to announce, and the firmware and the variables fill whole pages.
BuildOutcome ==
    \A r \in ToSet(results) :
        r.ok <=> /\ "snp" \in r.cfg.platform
                 /\ r.cfg.smp <= MaxVps
                 /\ r.cfg.smp <= 1 \/ r.cfg.firmware.reset
                 /\ DOMAIN r.cfg.blobs = {}
                    \/ \E g \in ToSet(r.cfg.firmware.regions) : g.type = "IgvmHobArea"
                 /\ Len(r.cfg.firmware.cells) % PageSize = 0
                 /\ Len(r.cfg.vars) % PageSize = 0

\* The guest pages a directive covers on SNP.
Covered(f, i) ==
    LET d == f.directives[i]
        area == CHOOSE a \in ToSet(f.directives) : a.kind = "area"
    IN  IF ~ForSnp(d) THEN {}
        ELSE IF d.kind = "page" THEN {d.gpa}
        ELSE IF d.kind = "insert"
        THEN {d.gpa + k * PageSize : k \in 0..(DivCeil(area.size, PageSize) - 1)}
        ELSE {}

\* No guest page is launched twice: firmware, its low copy, the metadata's pages,
\* parameters, HOB list and blobs never cover the same page on SNP.
EveryPageOnce ==
    \A r \in ToSet(results) : r.ok =>
        \A i, j \in 1..Len(r.file.directives) :
            i # j => Covered(r.file, i) \intersect Covered(r.file, j) = {}

\* The guest memory that the launch digest of a file vouches for.
MeasuredMap(f) ==
    PagesAt(f, {i \in 1..Len(f.directives) :
                    /\ f.directives[i].kind = "page" /\ ForSnp(f.directives[i])
                    /\ f.directives[i].type = "NORMAL" /\ ~f.directives[i].unmeasured})

\* The kernel in it, or none.
MeasuredKernel(f) == KernelIn(MeasuredMap(f))

\* What extract.rs recovers from a built file is the kernel that was given to
\* build, whatever else is in the image, unless an empty shim was given: the
\* shim then has the kernel's address, and placing it removes the first page of
\* the kernel.  And extract.rs, which reads every page with data, measured or
\* not, finds in such a file what is in its measured pages.
KernelRecovered ==
    \A r \in ToSet(results) : r.ok =>
        /\ MeasuredKernel(r.file) = KernelBlob(r.file)
        /\ Has(r.cfg, "Kernel") =>
              (KernelBlob(r.file) = <<r.cfg.blobs["Kernel"]>>
                  <=> ~(EmptyShim(r.cfg) /\ r.cfg.blobs["Kernel"] # <<>>))

\* What a launch digest says about a blob: all of it, but of the shim only the
\* length, and of a kernel next to an empty shim the length and what follows the
\* first page.
BoundBlob(c, t) ==
    LET b == c.blobs[t]
    IN  IF t = "Shim" THEN <<Len(b)>>
        ELSE IF t = "Kernel" /\ EmptyShim(c)
        THEN <<Len(b), SubSeq(b, PageSize + 1, Len(b))>>
        ELSE <<Len(b), b>>

\* What it says about the inputs of a build.  Variables and firmware are one piece
\* of memory; where one ends and the other begins shows only in the low copy that
\* is made of a firmware for real mode, and only of one smaller than the largest copy.
Bound(c) ==
    [top |-> c.vars \o c.firmware.cells,
     low |-> IF c.boot = "real16" THEN Least(LowMax, Len(c.firmware.cells)) ELSE 0,
     boot |-> c.boot, processors |-> Processors(c),
     blobs |-> [t \in DOMAIN c.blobs |-> BoundBlob(c, t)]]

\* Two builds have the same launch digest exactly when they were given the same
\* variables and firmware, boot mode, processors and blobs, up to what the digest
\* leaves out (above).  Metadata is read out of a firmware, so firmwares that differ
\* in it differ in what is compared here; it is kept apart from the cells, and has
\* to be the same.
DigestBindsInputs ==
    \A r, s \in ToSet(results) :
        r.ok /\ s.ok /\ r.cfg.firmware.regions = s.cfg.firmware.regions =>
            (r.digest = s.digest <=> Bound(r.cfg) = Bound(s.cfg))

\* The root hash dm-verity gives a disk: the salted hash of the top block of its
\* hash tree, the block that follows the one with the superblock.
VerityRoot(d) == <<d.algo, d.salt, [i \in 1..d.bs |-> d.part[d.bs + i]]>>

VerityDisk(d) ==
    /\ d.gpt /\ d.verity /\ d.superblock
    /\ d.algo # "other" /\ d.bs > 0 /\ Len(d.part) >= 2 * d.bs

CommitsTo(c, d) ==
    /\ VerityDisk(d) /\ Has(c, "Kernel")
    /\ RoothashFromCmdline(c.blobs["Kernel"]) = <<VerityRoot(d)>>

\* A verification that passes with --igvm and --image ties the attested machine
\* to the disk: the kernel in its measured memory commits to the root hash of that
\* disk, and so does the kernel its image was built with.  This takes three things
\* of what the verifier is given: the IGVM file stays the same between the two
\* reads of it; the kernel that is read from it is in its measured pages (so it is
\* in a file igvm-tools built, KernelRecovered, but page_map does not ask for it);
\* and the superblock of the disk has a block size, which verity.rs does not ask
\* for either.
PassBindsDisk ==
    /\ pc = "verdict" /\ checks.igvm = "pass" /\ checks.image = "pass" /\ ~changed
    /\ MeasuredKernel(given) = KernelBlob(given)
    /\ disk.bs > 0
    => /\ VerityDisk(disk)
       /\ MeasuredKernel(machine) # <<>>
       /\ RoothashFromCmdline(MeasuredKernel(machine)[1]) = <<VerityRoot(disk)>>
       /\ \A r \in ToSet(results) : r.ok /\ r.file = machine => CommitsTo(r.cfg, disk)

\* A machine launched from an image that was built and that the verifier has, with
\* a disk made for its kernel, is accepted, unless there is less to read from where
\* the partition begins than the first read of it takes.
HonestAccepted ==
    pc = "verdict" /\ machine = given /\ ~changed /\ Len(disk.part) >= PageSize =>
        \A r \in ToSet(results) :
            r.ok /\ r.file = machine /\ CommitsTo(r.cfg, disk) /\ ~EmptyShim(r.cfg)
            => checks.igvm = "pass" /\ checks.image = "pass"

\* The state of the builder and the verifier has its type; only a build that
\* succeeded leaves a file to launch from or to verify with.
ImageTypeOK ==
    /\ MeasureTypeOK
    /\ builder.directives \in Seq(Directive)
    /\ pc \in {"launch", "verify_igvm", "verify_image", "verdict"} => machine \in Files
    /\ pc \in {"verify_igvm", "verify_image", "verdict"} => given \in Files
    /\ changed \in BOOLEAN
=============================================================================
