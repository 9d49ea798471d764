--------------------------- MODULE MCLaunchImage ---------------------------
EXTENDS LaunchImage

Zero == <<"zero">>

\* Root hashes: H(salt 1 || block r).
RootBlock(r, bs) == [i \in 1..bs |-> <<"byte", r>>]
Root(r, bs) == <<"sha256", 1, RootBlock(r, bs)>>

HobCells == {<<"hob", BlobTypes[k], a, n>> : k \in 1..6, a \in {26 + 2 * j : j \in 0..6}, n \in 0..4}

MCCells ==
    {Zero, <<"end">>} \union HobCells
    \union {<<"byte", b>> : b \in 0..9}
    \union {<<"roothash", Root(r, bs)>> : r \in 1..2, bs \in 1..2}
    \union {<<"vmsa", k>> : k \in {"ap", "real16", "flat32"}}

Bytes(n, b) == [i \in 1..n |-> <<"byte", b>>]

R(type, base, size) == [type |-> type, base |-> base, size |-> size]

\* As OVMF lays out its low memory: the parameter area and the HOB area lie
\* inside memory that is also listed for SEV.
Sev == <<R("SevMemory", 2, 14), R("SevSecrets", 16, 2), R("SevCpuid", 18, 1)>>
Params == <<R("IgvmParamArea", 4, 4), R("IgvmParamMemoryMap", 1, 1),
            R("IgvmParamVpCount", 2, 1)>>
Hob == <<R("IgvmHobArea", 8, 8)>>

Fw(regions, reset) == [cells |-> Bytes(4, 7), regions |-> regions, reset |-> reset]

\* A kernel whose command line commits to a root hash.  Its data may look like
\* the HOB entry of a kernel.
Kernel(r) == << <<"byte", 1>>, <<"hob", "Kernel", 26, 1>>, <<"roothash", Root(r, 2)>> >>
Kernel512 == << <<"byte", 1>>, <<"byte", 2>>, <<"roothash", Root(1, 1)>> >>

MCConfig(fw, blobs, platform, boot, smp) ==
    [firmware |-> fw, vars |-> IF boot = "flat32" THEN Bytes(2, 9) ELSE <<>>,
     blobs |-> blobs, platform |-> platform, boot |-> boot, smp |-> smp]

None == [t \in {} |-> <<>>]
Blob1(t, b) == [u \in {t} |-> b]
KernelAnd(t, b, r) == [u \in {t, "Kernel"} |-> IF u = "Kernel" THEN Kernel(r) ELSE b]

Firmwares == {Fw(Sev \o Params \o Hob, TRUE), Fw(Sev \o Hob, FALSE), Fw(Sev \o Params, TRUE),
              Fw(<<>>, FALSE), [Fw(Sev \o Hob, TRUE) EXCEPT !.cells = Bytes(3, 7)]}

BlobSets ==
    {None, Blob1("Kernel", Kernel(1)), Blob1("Kernel", <<>>), Blob1("Shim", Bytes(1, 3)),
     Blob1("Pk", Bytes(3, 4)),
     KernelAnd("Shim", Bytes(1, 3), 1), KernelAnd("Shim", <<>>, 1),
     KernelAnd("Db", Bytes(3, 4), 1), KernelAnd("Db", <<>>, 1),
     [t \in ToSet(BlobTypes) |-> IF t = "Kernel" THEN Kernel(1) ELSE Bytes(1, 5)]}

\* One build with any inputs.
Single ==
    {<<MCConfig(f, b, p, m, n)>> :
        f \in Firmwares, b \in BlobSets, p \in SUBSET Platforms \ {{}},
        m \in {"real16", "flat32"}, n \in 1..3}

\* Two builds: images that differ in one of the inputs, and in what is left of a
\* kernel next to an empty shim.
Full(b, n) == MCConfig(Fw(Sev \o Params \o Hob, TRUE), b, {"snp"}, "real16", n)
Flat(b) == MCConfig(Fw(Sev \o Params \o Hob, TRUE), b, {"snp"}, "flat32", 1)

K1 == Blob1("Kernel", Kernel(1))
Long(a, b) == [u \in {"Shim", "Kernel"} |-> IF u = "Shim" THEN <<>> ELSE Bytes(2, a) \o Bytes(2, b)]

Variants ==
    <<Full(K1, 1),
      Full(Blob1("Kernel", Kernel(2)), 1),
      Full(Blob1("Kernel", Kernel512), 1),
      Full(K1, 0),
      Full(K1, 2),
      [Full(K1, 1) EXCEPT !.platform = Platforms],
      [Full(K1, 1) EXCEPT !.platform = {"native"}],
      \* firmware and variables
      [Full(K1, 1) EXCEPT !.firmware.cells = Bytes(3, 7) \o Bytes(1, 8)],
      [Full(K1, 1) EXCEPT !.firmware.cells = Bytes(1, 8) \o Bytes(3, 7)],
      [Full(K1, 1) EXCEPT !.firmware.cells = Bytes(2, 9) \o Bytes(4, 7)],
      [Full(K1, 1) EXCEPT !.vars = Bytes(2, 9)],
      [Full(K1, 1) EXCEPT !.vars = Bytes(2, 8)],
      [Full(K1, 1) EXCEPT !.firmware.cells = Bytes(2, 7), !.vars = Bytes(2, 7)],
      \* boot mode
      Flat(K1), [Flat(K1) EXCEPT !.vars = <<>>],
      [Flat(K1) EXCEPT !.vars = <<>>, !.firmware.cells = Bytes(2, 9) \o Bytes(4, 7)],
      \* certificates
      Full(KernelAnd("Pk", Bytes(1, 3), 1), 1),
      Full(KernelAnd("Pk", Bytes(1, 4), 1), 1),
      Full(KernelAnd("Db", Bytes(1, 3), 1), 1),
      Full(KernelAnd("Dbx", Bytes(3, 3), 1), 1),
      \* shim
      Full(KernelAnd("Shim", Bytes(1, 3), 1), 1),
      Full(KernelAnd("Shim", Bytes(1, 4), 1), 1),
      Full(KernelAnd("Shim", Bytes(2, 3), 1), 1),
      Full(Long(1, 1), 1), Full(Long(2, 1), 1), Full(Long(1, 2), 1)>>

Pairs ==
    {<<Variants[p[1]], Variants[p[2]]>> :
        p \in {q \in (DOMAIN Variants) \X (DOMAIN Variants) : q[1] < q[2]}}

\* Directives of files made elsewhere.
D(kind, gpa, mask, data) ==
    [Blank EXCEPT !.kind = kind, !.gpa = gpa, !.mask = mask, !.data = data]

Snp(gpa, data) == D("page", gpa, {"snp"}, data)
Unmeasured(gpa, data) == [Snp(gpa, data) EXCEPT !.unmeasured = TRUE]
Native(gpa, data) == D("page", gpa, {"native"}, data)

SnpFile(ds) == [platforms |-> {"snp"}, directives |-> ds]

\* A page that names a kernel of n cells at 26, and what may be at 26.
Named(n) == Snp(0, << <<"hob", "Kernel", 26, n>> >>)
Rooted(r) == << <<"roothash", Root(r, 2)>>, <<"byte", 1>> >>

Elsewhere ==
    {SnpFile(<<Named(1), Snp(26, Rooted(1))>>),
     SnpFile(<<Named(1), Blank, Snp(26, Rooted(1))>>),
     SnpFile(<<Named(1), Snp(26, Rooted(2))>>),
     \* the kernel is not measured, or measured and replaced by pages that are not
     SnpFile(<<Named(1), Unmeasured(26, Rooted(1))>>),
     SnpFile(<<Named(1), Unmeasured(26, Rooted(2))>>),
     SnpFile(<<Named(1), Snp(26, Rooted(1)), Native(26, Rooted(2))>>),
     SnpFile(<<Named(1), Snp(26, Rooted(1)), Snp(26, Rooted(2))>>),
     SnpFile(<<Named(1), Snp(26, Rooted(2)), Snp(26, Rooted(1))>>),
     SnpFile(<<Native(0, << <<"hob", "Kernel", 28, 1>> >>), Native(28, Rooted(1)), Snp(26, Rooted(2))>>),
     \* a page of zeros, with and without data
     SnpFile(<<Named(3), Snp(26, Rooted(1)), Snp(28, <<Zero>>)>>),
     SnpFile(<<Named(3), Snp(26, Rooted(1)), Snp(28, <<>>)>>),
     \* not for SNP
     [platforms |-> {"native"}, directives |-> <<Named(1), Snp(26, Rooted(1))>>]}

\* Files like the one build makes of Plain, with a page behind it.
Plain == MCConfig(Fw(Hob, TRUE), K1, {"snp"}, "real16", 1)

Like(d) ==
    SnpFile(<<D("vmsa", 0, {"snp"}, << <<"vmsa", "real16">> >>), Snp(0, Bytes(2, 7)),
              Snp(8, << <<"hob", "Kernel", 26, 3>>, <<"end">> >>),
              Snp(26, SubSeq(Kernel(1), 1, 2)), Snp(28, SubSeq(Kernel(1), 3, 3)),
              Snp(56, Bytes(2, 7)), Snp(58, Bytes(2, 7)), d>>)

LikePlain == {Like(Blank), Like(Native(28, SubSeq(Kernel(2), 3, 3))), Like(Native(30, Bytes(1, 1)))}

MCWorkloads ==
    {[builds |-> b, others |-> {}] : b \in Single \union Pairs}
    \union {[builds |-> <<>>, others |-> Elsewhere], [builds |-> <<Plain>>, others |-> LikePlain]}

MCDisk(r, bs) ==
    [gpt |-> TRUE, verity |-> TRUE, superblock |-> TRUE, algo |-> "sha256", salt |-> 1,
     bs |-> bs, part |-> Bytes(bs, 0) \o RootBlock(r, bs)]

MCDisks == {MCDisk(1, 2), MCDisk(2, 2), MCDisk(1, 1),
            [MCDisk(1, 2) EXCEPT !.gpt = FALSE],
            [MCDisk(1, 2) EXCEPT !.bs = 0],
            [MCDisk(1, 2) EXCEPT !.bs = 3],
            [MCDisk(1, 2) EXCEPT !.algo = "other"]}

\* Foreign files: any order of a few directives after the definition of an area.
Pieces ==
    {Snp(0, Bytes(1, 1)), Snp(2, Bytes(2, 2)),
     D("page", 4, {"snp", "native"}, <<>>), Native(4, Bytes(1, 1)),
     Unmeasured(4, Bytes(1, 1)), [Snp(2, <<>>) EXCEPT !.type = "CPUID"],
     D("insert", 8, {"snp"}, <<>>), [D("insert", 8, {"snp"}, <<>>) EXCEPT !.index = 1],
     D("vmsa", 0, {"snp"}, << <<"vmsa", "ap">> >>)}

MCForeign ==
    {SnpFile(<<[Blank EXCEPT !.kind = "area", !.size = 3]>> \o f) : f \in [1..4 -> Pieces]}
=============================================================================
