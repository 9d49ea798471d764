# A TLA+ model of kettle

kettle builds a git project inside a confidential VM, records what it built in a
SLSA provenance (`kettle-build/provenance.json`), has the CPU sign a checksum of
that provenance (`evidence.json`), and lets anyone check the result. This
directory models the parts of it that keep state or run concurrently, checks
them with TLC on small instances, and proves the most important properties with
TLAPS for all instances. Paths below are relative to the repository.

## 1. The system

| Part | State it keeps | Operations | What is hard | What makes it correct |
|---|---|---|---|---|
| HTTP handlers and registry (`src/server/api.rs`, `job.rs`) | `gate`, the job map, per job: `event_log`, the broadcast channel, `result`, `state` | `POST /build`, `GET .../events`, `GET .../result` | racing requests; events pushed while a stream is being set up; slow readers | one build per VM; streams without gaps that end with the verdict |
| Build task (`src/server/runner.rs`, `src/toolchain.rs`) | the sink's bounded channel, the forwarder task, `build_result` | `run_build`, `try_emit`, `emit` | three tasks and two bounded channels; any step may fail or panic; shutdown order | the verdict comes last, agrees with the result, and always comes |
| Build command (`src/toolchain/runner.rs` `stream_command`, `confine.rs`) | two pipes, two reader threads, the child's groups and capabilities | spawn, read, wait, join | full pipes, bad output, background processes, a failing `setgroups` | output captured whole, the command confined, the call returns |
| Build directory (`src/toolchain/runner.rs` `run`, `driver.rs`, `cargo.rs`, `nix.rs`, `src/commands/build.rs`, `attest.rs`) | `kettle-build/`, `target/release`, the checked-out commit | `kettle build`, `kettle attest` | kills between steps, reruns on other commits, two commands at once | evidence, provenance and artifacts belong together |
| Report data (`src/commands/attest.rs`, `verify.rs`) | none | layout, stripping of trailing nulls, comparison | zero bytes at the boundaries | nothing is accepted that was not signed |
| `kettle verify` (`src/commands/verify.rs`, `src/provenance.rs`) | what it has read so far | read, list, hash, compare | the directory changes under it | a pass is about a signed provenance and the binaries it lists |
| Dependency inputs (`cargo_lock.rs`, `nix.rs`, `pnpm.rs`) | the git repositories beside the project | resolve, classify, Merkle root, stage binaries | path dependencies that change during a build, work trees that are not committed, lock files in any order, odd Merkle layers, equal names | what can be recorded is recorded or the build is refused; equal roots mean that the same was recorded |
| IGVM tools (`crates/igvm-tools`) | directives of an IGVM file, pending batch, digest | build, measure, extract | batching of pages in the launch digest, overlapping regions, blobs of any length | the digest is the one the hypervisor computes, and it identifies the inputs it measures |
| dm-verity (`src/verity.rs`) and `kettle verify --igvm --image` | none | find the partition, root hash, compare | the file is read twice; the block size comes from the disk | a pass ties the attested machine to the disk |
| Azure vTPM (`crates/az-cvm-vtpm`, parts of `crates/tss-esapi`) | TPM NV indices, PCRs, the device | write report data, read the report, quote, extend, verify | two NV indices and a fixed delay, reads in pieces, processes that die and leave an index behind | the report is about this caller's data; a quote verifies |
| rest of `crates/tss-esapi*`, `image/`, `bin/` | | | | vendored, generated, configuration |

How they interact: a client POSTs a request; the handler takes the gate and
spawns the build task; the task runs the build in a blocking thread, which
reports through the sink's channel to the forwarder, which appends to the log and
broadcasts; streams read a snapshot of the log and then the broadcast. The
blocking thread runs `attest_with_sink` (or `build_with_sink`), which writes the
build directory and runs the build command. The directory is tarred into the
result and later read by `kettle verify`. On Azure the signature comes from the
vTPM. The VM itself is launched from an IGVM file that `igvm-tools` builds; whoever
has that file and the disk image can have `kettle verify` compare both with what
was attested.

## 2. Modules

| Module | Models |
|---|---|
| `OneShotBuild` | the promise of the server: one build accepted, one verdict, a result behind a success |
| `JobServer` | handlers, registry, build task, forwarder, streams |
| `MCJobServer` | model values for its runs |
| `JobServerProofs` | theorems about `JobServer`, its refinement of `OneShotBuild` |
| `StreamCommand` | `stream_command` and `confine::spawn` with an arbitrary program |
| `StreamCommandProofs` | theorems about it |
| `ReportData` | the bytes that are signed and how they are compared |
| `ReportDataProofs` | what comparison can tell, for all lengths |
| `BuildDir` | build, attest and verify on one shared directory (extends `ReportData`) |
| `BuildDirProofs` | theorems about it, from those of `ReportDataProofs` |
| `MCBuildDir` | model values and a small injective checksum for its runs |
| `BuildInputs` | what a build records of its inputs, the Merkle root, staged binaries |
| `BuildInputsProofs` | theorems about it |
| `MCBuildInputs` | lock files, manifests and projects for its run |
| `MeasureSnp` | the launch digest of an IGVM file |
| `MeasureSnpProofs` | theorems about it |
| `LaunchImage` | build of an IGVM file, launch, `kettle verify --igvm --image` (extends `MeasureSnp`) |
| `LaunchImageProofs` | theorems about it, from those of `MeasureSnpProofs` |
| `MCLaunchImage` | firmware, blobs, disks and foreign files for its run |
| `VtpmReport` | reports and quotes from a shared vTPM |
| `VtpmReportProofs` | theorems about it |
| `MCVtpmReport` | model values for its run |

Definitions called *Fault* in the modules are deliberately wrong variants of the
definition that follows them. They are in no specification; each shows that a
property fails when the code behaves that way.

### JobServer

- `post`, `gate`, `source`, `registered`: `PostBuild` is `post_build` up to and
  including the atomic swap (what precedes it touches no shared state),
  `InsertJob` and `SpawnRunner` are the rest of the handler.
- `pc`, `outcome`, `result`, `state`: the task of `BuildRunner::spawn`. One
  action for each step that reports an event; `BuildFails` may replace any of
  them (an `Err`, or a panic, which `spawn_blocking` turns into one).
- `chan`, `sinkOpen`, `fwd`, `held`: the sink and the forwarder. `try_emit`
  drops an event when the channel is full, `emit` waits.
- `log`, `sent`: `push_event` has two halves, the append under the lock and the
  send; they are separate actions, since streams look in between.
- `sub`, `backlog`, `next`, `lagged`, `received`: a stream. `next` counts the
  broadcast messages the receiver is past; when it is more than the capacity
  behind, it is moved to the oldest message that is left (`SkipLagged`).

Event payloads are reduced to a kind and a number. Event kinds that no code
sends (`Queued`, `Vm`, `Init`, `Host`) are left out. A stream never ends by
itself; a client that disconnects is one that takes no more steps. That `get_result`
answers 500 when the file of a result that is set cannot be opened is left out.

### StreamCommand

`plan` is the output of the command, chosen at the start: any sequence of lines
on the two streams, some not UTF-8. The program writes it through the pipes,
may leave a background process that writes the rest, may be killed, and tries to
get its group back. `group` and `setgid` are what the server process has and
what `pre_exec` makes of it; `device` says who may open `/dev/sev-guest`.

### BuildDir

- Disk: `artifacts`, `top` (copies of binaries beside provenance.json), `prov`,
  `evid`, and `target` (cargo's `target/release`, which is never cleaned). Files
  hold the commit they were built from, or `"other"`. `prov` and `evid` may be
  missing or torn: `fs::write` first truncates.
- `pc`, `cmd`: one `kettle build` or `kettle attest` per process, in the steps in
  which the code touches the disk. `Stop` ends one anywhere. An error of a step
  (a missing file, a bad nonce) is a `Stop` at a step that is not enabled.
- cargo's binaries are hashed where they are and copied afterwards, nix's are
  copied and the copy is hashed: `HashArtifact`/`CopyArtifact` and
  `StageArtifact`/`HashStaged`.
- `ver`: `kettle verify`, with one step for each file or listing it reads. The
  signature and the predicate type of evidence and provenance that kettle wrote
  are good, so those two results are left out.
- `signed`: what the hardware signed (history, for the properties).

Assumptions about the environment: SHA-256 is injective on the documents of a
run; the user changes the work tree and the directory only while no command
runs; two nix store paths do not have binaries of the same name (`BuildInputs`
has the case that they do). When the
directory itself is gone for a moment, a listing is an error in the code and
empty in the model.

### BuildInputs

- A project is a work tree: driver, lock file, manifests, `commit` and `tree` of its
  HEAD, and for nix and pnpm what the build leaves. `work` is 0 for a clean tree and
  otherwise names what is not committed. `GitContext::from_dir` (`driver.rs:104`) asks
  for HEAD and does not look at it, so neither does `Start`; equal commits mean equal
  projects only between equal `work` (`InputsAssumption`: a commit is a hash).
- `repos` are the git repositories beside the project that path dependencies point to;
  `ChangeRepo` edits or commits there at any time.
- `CollectExternalPathDeps` is one step (manifests belong to the project, which
  does not change); `AssertClean` and `GitShaAt` are two, as in the code two git
  commands are; `RunBuild` sees the repositories as they are then.
- A uri is the tuple of the numbers that decide its place in the order of the
  strings. A name is a number in the order names have *inside* a uri, where `?` or
  `@` follows: there `foo-1?hash=` comes before `foo?hash=`. `NameRank` is the order of
  the names by themselves, in which `foo` comes before `foo-1`. cargo and pnpm sort by
  uri, nix by name (`nix.rs:355`), and the two orders differ (`Less`).
- A registry is no part of a uri, a git URL is. `pct_encode` leaves `%` alone, so two
  URLs can be written alike; no property compares URLs, only uris.
- The sorts are stable: `Place` counts what goes before an element, and
  `SortedDeps` puts it there.
- The Merkle tree of `rs_merkle` is modelled from its use: a node without a
  neighbour moves up. `Layers` has the layers from the leaves to the root. A hash
  is the term it was computed from, that is, SHA-256 is injective.
- Syntax errors of lock files and tools that are missing are left out, so
  `RefusedExactly` is about well-formed files.

### MeasureSnp and LaunchImage

- The digest is a hash chain, so it is the sequence `ld` of what was folded in.
  `when` records where a directive's first entry is (history, for the
  properties).
- Memory is counted in cells, a page has `PageSize`. A HOB entry, a command-line
  word and a VMSA are one cell each; `OvmfMeta::new` and `parse_pe_cmdline` are
  what they find, not how they parse.
- The builder's directives are a sequence, as in the code: regions of the
  firmware's metadata, parameters, two copies of the firmware, variables, then
  the HOB list and the blobs, each of which first removes what is in its way.
- A machine is launched from any file (`Launch`) and attests its digest (`Attest`); the
  verifier is given any file and any disk, and `ReplaceFile` may change the file between
  its two reads. The files are those that were built and `others`, which were made
  elsewhere and need not look like anything build makes: kernels in pages that are not
  measured, for another platform only, or replaced by a later page.
- `--smp` is any number and none is one. The index of an application processor is 16
  bits wide: beyond `MaxVps` processors (65536 in the code) the build fails
  (`TooManyVps`), after the reset address has been asked for.
- `Aligned` has the rules of `IgvmFile::new` (crate igvm, whose source is not here) that a
  list of build's can break: pages, inserts and areas that are not aligned. That every
  such list meets its other rules (headers in order, areas used after they are
  defined, one platform header for each bit of a mask) is taken for granted.
- `Retain` is Rust's `retain`, `Sorted` the stable `sort_by` of `finalize`: `Place`
  counts what goes before a directive.
- `LayoutAssumption` is what build relies on and does not check: regions of the
  firmware's metadata begin at pages, and the HOB area and the blobs (from 512 MB
  on) lie below the variables and the firmware (up to 4 GB). `IsBuildConfig` has
  firmware and variables fit below 4 GB, where `add_uefivars` subtracts.
- `SeparationAssumption` is what else OVMF gives and build does not check: SEV regions
  and parameter areas keep clear of the low copy of the firmware and of the
  variables, SEV regions of each other, parameter areas of the HOB area and the
  blobs, and the HOB list fits its area. SEV regions may contain parameter areas and
  the HOB area, as OVMF's do: build filters the one and removes the other. What happens
  with a firmware that breaks this is not examined; the code does not notice.
- `RecoveryAssumption` is what `extract.rs` relies on when it takes the first cell that
  looks like a kernel's HOB entry: the HOB area lies above the low copy of the
  firmware and below the blobs, and neither firmware, variables, other blobs nor
  padding look like such an entry. A kernel may contain one.
- `MeasureSpec` is `measure_snp` alone on any file. In `LaunchImage` the same steps
  run inside build and verify, and for foreign files as `igvm-tools measure`.

### VtpmReport

- `dev`: /dev/tpm0, which the kernel lets one process have; a second gets an
  error (`Busy`). `index` is the NV index with the report data (it may be there
  from earlier, in any size), `report` the one the paravisor writes.
- One action per TPM command that matters: find, undefine, define, write, each
  piece of `read_full`, quote, each `pcr_read` of `read_all`, extend.
- `Die` ends a call anywhere, by an error or the death of the process; what it
  did to the TPM stays.
- External, from how the code uses it: the paravisor renews the report within
  `Latency` ticks of a write (`Renew`), the TPM returns some of the PCRs it is asked
  for and none from a bank that is not allocated, the kernel extends PCRs without
  opening the device. `PromptParavisor` (`Latency < Delay`) is what the three
  seconds of sleep rely on; the code cannot check it, and without it
  `ReportIsMine` is false.

## 3. Runs

| Run | Checks | Bounds |
|---|---|---|
| `streams` | `TypeOK`, `CompleteIsLast`, `VerdictMatchesResult`, `AttestEventsLogged`, `NoGapInStream`, `StreamEndsWithComplete`, `ResultAfterOk` | one request, one stream, both channels of capacity 2, one line of output, attestation on: eight events through channels of two, so drops, waits and lag all happen |
| `one_shot` | `OneBuildPerVM`, `ImplementsOneShotBuild`, `EveryStreamCompletes` | two clients with good and bad requests, one stream, channels of capacity 1, attestation off |
| `command` | `TypeOK`, `CapturedAll`, `Confined`, `Returns` | all outputs of up to four lines, pipes of one line: a full pipe on each side while the other is idle |
| `build_dir` | `TypeOK`, `EvidenceBindsProvenance`, `StagedIsListed`, `AttestedDirVerifies` | one process, three commands, two commits, two binaries of which the second commit builds one, cargo and nix, plain, dashed, zero and short nonces, checksums that end in zero |
| `shared_dir` | `VerifiedIsAttested` | two processes with two commands in all, one binary, cargo and nix, a verifier with and without nonce that may run again and again; symmetric processes |
| `image` | `ImageTypeOK`, `MeasuredExactly`, `MeasuredInOrder`, `InsertOvertakesOpenBatch`, `BuildOutcome`, `EveryPageOnce`, `KernelRecovered`, `DigestBindsInputs`, `PassBindsDisk`, `HonestAccepted` | single builds of every combination of five firmwares (three or four cells), ten sets of blobs of zero to three cells (less than, exactly and more than a page of two), platforms, boot modes and one to three processors where an index fits up to two; all pairs of twenty-six variants that differ in firmware, variables, where one ends and the other begins, boot mode, processors (none, one, two), platform, certificates, shim, kernel, or in what is left of a kernel next to an empty shim; machines and verifiers with any two of twelve files made elsewhere, or of one that was built and three like it; seven disks, three sound (two root hashes, two block sizes) and four broken in one field each; foreign files of an area definition and every sequence of four out of nine directives, in orders the builder does not make |
| `inputs` | `InputsTypeOK`, `PathDepsRecorded`, `RefusedExactly`, `SameRootSameInputs`, `ListedInOneOrder`, `SubjectsAreStaged` | every list of up to two of ten cargo packages under seven sets of manifests, every list of up to three nix derivations (two of one name, two whose names sort differently by themselves and in a uri) and pnpm packages, pairs of builds with permuted lock files, another compiler, or uncommitted changes of lock file, manifests, outputs or driver; one change of a repository at any time |
| `vtpm` | `VtpmTypeOK`, `ReportIsMine`, `PlainReportWhole`, `QuoteVerifies`, `CallsReturn` | two callers with three calls in all, report data of one, two and three cells where two fit, reports in two pieces, two PCRs read one at a time, a sleep of two ticks and a paravisor of one, one extend by the kernel |
| `uuid_nonce` | violates `SameNonceVerifies` | a dashed nonce is attested and then refused |
| `stale_binary` | violates `ArtifactsFromCommit` | an old binary of target/release is listed as built from the new commit |
| `layout` | violates `ReformattedFails` | a reformatted provenance passes |
| `dirty_tree` | violates `EqualRootsEqualInputs` | a commit is built, then changed without committing and built again with the same root |

The four violations are disagreements between the code and what the repository
says about it (quoted in `PROJECT.json`, "findings"); the code is modelled as it
is.

What the exceptions written into the new properties say of the code:

- `PathDepsRecorded`: a path dependency is accounted for exactly when a manifest
  of the workspace names it, in a table other than `[workspace.dependencies]`, by
  the name of its package. Otherwise it is skipped like a workspace member
  (`cargo_lock.rs:338`), although the entry point's comment promises "Errors on any
  package that can't be accounted for".
- `PathDepsRecorded`, `SameRootSameInputs`: a change between the check of a path
  dependency (`cargo_lock.rs:311`) and the build command is excepted, since the code
  does not look again: it records a commit that was not what was built.
- `SameRootSameInputs`: "two builds with the same Merkle root consumed identical
  inputs" (`docs/slsa-definitions.md:240`) holds of what is recorded; of manifests and
  sources only between work trees with the same uncommitted changes, or none (the run
  `dirty_tree` shows what happens otherwise); and of path dependencies only if they
  are named so and left alone during the build.
- `ListedInOneOrder`: nix sorts its fetches by name (`nix.rs:355`), where
  `docs/slsa-definitions.md:149` says "Entries are sorted by `uri`", a string that begins
  `pkg:nix-fetch/{name}?hash=` (`nix.rs:136`). `foo` is listed before `foo-1` and its uri
  comes after that of `foo-1`. Fetches of one name keep the order of nix's output.
- `SubjectsAreStaged`: of two store paths' binaries of one name the last is staged
  and both are subjects, so the directory cannot verify.
- `KernelRecovered`, `DigestBindsInputs`: an empty shim takes the kernel's first
  page out of the image and of the digest, although `hob.rs:157` says "Measured
  blobs → add_data_pages (included in SNP digest)". Of a shim only the length is in
  the digest (in the HOB list), of other blobs all of it.
- `DigestBindsInputs`: variables end where the firmware begins, so the digest tells
  them apart only through the low copy of the firmware (real mode, firmware smaller
  than the largest copy); one cell moved from one to the other is otherwise the same
  memory. The platforms do not count.
- `BuildOutcome`: `--platform native` (`crates/igvm-tools/README.md:88`) never yields
  a file, since `build` always calls `measure_snp`.
- `PassBindsDisk`: only if the IGVM file is not replaced between its two reads; if the
  kernel read from it is in its measured pages (`measure.rs:230` skips pages that are
  unmeasured or not for SNP, `page_map` takes every page with data, though the comment at
  `extract.rs:60` says "every measured `PageData` page"); and if the superblock has a
  block size, since `verity.rs` takes zero and hashes an empty block. The second always
  holds of a file `igvm-tools build` made, which is the first half of `KernelRecovered`.
- `HonestAccepted`: `stored_roothash` first reads 4096 bytes from where the partition
  begins, so a disk that ends earlier is refused although its root block is there.
- `PlainReportWhole`: a caller that died after its write leaves a renewal behind
  that can fall between two pieces of somebody else's `get_report`.
- `CallsReturn`: a quote from a TPM without a sha256 bank never returns.

Deadlock is not checked: every one of these systems may rightly come to rest
(the build is over, the command has returned, the bound on commands is reached).
That nobody waits for ever is stated as `EveryStreamCompletes`, `Returns`,
`CallsReturn` and the liveness part of `ImplementsOneShotBuild`.

The capacities of 256, 32 and 16 bytes of the code are 1 or 2 in the runs. The
theorems below do not depend on them.

`AttestedDirVerifies` has an exception: an all-zero nonce behind a checksum that
ends in zero is reported as missing, because `split_at_checked(32)` sees fewer
than 32 bytes. `NonceExact` proves it to be the only one.

### Fairness

- `JobServer`: weak fairness of the handler once it has the gate, of the build
  task, the forwarder and each open stream. tokio polls the tasks it was given;
  the build command is assumed to end, since the code has no timeout; a client
  that has opened a stream is assumed to read it. No client has to send
  anything, and no failure has to happen: `BuildFails` is part of the build
  task's disjunction, which only has to go on somehow.
- `StreamCommand`: weak fairness of the caller, of each reader thread, and of
  the program's writing and exiting. A program that never exits, or a background
  process that never closes the pipes, makes `stream_command` wait for ever; this
  is excluded by assumption, not by the code.
- `VtpmReport`: weak fairness of time, of the paravisor's renewal and of each
  caller's steps. The TPM answers every command. No call has to be made, and none
  has to die.
- `BuildDir`, `BuildInputs` and `LaunchImage` have safety properties only: every one
  of their loops is over a list that does not grow.

## 4. Proofs

`JobServerProofs` proves, for every set of clients, every request set, every
capacity and with or without attestation: `TypeOK`, `OneBuildPerVM`,
`CompleteIsLast`, `VerdictMatchesResult`, `NoGapInStream`,
`StreamEndsWithComplete`, `AttestEventsLogged`, the action property `ResultAfterOk`,
and `Spec => OSB!Spec`. It uses `JobServerAssumption`
(capacities are positive, requests have their type). The properties are not
inductive. The invariant `JobInv` adds:

- `GateInv`: who has won, and what that says about `gate`, `registered`, `pc`;
- `ControlInv`: how `pc`, `sinkOpen`, `fwd` and `held` go together, in particular
  that after the drain the forwarder has exited with an empty channel;
- `OutcomeInv`: the result is set exactly when the build got past `publish`;
- `CompleteInv`: the log has a Complete event exactly from `announce` on, at its
  end, with the right verdict; channel and hand have none;
- `SentInv`: what was sent is the log, or the log without its last event while
  that is being pushed.

`StreamsInv` adds for each stream that what it wrote, its backlog and the
broadcast from `next` on cover the log with overlap but without a gap
(`StreamInv`), and what its last event is once it has caught up (`EndInv`).
`SentInv` is the heart: a receiver created before the snapshot sees everything
that is sent but not yet logged, because an event is logged before it is sent.

`AttestInv` follows the Attest events from the build task to the log: from the
step on that emits one, it is in the channel, in the forwarder's hand or in the
log, and their order is kept on the way; `emit` waits for room, so none is lost,
and before the verdict the channel has been drained. `OkInv` says that whoever has
an `ok` event in his backlog or in what he received has it from the log, and
that then the result is set, which nothing unsets.

`StreamCommandProofs` proves `TypeOK`, `Confined` and `CapturedAll` for every
program. The invariant says that capabilities are gone before access() is asked
(`ConfineInv`), and that what was written is what was captured followed by what
is in the pipe until the reader fails (`CaptureInv`).

`ReportDataProofs` proves for every length of checksum and nonce that comparing
the stripped report data is exact (`ChecksumExact`, `NonceExact`). That the
library's stripping is well defined needs a least-number argument, taken from
the well-foundedness of `<` on the naturals.

`MeasureSnpProofs` proves `MeasureTypeOK`, `MeasuredExactly`, `MeasuredInOrder` and
`InsertOvertakesOpenBatch` of `MeasureSpec` for every IGVM file and page size
(`MeasureAssumption`, `ForeignAssumption`). The invariant `MInv` says that the batch
is the run of pages from the last one that began a batch on, in order and without
a gap; that `when` covers exactly the pages before it and the inserts so far; and
that the stretches of `ld` it points to do not overlap and leave nothing out.

`VtpmReportProofs` proves `VtpmTypeOK`, `ReportIsMine`, `PlainReportWhole` and
`QuoteVerifies` for any number of callers, pieces, PCRs and batches and any data
(`VtpmAssumption`, `PromptParavisor`). `ReportInv` follows a call through
`write_nv_index`: from `NvWrite` on the index holds the caller's data, since nobody
else can have the device; a renewal that is still due is due before the sleep is
over; so when reading begins nothing is stale, and nothing becomes stale while
the caller has the device. For quotes the invariant compares, for each PCR, the
value that was read or is still to be read with the one the quote covers.

`BuildDirProofs` proves two properties for any number of commands that share the
directory and any number of verifications: `TypeOK` and `VerifiedIsAttested`. The
invariant of the second (`AttestInv`) follows `kettle attest` from the bytes of the
provenance it read to the report data it had signed, and `kettle verify` from the
evidence it read to each comparison; `ChecksumExact` and `NonceExact` turn the
comparisons of stripped bytes into equalities of documents and nonces. That
checksums of different documents differ, and the lengths, are `BuildDirAssumption` and
`ReportDataAssumption`.

The other three, `EvidenceBindsProvenance`, `StagedIsListed` and
`AttestedDirVerifies`, have the hypothesis `OneCommand` (one process, so commands
follow each other; any of them may be killed at any step and run again on any
commit). It is needed: two builds at once in one directory can pair the evidence
of one with the provenance of the other, which is why the `shared_dir` run checks
`VerifiedIsAttested` only. `PhaseInv` says what the directory holds at each step of
the command: nothing before `CreateDir`, no evidence before the provenance is
written, and for each binary that was hashed and copied that the copy has the
digest.

`BuildInputsProofs` proves all six properties of `BuildInputs` for every workload:
any projects, lock files, manifests, derivations and repositories
(`InputsAssumption`).

- `BuildInv` describes the loop over the packages: the path dependencies that were
  collected are the ones the manifests name, nothing that was passed was a reason
  to refuse, and each package before `idx` is accounted for. `ResultsInv` carries
  this over to the builds that ended; `RefusedExactly`, `PathDepsRecorded` and
  `SubjectsAreStaged` follow from it.
- `ListedInOneOrder`: `Place` is a bijection on the positions (`PlaceOrder`,
  `PlaceTaken`, from cardinalities), so `SortedDeps` is a permutation of its argument
  in ascending order, and such a list is determined by the set of its elements when
  they are comparable. Where only names are compared, as nix does, they are when no
  two fetches share one.
- `SameRootSameInputs`: `OriginInv` says that what was built is in a workload, so that
  a commit and what is not committed fix the project. `MerkleInjective` says that
  equal roots come from equal lists of entries, *of any lengths*. A root has at its
  left edge as many node constructors as the tree has layers, so equal roots have as
  many layers; then the layers are equal from the top down, as a layer determines the
  one below it. The entries of a build then determine tools and dependencies although
  nix, cargo and pnpm write them without separators, because leaves of different kinds
  differ (`EntriesSame`). That the recursive function `Layers` exists is proved by
  induction in set form (a least counterexample), since the library's induction rules
  cannot be used.

`LaunchImageProofs` proves every property of the `image` run but `DigestBindsInputs`,
for every list of configurations, any firmware, blobs, disks, page size and
addresses, and any number of builds. `ImageTypeOK`, `MeasuredExactly`,
`MeasuredInOrder` and `InsertOvertakesOpenBatch` need `LaunchAssumption` and
`CellsAssumption`; `BuildOutcome` also `LayoutAssumption`; `EveryPageOnce` also
`SeparationAssumption`; and what is about the kernel also `RecoveryAssumption`.

- `ImageInv` is `MInv` of the file being measured together with the types of the
  builder and the results. A measurement that starts, of a file just built or of
  the one the verifier was given, re-establishes `MInv`, so what was proved of
  `MeasureSpec` on one file holds of every file here.
- The builder's lists are made by recursion (`Retain`, `BlobEnd`, `PlaceBlobs`,
  `FlattenSeq`). `RecursionExists` shows once, in set form, that a function with a
  given recursion exists; the lemmas about each operator then go by `ByInduction`.
  `SortedMembers` says that sorting loses and adds nothing.
- `BuildOutcome`: `ProgressInv` and `MeasuredInv` say what is known at each step of a
  build. `Laid` is what the list of directives keeps to: all page data begins at a
  page if firmware and variables fill their pages (`Sited`); if they do not, a
  misplaced page is in the list, above everything the HOB list and the blobs
  remove (`Astray`); and an insert has its parameter area (`Defined`). So `IgvmFile::new`
  refuses exactly the files it should, and measuring fails exactly without SNP.
- `EveryPageOnce`: `Apart` says of a list that no two positions cover a common page,
  `Tidy` adds that inserts stay inside parameter areas. What the builder appends at
  each step is apart by itself (`RunApart`, `ApartFlatten`) and reaches where the list
  does not reach yet; the HOB list and each blob first remove what is in their way.
  `CoverInv` carries this from step to step, and the sort keeps it (`ApartSorted`).
- `KernelRecovered`: `Carries` says what the finished list holds of the HOB list and of
  the kernel. A kernel's pages are all in it unless an empty shim was placed after it
  (`KernelPlaced`: in the order of `IgvmDataList::blobs` only a shim comes after a
  kernel), and a cell that looks like its entry is in the HOB list or among the blobs
  (`HobPlaced`, `StartedBare`, `AddedBare`). Since no page is there twice, the page map
  holds exactly these pages (`PageMapIs`), the first entry is the one of the HOB list
  (`EntryFound`), and putting the pages together gives the kernel cell by cell
  (`Reassembled`).
- `PassBindsDisk`: `VerifyInv` says what each check has found out when it passed. Nothing
  is known of the files but that they are IGVM files. `DigestMap` reads the measured
  memory back from a digest: the entries for normal pages with the last one at each
  address. It is `MeasuredMap` of the file the digest was computed from (`Vouches`; by
  `DigestRecords` each measured page has its entry and each entry its page, and by
  `MeasuredInOrder` the last page at an address has the last entry). So a machine and a
  file of equal digests have equal measured memory, hence the same kernel in it, and
  what is read from the command line of one is on that of the other. `KernelComesBack`
  then relates it to the configuration if the machine's file was built. No property of
  the hash is used but that equal digests come from equal sequences of entries.
- `DigestFixesKernel`: of two builds of one digest, both have the same kernel, unless an
  empty shim took its first page.
- `HonestAccepted`: `TraceInv` says that the loop of `measure_snp` is where the directives
  so far lead, whatever was built in between; where they lead is unique
  (`ReachesOne`), so a file is measured to the digest it was built with, and it is
  never refused (`NeverFails`). With `Recovered` the second check passes too.

Only model-checked, and why:

- all liveness (`EveryStreamCompletes`, `Returns`, `CallsReturn`, and the fairness of
  `OSB!FairSpec`), which is out of the reach of the prover;
- `DigestBindsInputs`. Of "equal digests, equal inputs" the theorem
  `DigestFixesKernel` has the kernel; of "equal inputs, equal digests" the lemma
  `OneDigest` has that a file has one digest. What is missing is that a file is
  determined by what of its configuration is measured, which would have to be followed
  through every step of the builder.

## 5. What is not modelled

- JSON, SSE and HTTP framing, printing, the contents of archives and the tarball
  (unpacking, `git clone` and `tar_dir` are steps that succeed or fail), and
  `embed_snp_vcek` (a certificate fetched into the evidence).
- Parsing: TOML, JSON, YAML, PE sections, OVMF metadata, the HCL report. The models
  begin with what the parsers find.
- The partition table in `verity.rs` byte by byte. `entries_lba * LBA` at line 94 is
  not checked for overflow where the comment at line 105 says "Checked arithmetic
  throughout"; when it wraps, another table of the same image is read.
- `hcl`, `tdx`, `x86regs.rs` and `hypervisor.rs`: conversions and constant tables.
- Restarts of the server: nothing is persisted, and the unit has `Restart=no`.
- The vendored `crates/tss-esapi` beyond `abstraction/nv.rs` and `abstraction/pcr.rs`,
  and `crates/tss-esapi-sys`. These two are more than nine tenths of the
  repository's lines (four copies of generated bindings alone are some 82 000 of
  116 000), which is why the modelled share of all lines stays small; of kettle's
  own crates, the parts with state or control flow are modelled.
- The image, the unit files and the scripts.

Other disagreements between text and code met on the way, none of them shown by a run
of its own: `post_build` accepts a request with both `repo_url` and `source_data`
(`src/server/api.rs:33`, as `Malformed` has it) and ignores the first, where its own
message says "exactly one of repo_url or source_data is required"; `extract.rs:60`,
`hob.rs:157` and `docs/slsa-definitions.md:149` as said in section 3;
`docs/2-how-it-works.md:79` gives the Merkle leaves in another order than
`merkle_entries`; a `hash_block_size` of zero makes `roothash_from_verity_partition`
hash an empty block.

## 6. State of the plan

All modules planned for this repository are written, and every safety property of
the runs is proved except `DigestBindsInputs`, as section 4 says. What would be worth
adding next is not a proof but a part of the system: the Azure evidence around
`VtpmReport`, should its control flow grow beyond a sequence of calls.
