------------------------------ MODULE BuildDir ------------------------------
(***************************************************************************)
(* The life of a project's `kettle-build` directory: `kettle build` and    *)
(* `kettle attest` write it (src/toolchain/runner.rs, run;                 *)
(* src/commands/attest.rs, attest_with_sink), may fail or be killed at any *)
(* step and may be run again on another commit; `kettle verify` reads it   *)
(* (src/commands/verify.rs, src/provenance.rs) while it changes.  Nothing  *)
(* locks the directory.                                                    *)
(***************************************************************************)
EXTENDS ReportData, Functions

CONSTANTS
    Procs,          \* `kettle build` and `kettle attest` processes
    Commits,        \* commits of the project
    Names,          \* names of the binaries it builds
    Produces,       \* [Commits -> SUBSET Names]: what a commit builds
    Toolchains,     \* subset of {"cargo", "nix"}
    Nonces,         \* what `kettle attest` is given as --nonce: NonceStrings
    VerifyNonces,   \* what `kettle verify` is given: sequences of 0 or 1 of them
    Digest(_),      \* SHA-256 of a provenance, as bytes
    MaxRuns         \* bound: commands run on the project

\* What a file holds: a binary built from a commit, or anything else.
Content == Commits \union {"other"}

\* A partial map of names to contents.
Files == UNION {[D -> Content] : D \in SUBSET Names}

\* provenance.json, as parsed.
Doc == [id : 1..MaxRuns, commit : Commits, subject : Files]

ASSUME BuildDirAssumption ==
    /\ Produces \in [Commits -> SUBSET Names]
    /\ "other" \notin Commits
    /\ Toolchains \subseteq {"cargo", "nix"}
    /\ Nonces \subseteq [bytes : UNION {[1..k -> Byte] : k \in 0..(NonceLen + 1)},
                         form : {"plain", "dashed", "not_hex"}]
    /\ VerifyNonces \subseteq {<<>>} \union {<<n>> : n \in Nonces}
    /\ MaxRuns \in Nat
    /\ \A d \in Doc : Digest(d) \in Checksum
    /\ \A d, e \in Doc : Digest(d) = Digest(e) => d = e

VARIABLES
    toolchain,  \* the toolchain of the project
    head,       \* the commit that is checked out
    target,     \* binaries in cargo's target/release, by name
    artifacts,  \* kettle-build/artifacts, by name
    top,        \* copies of binaries beside provenance.json, by name
    prov,       \* kettle-build/provenance.json: a file
    evid,       \* kettle-build/evidence.json: a file
    runs,       \* number of commands run
    pc,         \* [Procs -> where the process is; "idle" or "done" if it ended]
    cmd,        \* [Procs -> the command line and what the process has read]
    signed,     \* history: [doc, nonces] the hardware has signed
    ver         \* the `kettle verify` process

diskVars == <<artifacts, top, prov, evid>>
vars == <<toolchain, head, target, diskVars, runs, pc, cmd, signed, ver>>

Empty == [n \in {} |-> "other"]

\* The files of g, with those of f in their place where both have a name.
Over(f, g) == [n \in DOMAIN f \union DOMAIN g |-> IF n \in DOMAIN f THEN f[n] ELSE g[n]]

\* files once c was written under the name n.
With(files, n, c) == Over([m \in {n} |-> c], files)

Missing == [kind |-> "missing"]
Torn == [kind |-> "torn"]

Idle == [attest |-> FALSE, nonces |-> <<>>, id |-> 0, commit |-> "other",
         out |-> Empty, subject |-> Empty, todo |-> {}, staged |-> {}, read |-> Missing]

Ended(p) == pc[p] \in {"idle", "done"}

NotStarted == [pc |-> "idle", verdict |-> "none", nonces |-> <<>>, evid |-> Missing,
               prov |-> Missing, todo |-> {}, seen |-> {}]

Init ==
    /\ toolchain \in Toolchains
    /\ head \in Commits
    /\ target = Empty
    /\ artifacts = Empty /\ top = Empty
    /\ prov = Missing /\ evid = Missing
    /\ runs = 0
    /\ pc = [p \in Procs |-> "idle"]
    /\ cmd = [p \in Procs |-> Idle]
    /\ signed = {}
    /\ ver = NotStarted

Goto(p, l) == pc' = [pc EXCEPT ![p] = l]

-----------------------------------------------------------------------------
(* kettle build, kettle attest *)

Start(p) ==
    /\ Ended(p) /\ runs < MaxRuns
    /\ runs' = runs + 1
    /\ \E attest \in BOOLEAN, nonces \in {<<>>} \union {<<n>> : n \in Nonces} :
          /\ attest \/ nonces = <<>>
          /\ cmd' = [cmd EXCEPT ![p] = [Idle EXCEPT
                        !.attest = attest, !.nonces = nonces, !.id = runs + 1]]
    /\ Goto(p, "clean")
    /\ UNCHANGED <<toolchain, head, target, diskVars, signed, ver>>

\* remove_dir_all unlinks the files one by one.
RemoveFile(p) ==
    /\ pc[p] = "clean"
    /\ \/ /\ \E n \in DOMAIN artifacts :
                artifacts' = Restrict(artifacts, DOMAIN artifacts \ {n})
          /\ UNCHANGED <<top, prov, evid>>
       \/ /\ \E n \in DOMAIN top : top' = Restrict(top, DOMAIN top \ {n})
          /\ UNCHANGED <<artifacts, prov, evid>>
       \/ /\ prov # Missing /\ prov' = Missing
          /\ UNCHANGED <<artifacts, top, evid>>
       \/ /\ evid # Missing /\ evid' = Missing
          /\ UNCHANGED <<artifacts, top, prov>>
    /\ UNCHANGED <<toolchain, head, target, runs, pc, cmd, signed, ver>>

\* Fault: an existing output directory is kept.
CreateDirAnyway(p) ==
    /\ pc[p] = "clean"
    /\ Goto(p, "inputs")
    /\ UNCHANGED <<toolchain, head, target, diskVars, runs, cmd, signed, ver>>

\* The directory is gone and is created again.
CreateDir(p) ==
    /\ pc[p] = "clean"
    /\ artifacts = Empty /\ top = Empty /\ prov = Missing /\ evid = Missing
    /\ Goto(p, "inputs")
    /\ UNCHANGED <<toolchain, head, target, diskVars, runs, cmd, signed, ver>>

\* Fault: a git command that fails yields the default, as for the remote's URL.
CollectInputsDefault(p) ==
    /\ pc[p] = "inputs"
    /\ Goto(p, "build")
    /\ UNCHANGED <<toolchain, head, target, diskVars, runs, cmd, signed, ver>>

\* GitContext::from_dir, the lockfile and the toolchain's inputs.
CollectInputs(p) ==
    /\ pc[p] = "inputs"
    /\ cmd' = [cmd EXCEPT ![p].commit = head]
    /\ Goto(p, "build")
    /\ UNCHANGED <<toolchain, head, target, diskVars, runs, signed, ver>>

\* T::run_build.  cargo adds to what earlier builds left in target/release;
\* nix prints the store paths of this build.
RunBuild(p) ==
    LET built == [n \in Produces[head] |-> head]
    IN  /\ pc[p] = "build"
        /\ IF toolchain = "cargo"
             THEN target' = Over(built, target) /\ UNCHANGED cmd
             ELSE cmd' = [cmd EXCEPT ![p].out = built] /\ UNCHANGED target
        /\ Goto(p, "collect")
        /\ UNCHANGED <<toolchain, head, diskVars, runs, signed, ver>>

\* Where collect_artifacts looks for binaries.
Binaries(p) == IF toolchain = "cargo" THEN target ELSE cmd[p].out

\* T::collect_artifacts lists the binaries.
ListArtifacts(p) ==
    /\ pc[p] = "collect"
    /\ cmd' = [cmd EXCEPT ![p].todo = DOMAIN Binaries(p)]
    /\ Goto(p, IF toolchain = "cargo" THEN "hash" ELSE "stage")
    /\ UNCHANGED <<toolchain, head, target, diskVars, runs, signed, ver>>

\* cargo: Artifact::in_dir hashes every binary where cargo left it ...
HashArtifact(p) ==
    /\ pc[p] = "hash"
    /\ \E n \in cmd[p].todo :
          cmd' = [cmd EXCEPT ![p].subject = With(@, n, target[n]),
                             ![p].todo = @ \ {n}]
    /\ UNCHANGED <<toolchain, head, target, diskVars, runs, pc, signed, ver>>

\* ... then all are to be copied ...
HashedAll(p) ==
    /\ pc[p] = "hash" /\ cmd[p].todo = {}
    /\ cmd' = [cmd EXCEPT ![p].todo = DOMAIN cmd[p].subject]
    /\ Goto(p, "copy")
    /\ UNCHANGED <<toolchain, head, target, diskVars, runs, signed, ver>>

\* ... each as it is when it is copied.
CopyArtifact(p) ==
    /\ pc[p] = "copy"
    /\ \E n \in cmd[p].todo :
          /\ artifacts' = With(artifacts, n, target[n])
          /\ cmd' = [cmd EXCEPT ![p].todo = @ \ {n}]
    /\ UNCHANGED <<toolchain, head, target, top, prov, evid, runs, pc, signed, ver>>

\* nix: a binary is copied from the store ...
StageArtifact(p) ==
    /\ pc[p] = "stage"
    /\ \E n \in cmd[p].todo :
          /\ artifacts' = With(artifacts, n, cmd[p].out[n])
          /\ cmd' = [cmd EXCEPT ![p].todo = @ \ {n}, ![p].staged = {n}]
    /\ Goto(p, "hash_staged")
    /\ UNCHANGED <<toolchain, head, target, top, prov, evid, runs, signed, ver>>

\* ... and the copy is read back and hashed before the next one is made.
HashStaged(p) ==
    /\ pc[p] = "hash_staged"
    /\ \E n \in cmd[p].staged \intersect DOMAIN artifacts :
          cmd' = [cmd EXCEPT ![p].subject = With(@, n, artifacts[n]),
                             ![p].staged = {}]
    /\ Goto(p, "stage")
    /\ UNCHANGED <<toolchain, head, target, diskVars, runs, signed, ver>>

\* fs::write empties the file, then fills it.
CreateProvenance(p) ==
    /\ pc[p] \in {"copy", "stage"} /\ cmd[p].todo = {}
    /\ prov' = Torn
    /\ Goto(p, "provenance")
    /\ UNCHANGED <<toolchain, head, target, artifacts, top, evid, runs, cmd,
                   signed, ver>>

Provenance(p) ==
    [id |-> cmd[p].id, commit |-> cmd[p].commit, subject |-> cmd[p].subject]

WriteProvenance(p) ==
    /\ pc[p] = "provenance"
    /\ prov' = [kind |-> "file", doc |-> Provenance(p), layout |-> "pretty"]
    /\ Goto(p, IF cmd[p].attest THEN "read" ELSE "done")
    /\ UNCHANGED <<toolchain, head, target, artifacts, top, evid, runs, cmd,
                   signed, ver>>

\* attest_with_sink reads the provenance back from the disk.
ReadProvenance(p) ==
    /\ pc[p] = "read" /\ prov.kind = "file"
    /\ cmd' = [cmd EXCEPT ![p].read = prov]
    /\ Goto(p, "sign")
    /\ UNCHANGED <<toolchain, head, target, diskVars, runs, signed, ver>>

\* decode_nonce and the hardware's signature.
Sign(p) ==
    /\ pc[p] = "sign"
    /\ \A i \in DOMAIN cmd[p].nonces : decode_nonce_ok(cmd[p].nonces[i])
    /\ signed' = signed \union
                 {[doc |-> cmd[p].read.doc, nonces |-> cmd[p].nonces]}
    /\ Goto(p, "signed")
    /\ UNCHANGED <<toolchain, head, target, diskVars, runs, cmd, ver>>

CreateEvidence(p) ==
    /\ pc[p] = "signed"
    /\ evid' = Torn
    /\ Goto(p, "evidence")
    /\ UNCHANGED <<toolchain, head, target, artifacts, top, prov, runs, cmd,
                   signed, ver>>

\* What `kettle verify` will find in the report as claims.signed_data.
SignedData(doc, nonces) == strip_trailing_nulls(report_data(Digest(doc), nonces))

WriteEvidence(p) ==
    /\ pc[p] = "evidence"
    /\ evid' = [kind |-> "file",
                data |-> SignedData(cmd[p].read.doc, cmd[p].nonces)]
    /\ Goto(p, "done")
    /\ UNCHANGED <<toolchain, head, target, artifacts, top, prov, runs, cmd,
                   signed, ver>>

\* The process returns an error, panics or is killed: the disk stays as it is.
Stop(p) ==
    /\ ~Ended(p)
    /\ Goto(p, "idle")
    /\ cmd' = [cmd EXCEPT ![p] = Idle]
    /\ UNCHANGED <<toolchain, head, target, diskVars, runs, signed, ver>>

Command(p) ==
    \/ Start(p) \/ RemoveFile(p) \/ CreateDir(p) \/ CollectInputs(p)
    \/ RunBuild(p) \/ ListArtifacts(p)
    \/ HashArtifact(p) \/ HashedAll(p) \/ CopyArtifact(p)
    \/ StageArtifact(p) \/ HashStaged(p)
    \/ CreateProvenance(p) \/ WriteProvenance(p)
    \/ ReadProvenance(p) \/ Sign(p) \/ CreateEvidence(p) \/ WriteEvidence(p)
    \/ Stop(p)

-----------------------------------------------------------------------------
(* The user, between commands *)

AllEnded == \A p \in Procs : Ended(p)

Checkout ==
    /\ AllEnded
    /\ head' \in Commits \ {head}
    /\ UNCHANGED <<toolchain, target, diskVars, runs, pc, cmd, signed, ver>>

\* A binary is copied beside provenance.json.
CopyUp ==
    /\ AllEnded
    /\ \E n \in DOMAIN artifacts : top' = With(top, n, artifacts[n])
    /\ UNCHANGED <<toolchain, head, target, artifacts, prov, evid, runs, pc,
                   cmd, signed, ver>>

\* A binary is modified.
Modify ==
    /\ AllEnded
    /\ \E n \in DOMAIN artifacts : artifacts' = [artifacts EXCEPT ![n] = "other"]
    /\ UNCHANGED <<toolchain, head, target, top, prov, evid, runs, pc, cmd,
                   signed, ver>>

\* provenance.json is formatted anew: other whitespace, the same values.
Reformat ==
    /\ AllEnded /\ prov.kind = "file"
    /\ prov' = [prov EXCEPT !.layout = "other"]
    /\ UNCHANGED <<toolchain, head, target, artifacts, top, evid, runs, pc,
                   cmd, signed, ver>>

User == Checkout \/ CopyUp \/ Modify \/ Reformat

-----------------------------------------------------------------------------
(* kettle verify *)

VerifyError == ver' = [NotStarted EXCEPT !.pc = "done", !.verdict = "error"]

VerifyStart ==
    /\ ver.pc \in {"idle", "done"}
    /\ \E nonces \in VerifyNonces :
          ver' = [NotStarted EXCEPT !.pc = "evidence", !.nonces = nonces]

\* Build::from_dir reads evidence.json, then provenance.json ...
VerifyReadEvidence ==
    /\ ver.pc = "evidence"
    /\ IF evid = Missing
         THEN VerifyError
         ELSE ver' = [ver EXCEPT !.pc = "provenance", !.evid = evid]

VerifyReadProvenance ==
    /\ ver.pc = "provenance"
    /\ IF prov = Missing
         THEN VerifyError
         ELSE ver' = [ver EXCEPT !.pc = "list", !.prov = prov]

\* ... and lists the files of the directory and of artifacts/.
VerifyListTop ==
    /\ ver.pc = "list"
    /\ ver' = [ver EXCEPT !.pc = "list_artifacts", !.todo = {"top"} \X DOMAIN top]

\* Then both files are parsed; verify_artifacts hashes the entries whose name
\* is a subject.
VerifyListArtifacts ==
    /\ ver.pc = "list_artifacts"
    /\ IF ver.evid = Torn \/ ver.prov = Torn
         THEN VerifyError
         ELSE LET entries == ver.todo \union ({"artifacts"} \X DOMAIN artifacts)
              IN  ver' = [ver EXCEPT !.pc = "check",
                     !.todo = {e \in entries : e[2] \in DOMAIN ver.prov.doc.subject}]

\* check_artifact: a listed file that is gone by now is an error.
VerifyArtifact ==
    /\ ver.pc = "check"
    /\ \E entry \in ver.todo :
          LET n == entry[2]
              files == IF entry[1] = "top" THEN top ELSE artifacts
          IN  IF n \notin DOMAIN files
                THEN VerifyError
                ELSE ver' = [ver EXCEPT !.todo = @ \ {entry},
                                        !.seen = @ \union {<<n, files[n]>>}]

\* Fault: a subject without a file is not a failure.
PassedWithMissing(data, doc, seen, nonces) ==
    /\ compare_checksum(data, Digest(doc))
    /\ \A f \in seen : f[2] = doc.subject[f[1]]
    /\ nonces # <<>> => verify_nonce(data, nonces[1])

\* Every result is a success: the provenance's checksum is attested, every
\* subject has a file, every file found has the recorded digest, and the nonce
\* is the attested one.  The signature and the predicate type of what kettle
\* wrote are good.
Passed(data, doc, seen, nonces) ==
    /\ compare_checksum(data, Digest(doc))
    /\ DOMAIN doc.subject = {f[1] : f \in seen}
    /\ \A f \in seen : f[2] = doc.subject[f[1]]
    /\ nonces # <<>> => verify_nonce(data, nonces[1])

VerifyConclude ==
    /\ ver.pc = "check" /\ ver.todo = {}
    /\ ver' = [ver EXCEPT !.pc = "done",
                  !.verdict = IF Passed(ver.evid.data, ver.prov.doc, ver.seen, ver.nonces)
                              THEN "PASSED" ELSE "FAILED"]

Verify ==
    /\ \/ VerifyStart \/ VerifyReadEvidence \/ VerifyReadProvenance
       \/ VerifyListTop \/ VerifyListArtifacts \/ VerifyArtifact \/ VerifyConclude
    /\ UNCHANGED <<toolchain, head, target, diskVars, runs, pc, cmd, signed>>

Next == (\E p \in Procs : Command(p)) \/ User \/ Verify

Spec == Init /\ [][Next]_vars

-----------------------------------------------------------------------------
(* Properties *)

IsFile(f) == f.kind = "file"

\* Every variable has its type; in particular a provenance.json names a commit
\* (src/toolchain/runner.rs, run).
TypeOK ==
    /\ toolchain \in Toolchains /\ head \in Commits
    /\ target \in Files /\ artifacts \in Files /\ top \in Files
    /\ IsFile(prov) => prov.doc \in Doc
    /\ runs \in 0..MaxRuns
    /\ \A p \in Procs :
          /\ cmd[p].subject \in Files
          /\ cmd[p].todo \subseteq DOMAIN Binaries(p)
    /\ \A s \in signed : s.doc \in Doc

\* When evidence.json and provenance.json are both there, the one attests the
\* other, whatever was killed and run again before: run starts by removing the
\* directory (src/toolchain/runner.rs, run).
EvidenceBindsProvenance ==
    IsFile(evid) /\ IsFile(prov) => compare_checksum(evid.data, Digest(prov.doc))

\* Nothing is staged beside a provenance.json that does not list it, and what
\* is staged is what was hashed unless it was modified since (run).
StagedIsListed ==
    IsFile(prov) =>
        \A n \in DOMAIN artifacts : /\ n \in DOMAIN prov.doc.subject
                                    /\ artifacts[n] \in {prov.doc.subject[n], "other"}

SeenIn(doc) ==
    {<<n, artifacts[n]>> : n \in DOMAIN doc.subject \intersect DOMAIN artifacts} \union
    {<<n, top[n]>> : n \in DOMAIN doc.subject \intersect DOMAIN top}

\* `kettle verify` of the directory as it is.
DirPasses(nonces) ==
    IsFile(evid) /\ IsFile(prov) /\ Passed(evid.data, prov.doc, SeenIn(prov.doc), nonces)

Modified == \E n \in DOMAIN artifacts : artifacts[n] = "other"

\* What a completed `kettle attest` leaves verifies, without a nonce and with
\* the attested one (plain hex), and with no other; only an all-zero nonce after
\* a checksum that ends in zero is not recognised (verify_nonce).
AttestedDirVerifies ==
    \A p \in Procs : pc[p] = "done" /\ cmd[p].attest /\ ~Modified =>
        /\ DirPasses(<<>>)
        /\ \A n \in Nonces : n.form = "plain" =>
              (DirPasses(<<n>>) <=> /\ n.bytes = NonceSlot(cmd[p].nonces)
                                    /\ \/ n.bytes # Zeros(NonceLen)
                                       \/ Digest(prov.doc)[SumLen] # 0)

\* A verification that passes has hashed the binaries of a provenance the
\* hardware signed, together with the nonce that was asked for, however the
\* directory changed while it ran (src/commands/verify.rs, verify).
VerifiedIsAttested ==
    ver.verdict = "PASSED" =>
        /\ \E s \in signed :
              /\ s.doc = ver.prov.doc
              /\ ver.nonces # <<>> => NonceSlot(s.nonces) = ver.nonces[1].bytes
        /\ ver.seen = {<<n, ver.prov.doc.subject[n]>> : n \in DOMAIN ver.prov.doc.subject}

\* "pass the same nonce you sent to `POST /build` / `kettle attest --nonce`",
\* skills/kettle/SKILL.md:333.
SameNonceVerifies ==
    \A p \in Procs : pc[p] = "done" /\ cmd[p].attest /\ ~Modified =>
        DirPasses(cmd[p].nonces)

\* "the build steps used to produce the artifacts were: 1. Cloning [...] and
\* checking out `source.digest.gitCommit`", docs/slsa-definitions.md:15.
ArtifactsFromCommit ==
    IsFile(prov) => \A n \in DOMAIN prov.doc.subject :
                        prov.doc.subject[n] = prov.doc.commit

\* "Re-ordering keys or changing whitespace will cause `kettle verify` to
\* fail", docs/slsa-definitions.md:5.
ReformattedFails == ver.verdict = "PASSED" => ver.prov.layout = "pretty"
=============================================================================
