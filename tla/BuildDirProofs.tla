--------------------------- MODULE BuildDirProofs ---------------------------
(***************************************************************************)
(* Proofs about the output directory.  The type invariant and              *)
(* VerifiedIsAttested hold for any number of commands that share the       *)
(* directory; what a directory holds between commands is proved for a      *)
(* project on which commands follow each other, as BuildDir.cfg has it.    *)
(***************************************************************************)
EXTENDS BuildDir, ReportDataProofs, TLAPS

-----------------------------------------------------------------------------
(* Files *)

LEMMA FilesFacts ==
    ASSUME NEW f \in Files
    PROVE  /\ DOMAIN f \subseteq Names
           /\ \A n \in DOMAIN f : f[n] \in Content
           /\ f = [n \in DOMAIN f |-> f[n]]
BY DEF Files

LEMMA FilesIntro ==
    ASSUME NEW D \in SUBSET Names, NEW f \in [D -> Content]
    PROVE  f \in Files
BY DEF Files

LEMMA EmptyFiles == Empty \in Files /\ DOMAIN Empty = {}
<1>1. Empty \in [{} -> Content]
    BY DEF Empty
<1>2. QED
    BY <1>1, FilesIntro DEF Empty

\* A map of names without names is the empty one.
LEMMA EmptyUnique ==
    ASSUME NEW f \in Files, DOMAIN f = {}
    PROVE  f = Empty
BY FilesFacts DEF Empty

LEMMA OverFiles ==
    ASSUME NEW f \in Files, NEW g \in Files
    PROVE  /\ Over(f, g) \in Files
           /\ DOMAIN Over(f, g) = DOMAIN f \union DOMAIN g
<1>1. Over(f, g) \in [DOMAIN f \union DOMAIN g -> Content]
    BY FilesFacts DEF Over
<1>2. DOMAIN f \union DOMAIN g \in SUBSET Names
    BY FilesFacts
<1>3. QED
    BY <1>1, <1>2, FilesIntro

\* A file that is written is there, and the others stay.
LEMMA WithFiles ==
    ASSUME NEW f \in Files, NEW n \in Names, NEW c \in Content
    PROVE  /\ With(f, n, c) \in Files
           /\ DOMAIN With(f, n, c) = DOMAIN f \union {n}
           /\ With(f, n, c)[n] = c
           /\ \A m \in DOMAIN f : m # n => With(f, n, c)[m] = f[m]
<1> DEFINE g == [m \in {n} |-> c]
<1>1. g \in Files /\ DOMAIN g = {n} /\ g[n] = c
  <2>1. g \in [{n} -> Content] /\ {n} \in SUBSET Names
    OBVIOUS
  <2>2. QED
    BY <2>1, FilesIntro
<1> HIDE DEF g
<1>2. With(f, n, c) = Over(g, f)
    BY DEF With, g
<1>3. QED
    BY <1>1, <1>2, OverFiles DEF Over

LEMMA WithHas ==
    \A f \in Files : \A n \in Names : \A c \in Content :
        /\ n \in DOMAIN With(f, n, c) /\ With(f, n, c)[n] = c
        /\ DOMAIN With(f, n, c) = DOMAIN f \union {n}
        /\ \A m \in DOMAIN f : m # n => With(f, n, c)[m] = f[m]
BY DEF With, Over

\* Unlinking a file.
LEMMA RestrictFiles ==
    ASSUME NEW f \in Files, NEW n
    PROVE  /\ Restrict(f, DOMAIN f \ {n}) \in Files
           /\ DOMAIN Restrict(f, DOMAIN f \ {n}) = DOMAIN f \ {n}
           /\ \A m \in DOMAIN f \ {n} : Restrict(f, DOMAIN f \ {n})[m] = f[m]
<1>1. Restrict(f, DOMAIN f \ {n}) \in [DOMAIN f \ {n} -> Content]
    BY FilesFacts DEF Restrict
<1>2. DOMAIN f \ {n} \in SUBSET Names
    BY FilesFacts
<1>3. QED
    BY <1>1, <1>2, FilesIntro DEF Restrict

-----------------------------------------------------------------------------
(* Types *)

Labels == {"idle", "clean", "inputs", "build", "collect", "hash", "copy", "stage",
           "hash_staged", "provenance", "read", "sign", "signed", "evidence", "done"}

NonceArgs == {<<>>} \union {<<n>> : n \in Nonces}

ProvFile == [kind : {"file"}, doc : Doc, layout : {"pretty", "other"}]

\* What a process knows: the fields of cmd[p].
CmdType ==
    [attest : BOOLEAN, nonces : NonceArgs, id : 0..MaxRuns, commit : Content,
     out : Files, subject : Files, todo : SUBSET Names, staged : SUBSET Names,
     read : {Missing} \union ProvFile]

Attestable == {n \in NonceArgs : \A i \in DOMAIN n : decode_nonce_ok(n[i])}

DiskInv ==
    /\ toolchain \in Toolchains /\ head \in Commits /\ runs \in 0..MaxRuns
    /\ target \in Files /\ artifacts \in Files /\ top \in Files
    /\ prov \in {Missing, Torn} \union ProvFile
    /\ signed \subseteq [doc : Doc, nonces : Attestable]

\* What a process has read when it comes to a step that uses it.
ProcInv(p) ==
    /\ pc[p] \notin {"idle", "done"} => cmd[p].id \in 1..MaxRuns
    /\ pc[p] \in {"build", "collect", "hash", "copy", "stage", "hash_staged", "provenance"}
          => cmd[p].commit \in Commits
    /\ pc[p] \in {"sign", "signed", "evidence"} => cmd[p].read \in ProvFile
    /\ pc[p] \in {"hash", "copy"} => toolchain = "cargo"
    /\ pc[p] \in {"stage", "hash_staged"} => toolchain # "cargo"
    /\ pc[p] \notin {"hash", "copy", "stage", "hash_staged"} => cmd[p].todo = {}
    /\ pc[p] \in {"clean", "inputs", "build", "collect"} => cmd[p].subject = Empty
    /\ pc[p] = "hash" => DOMAIN cmd[p].subject \subseteq DOMAIN target
    /\ cmd[p].todo \subseteq DOMAIN Binaries(p)

TypeInv ==
    /\ DiskInv
    /\ pc \in [Procs -> Labels]
    /\ cmd \in [Procs -> CmdType]
    /\ \A p \in Procs : ProcInv(p)

-----------------------------------------------------------------------------
\* Evidence is about something the hardware has signed.
Attests(f) == \E s \in signed : f = [kind |-> "file", data |-> SignedData(s.doc, s.nonces)]

EvidInv ==
    /\ evid \in {Missing, Torn} \/ Attests(evid)
    /\ \A p \in Procs : pc[p] \in {"signed", "evidence"} =>
          [doc |-> cmd[p].read.doc, nonces |-> cmd[p].nonces] \in signed

\* What `kettle verify` has read.
VerInv ==
    /\ ver = [pc |-> ver.pc, verdict |-> ver.verdict, nonces |-> ver.nonces, evid |-> ver.evid,
              prov |-> ver.prov, todo |-> ver.todo, seen |-> ver.seen]
    /\ ver.pc \in {"idle", "evidence", "provenance", "list", "list_artifacts", "check", "done"}
    /\ ver.nonces \in NonceArgs
    /\ ver.pc \in {"provenance", "list", "list_artifacts"} => ver.evid = Torn \/ Attests(ver.evid)
    /\ ver.pc \in {"list", "list_artifacts"} => ver.prov \in {Torn} \union ProvFile
    /\ ver.pc \in {"evidence", "provenance", "list"} => ver.todo = {}
    /\ ver.pc = "list_artifacts" => ver.todo \subseteq {"top"} \X Names
    /\ ver.pc = "check" =>
          /\ Attests(ver.evid) /\ ver.prov \in ProvFile
          /\ \A e \in ver.todo : e \in {"top", "artifacts"} \X DOMAIN ver.prov.doc.subject
          /\ ver.seen \subseteq (DOMAIN ver.prov.doc.subject) \X Content
    /\ ver.pc \in {"evidence", "provenance", "list", "list_artifacts"} => ver.seen = {}
    /\ ver.pc # "done" => ver.verdict = "none"

AttestInv == TypeInv /\ EvidInv /\ VerInv /\ VerifiedIsAttested

-----------------------------------------------------------------------------
EmptyDir == artifacts = Empty /\ top = Empty /\ prov = Missing /\ evid = Missing

\* The files of one command, step by step, while no other one runs.
PhaseInv(p) ==
    /\ pc[p] \in {"inputs", "build", "collect", "hash"} => EmptyDir
    /\ pc[p] \in {"copy", "stage", "hash_staged"} =>
          top = Empty /\ prov = Missing /\ evid = Missing
    /\ pc[p] \in {"hash", "copy"} =>
          \A n \in DOMAIN cmd[p].subject : n \in DOMAIN target /\ cmd[p].subject[n] = target[n]
    /\ pc[p] = "copy" =>
          /\ DOMAIN artifacts \union cmd[p].todo = DOMAIN cmd[p].subject
          /\ \A n \in DOMAIN artifacts : artifacts[n] = cmd[p].subject[n]
    /\ pc[p] = "stage" => artifacts = cmd[p].subject
    /\ pc[p] = "hash_staged" => \E n \in DOMAIN artifacts :
          cmd[p].staged = {n} /\ artifacts = With(cmd[p].subject, n, artifacts[n])
    /\ pc[p] = "provenance" =>
          artifacts = cmd[p].subject /\ top = Empty /\ prov = Torn /\ evid = Missing
    /\ pc[p] \in {"read", "sign", "signed", "evidence"} =>
          /\ top = Empty
          /\ prov = [kind |-> "file", doc |-> Provenance(p), layout |-> "pretty"]
          /\ artifacts = cmd[p].subject
    /\ pc[p] \in {"sign", "signed", "evidence"} => cmd[p].read = prov
    /\ pc[p] \in {"read", "sign", "signed"} => evid = Missing
    /\ pc[p] = "evidence" => evid = Torn
    /\ pc[p] = "done" /\ cmd[p].attest =>
          /\ prov \in ProvFile
          /\ cmd[p].nonces \in Attestable
          /\ evid = [kind |-> "file", data |-> SignedData(prov.doc, cmd[p].nonces)]
          /\ DOMAIN artifacts = DOMAIN prov.doc.subject
          /\ \A n \in DOMAIN top : n \in DOMAIN artifacts /\ top[n] \in {artifacts[n], prov.doc.subject[n]}

DirInv ==
    /\ AttestInv /\ EvidenceBindsProvenance /\ StagedIsListed
    /\ \A p \in Procs : PhaseInv(p)

LEMMA IdleType == Idle \in CmdType
<1>1. 0 \in 0..MaxRuns
    BY BuildDirAssumption
<1>2. QED
    BY <1>1, EmptyFiles DEF Idle, CmdType, NonceArgs, Content

LEMMA InitTypeInv == Init => TypeInv
<1> SUFFICES ASSUME Init PROVE TypeInv
    OBVIOUS
<1>1. DiskInv
    BY EmptyFiles, BuildDirAssumption DEF Init, DiskInv
<1>2. pc \in [Procs -> Labels] /\ cmd \in [Procs -> CmdType]
    BY IdleType DEF Init, Labels
<1>3. ASSUME NEW p \in Procs PROVE ProcInv(p)
    BY <1>3 DEF Init, ProcInv, Idle
<1>4. QED
    BY <1>1, <1>2, <1>3 DEF TypeInv

\* A step of one process leaves what the others know alone; target/release only
\* grows.
LEMMA ProcStep ==
    ASSUME TypeInv, NEW p \in Procs, NEW l \in Labels, NEW c \in CmdType,
           pc' = [pc EXCEPT ![p] = l], cmd' = [cmd EXCEPT ![p] = c],
           toolchain' = toolchain, DOMAIN target \subseteq DOMAIN target',
           DiskInv', ProcInv(p)'
    PROVE  TypeInv'
<1>1. pc \in [Procs -> Labels] /\ cmd \in [Procs -> CmdType]
    BY DEF TypeInv
<1>2. pc' \in [Procs -> Labels] /\ cmd' \in [Procs -> CmdType]
    BY <1>1
<1>3. ASSUME NEW q \in Procs, q # p PROVE ProcInv(q)'
  <2>1. pc'[q] = pc[q] /\ cmd'[q] = cmd[q]
    BY <1>1, <1>3
  <2>2. ProcInv(q)
    BY DEF TypeInv
  <2>3. QED
    BY <2>1, <2>2 DEF ProcInv, Binaries
<1>4. QED
    BY <1>2, <1>3 DEF TypeInv

\* What the invariant says of a process that takes a step.
LEMMA ProcFacts ==
    ASSUME TypeInv, NEW p \in Procs
    PROVE  /\ DiskInv /\ ProcInv(p) /\ pc \in [Procs -> Labels] /\ pc[p] \in Labels
           /\ cmd \in [Procs -> CmdType] /\ cmd[p] \in CmdType
           /\ cmd = [cmd EXCEPT ![p] = cmd[p]]
           /\ pc = [pc EXCEPT ![p] = pc[p]]
BY DEF TypeInv

LEMMA StartType ==
    ASSUME TypeInv, NEW p \in Procs, Start(p)
    PROVE  TypeInv'
<1>1. PICK attest \in BOOLEAN, nonces \in NonceArgs :
        cmd' = [cmd EXCEPT ![p] = [Idle EXCEPT
                        !.attest = attest, !.nonces = nonces, !.id = runs + 1]]
    BY DEF Start, NonceArgs
<1> DEFINE c == [Idle EXCEPT !.attest = attest, !.nonces = nonces, !.id = runs + 1]
<1>2. runs \in 0..MaxRuns /\ runs + 1 \in 1..MaxRuns
    BY BuildDirAssumption DEF TypeInv, DiskInv, Start
<1>3. c \in CmdType /\ c.id = runs + 1 /\ c.todo = {} /\ c.subject = Empty
  <2>1. runs + 1 \in 0..MaxRuns
    BY <1>2
  <2>2. c \in CmdType
    BY <2>1, IdleType DEF CmdType
  <2>3. c.id = runs + 1 /\ c.todo = {} /\ c.subject = Empty
    BY DEF Idle
  <2>4. QED
    BY <2>2, <2>3
<1> HIDE DEF c
<1>4. pc' = [pc EXCEPT ![p] = "clean"] /\ cmd' = [cmd EXCEPT ![p] = c]
    BY <1>1 DEF Start, Goto, c
<1>5. UNCHANGED <<toolchain, head, target, diskVars, signed>> /\ runs' = runs + 1
    BY DEF Start
<1>6. DiskInv'
    BY <1>2, <1>5 DEF TypeInv, DiskInv, diskVars
<1>7. pc'[p] = "clean" /\ cmd'[p] = c
    BY <1>4, ProcFacts
<1>8. ProcInv(p)'
    BY <1>2, <1>3, <1>7 DEF ProcInv
<1>9. QED
    BY <1>3, <1>4, <1>5, <1>6, <1>8, ProcStep DEF Labels

\* A step that only moves on, or only touches the directory.
LEMMA QuietType ==
    ASSUME TypeInv, NEW p \in Procs,
           \/ RemoveFile(p) \/ CreateDir(p) \/ CreateProvenance(p) \/ WriteProvenance(p)
           \/ Sign(p) \/ CreateEvidence(p) \/ WriteEvidence(p)
    PROVE  TypeInv'
<1>1. DiskInv /\ ProcInv(p) /\ cmd[p] \in CmdType /\ pc \in [Procs -> Labels]
      /\ cmd = [cmd EXCEPT ![p] = cmd[p]] /\ pc[p] \in Labels /\ pc = [pc EXCEPT ![p] = pc[p]]
    BY ProcFacts
<1>2. UNCHANGED <<cmd, toolchain, head, target, runs>>
    BY DEF RemoveFile, CreateDir, CreateProvenance, WriteProvenance, Sign, CreateEvidence,
           WriteEvidence
<1>3. CASE RemoveFile(p)
  <2>1. pc' = [pc EXCEPT ![p] = pc[p]] /\ signed' = signed /\ pc' = pc
    BY <1>1, <1>3 DEF RemoveFile
  <2>2. artifacts' \in Files /\ top' \in Files
    <3>1. artifacts \in Files /\ top \in Files
      BY <1>1 DEF DiskInv
    <3>2. artifacts' = artifacts \/ \E n : artifacts' = Restrict(artifacts, DOMAIN artifacts \ {n})
      BY <1>3 DEF RemoveFile
    <3>3. top' = top \/ \E n : top' = Restrict(top, DOMAIN top \ {n})
      BY <1>3 DEF RemoveFile
    <3>4. QED
      BY <3>1, <3>2, <3>3, RestrictFiles
  <2>3. prov' \in {Missing, prov}
    BY <1>3 DEF RemoveFile
  <2>4. DiskInv'
    BY <1>1, <1>2, <2>1, <2>2, <2>3 DEF DiskInv
  <2>5. ProcInv(p)'
    BY <1>1, <1>2, <2>1 DEF ProcInv, Binaries
  <2>6. QED
    BY <1>1, <1>2, <2>1, <2>4, <2>5, ProcStep
<1>4. CASE CreateDir(p) \/ CreateEvidence(p)
  <2>1. PICK l \in Labels : pc' = [pc EXCEPT ![p] = l]
                            /\ <<pc[p], l>> \in {<<"clean", "inputs">>, <<"signed", "evidence">>}
    BY <1>4 DEF CreateDir, CreateEvidence, Goto, Labels
  <2>2. DiskInv'
    BY <1>1, <1>2, <1>4 DEF CreateDir, CreateEvidence, DiskInv, diskVars
  <2>3. ProcInv(p)'
    BY <1>1, <1>2, <2>1 DEF ProcInv, Binaries
  <2>4. QED
    BY <1>1, <1>2, <2>1, <2>2, <2>3, ProcStep
<1>5. CASE CreateProvenance(p)
  <2>1. pc' = [pc EXCEPT ![p] = "provenance"] /\ pc'[p] = "provenance" /\ "provenance" \in Labels
    BY <1>1, <1>5 DEF CreateProvenance, Goto, Labels
  <2>2. DiskInv'
    BY <1>1, <1>2, <1>5 DEF CreateProvenance, DiskInv
  <2>3. ProcInv(p)'
    BY <1>1, <1>2, <1>5, <2>1 DEF CreateProvenance, ProcInv, Binaries
  <2>4. QED
    BY <1>1, <1>2, <2>1, <2>2, <2>3, ProcStep
<1>6. CASE WriteProvenance(p)
  <2>1. PICK l \in {"read", "done"} : pc' = [pc EXCEPT ![p] = l]
    BY <1>6 DEF WriteProvenance, Goto
  <2>2. Provenance(p) \in Doc
    BY <1>1, <1>6 DEF WriteProvenance, ProcInv, Provenance, Doc, CmdType
  <2>3. prov' \in ProvFile
    BY <1>6, <2>2 DEF WriteProvenance, ProvFile
  <2>4. DiskInv'
    BY <1>1, <1>2, <1>6, <2>3 DEF WriteProvenance, DiskInv
  <2>5. l \in Labels /\ pc'[p] = l
    BY <1>1, <2>1 DEF Labels
  <2>6. ProcInv(p)'
    BY <1>1, <1>2, <1>6, <2>1, <2>5 DEF WriteProvenance, ProcInv, Binaries
  <2>7. QED
    BY <1>1, <1>2, <2>1, <2>4, <2>5, <2>6, ProcStep
<1>7. CASE Sign(p)
  <2>1. pc' = [pc EXCEPT ![p] = "signed"] /\ pc'[p] = "signed" /\ "signed" \in Labels
    BY <1>1, <1>7 DEF Sign, Goto, Labels
  <2>2. cmd[p].read.doc \in Doc
    BY <1>1, <1>7 DEF Sign, ProcInv, ProvFile
  <2>3. cmd[p].nonces \in Attestable
    BY <1>1, <1>7 DEF Sign, CmdType, Attestable
  <2>4. signed' \subseteq [doc : Doc, nonces : Attestable]
    BY <1>1, <1>7, <2>2, <2>3 DEF Sign, DiskInv
  <2>5. DiskInv'
    BY <1>1, <1>2, <1>7, <2>4 DEF Sign, DiskInv, diskVars
  <2>6. ProcInv(p)'
    BY <1>1, <1>2, <1>7, <2>1 DEF Sign, ProcInv, Binaries
  <2>7. QED
    BY <1>1, <1>2, <2>1, <2>5, <2>6, ProcStep
<1>8. CASE WriteEvidence(p)
  <2>1. pc' = [pc EXCEPT ![p] = "done"] /\ pc'[p] = "done" /\ "done" \in Labels
    BY <1>1, <1>8 DEF WriteEvidence, Goto, Labels
  <2>2. DiskInv'
    BY <1>1, <1>2, <1>8 DEF WriteEvidence, DiskInv
  <2>3. ProcInv(p)'
    BY <1>1, <1>2, <1>8, <2>1 DEF WriteEvidence, ProcInv, Binaries
  <2>4. QED
    BY <1>1, <1>2, <2>1, <2>2, <2>3, ProcStep
<1>9. QED
    BY <1>3, <1>4, <1>5, <1>6, <1>7, <1>8

\* A step in which a process reads something.
LEMMA ReadingType ==
    ASSUME TypeInv, NEW p \in Procs,
           \/ CollectInputs(p) \/ ListArtifacts(p) \/ HashArtifact(p) \/ HashedAll(p)
           \/ HashStaged(p) \/ ReadProvenance(p) \/ Stop(p)
    PROVE  TypeInv'
<1>1. DiskInv /\ ProcInv(p) /\ cmd[p] \in CmdType /\ pc \in [Procs -> Labels]
      /\ cmd \in [Procs -> CmdType] /\ pc[p] \in Labels /\ pc = [pc EXCEPT ![p] = pc[p]]
    BY ProcFacts
<1>2. UNCHANGED <<toolchain, head, target, artifacts, top, prov, runs, signed>>
    BY DEF CollectInputs, ListArtifacts, HashArtifact, HashedAll, HashStaged, ReadProvenance,
           Stop, diskVars
<1>3. DiskInv'
    BY <1>1, <1>2 DEF DiskInv
<1>4. CASE CollectInputs(p)
  <2> DEFINE c == [cmd[p] EXCEPT !.commit = head]
  <2>1. /\ c \in CmdType /\ c.commit = head /\ c.id = cmd[p].id /\ c.todo = cmd[p].todo
        /\ c.subject = cmd[p].subject /\ c.out = cmd[p].out
    BY <1>1 DEF CmdType, DiskInv, Content
  <2>2. cmd' = [cmd EXCEPT ![p] = c] /\ pc' = [pc EXCEPT ![p] = "build"] /\ pc[p] = "inputs"
    BY <1>4 DEF CollectInputs, Goto
  <2> HIDE DEF c
  <2>3. cmd'[p] = c /\ pc'[p] = "build" /\ "build" \in Labels
    BY <1>1, <2>2 DEF Labels
  <2>4. ProcInv(p)'
    BY <1>1, <1>2, <2>1, <2>2, <2>3 DEF ProcInv, DiskInv, Binaries
  <2>5. QED
    BY <1>2, <1>3, <2>1, <2>2, <2>3, <2>4, ProcStep
<1>5. CASE ListArtifacts(p)
  <2> DEFINE c == [cmd[p] EXCEPT !.todo = DOMAIN Binaries(p)]
             l == IF toolchain = "cargo" THEN "hash" ELSE "stage"
  <2>1. DOMAIN Binaries(p) \subseteq Names
    BY <1>1, FilesFacts DEF Binaries, DiskInv, CmdType
  <2>2. /\ c \in CmdType /\ c.commit = cmd[p].commit /\ c.id = cmd[p].id
        /\ c.todo = DOMAIN Binaries(p)
        /\ c.subject = cmd[p].subject /\ c.out = cmd[p].out
    BY <1>1, <2>1 DEF CmdType
  <2>3. cmd' = [cmd EXCEPT ![p] = c] /\ pc' = [pc EXCEPT ![p] = l] /\ pc[p] = "collect"
    BY <1>5 DEF ListArtifacts, Goto
  <2> HIDE DEF c
  <2>4. cmd'[p] = c /\ pc'[p] = l /\ l \in Labels
    BY <1>1, <2>3 DEF Labels
  <2>5. c.subject = Empty /\ DOMAIN c.subject = {}
    BY <1>1, <2>2, <2>3, EmptyFiles DEF ProcInv
  <2>6. ProcInv(p)'
    BY <1>1, <1>2, <2>2, <2>3, <2>4, <2>5 DEF ProcInv, Binaries
  <2>7. QED
    BY <1>2, <1>3, <2>2, <2>3, <2>4, <2>6, ProcStep
<1>6. CASE HashArtifact(p)
  <2>1. PICK n \in cmd[p].todo :
          cmd' = [cmd EXCEPT ![p].subject = With(@, n, target[n]), ![p].todo = @ \ {n}]
    BY <1>6 DEF HashArtifact
  <2> DEFINE c == [cmd[p] EXCEPT !.subject = With(@, n, target[n]), !.todo = @ \ {n}]
  <2>2. pc[p] = "hash" /\ pc' = pc /\ toolchain = "cargo"
    BY <1>1, <1>6 DEF HashArtifact, ProcInv
  <2>3. n \in DOMAIN target /\ n \in Names /\ target[n] \in Content
    BY <1>1, <2>2, FilesFacts DEF ProcInv, Binaries, DiskInv
  <2>4. cmd[p].subject \in Files
    BY <1>1 DEF CmdType
  <2>5. /\ With(cmd[p].subject, n, target[n]) \in Files
        /\ DOMAIN With(cmd[p].subject, n, target[n]) = DOMAIN cmd[p].subject \union {n}
    BY <2>3, <2>4, WithFiles
  <2>6. /\ c \in CmdType /\ c.commit = cmd[p].commit /\ c.id = cmd[p].id
        /\ c.todo = cmd[p].todo \ {n} /\ c.out = cmd[p].out
        /\ c.subject = With(cmd[p].subject, n, target[n])
    BY <1>1, <2>5 DEF CmdType
  <2>7. cmd' = [cmd EXCEPT ![p] = c]
    BY <2>1
  <2> HIDE DEF c
  <2>8. cmd'[p] = c
    BY <1>1, <2>7
  <2>9. ProcInv(p)'
    BY <1>1, <1>2, <2>2, <2>3, <2>5, <2>6, <2>8 DEF ProcInv, Binaries
  <2>10. QED
    BY <1>1, <1>2, <1>3, <2>2, <2>6, <2>7, <2>9, ProcStep
<1>7. CASE HashedAll(p)
  <2> DEFINE c == [cmd[p] EXCEPT !.todo = DOMAIN cmd[p].subject]
  <2>1. DOMAIN cmd[p].subject \subseteq Names
    BY <1>1, FilesFacts DEF CmdType
  <2>2. /\ c \in CmdType /\ c.commit = cmd[p].commit /\ c.id = cmd[p].id
        /\ c.todo = DOMAIN cmd[p].subject /\ c.out = cmd[p].out
    BY <1>1, <2>1 DEF CmdType
  <2>3. cmd' = [cmd EXCEPT ![p] = c] /\ pc' = [pc EXCEPT ![p] = "copy"] /\ pc[p] = "hash"
    BY <1>7 DEF HashedAll, Goto
  <2> HIDE DEF c
  <2>4. cmd'[p] = c /\ pc'[p] = "copy" /\ "copy" \in Labels
    BY <1>1, <2>3 DEF Labels
  <2>5. ProcInv(p)'
    BY <1>1, <1>2, <2>2, <2>3, <2>4 DEF ProcInv, Binaries
  <2>6. QED
    BY <1>2, <1>3, <2>2, <2>3, <2>4, <2>5, ProcStep
<1>8. CASE HashStaged(p)
  <2>1. PICK n \in cmd[p].staged \intersect DOMAIN artifacts :
          cmd' = [cmd EXCEPT ![p].subject = With(@, n, artifacts[n]), ![p].staged = {}]
    BY <1>8 DEF HashStaged
  <2> DEFINE c == [cmd[p] EXCEPT !.subject = With(@, n, artifacts[n]), !.staged = {}]
  <2>2. pc[p] = "hash_staged" /\ pc' = [pc EXCEPT ![p] = "stage"]
    BY <1>8 DEF HashStaged, Goto
  <2>3. n \in Names /\ artifacts[n] \in Content /\ cmd[p].subject \in Files
    BY <1>1, FilesFacts DEF DiskInv, CmdType
  <2>4. With(cmd[p].subject, n, artifacts[n]) \in Files
    BY <2>3, WithFiles
  <2>5. /\ c \in CmdType /\ c.commit = cmd[p].commit /\ c.id = cmd[p].id
        /\ c.todo = cmd[p].todo /\ c.out = cmd[p].out
    BY <1>1, <2>4 DEF CmdType
  <2>6. cmd' = [cmd EXCEPT ![p] = c]
    BY <2>1
  <2> HIDE DEF c
  <2>7. cmd'[p] = c /\ pc'[p] = "stage" /\ "stage" \in Labels
    BY <1>1, <2>2, <2>6 DEF Labels
  <2>8. ProcInv(p)'
    BY <1>1, <1>2, <2>2, <2>5, <2>7 DEF ProcInv, Binaries
  <2>9. QED
    BY <1>2, <1>3, <2>2, <2>5, <2>6, <2>7, <2>8, ProcStep
<1>9. CASE ReadProvenance(p)
  <2> DEFINE c == [cmd[p] EXCEPT !.read = prov]
  <2>1. prov \in ProvFile
    BY <1>1, <1>9 DEF ReadProvenance, DiskInv, Missing, Torn
  <2>2. /\ c \in CmdType /\ c.commit = cmd[p].commit /\ c.id = cmd[p].id
        /\ c.todo = cmd[p].todo /\ c.out = cmd[p].out /\ c.read = prov
    BY <1>1, <2>1 DEF CmdType
  <2>3. cmd' = [cmd EXCEPT ![p] = c] /\ pc' = [pc EXCEPT ![p] = "sign"] /\ pc[p] = "read"
    BY <1>9 DEF ReadProvenance, Goto
  <2> HIDE DEF c
  <2>4. cmd'[p] = c /\ pc'[p] = "sign" /\ "sign" \in Labels
    BY <1>1, <2>3 DEF Labels
  <2>5. ProcInv(p)'
    BY <1>1, <1>2, <2>1, <2>2, <2>3, <2>4 DEF ProcInv, Binaries
  <2>6. QED
    BY <1>2, <1>3, <2>2, <2>3, <2>4, <2>5, ProcStep
<1>10. CASE Stop(p)
  <2>1. cmd' = [cmd EXCEPT ![p] = Idle] /\ pc' = [pc EXCEPT ![p] = "idle"]
    BY <1>10 DEF Stop, Goto
  <2>2. cmd'[p] = Idle /\ pc'[p] = "idle" /\ "idle" \in Labels /\ Idle \in CmdType
    BY <1>1, <2>1, IdleType DEF Labels
  <2>3. ProcInv(p)'
    BY <2>2 DEF ProcInv, Idle
  <2>4. QED
    BY <1>2, <1>3, <2>1, <2>2, <2>3, ProcStep
<1>11. QED
    BY <1>4, <1>5, <1>6, <1>7, <1>8, <1>9, <1>10

\* A step that makes files.
LEMMA MakingType ==
    ASSUME TypeInv, NEW p \in Procs, RunBuild(p) \/ CopyArtifact(p) \/ StageArtifact(p)
    PROVE  TypeInv'
<1>1. DiskInv /\ ProcInv(p) /\ cmd[p] \in CmdType /\ pc \in [Procs -> Labels]
      /\ cmd \in [Procs -> CmdType] /\ pc[p] \in Labels /\ pc = [pc EXCEPT ![p] = pc[p]]
      /\ cmd = [cmd EXCEPT ![p] = cmd[p]]
    BY ProcFacts
<1>2. UNCHANGED <<toolchain, head, top, prov, runs, signed>>
    BY DEF RunBuild, CopyArtifact, StageArtifact, diskVars
<1>3. CASE RunBuild(p)
  <2> DEFINE built == [n \in Produces[head] |-> head]
  <2>1. built \in Files
    <3>1. head \in Commits /\ Produces[head] \in SUBSET Names
      BY <1>1, BuildDirAssumption DEF DiskInv
    <3>2. built \in [Produces[head] -> Content]
      BY <3>1 DEF Content
    <3>3. QED
      BY <3>1, <3>2, FilesIntro
  <2>2. /\ pc[p] = "build" /\ pc' = [pc EXCEPT ![p] = "collect"] /\ artifacts' = artifacts
        /\ IF toolchain = "cargo"
             THEN target' = Over(built, target) /\ cmd' = cmd
             ELSE cmd' = [cmd EXCEPT ![p].out = built] /\ target' = target
    BY <1>3 DEF RunBuild, Goto, diskVars
  <2> HIDE DEF built
  <2>3. target' \in Files /\ DOMAIN target \subseteq DOMAIN target'
    <3>1. target \in Files
      BY <1>1 DEF DiskInv
    <3>2. /\ Over(built, target) \in Files
          /\ DOMAIN Over(built, target) = DOMAIN built \union DOMAIN target
      BY <2>1, <3>1, OverFiles
    <3>3. target' \in {target, Over(built, target)}
      BY <2>2
    <3>4. QED
      BY <3>1, <3>2, <3>3
  <2>4. DiskInv'
    BY <1>1, <1>2, <2>2, <2>3 DEF DiskInv
  <2> DEFINE c == IF toolchain = "cargo" THEN cmd[p] ELSE [cmd[p] EXCEPT !.out = built]
  <2>5. /\ c \in CmdType /\ c.commit = cmd[p].commit /\ c.id = cmd[p].id
        /\ c.todo = cmd[p].todo /\ c.subject = cmd[p].subject
    BY <1>1, <2>1 DEF CmdType
  <2>6. cmd' = [cmd EXCEPT ![p] = c]
    BY <1>1, <2>2
  <2> HIDE DEF c
  <2>7. cmd'[p] = c /\ pc'[p] = "collect" /\ "collect" \in Labels
    BY <1>1, <2>2, <2>6 DEF Labels
  <2>8. ProcInv(p)'
    BY <1>1, <1>2, <2>2, <2>5, <2>7 DEF ProcInv
  <2>9. QED
    BY <1>2, <2>2, <2>3, <2>4, <2>5, <2>6, <2>7, <2>8, ProcStep
<1>4. CASE CopyArtifact(p)
  <2>1. PICK n \in cmd[p].todo : /\ artifacts' = With(artifacts, n, target[n])
                                 /\ cmd' = [cmd EXCEPT ![p].todo = @ \ {n}]
    BY <1>4 DEF CopyArtifact
  <2> DEFINE c == [cmd[p] EXCEPT !.todo = @ \ {n}]
  <2>2. pc[p] = "copy" /\ pc' = pc /\ target' = target /\ toolchain = "cargo"
    BY <1>1, <1>4 DEF CopyArtifact, ProcInv
  <2>3. n \in Names /\ target[n] \in Content
    BY <1>1, <2>2, FilesFacts DEF ProcInv, Binaries, DiskInv
  <2>4. artifacts' \in Files
    BY <1>1, <2>1, <2>3, WithFiles DEF DiskInv
  <2>5. /\ c \in CmdType /\ c.commit = cmd[p].commit /\ c.id = cmd[p].id
        /\ c.todo = cmd[p].todo \ {n} /\ c.subject = cmd[p].subject /\ c.out = cmd[p].out
    BY <1>1 DEF CmdType
  <2>6. cmd' = [cmd EXCEPT ![p] = c]
    BY <2>1
  <2> HIDE DEF c
  <2>7. cmd'[p] = c
    BY <1>1, <2>6
  <2>8. DiskInv'
    BY <1>1, <1>2, <2>2, <2>4 DEF DiskInv
  <2>9. ProcInv(p)'
    BY <1>1, <1>2, <2>2, <2>5, <2>7 DEF ProcInv, Binaries
  <2>10. QED
    BY <1>1, <1>2, <2>2, <2>5, <2>6, <2>8, <2>9, ProcStep
<1>5. CASE StageArtifact(p)
  <2>1. PICK n \in cmd[p].todo : /\ artifacts' = With(artifacts, n, cmd[p].out[n])
                                 /\ cmd' = [cmd EXCEPT ![p].todo = @ \ {n}, ![p].staged = {n}]
    BY <1>5 DEF StageArtifact
  <2> DEFINE c == [cmd[p] EXCEPT !.todo = @ \ {n}, !.staged = {n}]
  <2>2. /\ pc[p] = "stage" /\ pc' = [pc EXCEPT ![p] = "hash_staged"] /\ target' = target
        /\ toolchain # "cargo"
    BY <1>1, <1>5 DEF StageArtifact, Goto, ProcInv
  <2>3. n \in Names /\ cmd[p].out[n] \in Content
    BY <1>1, <2>2, FilesFacts DEF ProcInv, Binaries, CmdType
  <2>4. artifacts' \in Files
    BY <1>1, <2>1, <2>3, WithFiles DEF DiskInv
  <2>5. /\ c \in CmdType /\ c.commit = cmd[p].commit /\ c.id = cmd[p].id
        /\ c.todo = cmd[p].todo \ {n} /\ c.subject = cmd[p].subject /\ c.out = cmd[p].out
    BY <1>1, <2>3 DEF CmdType
  <2>6. cmd' = [cmd EXCEPT ![p] = c]
    BY <2>1
  <2> HIDE DEF c
  <2>7. cmd'[p] = c /\ pc'[p] = "hash_staged" /\ "hash_staged" \in Labels
    BY <1>1, <2>2, <2>6 DEF Labels
  <2>8. DiskInv'
    BY <1>1, <1>2, <2>2, <2>4 DEF DiskInv
  <2>9. ProcInv(p)'
    BY <1>1, <1>2, <2>2, <2>5, <2>7 DEF ProcInv, Binaries
  <2>10. QED
    BY <1>2, <2>2, <2>5, <2>6, <2>7, <2>8, <2>9, ProcStep
<1>6. QED
    BY <1>3, <1>4, <1>5

\* The user and `kettle verify` leave the commands alone.
LEMMA OthersType ==
    ASSUME TypeInv, User \/ Verify \/ UNCHANGED vars
    PROVE  TypeInv'
<1>1. DiskInv /\ pc \in [Procs -> Labels] /\ cmd \in [Procs -> CmdType]
    BY DEF TypeInv
<1>2. UNCHANGED <<toolchain, target, runs, pc, cmd, signed>>
    BY DEF User, Checkout, CopyUp, Modify, Reformat, Verify, vars
<1>3. DiskInv'
  <2>1. CASE Checkout \/ Verify \/ UNCHANGED vars
    <3>1. head' \in Commits /\ UNCHANGED <<artifacts, top, prov>>
      BY <1>1, <2>1 DEF Checkout, Verify, vars, diskVars, DiskInv
    <3>2. QED
      BY <1>1, <1>2, <3>1 DEF DiskInv
  <2>2. CASE CopyUp
    <3>1. PICK n \in DOMAIN artifacts : top' = With(top, n, artifacts[n])
      BY <2>2 DEF CopyUp
    <3>2. top' \in Files
      BY <1>1, <3>1, FilesFacts, WithFiles DEF DiskInv
    <3>3. QED
      BY <1>1, <1>2, <2>2, <3>2 DEF DiskInv, CopyUp
  <2>3. CASE Modify
    <3>1. PICK n \in DOMAIN artifacts : artifacts' = [artifacts EXCEPT ![n] = "other"]
      BY <2>3 DEF Modify
    <3>2. artifacts' \in [DOMAIN artifacts -> Content] /\ DOMAIN artifacts \in SUBSET Names
      BY <1>1, <3>1, FilesFacts DEF DiskInv, Content
    <3>3. artifacts' \in Files
      BY <3>2, FilesIntro
    <3>4. QED
      BY <1>1, <1>2, <2>3, <3>3 DEF DiskInv, Modify
  <2>4. CASE Reformat
    <3>1. prov \in ProvFile
      BY <1>1, <2>4 DEF Reformat, DiskInv, Missing, Torn
    <3>2. prov' \in ProvFile
      BY <2>4, <3>1 DEF Reformat, ProvFile
    <3>3. QED
      BY <1>1, <1>2, <2>4, <3>2 DEF DiskInv, Reformat
  <2>5. QED
    BY <2>1, <2>2, <2>3, <2>4 DEF User
<1>4. ASSUME NEW p \in Procs PROVE ProcInv(p)'
  <2>1. ProcInv(p)
    BY DEF TypeInv
  <2>2. QED
    BY <1>2, <2>1 DEF ProcInv, Binaries
<1>5. QED
    BY <1>1, <1>2, <1>3, <1>4 DEF TypeInv

LEMMA NextTypeInv == TypeInv /\ [Next]_vars => TypeInv'
<1> SUFFICES ASSUME TypeInv, [Next]_vars PROVE TypeInv'
    OBVIOUS
<1>1. ASSUME NEW p \in Procs, Command(p) PROVE TypeInv'
    BY <1>1, StartType, QuietType, ReadingType, MakingType DEF Command
<1>2. QED
    BY <1>1, OthersType DEF Next

\* Every variable has its type, for any number of commands at work in one
\* directory; in particular a provenance.json that can be parsed names a commit
\* (src/toolchain/runner.rs, run).
THEOREM DirTypeCorrect == Spec => []TypeOK
<1>1. TypeInv => TypeOK
  <2> SUFFICES ASSUME TypeInv PROVE TypeOK
    OBVIOUS
  <2>1. IsFile(prov) => prov.doc \in Doc
    BY DEF TypeInv, DiskInv, IsFile, Missing, Torn, ProvFile
  <2>2. ASSUME NEW p \in Procs
        PROVE  cmd[p].subject \in Files /\ cmd[p].todo \subseteq DOMAIN Binaries(p)
    BY ProcFacts DEF CmdType, ProcInv
  <2>3. QED
    BY <2>1, <2>2 DEF TypeInv, DiskInv, TypeOK
<1>2. QED
    BY <1>1, InitTypeInv, NextTypeInv, PTL DEF Spec

-----------------------------------------------------------------------------
(* What is signed, and what verify can tell of it *)

\* A nonce the attestation took, or none, fills the slot.
LEMMA SlotBytes ==
    ASSUME NEW n \in Attestable
    PROVE  NonceSlot(n) \in NonceBytes
<1>1. CASE n = <<>>
    BY <1>1, ReportDataAssumption DEF NonceSlot, Zeros, NonceBytes
<1>2. CASE n # <<>>
  <2>1. PICK m \in Nonces : n = <<m>>
    BY <1>2 DEF Attestable, NonceArgs
  <2>2. decode_nonce_ok(m)
    BY <2>1 DEF Attestable
  <2>3. Len(m.bytes) = NonceLen
    BY <2>2 DEF decode_nonce_ok
  <2>4. PICK k \in 0..(NonceLen + 1) : m.bytes \in [1..k -> Byte]
    BY BuildDirAssumption
  <2>5. k \in Nat
    BY <2>4, ReportDataAssumption
  <2>6. k = NonceLen
    BY <2>3, <2>4, <2>5
  <2>7. QED
    BY <1>2, <2>1, <2>4, <2>6 DEF NonceSlot, NonceBytes
<1>3. QED
    BY <1>1, <1>2

\* verify accepts a provenance exactly when it is the one that was signed.
LEMMA SignedChecksum ==
    ASSUME NEW d \in Doc, NEW n \in Attestable, NEW e \in Doc
    PROVE  compare_checksum(SignedData(d, n), Digest(e)) <=> d = e
<1>1. Digest(d) \in Checksum /\ Digest(e) \in Checksum /\ NonceSlot(n) \in NonceBytes
    BY SlotBytes, BuildDirAssumption
<1>2. compare_checksum(strip_trailing_nulls(Digest(d) \o NonceSlot(n)), Digest(e))
        <=> Digest(d) = Digest(e)
    BY <1>1, ChecksumExact
<1>3. Digest(d) = Digest(e) <=> d = e
    BY BuildDirAssumption
<1>4. QED
    BY <1>2, <1>3 DEF SignedData, report_data

\* verify accepts a nonce exactly when it is the one that was signed.
LEMMA SignedNonce ==
    ASSUME NEW d \in Doc, NEW n \in Attestable, NEW m \in Nonces
    PROVE  verify_nonce(SignedData(d, n), m) <=>
              /\ m.form = "plain" /\ m.bytes = NonceSlot(n)
              /\ m.bytes # Zeros(NonceLen) \/ Digest(d)[SumLen] # 0
<1>1. Digest(d) \in Checksum /\ NonceSlot(n) \in NonceBytes
    BY SlotBytes, BuildDirAssumption
<1>2. CASE m.form = "plain" /\ Len(m.bytes) = NonceLen
  <2>1. PICK k \in 0..(NonceLen + 1) : m.bytes \in [1..k -> Byte]
    BY BuildDirAssumption
  <2>2. k \in Nat /\ Len(m.bytes) = k
    BY <2>1, ReportDataAssumption
  <2>3. m.bytes \in NonceBytes
    BY <1>2, <2>1, <2>2 DEF NonceBytes
  <2>4. m = [bytes |-> m.bytes, form |-> "plain"]
    BY <1>2, BuildDirAssumption
  <2>5. verify_nonce(strip_trailing_nulls(Digest(d) \o NonceSlot(n)),
                     [bytes |-> m.bytes, form |-> "plain"])
          <=> NonceSlot(n) = m.bytes /\ (NonceSlot(n) # Zeros(NonceLen) \/ Digest(d)[SumLen] # 0)
    BY <1>1, <2>3, NonceExact
  <2>6. QED
    BY <1>2, <2>4, <2>5 DEF SignedData, report_data
<1>3. CASE m.form # "plain"
    BY <1>3 DEF verify_nonce
<1>4. CASE Len(m.bytes) # NonceLen
  <2>1. ~verify_nonce(SignedData(d, n), m)
    BY <1>4 DEF verify_nonce
  <2>2. Len(NonceSlot(n)) = NonceLen
    BY <1>1, ReportDataAssumption DEF NonceBytes
  <2>3. QED
    BY <1>4, <2>1, <2>2
<1>5. QED
    BY <1>2, <1>3, <1>4

-----------------------------------------------------------------------------
(* Verification while the directory changes *)

\* A command changes what it knows itself, and nothing that was signed is lost.
LEMMA CommandFrame ==
    ASSUME TypeInv, NEW p \in Procs, Command(p)
    PROVE  /\ ver' = ver /\ signed \subseteq signed'
           /\ \A q \in Procs : q # p => pc'[q] = pc[q] /\ cmd'[q] = cmd[q]
<1>1. pc \in [Procs -> Labels] /\ cmd \in [Procs -> CmdType]
    BY DEF TypeInv
<1>2. ver' = ver /\ signed \subseteq signed'
    BY DEF Command, Start, RemoveFile, CreateDir, CollectInputs, RunBuild, ListArtifacts,
           HashArtifact, HashedAll, CopyArtifact, StageArtifact, HashStaged,
           CreateProvenance, WriteProvenance, ReadProvenance, Sign, CreateEvidence,
           WriteEvidence, Stop
<1>3. ASSUME NEW q \in Procs, q # p PROVE pc'[q] = pc[q]
    BY <1>1, <1>3
       DEF Command, Start, RemoveFile, CreateDir, CollectInputs, RunBuild, ListArtifacts,
           HashArtifact, HashedAll, CopyArtifact, StageArtifact, HashStaged,
           CreateProvenance, WriteProvenance, ReadProvenance, Sign, CreateEvidence,
           WriteEvidence, Stop, Goto
<1>4. ASSUME NEW q \in Procs, q # p PROVE cmd'[q] = cmd[q]
    BY <1>1, <1>4
       DEF Command, Start, RemoveFile, CreateDir, CollectInputs, RunBuild, ListArtifacts,
           HashArtifact, HashedAll, CopyArtifact, StageArtifact, HashStaged,
           CreateProvenance, WriteProvenance, ReadProvenance, Sign, CreateEvidence,
           WriteEvidence, Stop
<1>5. QED
    BY <1>2, <1>3, <1>4

\* Evidence stays evidence when more is signed.
LEMMA AttestsMonotone ==
    ASSUME NEW f, Attests(f), signed \subseteq signed'
    PROVE  \E s \in signed' : f = [kind |-> "file", data |-> SignedData(s.doc, s.nonces)]
BY DEF Attests

LEMMA CommandEvid ==
    ASSUME TypeInv, EvidInv, NEW p \in Procs, Command(p)
    PROVE  EvidInv'
<1>1. pc \in [Procs -> Labels] /\ cmd \in [Procs -> CmdType] /\ signed \subseteq signed'
    BY CommandFrame DEF TypeInv
<1>2. ASSUME NEW q \in Procs, q # p, pc'[q] \in {"signed", "evidence"}
      PROVE  [doc |-> cmd'[q].read.doc, nonces |-> cmd'[q].nonces] \in signed'
  <2>1. pc'[q] = pc[q] /\ cmd'[q] = cmd[q]
    BY <1>2, CommandFrame
  <2>2. QED
    BY <1>1, <1>2, <2>1 DEF EvidInv
<1>3. CASE Sign(p)
  <2>1. /\ cmd' = cmd /\ evid' = evid
        /\ [doc |-> cmd[p].read.doc, nonces |-> cmd[p].nonces] \in signed'
    BY <1>3 DEF Sign, diskVars
  <2>2. QED
    BY <1>1, <1>2, <2>1, AttestsMonotone DEF EvidInv, Attests
<1>4. CASE CreateEvidence(p)
  <2>1. cmd' = cmd /\ evid' = Torn /\ signed' = signed /\ pc[p] = "signed"
    BY <1>4 DEF CreateEvidence
  <2>2. QED
    BY <1>2, <2>1 DEF EvidInv
<1>5. CASE WriteEvidence(p)
  <2>1. /\ cmd' = cmd /\ signed' = signed /\ pc[p] = "evidence" /\ pc'[p] = "done"
        /\ evid' = [kind |-> "file", data |-> SignedData(cmd[p].read.doc, cmd[p].nonces)]
    BY <1>1, <1>5 DEF WriteEvidence, Goto
  <2> DEFINE s == [doc |-> cmd[p].read.doc, nonces |-> cmd[p].nonces]
  <2>2. s \in signed /\ evid' = [kind |-> "file", data |-> SignedData(s.doc, s.nonces)]
    BY <2>1 DEF EvidInv
  <2>3. Attests(evid)'
    BY <2>1, <2>2 DEF Attests
  <2>4. QED
    BY <1>2, <2>1, <2>3 DEF EvidInv
<1>6. CASE ~Sign(p) /\ ~CreateEvidence(p) /\ ~WriteEvidence(p)
  <2>1. pc'[p] \notin {"signed", "evidence"}
    BY <1>1, <1>6
       DEF Command, Start, RemoveFile, CreateDir, CollectInputs, RunBuild, ListArtifacts,
           HashArtifact, HashedAll, CopyArtifact, StageArtifact, HashStaged,
           CreateProvenance, WriteProvenance, ReadProvenance, Stop, Goto
  <2>2. evid' \in {Missing, evid}
    BY <1>6
       DEF Command, Start, RemoveFile, CreateDir, CollectInputs, RunBuild, ListArtifacts,
           HashArtifact, HashedAll, CopyArtifact, StageArtifact, HashStaged,
           CreateProvenance, WriteProvenance, ReadProvenance, Stop, diskVars
  <2>3. evid' \in {Missing, Torn} \/ Attests(evid)'
    BY <1>1, <2>2 DEF EvidInv, Attests
  <2>4. QED
    BY <1>2, <2>1, <2>3 DEF EvidInv
<1>7. QED
    BY <1>3, <1>4, <1>5, <1>6

LEMMA OthersEvid ==
    ASSUME EvidInv, User \/ Verify \/ UNCHANGED vars
    PROVE  EvidInv'
<1>1. UNCHANGED <<pc, cmd, signed, evid>>
    BY DEF User, Checkout, CopyUp, Modify, Reformat, Verify, vars, diskVars
<1>2. QED
    BY <1>1 DEF EvidInv, Attests

\* What verify has read stays what it is while commands and the user work.
LEMMA VerStays ==
    ASSUME VerInv, VerifiedIsAttested, ver' = ver, signed \subseteq signed'
    PROVE  VerInv' /\ VerifiedIsAttested'
<1>1. \A f : Attests(f) => Attests(f)'
    BY DEF Attests
<1>2. VerInv'
    BY <1>1 DEF VerInv
<1>3. VerifiedIsAttested'
    BY DEF VerifiedIsAttested
<1>4. QED
    BY <1>2, <1>3

\* A verification that ends in an error, or starts.
LEMMA VerRestarts ==
    ASSUME NEW l \in {"evidence", "done"}, NEW v \in {"none", "error"}, NEW n \in NonceArgs,
           l # "done" => v = "none",
           ver' = [pc |-> l, verdict |-> v, nonces |-> n, evid |-> Missing, prov |-> Missing,
                   todo |-> {}, seen |-> {}]
    PROVE  VerInv' /\ VerifiedIsAttested'
<1>1. /\ ver'.pc = l /\ ver'.verdict = v /\ ver'.nonces = n /\ ver'.todo = {} /\ ver'.seen = {}
      /\ ver' = [pc |-> ver'.pc, verdict |-> ver'.verdict, nonces |-> ver'.nonces,
                 evid |-> ver'.evid, prov |-> ver'.prov, todo |-> ver'.todo,
                 seen |-> ver'.seen]
    OBVIOUS
<1>2. VerInv'
  <2>1. /\ l \notin {"provenance", "list", "list_artifacts", "check"}
        /\ l \in {"idle", "evidence", "provenance", "list", "list_artifacts", "check", "done"}
    OBVIOUS
  <2>2. QED
    BY <1>1, <2>1, Zenon DEF VerInv
<1>3. VerifiedIsAttested'
    BY <1>1 DEF VerifiedIsAttested
<1>4. QED
    BY <1>2, <1>3

LEMMA VerErrs ==
    ASSUME VerifyError
    PROVE  VerInv' /\ VerifiedIsAttested'
<1>1. <<>> \in NonceArgs
    BY DEF NonceArgs
<1>2. ver' = [pc |-> "done", verdict |-> "error", nonces |-> <<>>, evid |-> Missing,
              prov |-> Missing, todo |-> {}, seen |-> {}]
    BY DEF VerifyError, NotStarted
<1>3. QED
    BY <1>1, <1>2, VerRestarts

\* The verdict: everything that was read together was signed together.
LEMMA VerConcludes ==
    ASSUME TypeInv, VerInv, VerifyConclude, signed' = signed
    PROVE  VerInv' /\ VerifiedIsAttested'
<1>1. ver.pc = "check" /\ ver.todo = {}
    BY DEF VerifyConclude
<1>2. /\ Attests(ver.evid) /\ ver.prov \in ProvFile /\ ver.nonces \in NonceArgs
      /\ ver.seen \subseteq (DOMAIN ver.prov.doc.subject) \X Content
    BY <1>1 DEF VerInv
<1> DEFINE ok == Passed(ver.evid.data, ver.prov.doc, ver.seen, ver.nonces)
<1>3. ver' = [pc |-> "done", verdict |-> IF ok THEN "PASSED" ELSE "FAILED",
              nonces |-> ver.nonces, evid |-> ver.evid, prov |-> ver.prov,
              todo |-> ver.todo, seen |-> ver.seen]
    BY DEF VerifyConclude, VerInv
<1>4. VerInv'
    BY <1>2, <1>3 DEF VerInv
<1>5. ASSUME ok PROVE VerifiedIsAttested'
  <2>1. PICK s \in signed : ver.evid = [kind |-> "file", data |-> SignedData(s.doc, s.nonces)]
    BY <1>2 DEF Attests
  <2>2. s.doc \in Doc /\ s.nonces \in Attestable /\ ver.prov.doc \in Doc
    BY <1>2 DEF TypeInv, DiskInv, ProvFile
  <2>3. s.doc = ver.prov.doc
    BY <1>5, <2>1, <2>2, SignedChecksum DEF Passed
  <2>4. ASSUME ver.nonces # <<>> PROVE NonceSlot(s.nonces) = ver.nonces[1].bytes
    <3>1. PICK m \in Nonces : ver.nonces = <<m>>
      BY <1>2, <2>4 DEF NonceArgs
    <3>2. verify_nonce(SignedData(s.doc, s.nonces), m)
      BY <1>5, <2>1, <2>4, <3>1 DEF Passed
    <3>3. QED
      BY <2>2, <3>1, <3>2, SignedNonce
  <2>5. ver.seen = {<<n, ver.prov.doc.subject[n]>> : n \in DOMAIN ver.prov.doc.subject}
    <3>1. /\ DOMAIN ver.prov.doc.subject = {f[1] : f \in ver.seen}
          /\ \A f \in ver.seen : f[2] = ver.prov.doc.subject[f[1]]
      BY <1>5 DEF Passed
    <3>2. \A f \in ver.seen : f = <<f[1], f[2]>> /\ f[1] \in DOMAIN ver.prov.doc.subject
      BY <1>2
    <3>3. QED
      BY <3>1, <3>2
  <2>6. ver'.prov = ver.prov /\ ver'.seen = ver.seen /\ ver'.nonces = ver.nonces
    BY <1>3
  <2>7. QED
    BY <2>3, <2>4, <2>5, <2>6 DEF VerifiedIsAttested
<1>6. ASSUME ~ok PROVE VerifiedIsAttested'
    BY <1>3, <1>6 DEF VerifiedIsAttested
<1>7. QED
    BY <1>4, <1>5, <1>6

LEMMA VerSteps ==
    ASSUME TypeInv, EvidInv, VerInv, VerifiedIsAttested, Verify
    PROVE  VerInv' /\ VerifiedIsAttested'
<1>1. UNCHANGED <<artifacts, top, prov, evid, signed>>
    BY DEF Verify, diskVars
<1>2. \A f : Attests(f)' <=> Attests(f)
    BY <1>1 DEF Attests
<1>3. artifacts \in Files /\ top \in Files /\ prov \in {Missing, Torn} \union ProvFile
    BY DEF TypeInv, DiskInv
<1>4. CASE VerifyStart
  <2>1. PICK n \in VerifyNonces : ver' = [NotStarted EXCEPT !.pc = "evidence", !.nonces = n]
    BY <1>4 DEF VerifyStart
  <2>2. n \in NonceArgs
    BY BuildDirAssumption DEF NonceArgs
  <2>3. ver' = [pc |-> "evidence", verdict |-> "none", nonces |-> n, evid |-> Missing,
                prov |-> Missing, todo |-> {}, seen |-> {}]
    BY <2>1 DEF NotStarted
  <2>4. QED
    BY <2>2, <2>3, VerRestarts
<1>5. CASE VerifyReadEvidence
  <2>1. CASE evid # Missing
    <3>1. ver.pc = "evidence" /\ ver' = [ver EXCEPT !.pc = "provenance", !.evid = evid]
      BY <1>5, <2>1 DEF VerifyReadEvidence
    <3>2. ver' = [pc |-> "provenance", verdict |-> ver.verdict, nonces |-> ver.nonces,
                  evid |-> evid, prov |-> ver.prov, todo |-> ver.todo, seen |-> ver.seen]
      BY <3>1 DEF VerInv
    <3>3. evid = Torn \/ Attests(evid)
      BY <2>1 DEF EvidInv
    <3>4. VerInv'
      BY <1>2, <3>1, <3>2, <3>3 DEF VerInv
    <3>5. VerifiedIsAttested'
      BY <3>1, <3>2 DEF VerifiedIsAttested, VerInv
    <3>6. QED
      BY <3>4, <3>5
  <2>2. QED
    BY <1>5, <2>1, VerErrs DEF VerifyReadEvidence
<1>6. CASE VerifyReadProvenance
  <2>1. CASE prov # Missing
    <3>1. ver.pc = "provenance" /\ ver' = [ver EXCEPT !.pc = "list", !.prov = prov]
      BY <1>6, <2>1 DEF VerifyReadProvenance
    <3>2. ver' = [pc |-> "list", verdict |-> ver.verdict, nonces |-> ver.nonces,
                  evid |-> ver.evid, prov |-> prov, todo |-> ver.todo, seen |-> ver.seen]
      BY <3>1 DEF VerInv
    <3>3. prov \in {Torn} \union ProvFile
      BY <1>3, <2>1
    <3>4. ver.evid = Torn \/ Attests(ver.evid)
      BY <3>1 DEF VerInv
    <3>5. ver.nonces \in NonceArgs /\ ver.seen = {} /\ ver.verdict = "none"
      BY <3>1 DEF VerInv
    <3>6. ver.todo = {}
      BY <3>1 DEF VerInv
    <3>7. VerInv'
      BY <1>2, <3>2, <3>3, <3>4, <3>5, <3>6 DEF VerInv
    <3>8. VerifiedIsAttested'
      BY <3>1, <3>2 DEF VerifiedIsAttested, VerInv
    <3>9. QED
      BY <3>7, <3>8
  <2>2. QED
    BY <1>6, <2>1, VerErrs DEF VerifyReadProvenance
<1>7. CASE VerifyListTop
  <2>1. ver.pc = "list"
        /\ ver' = [ver EXCEPT !.pc = "list_artifacts", !.todo = {"top"} \X DOMAIN top]
    BY <1>7 DEF VerifyListTop
  <2>2. ver' = [pc |-> "list_artifacts", verdict |-> ver.verdict, nonces |-> ver.nonces,
                evid |-> ver.evid, prov |-> ver.prov, todo |-> {"top"} \X DOMAIN top,
                seen |-> ver.seen]
    BY <2>1 DEF VerInv
  <2>3. {"top"} \X DOMAIN top \subseteq {"top"} \X Names
    BY <1>3, FilesFacts
  <2>4. VerInv'
    BY <1>2, <2>1, <2>2, <2>3 DEF VerInv
  <2>5. VerifiedIsAttested'
    BY <2>1, <2>2 DEF VerifiedIsAttested, VerInv
  <2>6. QED
    BY <2>4, <2>5
<1>8. CASE VerifyListArtifacts
  <2>1. CASE ver.evid # Torn /\ ver.prov # Torn
    <3> DEFINE subject == ver.prov.doc.subject
               entries == ver.todo \union ({"artifacts"} \X DOMAIN artifacts)
               todo == {e \in entries : e[2] \in DOMAIN subject}
    <3>1. ver.pc = "list_artifacts" /\ ver' = [ver EXCEPT !.pc = "check", !.todo = todo]
      BY <1>8, <2>1 DEF VerifyListArtifacts
    <3>2. ver' = [pc |-> "check", verdict |-> ver.verdict, nonces |-> ver.nonces,
                  evid |-> ver.evid, prov |-> ver.prov, todo |-> todo, seen |-> ver.seen]
      BY <3>1 DEF VerInv
    <3>3. Attests(ver.evid) /\ ver.prov \in ProvFile /\ ver.seen = {}
      BY <2>1, <3>1 DEF VerInv
    <3>4. \A e \in todo : e \in {"top", "artifacts"} \X DOMAIN subject
      BY <3>1 DEF VerInv
    <3> HIDE DEF todo
    <3>5. VerInv'
      BY <1>2, <3>1, <3>2, <3>3, <3>4 DEF VerInv
    <3>6. VerifiedIsAttested'
      BY <3>1, <3>2 DEF VerifiedIsAttested, VerInv
    <3>7. QED
      BY <3>5, <3>6
  <2>2. QED
    BY <1>8, <2>1, VerErrs DEF VerifyListArtifacts
<1>9. CASE VerifyArtifact
  <2>1. PICK entry \in ver.todo :
          LET n == entry[2]
              files == IF entry[1] = "top" THEN top ELSE artifacts
          IN  IF n \notin DOMAIN files
                THEN VerifyError
                ELSE ver' = [ver EXCEPT !.todo = @ \ {entry},
                                        !.seen = @ \union {<<n, files[n]>>}]
    BY <1>9 DEF VerifyArtifact
  <2> DEFINE n == entry[2]
             files == IF entry[1] = "top" THEN top ELSE artifacts
  <2>2. CASE n \in DOMAIN files
    <3>1. ver.pc = "check" /\ n \in DOMAIN ver.prov.doc.subject
      BY <1>9 DEF VerifyArtifact, VerInv
    <3>2. files \in Files
      BY <1>3
    <3>3. ver' = [ver EXCEPT !.todo = @ \ {entry}, !.seen = @ \union {<<n, files[n]>>}]
      BY <2>1, <2>2
    <3> HIDE DEF files
    <3>4. files[n] \in Content
      BY <2>2, <3>2, FilesFacts
    <3>5. ver' = [pc |-> "check", verdict |-> ver.verdict, nonces |-> ver.nonces,
                  evid |-> ver.evid, prov |-> ver.prov, todo |-> ver.todo \ {entry},
                  seen |-> ver.seen \union {<<n, files[n]>>}]
      BY <3>1, <3>3 DEF VerInv
    <3>6. VerInv'
      BY <1>2, <3>1, <3>4, <3>5 DEF VerInv
    <3>7. VerifiedIsAttested'
      BY <3>1, <3>5 DEF VerifiedIsAttested, VerInv
    <3>8. QED
      BY <3>6, <3>7
  <2>3. QED
    BY <2>1, <2>2, VerErrs
<1>10. CASE VerifyConclude
    BY <1>1, <1>10, VerConcludes
<1>11. QED
    BY <1>4, <1>5, <1>6, <1>7, <1>8, <1>9, <1>10 DEF Verify

LEMMA InitAttestInv == Init => AttestInv
<1> SUFFICES ASSUME Init PROVE AttestInv
    OBVIOUS
<1>1. EvidInv
    BY DEF Init, EvidInv
<1>2. VerInv /\ VerifiedIsAttested
    BY DEF Init, VerInv, VerifiedIsAttested, NotStarted, NonceArgs
<1>3. QED
    BY <1>1, <1>2, InitTypeInv DEF AttestInv

LEMMA NextAttestInv == AttestInv /\ [Next]_vars => AttestInv'
<1> SUFFICES ASSUME AttestInv, [Next]_vars PROVE AttestInv'
    OBVIOUS
<1>1. TypeInv /\ EvidInv /\ VerInv /\ VerifiedIsAttested
    BY DEF AttestInv
<1>2. TypeInv'
    BY <1>1, NextTypeInv
<1>3. ASSUME NEW p \in Procs, Command(p) PROVE EvidInv' /\ VerInv' /\ VerifiedIsAttested'
  <2>1. ver' = ver /\ signed \subseteq signed'
    BY <1>1, <1>3, CommandFrame
  <2>2. QED
    BY <1>1, <1>3, <2>1, CommandEvid, VerStays
<1>4. CASE User \/ UNCHANGED vars
  <2>1. ver' = ver /\ signed' = signed
    BY <1>4 DEF User, Checkout, CopyUp, Modify, Reformat, vars
  <2>2. QED
    BY <1>1, <1>2, <1>4, <2>1, OthersEvid, VerStays DEF AttestInv
<1>5. CASE Verify
    BY <1>1, <1>2, <1>5, OthersEvid, VerSteps DEF AttestInv
<1>6. QED
    BY <1>2, <1>3, <1>4, <1>5 DEF Next, AttestInv

\* What the hardware signed, and how far a command is with it, for any number of
\* commands (src/commands/attest.rs, attest_with_sink).
THEOREM AttestInvariant == Spec => []AttestInv
BY InitAttestInv, NextAttestInv, PTL DEF Spec

\* However many commands work in the directory while `kettle verify` reads it
\* file by file, and whatever was killed before: a verification that passes has
\* hashed the binaries of a provenance the hardware signed, with the nonce that
\* was asked for (src/commands/verify.rs, verify).
THEOREM PassedIsAttested == Spec => []VerifiedIsAttested
<1>1. AttestInv => VerifiedIsAttested
    BY DEF AttestInv
<1>2. QED
    BY <1>1, AttestInvariant, PTL

-----------------------------------------------------------------------------
(* What the directory holds when commands follow each other *)

\* Commands follow each other: one process at a time works on the project.
OneCommand == \E p : Procs = {p}

LEMMA NoProvenance ==
    ASSUME prov' \in {Missing, Torn}
    PROVE  EvidenceBindsProvenance' /\ StagedIsListed'
BY DEF EvidenceBindsProvenance, StagedIsListed, IsFile, Missing, Torn

LEMMA NoEvidence ==
    ASSUME evid' \in {Missing, Torn}
    PROVE  EvidenceBindsProvenance'
BY DEF EvidenceBindsProvenance, IsFile, Missing, Torn

\* What the invariant says at the start of a step.
LEMMA DirFacts ==
    ASSUME DirInv, NEW p \in Procs
    PROVE  /\ TypeInv /\ EvidInv /\ EvidenceBindsProvenance /\ StagedIsListed
           /\ PhaseInv(p) /\ DiskInv /\ ProcInv(p) /\ cmd[p] \in CmdType
           /\ pc \in [Procs -> Labels] /\ cmd \in [Procs -> CmdType]
           /\ artifacts \in Files /\ top \in Files /\ target \in Files
           /\ cmd[p].subject \in Files /\ cmd[p].out \in Files
<1>1. TypeInv /\ EvidInv
    BY DEF DirInv, AttestInv
<1>2. cmd[p] \in CmdType
    BY <1>1, ProcFacts
<1>3. QED
    BY <1>1, <1>2, ProcFacts DEF DirInv, DiskInv, CmdType

\* The old directory goes, file by file.
LEMMA CleanDir ==
    ASSUME DirInv, NEW p \in Procs, Start(p) \/ RemoveFile(p) \/ CreateDir(p) \/ Stop(p)
    PROVE  EvidenceBindsProvenance' /\ StagedIsListed' /\ PhaseInv(p)'
<1>0. /\ TypeInv /\ EvidInv /\ EvidenceBindsProvenance /\ StagedIsListed
      /\ PhaseInv(p) /\ DiskInv /\ ProcInv(p) /\ cmd[p] \in CmdType
      /\ pc \in [Procs -> Labels] /\ cmd \in [Procs -> CmdType]
      /\ artifacts \in Files /\ top \in Files /\ target \in Files
      /\ cmd[p].subject \in Files /\ cmd[p].out \in Files
    BY DirFacts
<1>1. CASE Start(p) \/ Stop(p)
  <2>1. pc'[p] \in {"clean", "idle"}
    BY <1>0, <1>1 DEF Start, Stop, Goto
  <2>2. UNCHANGED <<artifacts, top, prov, evid>>
    BY <1>1 DEF Start, Stop, diskVars
  <2>3. PhaseInv(p)'
    BY <2>1 DEF PhaseInv
  <2>4. QED
    BY <1>0, <2>2, <2>3 DEF EvidenceBindsProvenance, StagedIsListed
<1>2. CASE RemoveFile(p)
  <2>1. pc'[p] = "clean"
    BY <1>2 DEF RemoveFile
  <2>2. PhaseInv(p)'
    BY <2>1 DEF PhaseInv
  <2>3. prov' \in {Missing, prov} /\ evid' \in {Missing, evid}
    BY <1>2 DEF RemoveFile
  <2>4. CASE prov' = Missing
    BY <2>2, <2>4, NoProvenance
  <2>5. CASE prov' = prov
    <3>1. EvidenceBindsProvenance'
      BY <1>0, <2>3, <2>5, NoEvidence DEF EvidenceBindsProvenance
    <3>2. artifacts' = artifacts \/ \E n : artifacts' = Restrict(artifacts, DOMAIN artifacts \ {n})
      BY <1>2 DEF RemoveFile
    <3>3. \A n \in DOMAIN artifacts' : n \in DOMAIN artifacts /\ artifacts'[n] = artifacts[n]
      <4>1. ASSUME NEW n, artifacts' = Restrict(artifacts, DOMAIN artifacts \ {n})
            PROVE  \A m \in DOMAIN artifacts' : m \in DOMAIN artifacts /\ artifacts'[m] = artifacts[m]
        <5>1. artifacts \in Files
          BY <1>0
        <5>2. QED
          BY <4>1, <5>1, RestrictFiles
      <4>2. QED
        BY <3>2, <4>1
    <3>4. StagedIsListed'
      BY <1>0, <2>5, <3>3 DEF StagedIsListed
    <3>5. QED
      BY <2>2, <3>1, <3>4
  <2>6. QED
    BY <2>3, <2>4, <2>5
<1>3. CASE CreateDir(p)
  <2>1. pc'[p] = "inputs"
    BY <1>0, <1>3 DEF CreateDir, Goto
  <2>2. EmptyDir'
    BY <1>3 DEF CreateDir, EmptyDir, diskVars
  <2>3. PhaseInv(p)'
    BY <2>1, <2>2 DEF PhaseInv
  <2>4. QED
    BY <2>2, <2>3, NoProvenance DEF EmptyDir
<1>4. QED
    BY <1>1, <1>2, <1>3

\* The build, in a directory that is empty.
LEMMA BuildingDir ==
    ASSUME DirInv, NEW p \in Procs,
           \/ CollectInputs(p) \/ RunBuild(p) \/ ListArtifacts(p)
           \/ HashArtifact(p) \/ HashedAll(p)
    PROVE  EvidenceBindsProvenance' /\ StagedIsListed' /\ PhaseInv(p)'
<1>0. /\ TypeInv /\ EvidInv /\ EvidenceBindsProvenance /\ StagedIsListed
      /\ PhaseInv(p) /\ DiskInv /\ ProcInv(p) /\ cmd[p] \in CmdType
      /\ pc \in [Procs -> Labels] /\ cmd \in [Procs -> CmdType]
      /\ artifacts \in Files /\ top \in Files /\ target \in Files
      /\ cmd[p].subject \in Files /\ cmd[p].out \in Files
    BY DirFacts
<1>1. EmptyDir
  <2>1. pc[p] \in {"inputs", "build", "collect", "hash"}
    BY DEF CollectInputs, RunBuild, ListArtifacts, HashArtifact, HashedAll
  <2>2. QED
    BY <1>0, <2>1 DEF PhaseInv
<1>2. EmptyDir'
    BY <1>1 DEF CollectInputs, RunBuild, ListArtifacts, HashArtifact, HashedAll, EmptyDir,
                diskVars
<1>3. EvidenceBindsProvenance' /\ StagedIsListed'
    BY <1>2, NoProvenance DEF EmptyDir
<1>4. CASE CollectInputs(p) \/ RunBuild(p)
  <2>1. pc'[p] \in {"build", "collect"}
    BY <1>0, <1>4 DEF CollectInputs, RunBuild, Goto
  <2>2. PhaseInv(p)'
    BY <1>2, <2>1 DEF PhaseInv
  <2>3. QED
    BY <1>3, <2>2
<1>5. CASE ListArtifacts(p)
  <2>1. pc'[p] \in {"hash", "stage"} /\ pc[p] = "collect"
    BY <1>0, <1>5 DEF ListArtifacts, Goto
  <2>2. cmd'[p].subject = cmd[p].subject
    BY <1>5 DEF ListArtifacts
  <2>3. cmd'[p].subject = Empty
    BY <1>0, <2>1, <2>2 DEF ProcInv
  <2>4. PhaseInv(p)'
    BY <1>2, <2>1, <2>3, EmptyFiles DEF PhaseInv, EmptyDir
  <2>5. QED
    BY <1>3, <2>4
<1>6. CASE HashArtifact(p)
  <2>1. PICK n \in cmd[p].todo :
          cmd' = [cmd EXCEPT ![p].subject = With(@, n, target[n]), ![p].todo = @ \ {n}]
    BY <1>6 DEF HashArtifact
  <2>2. pc[p] = "hash" /\ pc'[p] = "hash" /\ target' = target
    BY <1>6 DEF HashArtifact
  <2>3. n \in DOMAIN target /\ n \in Names /\ target[n] \in Content
    BY <1>0, <2>2, FilesFacts DEF ProcInv, Binaries
  <2>4. cmd'[p].subject = With(cmd[p].subject, n, target[n])
    BY <1>0, <2>1 DEF CmdType
  <2>5. \A m \in DOMAIN cmd[p].subject : m \in DOMAIN target /\ cmd[p].subject[m] = target[m]
    BY <1>0, <2>2 DEF PhaseInv
  <2>6. \A m \in DOMAIN cmd'[p].subject : m \in DOMAIN target /\ cmd'[p].subject[m] = target[m]
    <3>1. cmd[p].subject \in Files
      BY <1>0
    <3>2. /\ DOMAIN cmd'[p].subject = DOMAIN cmd[p].subject \union {n}
          /\ cmd'[p].subject[n] = target[n]
          /\ \A m \in DOMAIN cmd[p].subject : m # n => cmd'[p].subject[m] = cmd[p].subject[m]
      BY <2>3, <2>4, <3>1, WithFiles
    <3>3. QED
      BY <2>3, <2>5, <3>2
  <2>7. PhaseInv(p)'
    BY <1>2, <2>2, <2>6 DEF PhaseInv
  <2>8. QED
    BY <1>3, <2>7
<1>7. CASE HashedAll(p)
  <2>1. pc[p] = "hash" /\ pc'[p] = "copy" /\ target' = target
    BY <1>0, <1>7 DEF HashedAll, Goto
  <2>2. cmd'[p].subject = cmd[p].subject /\ cmd'[p].todo = DOMAIN cmd[p].subject
    BY <1>0, <1>7 DEF HashedAll, CmdType
  <2>3. \A m \in DOMAIN cmd'[p].subject : m \in DOMAIN target /\ cmd'[p].subject[m] = target[m]
    BY <1>0, <2>1, <2>2 DEF PhaseInv
  <2>4. DOMAIN artifacts' = {}
    BY <1>2, EmptyFiles DEF EmptyDir
  <2>5. PhaseInv(p)'
    BY <1>2, <2>1, <2>2, <2>3, <2>4 DEF PhaseInv, EmptyDir
  <2>6. QED
    BY <1>3, <2>5
<1>8. QED
    BY <1>4, <1>5, <1>6, <1>7

\* Copying the binaries: what is copied is what was, or is then, hashed.
LEMMA CopyingDir ==
    ASSUME DirInv, NEW p \in Procs, CopyArtifact(p) \/ StageArtifact(p) \/ HashStaged(p)
    PROVE  EvidenceBindsProvenance' /\ StagedIsListed' /\ PhaseInv(p)'
<1>0. /\ TypeInv /\ EvidInv /\ EvidenceBindsProvenance /\ StagedIsListed
      /\ PhaseInv(p) /\ DiskInv /\ ProcInv(p) /\ cmd[p] \in CmdType
      /\ pc \in [Procs -> Labels] /\ cmd \in [Procs -> CmdType]
      /\ artifacts \in Files /\ top \in Files /\ target \in Files
      /\ cmd[p].subject \in Files /\ cmd[p].out \in Files
    BY DirFacts
<1>1. top = Empty /\ prov = Missing /\ evid = Missing
  <2>1. pc[p] \in {"copy", "stage", "hash_staged"}
    BY DEF CopyArtifact, StageArtifact, HashStaged
  <2>2. QED
    BY <1>0, <2>1 DEF PhaseInv
<1>2. top' = Empty /\ prov' = Missing /\ evid' = Missing
    BY <1>1 DEF CopyArtifact, StageArtifact, HashStaged, diskVars
<1>3. EvidenceBindsProvenance' /\ StagedIsListed'
    BY <1>2, NoProvenance
<1>4. CASE CopyArtifact(p)
  <2>1. PICK n \in cmd[p].todo :
          /\ artifacts' = With(artifacts, n, target[n])
          /\ cmd' = [cmd EXCEPT ![p].todo = @ \ {n}]
    BY <1>4 DEF CopyArtifact
  <2>2. pc[p] = "copy" /\ pc'[p] = "copy" /\ target' = target
    BY <1>4 DEF CopyArtifact
  <2>3. n \in DOMAIN target /\ n \in Names /\ target[n] \in Content
    BY <1>0, <2>2, FilesFacts DEF ProcInv, Binaries
  <2>4. cmd'[p].subject = cmd[p].subject /\ cmd'[p].todo = cmd[p].todo \ {n}
    BY <1>0, <2>1 DEF CmdType
  <2>5. /\ \A m \in DOMAIN cmd[p].subject : m \in DOMAIN target /\ cmd[p].subject[m] = target[m]
        /\ DOMAIN artifacts \union cmd[p].todo = DOMAIN cmd[p].subject
        /\ \A m \in DOMAIN artifacts : artifacts[m] = cmd[p].subject[m]
    BY <1>0, <2>2 DEF PhaseInv
  <2>6. /\ DOMAIN artifacts' = DOMAIN artifacts \union {n} /\ artifacts'[n] = target[n]
        /\ \A m \in DOMAIN artifacts : m # n => artifacts'[m] = artifacts[m]
    <3>1. artifacts \in Files
      BY <1>0
    <3>2. n \in Names /\ target[n] \in Content /\ artifacts' = With(artifacts, n, target[n])
      BY <2>1, <2>3
    <3>3. DOMAIN artifacts' = DOMAIN artifacts \union {n} /\ artifacts'[n] = target[n]
      BY <3>1, <3>2, WithHas
    <3>4. \A m \in DOMAIN artifacts : m # n => artifacts'[m] = artifacts[m]
      BY <3>1, <3>2, WithHas
    <3>5. QED
      BY <3>3, <3>4
  <2>7. /\ DOMAIN artifacts' \union cmd'[p].todo = DOMAIN cmd'[p].subject
        /\ \A m \in DOMAIN artifacts' : artifacts'[m] = cmd'[p].subject[m]
    BY <2>4, <2>5, <2>6
  <2>8. \A m \in DOMAIN cmd'[p].subject : m \in DOMAIN target' /\ cmd'[p].subject[m] = target'[m]
    BY <2>2, <2>4, <2>5
  <2>9. PhaseInv(p)'
    BY <1>2, <2>2, <2>7, <2>8 DEF PhaseInv
  <2>10. QED
    BY <1>3, <2>9
<1>5. CASE StageArtifact(p)
  <2>1. PICK n \in cmd[p].todo :
          /\ artifacts' = With(artifacts, n, cmd[p].out[n])
          /\ cmd' = [cmd EXCEPT ![p].todo = @ \ {n}, ![p].staged = {n}]
    BY <1>5 DEF StageArtifact
  <2>2. pc[p] = "stage" /\ pc'[p] = "hash_staged"
    BY <1>0, <1>5 DEF StageArtifact, Goto
  <2>3. n \in Names /\ cmd[p].out[n] \in Content
    BY <1>0, <2>2, FilesFacts DEF ProcInv, Binaries
  <2>4. cmd'[p].subject = cmd[p].subject /\ cmd'[p].staged = {n}
    BY <1>0, <2>1 DEF CmdType
  <2>5. artifacts = cmd[p].subject
    BY <1>0, <2>2 DEF PhaseInv
  <2>6. n \in DOMAIN artifacts' /\ artifacts'[n] = cmd[p].out[n]
    <3>1. artifacts \in Files
      BY <1>0
    <3>2. QED
      BY <2>1, <2>3, <3>1, WithHas
  <2>7. \E m \in DOMAIN artifacts' :
          cmd'[p].staged = {m} /\ artifacts' = With(cmd'[p].subject, m, artifacts'[m])
    BY <2>1, <2>4, <2>5, <2>6
  <2>8. PhaseInv(p)'
    BY <1>2, <2>2, <2>7 DEF PhaseInv
  <2>9. QED
    BY <1>3, <2>8
<1>6. CASE HashStaged(p)
  <2>1. PICK n \in cmd[p].staged \intersect DOMAIN artifacts :
          cmd' = [cmd EXCEPT ![p].subject = With(@, n, artifacts[n]), ![p].staged = {}]
    BY <1>6 DEF HashStaged
  <2>2. pc[p] = "hash_staged" /\ pc'[p] = "stage" /\ artifacts' = artifacts
    BY <1>0, <1>6 DEF HashStaged, Goto, diskVars
  <2>3. artifacts = With(cmd[p].subject, n, artifacts[n])
    BY <1>0, <2>1, <2>2 DEF PhaseInv
  <2>4. cmd'[p].subject = With(cmd[p].subject, n, artifacts[n])
    BY <1>0, <2>1 DEF CmdType
  <2>5. PhaseInv(p)'
    BY <1>2, <2>2, <2>3, <2>4 DEF PhaseInv
  <2>6. QED
    BY <1>3, <2>5
<1>7. QED
    BY <1>4, <1>5, <1>6

\* The two documents, once every binary is copied and hashed.
LEMMA WritingDir ==
    ASSUME DirInv, NEW p \in Procs,
           \/ CreateProvenance(p) \/ WriteProvenance(p) \/ ReadProvenance(p)
           \/ Sign(p) \/ CreateEvidence(p)
    PROVE  EvidenceBindsProvenance' /\ StagedIsListed' /\ PhaseInv(p)'
<1>0. /\ TypeInv /\ EvidInv /\ EvidenceBindsProvenance /\ StagedIsListed
      /\ PhaseInv(p) /\ DiskInv /\ ProcInv(p) /\ cmd[p] \in CmdType
      /\ pc \in [Procs -> Labels] /\ cmd \in [Procs -> CmdType]
      /\ artifacts \in Files /\ cmd[p].subject \in Files
    BY DirFacts
<1>1. CASE CreateProvenance(p)
  <2>1. /\ pc[p] \in {"copy", "stage"} /\ cmd[p].todo = {} /\ pc'[p] = "provenance"
        /\ prov' = Torn /\ artifacts' = artifacts /\ top' = top /\ evid' = evid /\ cmd' = cmd
    BY <1>0, <1>1 DEF CreateProvenance, Goto
  <2>2. top = Empty /\ evid = Missing
    BY <1>0, <2>1 DEF PhaseInv
  <2>3. artifacts = cmd[p].subject
    <3>1. CASE pc[p] = "stage"
      BY <1>0, <3>1 DEF PhaseInv
    <3>2. CASE pc[p] = "copy"
      <4>1. /\ DOMAIN artifacts = DOMAIN cmd[p].subject
            /\ \A n \in DOMAIN artifacts : artifacts[n] = cmd[p].subject[n]
        BY <1>0, <2>1, <3>2 DEF PhaseInv
      <4>2. /\ artifacts = [n \in DOMAIN artifacts |-> artifacts[n]]
            /\ cmd[p].subject = [n \in DOMAIN cmd[p].subject |-> cmd[p].subject[n]]
        BY <1>0, FilesFacts
      <4>3. QED
        BY <4>1, <4>2
    <3>3. QED
      BY <2>1, <3>1, <3>2
  <2>4. PhaseInv(p)'
    BY <2>1, <2>2, <2>3 DEF PhaseInv
  <2>5. QED
    BY <2>1, <2>4, NoProvenance
<1>2. CASE WriteProvenance(p)
  <2>1. /\ pc[p] = "provenance" /\ pc'[p] \in {"read", "done"}
        /\ pc'[p] = "done" => ~cmd[p].attest
        /\ prov' = [kind |-> "file", doc |-> Provenance(p), layout |-> "pretty"]
        /\ artifacts' = artifacts /\ top' = top /\ evid' = evid /\ cmd' = cmd
    BY <1>0, <1>2 DEF WriteProvenance, Goto
  <2>2. top = Empty /\ evid = Missing /\ artifacts = cmd[p].subject
    BY <1>0, <2>1 DEF PhaseInv
  <2>3. Provenance(p)' = Provenance(p) /\ Provenance(p).subject = cmd[p].subject
    BY <2>1 DEF Provenance
  <2>4. PhaseInv(p)'
    BY <2>1, <2>2, <2>3 DEF PhaseInv
  <2>5. StagedIsListed'
    BY <2>1, <2>2, <2>3 DEF StagedIsListed
  <2>6. QED
    BY <2>1, <2>2, <2>4, <2>5, NoEvidence
<1>3. CASE ReadProvenance(p)
  <2>1. /\ pc[p] = "read" /\ pc'[p] = "sign"
        /\ artifacts' = artifacts /\ top' = top /\ evid' = evid /\ prov' = prov
    BY <1>0, <1>3 DEF ReadProvenance, Goto, diskVars
  <2>2. /\ cmd'[p].read = prov /\ cmd'[p].subject = cmd[p].subject
        /\ cmd'[p].id = cmd[p].id /\ cmd'[p].commit = cmd[p].commit
    BY <1>0, <1>3 DEF ReadProvenance, CmdType
  <2>3. /\ top = Empty /\ evid = Missing /\ artifacts = cmd[p].subject
        /\ prov = [kind |-> "file", doc |-> Provenance(p), layout |-> "pretty"]
    BY <1>0, <2>1 DEF PhaseInv
  <2>4. Provenance(p)' = Provenance(p)
    BY <2>2 DEF Provenance
  <2>5. PhaseInv(p)'
    BY <2>1, <2>2, <2>3, <2>4 DEF PhaseInv
  <2>6. QED
    BY <1>0, <2>1, <2>5 DEF EvidenceBindsProvenance, StagedIsListed
<1>4. CASE Sign(p) \/ CreateEvidence(p)
  <2>1. /\ <<pc[p], pc'[p], evid'>> \in {<<"sign", "signed", evid>>, <<"signed", "evidence", Torn>>}
        /\ artifacts' = artifacts /\ top' = top /\ prov' = prov /\ cmd' = cmd
    BY <1>0, <1>4 DEF Sign, CreateEvidence, Goto, diskVars
  <2>2. /\ top = Empty /\ evid = Missing /\ artifacts = cmd[p].subject /\ cmd[p].read = prov
        /\ prov = [kind |-> "file", doc |-> Provenance(p), layout |-> "pretty"]
    BY <1>0, <2>1 DEF PhaseInv
  <2>3. Provenance(p)' = Provenance(p)
    BY <2>1 DEF Provenance
  <2>4. PhaseInv(p)'
    BY <2>1, <2>2, <2>3 DEF PhaseInv
  <2>5. evid' \in {Missing, Torn}
    BY <2>1, <2>2
  <2>6. StagedIsListed'
    BY <1>0, <2>1 DEF StagedIsListed
  <2>7. QED
    BY <2>4, <2>5, <2>6, NoEvidence
<1>5. QED
    BY <1>1, <1>2, <1>3, <1>4

\* The evidence is about the provenance that lies beside it.
LEMMA AttestedDir ==
    ASSUME DirInv, NEW p \in Procs, WriteEvidence(p)
    PROVE  EvidenceBindsProvenance' /\ StagedIsListed' /\ PhaseInv(p)'
<1>0. /\ TypeInv /\ EvidInv /\ StagedIsListed /\ PhaseInv(p) /\ DiskInv /\ ProcInv(p)
      /\ pc \in [Procs -> Labels]
    BY DirFacts
<1>1. /\ pc[p] = "evidence" /\ pc'[p] = "done"
      /\ evid' = [kind |-> "file", data |-> SignedData(cmd[p].read.doc, cmd[p].nonces)]
      /\ artifacts' = artifacts /\ top' = top /\ prov' = prov /\ cmd' = cmd
    BY <1>0 DEF WriteEvidence, Goto
<1>2. /\ top = Empty /\ artifacts = cmd[p].subject /\ cmd[p].read = prov
      /\ prov = [kind |-> "file", doc |-> Provenance(p), layout |-> "pretty"]
    BY <1>0, <1>1 DEF PhaseInv
<1>3. cmd[p].nonces \in Attestable
  <2> DEFINE s == [doc |-> cmd[p].read.doc, nonces |-> cmd[p].nonces]
  <2>1. s \in [doc : Doc, nonces : Attestable]
    BY <1>0, <1>1 DEF EvidInv, DiskInv
  <2>2. QED
    BY <2>1
<1>4. prov \in ProvFile /\ prov.doc \in Doc /\ prov.doc.subject = artifacts
  <2>1. cmd[p].read \in ProvFile
    BY <1>0, <1>1 DEF ProcInv
  <2>2. prov.doc.subject = artifacts
    BY <1>2 DEF Provenance
  <2>3. QED
    BY <1>2, <2>1, <2>2 DEF ProvFile
<1>5. evid' = [kind |-> "file", data |-> SignedData(prov.doc, cmd[p].nonces)]
    BY <1>1, <1>2
<1>6. PhaseInv(p)'
  <2>1. DOMAIN top = {}
    BY <1>2, EmptyFiles
  <2>2. QED
    BY <1>1, <1>3, <1>4, <1>5, <2>1 DEF PhaseInv
<1>7. EvidenceBindsProvenance'
    BY <1>1, <1>3, <1>4, <1>5, SignedChecksum DEF EvidenceBindsProvenance
<1>8. StagedIsListed'
    BY <1>0, <1>1 DEF StagedIsListed
<1>9. QED
    BY <1>6, <1>7, <1>8

\* The user, between commands.
LEMMA UserDir ==
    ASSUME DirInv, NEW p \in Procs, User
    PROVE  EvidenceBindsProvenance' /\ StagedIsListed' /\ PhaseInv(p)'
<1>0. /\ TypeInv /\ EvidInv /\ EvidenceBindsProvenance /\ StagedIsListed
      /\ PhaseInv(p) /\ artifacts \in Files /\ top \in Files
    BY DirFacts
<1>1. pc' = pc /\ cmd' = cmd /\ evid' = evid /\ pc[p] \in {"idle", "done"}
    BY DEF User, Checkout, CopyUp, Modify, Reformat, AllEnded, Ended, diskVars
<1>2. ASSUME pc[p] = "done", cmd[p].attest
      PROVE  /\ prov \in ProvFile
             /\ cmd[p].nonces \in Attestable
             /\ evid = [kind |-> "file", data |-> SignedData(prov.doc, cmd[p].nonces)]
             /\ DOMAIN artifacts = DOMAIN prov.doc.subject
             /\ \A n \in DOMAIN top : n \in DOMAIN artifacts
                                      /\ top[n] \in {artifacts[n], prov.doc.subject[n]}
    BY <1>0, <1>2 DEF PhaseInv
<1>3. CASE Checkout
  <2>1. artifacts' = artifacts /\ top' = top /\ prov' = prov
    BY <1>3 DEF Checkout, diskVars
  <2>2. PhaseInv(p)'
    BY <1>1, <1>2, <2>1 DEF PhaseInv
  <2>3. QED
    BY <1>0, <1>1, <2>1, <2>2 DEF EvidenceBindsProvenance, StagedIsListed
<1>4. CASE CopyUp
  <2>1. PICK n \in DOMAIN artifacts : top' = With(top, n, artifacts[n])
    BY <1>4 DEF CopyUp
  <2>2. artifacts' = artifacts /\ prov' = prov
    BY <1>4 DEF CopyUp
  <2>3. n \in Names /\ artifacts[n] \in Content /\ top \in Files
    BY <1>0, <2>1, FilesFacts
  <2> DEFINE c == artifacts[n]
  <2>4. c \in Content /\ top' = With(top, n, c)
    BY <2>1, <2>3
  <2> HIDE DEF c
  <2>5. /\ DOMAIN top' = DOMAIN top \union {n} /\ top'[n] = c
        /\ \A m \in DOMAIN top : m # n => top'[m] = top[m]
    BY <2>3, <2>4, WithFiles
  <2>6. ASSUME pc[p] = "done", cmd[p].attest, NEW m \in DOMAIN top'
        PROVE  m \in DOMAIN artifacts /\ top'[m] \in {artifacts[m], prov.doc.subject[m]}
    <3>1. CASE m = n
      BY <2>5, <3>1 DEF c
    <3>2. CASE m # n
      BY <1>2, <2>5, <2>6, <3>2
    <3>3. QED
      BY <3>1, <3>2
  <2>7. PhaseInv(p)'
    BY <1>1, <1>2, <2>2, <2>6 DEF PhaseInv
  <2>8. QED
    BY <1>0, <1>1, <2>2, <2>7 DEF EvidenceBindsProvenance, StagedIsListed
<1>5. CASE Modify
  <2>1. PICK n \in DOMAIN artifacts : artifacts' = [artifacts EXCEPT ![n] = "other"]
    BY <1>5 DEF Modify
  <2>2. top' = top /\ prov' = prov
    BY <1>5 DEF Modify
  <2>3. /\ DOMAIN artifacts' = DOMAIN artifacts
        /\ \A m \in DOMAIN artifacts : artifacts'[m] \in {artifacts[m], "other"}
    BY <1>0, <2>1, FilesFacts
  <2>4. StagedIsListed'
    BY <1>0, <2>2, <2>3 DEF StagedIsListed
  <2>5. ASSUME pc[p] = "done", cmd[p].attest, NEW m \in DOMAIN top
        PROVE  m \in DOMAIN artifacts /\ top[m] \in {artifacts'[m], prov.doc.subject[m]}
    <3>1. IsFile(prov) /\ m \in DOMAIN artifacts
      BY <1>2, <2>5 DEF ProvFile, IsFile
    <3>2. artifacts[m] \in {prov.doc.subject[m], "other"}
      BY <1>0, <3>1 DEF StagedIsListed
    <3>3. QED
      BY <1>2, <2>3, <2>5, <3>1, <3>2
  <2>6. PhaseInv(p)'
    BY <1>1, <1>2, <2>2, <2>3, <2>5 DEF PhaseInv
  <2>7. QED
    BY <1>0, <1>1, <2>2, <2>4, <2>6 DEF EvidenceBindsProvenance
<1>6. CASE Reformat
  <2>1. artifacts' = artifacts /\ top' = top /\ prov' = [prov EXCEPT !.layout = "other"]
        /\ prov.kind = "file"
    BY <1>6 DEF Reformat
  <2>2. prov \in ProvFile
    BY <1>0, <2>1 DEF TypeInv, DiskInv, Missing, Torn
  <2>3. prov' \in ProvFile /\ prov'.doc = prov.doc /\ prov'.kind = prov.kind
    BY <2>1, <2>2 DEF ProvFile
  <2>4. PhaseInv(p)'
    BY <1>1, <1>2, <2>1, <2>3 DEF PhaseInv
  <2>5. QED
    BY <1>0, <1>1, <2>1, <2>3, <2>4 DEF EvidenceBindsProvenance, StagedIsListed, IsFile
<1>7. QED
    BY <1>3, <1>4, <1>5, <1>6 DEF User

LEMMA NextDirInv ==
    ASSUME OneCommand
    PROVE  DirInv /\ [Next]_vars => DirInv'
<1> SUFFICES ASSUME DirInv, [Next]_vars PROVE DirInv'
    OBVIOUS
<1>1. AttestInv'
    BY NextAttestInv DEF DirInv
<1>2. ASSUME NEW p \in Procs, Command(p)
      PROVE  EvidenceBindsProvenance' /\ StagedIsListed' /\ PhaseInv(p)'
    BY <1>2, CleanDir, BuildingDir, CopyingDir, WritingDir, AttestedDir DEF Command
<1>3. CASE \E p \in Procs : Command(p)
  <2>1. PICK p \in Procs : Command(p)
    BY <1>3
  <2>2. \A q \in Procs : q = p
    BY DEF OneCommand
  <2>3. QED
    BY <1>1, <1>2, <2>1, <2>2 DEF DirInv
<1>4. CASE User
  <2>1. ASSUME NEW p \in Procs
        PROVE  EvidenceBindsProvenance' /\ StagedIsListed' /\ PhaseInv(p)'
    BY <1>4, UserDir
  <2>2. QED
    BY <1>1, <2>1 DEF DirInv, OneCommand
<1>5. CASE Verify \/ UNCHANGED vars
  <2>1. UNCHANGED <<artifacts, top, prov, evid, pc, cmd, target>>
    BY <1>5 DEF Verify, vars, diskVars
  <2>2. ASSUME NEW p \in Procs PROVE PhaseInv(p)'
    <3>1. PhaseInv(p)
      BY DEF DirInv
    <3>2. QED
      BY <2>1, <3>1 DEF PhaseInv, EmptyDir, Provenance
  <2>3. EvidenceBindsProvenance' /\ StagedIsListed'
    BY <2>1 DEF DirInv, EvidenceBindsProvenance, StagedIsListed
  <2>4. QED
    BY <1>1, <2>2, <2>3 DEF DirInv
<1>6. QED
    BY <1>3, <1>4, <1>5 DEF Next

\* What one `kettle attest` leaves behind verifies.
LEMMA DoneVerifies == DirInv => AttestedDirVerifies
<1> SUFFICES ASSUME DirInv, NEW p \in Procs, pc[p] = "done", cmd[p].attest, ~Modified
             PROVE  /\ DirPasses(<<>>)
                    /\ \A n \in Nonces : n.form = "plain" =>
                          (DirPasses(<<n>>) <=> /\ n.bytes = NonceSlot(cmd[p].nonces)
                                                /\ \/ n.bytes # Zeros(NonceLen)
                                                   \/ Digest(prov.doc)[SumLen] # 0)
    BY DEF AttestedDirVerifies
<1>1. StagedIsListed /\ PhaseInv(p)
    BY DirFacts
<1>2. /\ prov \in ProvFile
      /\ cmd[p].nonces \in Attestable
      /\ evid = [kind |-> "file", data |-> SignedData(prov.doc, cmd[p].nonces)]
      /\ DOMAIN artifacts = DOMAIN prov.doc.subject
      /\ \A n \in DOMAIN top : n \in DOMAIN artifacts
                               /\ top[n] \in {artifacts[n], prov.doc.subject[n]}
    BY <1>1 DEF PhaseInv
<1>3. IsFile(evid) /\ IsFile(prov) /\ prov.doc \in Doc
    BY <1>2 DEF IsFile, ProvFile
<1> DEFINE doc == prov.doc
           seen == SeenIn(doc)
           data == evid.data
<1>4. \A n \in DOMAIN artifacts : artifacts[n] = doc.subject[n]
    BY <1>1, <1>3 DEF StagedIsListed, Modified
<1>5. seen = {<<n, doc.subject[n]>> : n \in DOMAIN doc.subject}
  <2>1. \A n \in DOMAIN top : n \in DOMAIN doc.subject /\ top[n] = doc.subject[n]
    BY <1>2, <1>4
  <2>2. DOMAIN doc.subject \intersect DOMAIN artifacts = DOMAIN doc.subject
    BY <1>2
  <2>3. QED
    BY <1>2, <1>4, <2>1, <2>2 DEF SeenIn
<1> HIDE DEF seen
<1>6. DOMAIN doc.subject = {f[1] : f \in seen} /\ \A f \in seen : f[2] = doc.subject[f[1]]
  <2>1. \A n \in DOMAIN doc.subject : <<n, doc.subject[n]>> \in seen /\ <<n, doc.subject[n]>>[1] = n
    BY <1>5
  <2>2. \A f \in seen : f[1] \in DOMAIN doc.subject /\ f[2] = doc.subject[f[1]]
    BY <1>5
  <2>3. QED
    BY <2>1, <2>2
<1>7. compare_checksum(data, Digest(doc))
    BY <1>2, <1>3, SignedChecksum
<1>8. \A nonces : DirPasses(nonces) <=> (nonces # <<>> => verify_nonce(data, nonces[1]))
    BY <1>3, <1>6, <1>7 DEF DirPasses, Passed, seen
<1>9. DirPasses(<<>>)
    BY <1>8
<1>10. ASSUME NEW n \in Nonces, n.form = "plain"
       PROVE  DirPasses(<<n>>) <=> /\ n.bytes = NonceSlot(cmd[p].nonces)
                                   /\ \/ n.bytes # Zeros(NonceLen)
                                      \/ Digest(prov.doc)[SumLen] # 0
  <2>1. DirPasses(<<n>>) <=> verify_nonce(data, n)
    BY <1>8
  <2>2. verify_nonce(data, n) <=> verify_nonce(SignedData(prov.doc, cmd[p].nonces), n)
    BY <1>2
  <2>3. QED
    BY <1>2, <1>3, <1>10, <2>1, <2>2, SignedNonce
<1>11. QED
    BY <1>9, <1>10

LEMMA InitDirInv == Init => DirInv
<1> SUFFICES ASSUME Init PROVE DirInv
    OBVIOUS
<1>1. EvidenceBindsProvenance /\ StagedIsListed
    BY DEF Init, EvidenceBindsProvenance, StagedIsListed, IsFile, Missing
<1>2. ASSUME NEW p \in Procs PROVE PhaseInv(p)
  <2>1. pc[p] = "idle"
    BY DEF Init
  <2>2. QED
    BY <2>1 DEF PhaseInv
<1>3. QED
    BY <1>1, <1>2, InitAttestInv DEF DirInv

\* What the directory holds at each step of a command, and between commands that
\* follow each other (src/toolchain/runner.rs, run).
THEOREM DirInvariant ==
    ASSUME OneCommand
    PROVE  Spec => []DirInv
<1>1. DirInv /\ [Next]_vars => DirInv'
    BY NextDirInv
<1>2. QED
    BY <1>1, InitDirInv, PTL DEF Spec

\* For commands that follow each other, killed at any step and run again on any
\* commit: evidence.json beside provenance.json attests that provenance, since
\* the directory is removed before anything is written (src/toolchain/runner.rs,
\* run).
THEOREM EvidenceIsForProvenance ==
    ASSUME OneCommand
    PROVE  Spec => []EvidenceBindsProvenance
<1>1. DirInv => EvidenceBindsProvenance
    BY DEF DirInv
<1>2. QED
    BY <1>1, DirInvariant, PTL

\* For commands that follow each other: a file in artifacts/ beside
\* provenance.json is listed there with the digest of what was copied, unless it
\* was modified since, although cargo's binaries are hashed first and copied
\* afterwards (src/toolchain/cargo.rs, nix.rs, collect_artifacts).
THEOREM StagedIsWhatWasHashed ==
    ASSUME OneCommand
    PROVE  Spec => []StagedIsListed
<1>1. DirInv => StagedIsListed
    BY DEF DirInv
<1>2. QED
    BY <1>1, DirInvariant, PTL

\* For commands that follow each other: what a completed `kettle attest` leaves
\* verifies without a nonce, and with exactly the nonce that was attested
\* (src/commands/attest.rs, attest_with_sink; src/commands/verify.rs, verify).
THEOREM AttestedVerifies ==
    ASSUME OneCommand
    PROVE  Spec => []AttestedDirVerifies
<1>1. DirInv => AttestedDirVerifies
    BY DoneVerifies
<1>2. QED
    BY <1>1, DirInvariant, PTL
=============================================================================
