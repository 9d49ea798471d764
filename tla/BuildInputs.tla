----------------------------- MODULE BuildInputs -----------------------------
(***************************************************************************)
(* What a build records of its inputs (src/toolchain/runner.rs run and     *)
(* compute_merkle_root; the drivers cargo.rs with cargo_lock.rs, nix.rs    *)
(* and pnpm.rs): the packages of the lock file, or the derivations of the  *)
(* build graph, are classified one after the other, sorted and hashed into *)
(* a Merkle root, and nix's binaries are staged and listed.  Builds follow *)
(* each other on one machine, of work trees with and without uncommitted   *)
(* changes, while somebody works in the repositories that path             *)
(* dependencies point to.                                                  *)
(*                                                                         *)
(* Strings are numbers in the order the strings have in a uri, where       *)
(* something follows them; names have an order of their own besides, which *)
(* differs when one is the beginning of another: "foo" comes before        *)
(* "foo-1", but "foo-1?hash=" before "foo?hash=".  0 stands for an absent  *)
(* checksum, commit, URL or hash.                                          *)
(***************************************************************************)
EXTENDS Naturals, SequencesExt

CONSTANTS
    Workloads,  \* sequences of projects to be built
    NameRank,   \* the order of names on their own: [name -> place]
    Repos,      \* the repositories beside the project: [dir -> Repo], at the start
    MaxEdits    \* bound on the changes made to them

Repo == [git : BOOLEAN, head : Nat, dirty : BOOLEAN]

Names == DOMAIN NameRank

\* A [[package]] of Cargo.lock, a package of pnpm-lock.yaml or a derivation.
Package ==
    [name : Names, version : Nat,
     source : {"registry", "git", "none", "other"},     \* cargo only
     pin : Nat,             \* checksum, commit or integrity
     loc : Nat,             \* URL; directory of a package without source, 0 inside
     hashes : Seq(Nat)]     \* of the outputs of a derivation

\* `key = { path = ... }` in a dependency table.  cargo reads the tables of every
\* manifest; kettle reads those of the root and of the workspace's members, without
\* [workspace.dependencies].
Decl == [key : Nat, dir : Nat, table : {"member", "workspace", "foreign"}]

Binary == [name : Nat, content : Nat, exec : BOOLEAN]

Tool == [hash : Nat, version : Nat]

Project ==
    [driver : {"cargo", "nix", "pnpm"},
     commit : Nat, tree : Nat,
     work : Nat,                \* 0, or what is not committed of the work tree
     lockfile : Nat,
     tools : Seq(Tool),
     members : BOOLEAN,         \* workspace.members can be expanded
     decls : Seq(Decl),
     packages : Seq(Package),
     out : Seq(Binary)]         \* of nix's store paths; pnpm's dist

\* A project without what a build of it comes to.
Inputs(p) == [p EXCEPT !.out = <<>>]

\* A name has a place of its own in the order of names.  Commits are named by their
\* hash: one of them and what is not committed fix everything that is built, but the
\* tools and what they make of it.  There is always a tool.
ASSUME InputsAssumption ==
    /\ Names \subseteq Nat /\ NameRank \in [Names -> Nat]
    /\ \A m, n \in Names : NameRank[m] = NameRank[n] => m = n
    /\ Workloads \subseteq Seq(Project)
    /\ DOMAIN Repos \subseteq Nat \ {0} /\ Repos \in [DOMAIN Repos -> Repo]
    /\ MaxEdits \in Nat
    /\ \A v, w \in Workloads : \A j \in 1..Len(v), k \in 1..Len(w) :
          v[j].commit = w[k].commit /\ v[j].work = w[k].work
              => Inputs(v[j]) = [Inputs(w[k]) EXCEPT !.tools = v[j].tools]
    /\ \A w \in Workloads : \A k \in 1..Len(w) : w[k].tools # <<>>

VARIABLES
    todo,       \* projects still to be built
    repos,      \* the repositories beside the project, now
    edits,      \* changes made to them so far
    edited,     \* there was one after this build had checked one of them
    pc,         \* where the build is
    proj,       \* the project being built
    external,   \* collect_external_path_deps: [key -> dir]
    idx,        \* package, or binary, that is next
    deps,       \* resolved dependencies: their uris
    consumed,   \* what the build command found: the state of repos
    subject,    \* subjects of the provenance: << <<name, content>> >>
    staged,     \* artifacts/: [name -> content]
    results     \* what the builds came to

buildVars == <<proj, external, idx, deps, consumed, subject, staged>>
vars == <<todo, repos, edits, edited, pc, buildVars, results>>

Empty == [x \in {} |-> 0]

-----------------------------------------------------------------------------
(* Uris and their order *)

Uri(scheme, name, version, kind, loc, pin) == <<scheme, name, version, kind, loc, pin>>

\* Lexicographic order of two uris.
Before(u, v) ==
    \E i \in 1..Len(u) : u[i] < v[i] /\ \A j \in 1..(i - 1) : u[j] = v[j]

NameOf(u) == u[2]

\* Fault: the order of the lock file is kept.
UnsortedDeps(driver, ds) == ds

NameBefore(u, v) == NameRank[NameOf(u)] < NameRank[NameOf(v)]

\* cargo and pnpm sort by uri, nix by name.
Less(driver, u, v) == IF driver = "nix" THEN NameBefore(u, v) ELSE Before(u, v)

\* sort_by keeps equal elements in place: i goes before j.
Precedes(driver, ds, i, j) ==
    Less(driver, ds[i], ds[j]) \/ (~Less(driver, ds[j], ds[i]) /\ i < j)

\* Where i goes.
Place(driver, ds, i) == Cardinality({j \in 1..Len(ds) : Precedes(driver, ds, j, i)}) + 1

SortedDeps(driver, ds) ==
    [k \in 1..Len(ds) |-> ds[CHOOSE i \in 1..Len(ds) : Place(driver, ds, i) = k]]

-----------------------------------------------------------------------------
(* Merkle root *)

\* Fault: a node without a neighbour is lost.
HalvedFloor(layer) ==
    [k \in 1..(Len(layer) \div 2) |-> <<"node", layer[2 * k - 1], layer[2 * k]>>]

\* The layer above a layer: a node without a neighbour moves up as it is.
Halved(layer) ==
    [k \in 1..((Len(layer) + 1) \div 2) |->
        IF 2 * k <= Len(layer) THEN <<"node", layer[2 * k - 1], layer[2 * k]>>
        ELSE layer[2 * k - 1]]

Raised(layer) == IF Len(layer) = 1 THEN layer ELSE Halved(layer)

\* The layers from the leaves up; the one with the root is repeated.
Layers(entries) ==
    LET layer[k \in 0..Len(entries)] ==
            IF k = 0 THEN [i \in 1..Len(entries) |-> <<"leaf", entries[i]>>]
            ELSE Raised(layer[k - 1])
    IN  layer

MerkleRoot(entries) == Layers(entries)[Len(entries)][1]

\* The hash and the version of each tool.
ToolEntries(p) ==
    [k \in 1..(2 * Len(p.tools)) |->
        IF k % 2 = 1 THEN <<"sha256", p.tools[(k + 1) \div 2].hash>>
        ELSE <<"version", p.tools[k \div 2].version>>]

MerkleEntries(p, ds) ==
    LET git == << <<"sha1", p.commit>>, <<"sha1", p.tree>> >>
        lock == << <<"sha256", p.lockfile>> >>
        each(kind) == [k \in 1..Len(ds) |-> <<kind, ds[k]>>]
    IN  IF p.driver = "nix" THEN git \o lock \o each("fetch") \o ToolEntries(p)
        ELSE git \o ToolEntries(p) \o lock \o each("uri")

-----------------------------------------------------------------------------
(* A build *)

Init ==
    /\ todo \in Workloads
    /\ repos = Repos
    /\ edits = 0 /\ edited = FALSE
    /\ pc = "idle"
    /\ proj = <<>> /\ external = Empty /\ idx = 1 /\ deps = <<>>
    /\ consumed = Empty /\ subject = <<>> /\ staged = Empty
    /\ results = <<>>

\* Git context, lock file and tools are read.  The commit is that of HEAD, the rest
\* is read from the work tree, whatever its state; it does not change meanwhile.
Start ==
    /\ pc = "idle" /\ todo # <<>>
    /\ proj' = Head(todo) /\ todo' = Tail(todo)
    /\ external' = Empty /\ idx' = 1 /\ deps' = <<>>
    /\ consumed' = Empty /\ subject' = <<>> /\ staged' = Empty
    /\ edited' = FALSE
    /\ pc' = IF proj'.driver = "cargo" THEN "collect" ELSE "classify"
    /\ UNCHANGED <<repos, edits, results>>

Finish(stage, root) ==
    /\ results' = Append(results, [proj |-> proj, stage |-> stage, deps |-> deps,
                                   root |-> root, consumed |-> consumed,
                                   subject |-> subject, staged |-> staged,
                                   edited |-> edited])
    /\ pc' = "idle"
    /\ UNCHANGED <<todo, repos, edits, edited, buildVars>>

Refuse == Finish("refused", <<>>)

\* Fault: only the tables of the root are read, as if it had no members.
NoDeclarations(p) == {}

\* The declarations kettle reads.
Declarations(p) == {d \in ToSet(p.decls) : d.table = "member"}

Outside(p) == {d \in Declarations(p) : d.dir # 0}

Conflict(p) == \E d, e \in Outside(p) : d.key = e.key /\ d.dir # e.dir

\* Fault: a path that does not exist is taken as it stands.
NeverMissing(p) == FALSE

\* A directory that does not exist cannot be canonicalized.
Missing(p) == \E d \in Outside(p) : d.dir \notin DOMAIN Repos

CollectExternalPathDeps ==
    /\ pc = "collect"
    /\ proj.members /\ ~Missing(proj) /\ ~Conflict(proj)
    /\ external' = [k \in {d.key : d \in Outside(proj)} |->
                        (CHOOSE d \in Outside(proj) : d.key = k).dir]
    /\ pc' = "classify"
    /\ UNCHANGED <<todo, repos, edits, edited, proj, idx, deps, consumed, subject,
                   staged, results>>

CollectFails ==
    /\ pc = "collect"
    /\ ~proj.members \/ Missing(proj) \/ Conflict(proj)
    /\ Refuse

Pkg == proj.packages[idx]

AtPackage(driver) == pc = "classify" /\ proj.driver = driver /\ idx <= Len(proj.packages)

Record(uris) ==
    /\ deps' = deps \o uris
    /\ idx' = idx + 1
    /\ pc' = "classify"
    /\ UNCHANGED <<todo, repos, edits, edited, proj, external, consumed, subject, staged,
                   results>>

\* A registry is not part of the uri, a git URL is.
PinnedUri(q) ==
    IF q.source = "git" THEN Uri(1, q.name, q.version, 3, q.loc, q.pin)
    ELSE Uri(1, q.name, q.version, 1, 0, q.pin)

\* Fault: a package without checksum or commit passes for a member.
ClassifyPinnedLeniently ==
    /\ AtPackage("cargo") /\ Pkg.source \in {"registry", "git"}
    /\ Record(IF Pkg.pin = 0 THEN <<>> ELSE <<PinnedUri(Pkg)>>)

\* A package of a registry with a checksum, or of a git repository with a commit.
ClassifyPinned ==
    /\ AtPackage("cargo") /\ Pkg.source \in {"registry", "git"} /\ Pkg.pin # 0
    /\ Record(<<PinnedUri(Pkg)>>)

ClassifyFails ==
    /\ AtPackage("cargo")
    /\ \/ Pkg.source \in {"registry", "git"} /\ Pkg.pin = 0
       \/ Pkg.source = "other"
    /\ Refuse

\* A package without source that no table names is taken for a workspace member.
SkipMember ==
    /\ AtPackage("cargo") /\ Pkg.source = "none" /\ Pkg.name \notin DOMAIN external
    /\ Record(<<>>)

AtPathDep == AtPackage("cargo") /\ Pkg.source = "none" /\ Pkg.name \in DOMAIN external

Dir == external[Pkg.name]

AssertClean ==
    /\ AtPathDep /\ repos[Dir].git /\ ~repos[Dir].dirty
    /\ pc' = "sha"
    /\ UNCHANGED <<todo, repos, edits, edited, buildVars, results>>

NotClean ==
    /\ AtPathDep /\ (~repos[Dir].git \/ repos[Dir].dirty)
    /\ Refuse

\* The commit is asked for after the work tree was found clean.
GitShaAt ==
    /\ pc = "sha"
    /\ Record(<<Uri(1, Pkg.name, Pkg.version, 2, Dir, repos[Dir].head)>>)

\* The first output of a derivation that has a hash makes it a fetch.
ExtractFixedOutput ==
    LET fixed == {i \in DOMAIN Pkg.hashes : Pkg.hashes[i] # 0}
        first == CHOOSE i \in fixed : \A j \in fixed : i <= j
    IN  /\ AtPackage("nix")
        /\ Record(IF fixed = {} THEN <<>>
                  ELSE <<Uri(1, Pkg.name, 0, 0, 0, Pkg.hashes[first])>>)

\* Two keys that differ in their peers give the same uri.
ParsePnpmPackage ==
    /\ AtPackage("pnpm") /\ Pkg.version # 0 /\ (Pkg.pin # 0 \/ Pkg.loc # 0)
    /\ Record(IF Pkg.pin # 0 THEN <<Uri(1, Pkg.name, Pkg.version, 1, 0, Pkg.pin)>>
              ELSE <<Uri(0, Pkg.loc, 0, 0, 0, 0)>>)

\* The key has no version, or nothing pins the package.
ParsePnpmFails ==
    /\ AtPackage("pnpm")
    /\ Pkg.version = 0 \/ (Pkg.pin = 0 /\ Pkg.loc = 0)
    /\ Refuse

Resolved ==
    /\ pc = "classify" /\ idx > Len(proj.packages)
    /\ deps' = SortedDeps(proj.driver, deps)
    /\ pc' = "build"
    /\ UNCHANGED <<todo, repos, edits, edited, proj, external, idx, consumed, subject,
                   staged, results>>

\* The build command uses the repositories as they are now.
RunBuild ==
    /\ pc = "build"
    /\ consumed' = repos
    /\ idx' = 1
    /\ pc' = "artifacts"
    /\ UNCHANGED <<todo, repos, edits, edited, proj, external, deps, subject, staged, results>>

BuildFails == pc = "build" /\ Finish("failed", <<>>)

\* Fault: a file that is already there is not replaced.
StageKeepingFirst ==
    LET b == proj.out[idx]
        file == IF b.name \in DOMAIN staged THEN staged
                ELSE [n \in DOMAIN staged \union {b.name} |->
                         IF n = b.name THEN b.content ELSE staged[n]]
    IN  /\ pc = "artifacts" /\ proj.driver # "cargo" /\ idx <= Len(proj.out)
        /\ staged' = IF b.exec THEN file ELSE staged
        /\ subject' = IF b.exec THEN Append(subject, <<b.name, file[b.name]>>) ELSE subject
        /\ idx' = idx + 1
        /\ UNCHANGED <<todo, repos, edits, edited, pc, proj, external, deps, consumed, results>>

\* A binary is copied over what is there and the copy is hashed.
StageBinary ==
    LET b == proj.out[idx]
        file == [n \in DOMAIN staged \union {b.name} |->
                    IF n = b.name THEN b.content ELSE staged[n]]
    IN  /\ pc = "artifacts" /\ proj.driver # "cargo" /\ idx <= Len(proj.out)
        /\ staged' = IF b.exec THEN file ELSE staged
        /\ subject' = IF b.exec THEN Append(subject, <<b.name, file[b.name]>>) ELSE subject
        /\ idx' = idx + 1
        /\ UNCHANGED <<todo, repos, edits, edited, pc, proj, external, deps, consumed, results>>

\* pnpm's build left no dist directory.
NoDist ==
    /\ pc = "artifacts" /\ proj.driver = "pnpm" /\ proj.out = <<>>
    /\ Finish("failed", <<>>)

WriteProvenance ==
    /\ pc = "artifacts"
    /\ proj.driver # "cargo" => idx > Len(proj.out)
    /\ proj.driver = "pnpm" => proj.out # <<>>
    /\ Finish("done", MerkleRoot(MerkleEntries(proj, deps)))

\* A repository was found clean in this build, and the command has yet to use it.
Relied == pc \in {"sha", "classify", "build"} /\ (pc = "sha" \/ \E u \in ToSet(deps) : u[4] = 2)

\* Somebody edits a file in a repository beside the project, or commits.
ChangeRepo ==
    /\ edits < MaxEdits
    /\ \E d \in {e \in DOMAIN repos : repos[e].git} :
          \/ repos' = [repos EXCEPT ![d].dirty = TRUE]
          \/ repos' = [repos EXCEPT ![d].head = @ + 1, ![d].dirty = FALSE]
    /\ edits' = edits + 1
    /\ edited' = (edited \/ Relied)
    /\ UNCHANGED <<todo, pc, buildVars, results>>

Next ==
    \/ Start
    \/ CollectExternalPathDeps \/ CollectFails
    \/ ClassifyPinned \/ ClassifyFails \/ SkipMember
    \/ AssertClean \/ NotClean \/ GitShaAt
    \/ ExtractFixedOutput \/ ParsePnpmPackage \/ ParsePnpmFails
    \/ Resolved \/ RunBuild \/ BuildFails
    \/ StageBinary \/ NoDist \/ WriteProvenance
    \/ ChangeRepo

Spec == Init /\ [][Next]_vars

-----------------------------------------------------------------------------
(* Properties *)

Done == {r \in ToSet(results) : r.stage = "done"}

PathPackages(p) ==
    IF p.driver = "cargo" THEN {q \in ToSet(p.packages) : q.source = "none"} ELSE {}

\* The tables kettle reads name a package without source as what it is: with its
\* directory if it lies outside the workspace, not at all if it lies inside.
WellNamed(p, q) ==
    /\ \A d \in ToSet(p.decls) : d.table = "member" /\ d.key = q.name /\ d.dir # 0
                                 => d.dir = q.loc
    /\ q.loc # 0 => \E d \in ToSet(p.decls) :
                        d.table = "member" /\ d.key = q.name /\ d.dir = q.loc

RecordsOf(r, q) == {u \in ToSet(r.deps) : u[2] = q.name /\ u[3] = q.version /\ u[4] = 2}

\* Unless somebody changes the repositories between the first check of one and the
\* build command, the provenance accounts for a package without source exactly
\* when the manifests name it by the name of its package: with the commit it was
\* built from, and no uncommitted change, if it is outside the workspace, with
\* nothing if it is inside.  Everything that is renamed, declared in
\* [workspace.dependencies] or needed only by another path dependency is left out
\* without an error, or taken for another directory.
PathDepsRecorded ==
    \A r \in Done : ~r.edited =>
        \A q \in PathPackages(r.proj) :
            WellNamed(r.proj, q) <=>
                IF q.loc = 0 THEN RecordsOf(r, q) = {}
                ELSE /\ RecordsOf(r, q) =
                            {Uri(1, q.name, q.version, 2, q.loc, r.consumed[q.loc].head)}
                     /\ ~r.consumed[q.loc].dirty

Unpinned(p, q) ==
    CASE p.driver = "cargo" -> q.source = "other" \/ (q.source \in {"registry", "git"} /\ q.pin = 0)
      [] p.driver = "pnpm" -> q.version = 0 \/ (q.pin = 0 /\ q.loc = 0)
      [] OTHER -> FALSE

Dirty(p, q) ==
    /\ p.driver = "cargo" /\ q.source = "none"
    /\ \E d \in ToSet(p.decls) :
          /\ d.table = "member" /\ d.key = q.name /\ d.dir # 0
          /\ ~Repos[d.dir].git \/ Repos[d.dir].dirty

\* Whatever the order of the lock file, a build is refused exactly when a package
\* has nothing to pin it, a path dependency has uncommitted changes or no
\* repository, or the manifests contradict each other.
RefusedExactly ==
    edits = 0 => \A r \in ToSet(results) :
        (r.stage = "refused") <=>
            \/ /\ r.proj.driver = "cargo"
               /\ ~r.proj.members \/ Missing(r.proj) \/ Conflict(r.proj)
            \/ \E q \in ToSet(r.proj.packages) : Unpinned(r.proj, q) \/ Dirty(r.proj, q)

\* What a build recorded of its inputs.
Recorded(r) == <<r.proj.commit, r.proj.tree, r.proj.lockfile, r.proj.tools, r.deps>>

\* What the build command used of the repositories beside the project.
Used(r) == {<<q.loc, r.consumed[q.loc]>> : q \in {x \in PathPackages(r.proj) : x.loc # 0}}

\* Two builds with the same Merkle root recorded the same inputs, the same number
\* of times and in the same order.  Only if their work trees had the same changes,
\* or none, were they builds of the same project, down to its manifests and
\* sources: from_dir asks for the commit and nobody for what is not committed.
\* And they used the same of the repositories beside it if the path dependencies
\* are named as PathDepsRecorded asks and were left alone.
SameRootSameInputs ==
    \A r, s \in Done : r.root = s.root =>
        /\ Recorded(r) = Recorded(s)
        /\ r.proj.work = s.proj.work =>
              /\ Inputs(r.proj) = Inputs(s.proj)
              /\ /\ ~r.edited /\ ~s.edited
                 /\ \A q \in PathPackages(r.proj) : WellNamed(r.proj, q)
                 => Used(r) = Used(s)

\* What slsa-definitions.md promises of the Merkle root: two builds that have the
\* same one consumed identical inputs.
EqualRootsEqualInputs ==
    \A r, s \in Done : r.root = s.root => Inputs(r.proj) = Inputs(s.proj) /\ Used(r) = Used(s)

Times(u, ds) == Cardinality({k \in 1..Len(ds) : ds[k] = u})

\* Two fetches of one name with other hashes.
SharedName(ds) ==
    \E u, v \in ToSet(ds) : u # v /\ NameOf(u) = NameOf(v)

\* The order of the lock file, or of nix's output, does not reach the provenance:
\* cargo's and pnpm's dependencies are listed by uri, nix's by name (and so not
\* always by uri, as slsa-definitions.md has it), and builds with the same
\* dependencies list them in the same order.  Fetches of nix that share a name are
\* excepted from the last: they keep the order of the graph.
ListedInOneOrder ==
    \A r, s \in Done :
        /\ \A i, j \in 1..Len(r.deps) : i < j =>
              IF r.proj.driver = "nix"
              THEN NameRank[NameOf(r.deps[i])] <= NameRank[NameOf(r.deps[j])]
              ELSE ~Before(r.deps[j], r.deps[i])
        /\ /\ r.proj.driver = s.proj.driver
           /\ \A u \in ToSet(r.deps) \union ToSet(s.deps) : Times(u, r.deps) = Times(u, s.deps)
           /\ r.proj.driver = "nix" => ~SharedName(r.deps)
           => r.deps = s.deps

Executables(p) == {p.out[k] : k \in {i \in 1..Len(p.out) : p.out[i].exec}}

\* Every subject is the file staged under its name, and so verifies, exactly when
\* no two binaries of the store paths share a name and differ: of those the last
\* one is staged and all of them are subjects.
SubjectsAreStaged ==
    \A r \in Done : r.proj.driver # "cargo" =>
        /\ DOMAIN r.staged = {b.name : b \in Executables(r.proj)}
        /\ (\A k \in 1..Len(r.subject) : r.staged[r.subject[k][1]] = r.subject[k][2])
              <=> \A b, c \in Executables(r.proj) : b.name = c.name => b.content = c.content

\* The state of a build has its type, and its index stays at the list it walks.
InputsTypeOK ==
    /\ DOMAIN repos = DOMAIN Repos /\ \A d \in DOMAIN repos : repos[d] \in Repo
    /\ edits \in 0..MaxEdits /\ edited \in BOOLEAN
    /\ pc \in {"idle", "collect", "classify", "sha", "build", "artifacts"}
    /\ \A k \in DOMAIN external : external[k] \in DOMAIN repos
    /\ pc \in {"classify", "sha"} => idx \in 1..(Len(proj.packages) + 1)
    /\ pc = "sha" => Pkg.source = "none" /\ Pkg.name \in DOMAIN external
    /\ \A k \in 1..Len(deps) : deps[k] \in Seq(Nat) /\ Len(deps[k]) = 6
    /\ \A n \in DOMAIN staged : staged[n] \in Nat
=============================================================================
