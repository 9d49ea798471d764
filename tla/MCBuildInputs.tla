--------------------------- MODULE MCBuildInputs ---------------------------
EXTENDS BuildInputs

MCRepos == <<[git |-> TRUE, head |-> 1, dirty |-> FALSE],
             [git |-> TRUE, head |-> 1, dirty |-> TRUE],
             [git |-> FALSE, head |-> 0, dirty |-> FALSE],
             [git |-> TRUE, head |-> 1, dirty |-> FALSE]>>

\* 1 is "foo-1", say, and 2 is "foo".
MCNameRank == <<2, 1, 3, 4, 5, 6, 7, 8, 9>>

P(name, source, pin, loc) ==
    [name |-> name, version |-> 1, source |-> source, pin |-> pin, loc |-> loc,
     hashes |-> <<>>]

\* The packages of a Cargo.lock.
CargoPackages ==
    <<P(1, "registry", 11, 32), P(2, "registry", 0, 0), P(3, "git", 12, 31),
      P(3, "git", 0, 31), P(4, "other", 13, 0), P(5, "none", 0, 0), P(6, "none", 0, 1),
      P(7, "none", 0, 2), P(8, "none", 0, 3), P(9, "none", 0, 4)>>

Dep(key, dir, table) == [key |-> key, dir |-> dir, table |-> table]

\* The path dependencies of the manifests.
Tables ==
    <<<<>>,
      <<Dep(6, 1, "member"), Dep(7, 2, "member"), Dep(8, 3, "member"), Dep(9, 4, "member")>>,
      <<Dep(6, 1, "workspace"), Dep(9, 4, "foreign")>>,
      <<Dep(5, 1, "member"), Dep(9, 4, "member")>>,
      <<Dep(6, 1, "member"), Dep(6, 4, "member")>>,
      <<Dep(6, 5, "member")>>,
      <<Dep(5, 0, "member"), Dep(6, 1, "member"), Dep(6, 1, "member"), Dep(9, 1, "member")>>>>

T(h, v) == [hash |-> h, version |-> v]

RECURSIVE Digits(_)
Digits(s) == IF s = <<>> THEN 0 ELSE Last(s) + 11 * Digits(Front(s))

\* The commit of a project is a number for its contents, in a clean work tree.
Cargo(ids, table) ==
    [driver |-> "cargo", commit |-> 10 * Digits(ids) + table, tree |-> 10 * Digits(ids) + table,
     work |-> 0, lockfile |-> Digits(ids), tools |-> <<T(1, 1), T(2, 2)>>, members |-> TRUE,
     decls |-> Tables[table], packages |-> [k \in 1..Len(ids) |-> CargoPackages[ids[k]]],
     out |-> <<>>]

Drv(name, hashes) == [P(name, "none", 0, 0) EXCEPT !.hashes = hashes]

Derivations == <<Drv(2, <<21>>), Drv(1, <<0, 22>>), Drv(2, <<23>>), Drv(3, <<0>>)>>

B(name, content, exec) == [name |-> name, content |-> content, exec |-> exec]

Outputs == <<<<B(1, 1, TRUE), B(2, 1, TRUE)>>,
             <<B(1, 1, TRUE), B(2, 2, FALSE), B(1, 2, TRUE)>>,
             <<B(1, 1, TRUE), B(1, 1, TRUE)>>, <<>>>>

Nix(ids, out) ==
    [driver |-> "nix", commit |-> 100000 + 10 * Digits(ids) + out,
     tree |-> 100000 + 10 * Digits(ids) + out, work |-> 0, lockfile |-> 100000 + Digits(ids),
     tools |-> <<T(3, 3)>>, members |-> TRUE, decls |-> <<>>,
     packages |-> [k \in 1..Len(ids) |-> Derivations[ids[k]]], out |-> Outputs[out]]

\* pnpm's packages: integrity, tarball, both, neither, the first one with other
\* peers, a key without version.
PnpmPackages ==
    <<P(1, "none", 41, 0), P(2, "none", 0, 42), P(3, "none", 43, 44), P(4, "none", 0, 0),
      P(1, "none", 41, 0), [P(6, "none", 45, 0) EXCEPT !.version = 0]>>

Pnpm(ids, out) ==
    [driver |-> "pnpm", commit |-> 200000 + 10 * Digits(ids) + out,
     tree |-> 200000 + 10 * Digits(ids) + out, work |-> 0, lockfile |-> 200000 + Digits(ids),
     tools |-> <<T(4, 4), T(5, 5)>>, members |-> TRUE, decls |-> <<>>,
     packages |-> [k \in 1..Len(ids) |-> PnpmPackages[ids[k]]],
     out |-> IF out = 1 THEN <<B(1, 1, TRUE)>> ELSE <<>>]

Lists(n, k) == UNION {[1..j -> 1..n] : j \in 0..k}

\* One build of anything.
Single ==
    {<<Cargo(ids, t)>> : ids \in Lists(10, 2), t \in 1..7}
    \union {<<[Cargo(<<1>>, 1) EXCEPT !.members = FALSE, !.commit = 9999]>>}
    \union {<<Nix(ids, o)>> : ids \in Lists(4, 3), o \in 1..4}
    \union {<<Pnpm(ids, o)>> : ids \in Lists(6, 3), o \in 1..2}

\* A project built twice, with another compiler the second time or the same.
Again(p) == {<<p, p>>, <<p, [p EXCEPT !.tools[1].hash = 9]>>}

\* Projects whose packages come in another order, and one whose build does not
\* come to the same a second time.
Twice ==
    {<<Nix(<<1, 2>>, 1), [Nix(<<1, 2>>, 1) EXCEPT !.out = Outputs[3]]>>}
    \union
    UNION {Again(Cargo(ids, t)) : ids \in {<<1, 7>>, <<7, 10>>, <<1, 6, 10>>}, t \in {2, 3}}
    \union {<<Cargo(f, 2), Cargo(g, 2)>> :
              f, g \in {<<1, 3, 7>>, <<7, 1, 3>>, <<3, 7, 1>>, <<1, 3>>}}
    \union {<<Nix(f, 1), Nix(g, 1)>> :
              f, g \in {<<1, 2, 3>>, <<3, 2, 1>>, <<2, 1, 4>>, <<1, 2>>}}
    \union {<<Pnpm(f, 1), Pnpm(g, 1)>> :
              f, g \in {<<1, 2>>, <<2, 1>>, <<2, 1, 5>>, <<5, 2, 1>>}}
    \union {<<Cargo(<<1>>, 1), Nix(<<1>>, 1)>>, <<Cargo(<<1>>, 1), Pnpm(<<1>>, 1)>>}

\* A work tree of p's commit that has been changed to be q, and not committed.
Uncommitted(p, q) == [q EXCEPT !.commit = p.commit, !.tree = p.tree, !.work = q.commit]

Changes == {<<Cargo(<<1, 7>>, 2), Cargo(<<1, 3, 7>>, 2)>>,
            <<Cargo(<<1, 7>>, 2), Cargo(<<1, 7>>, 3)>>,
            <<Nix(<<1, 2>>, 1), Nix(<<1, 2>>, 3)>>,
            <<Cargo(<<1>>, 1), Pnpm(<<1>>, 1)>>}

\* Builds of one commit, before and after its lock file, manifests or sources are
\* changed, and twice after that.
Changed ==
    UNION {{<<x[1], Uncommitted(x[1], x[2])>>,
            <<Uncommitted(x[1], x[2]), Uncommitted(x[1], x[2])>>} : x \in Changes}

MCWorkloads == Single \union Twice \union Changed
=============================================================================
