----------------------------- MODULE MCBuildDir -----------------------------
EXTENDS BuildDir, TLC

CONSTANTS p1, p2, c1, c2

OneProc == {p1}
TwoProcs == {p1, p2}
TwoCommits == {c1, c2}

\* The processes are interchangeable.
ProcSymmetry == Permutations(TwoProcs)

TwoNames == {"a", "b"}
OneName == {"a"}

\* The second commit no longer builds b.
DropsBinary == (c1 :> {"a", "b"}) @@ (c2 :> {"a"})
SameBinary == (c1 :> {"a"}) @@ (c2 :> {"a"})

Digits == 0..11

ContentCode(files, n) ==
    IF n \notin DOMAIN files THEN 3
    ELSE CASE files[n] = c1 -> 0 [] files[n] = c2 -> 1 [] OTHER -> 2

\* An injective checksum of two digits.  Of the provenances of c1 some
\* have a checksum that ends in zero.
MCDigest(d) ==
    <<4 * (d.id - 1) + ContentCode(d.subject, "a"),
      (IF d.commit = c1 THEN 0 ELSE 4) + ContentCode(d.subject, "b")>>

Plain(b1, b2) == [bytes |-> <<b1, b2>>, form |-> "plain"]
SomeNonces == {Plain(1, 0), Plain(0, 0), [bytes |-> <<1, 0>>, form |-> "dashed"],
               [bytes |-> <<1>>, form |-> "plain"]}
OneNonce == {Plain(0, 1)}
WithOrWithout == {<<>>} \union {<<n>> : n \in OneNonce}
WithoutNonce == {<<>>}
UuidNonces == {Plain(0, 1), [bytes |-> <<1, 1>>, form |-> "dashed"]}
=============================================================================
