---------------------------- MODULE OneShotBuild ----------------------------
(***************************************************************************)
(* What kettle-server promises its clients, with every task, channel and   *)
(* lock left out: one confidential VM accepts one build, the build reaches *)
(* one verdict, and a successful verdict is announced only once its result *)
(* can be downloaded.  JobServer implements this specification.            *)
(***************************************************************************)
VARIABLES
    accepted,   \* has a POST /build been accepted?
    result,     \* is the tarball available to GET /build/{id}/result?
    verdict     \* "none", "ok" or "failed": the Complete event in the log

vars == <<accepted, result, verdict>>

Init ==
    /\ accepted = FALSE
    /\ result = FALSE
    /\ verdict = "none"

Accept ==
    /\ ~accepted
    /\ accepted' = TRUE
    /\ UNCHANGED <<result, verdict>>

Publish ==
    /\ accepted /\ ~result /\ verdict = "none"
    /\ result' = TRUE
    /\ UNCHANGED <<accepted, verdict>>

\* A build whose tarball is published succeeds, any other one fails.
Conclude ==
    /\ accepted /\ verdict = "none"
    /\ verdict' = IF result THEN "ok" ELSE "failed"
    /\ UNCHANGED <<accepted, result>>

Next == Accept \/ Publish \/ Conclude

Spec == Init /\ [][Next]_vars

\* An accepted build is concluded.
FairSpec == Spec /\ WF_vars(Conclude)
=============================================================================
