---------------------------- MODULE MCJobServer ----------------------------
(* Model values for JobServer; each cfg chooses how many clients there are  *)
(* and how small the two channels are.                                      *)
EXTENDS JobServer

CONSTANTS p1, p2, s1

OnePoster == {p1}
TwoPosters == {p1, p2}
OneSubscriber == {s1}

TwoRequests == {[nonceOk |-> TRUE, source |-> {"repo_url"}],
                [nonceOk |-> FALSE, source |-> {"repo_url"}]}
OneRequest == {[nonceOk |-> TRUE, source |-> {"repo_url"}]}
=============================================================================
