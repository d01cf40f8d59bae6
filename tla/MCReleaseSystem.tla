--------------------------- MODULE MCReleaseSystem ---------------------------
(* Instances of ReleaseSystem for TLC. *)
EXTENDS ReleaseSystem, TLC

\* The targets that the pages of the web interface send.
PageTargets == {"staged", "under_review", "rejected"}

\* And approval, with which an admin retries a failed download.
RetryTargets == PageTargets \cup {"approved"}

NoFlags == {"none"}

\* Whether a lookup finds the release's own name among the torrents.
EachItself == [r \in Releases |-> {r}]
NoneHit == [r \in Releases |-> {}]

JobSymmetry == Permutations(Jobs)

=============================================================================
