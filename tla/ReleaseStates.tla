---------------------------- MODULE ReleaseStates ----------------------------
(***************************************************************************)
(* The enumerations of models/release.py and the transition table of       *)
(* services/release_service.py, shared by every module about releases.     *)
(***************************************************************************)

WorkflowState ==
    {"discovered", "staged", "under_review", "approved", "rejected",
     "queued_for_download", "downloaded", "download_failed"}

TrustStatus == {"unverified", "developer_verified", "admin_verified"}

FlagStatus == {"none", "warning", "restricted", "blocked"}

\* The states a release in state s may be moved to.
ValidTransitions ==
    [s \in WorkflowState |->
        CASE s = "discovered"          -> {"staged", "rejected"}
          [] s = "staged"              -> {"under_review", "rejected", "discovered"}
          [] s = "under_review"        -> {"approved", "rejected", "staged"}
          [] s = "approved"            -> {"queued_for_download", "rejected"}
          [] s = "rejected"            -> {"staged"}
          [] s = "queued_for_download" -> {"downloaded", "download_failed", "approved"}
          [] s = "downloaded"          -> {}
          [] s = "download_failed"     -> {"approved"}]

\* The states only a release somebody let through can be in.
ClearedState ==
    {"approved", "queued_for_download", "downloaded", "download_failed"}

\* The states that follow a hand-over to a download client.
SentState == {"queued_for_download", "downloaded", "download_failed"}

=============================================================================
