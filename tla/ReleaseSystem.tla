---------------------------- MODULE ReleaseSystem ----------------------------
(***************************************************************************)
(* The whole path of a release: review and download handlers over one      *)
(* releases table, with the download clients.                              *)
(***************************************************************************)
EXTENDS ReviewWorkflow, DownloadDispatch

CONSTANT MayCrash   \* the tasks whose process may be killed

ASSUME CrashAssumption == MayCrash \subseteq Tasks

systemVars == <<storeVars, dispatchVars>>

SystemTypeOK == StoreTypeOK /\ DispatchTypeOK

SystemInit == StoreInit /\ DispatchInit

StoreStepOf(t) ==
    /\ \/ CommitState(t) \/ CommitFails(t) \/ Audit(t) \/ Return(t)
       \/ t \in MayCrash /\ Crash(t)
    /\ Release(t)
    /\ UNCHANGED <<clientId, active, job, accepted, hooks>>

SystemNext ==
    \/ \E t \in Handlers : Review(t) /\ UNCHANGED dispatchVars
    \/ \E t \in Handlers : Send(t)
    \/ \E t \in Pollers : Poll(t)
    \/ \E t \in Tasks : StoreStepOf(t)
    \/ Client

SystemSpec == SystemInit /\ [][SystemNext]_systemVars

(***************************************************************************)
(* Fairness.  The poll loop runs as long as the process lives, and one of  *)
(* its ticks sooner or later gets past the client's answer and the commit  *)
(* without an error or a kill; jobs end.  Nothing is assumed of admins,    *)
(* callbacks or the sending handlers.                                      *)
(***************************************************************************)
PollCommits(t) == (CommitState(t) \/ CommitFails(t)) /\ StoreStepOf(t)

Fairness ==
    /\ \A t \in Pollers :
          /\ WF_systemVars(BeginPoll(t))
          /\ WF_systemVars(EndPoll(t))
          /\ WF_systemVars(Audit(t) /\ StoreStepOf(t))
          /\ SF_systemVars(PollCommits(t))
          /\ \A r \in Releases :
                /\ SF_systemVars(PollSettles(t, r))
                /\ WF_systemVars(PollSkips(t, r))
    /\ \A j \in Jobs : WF_systemVars(AgeJob(j)) /\ WF_systemVars(FinishJob(j))

FairSystemSpec == SystemSpec /\ Fairness

-----------------------------------------------------------------------------
(* Properties.                                                             *)

(***************************************************************************)
(* "No automatic downloads" (README): whatever a download client was ever  *)
(* given, and kept or not, was a release that had been under review or     *)
(* overridden.                                                             *)
(***************************************************************************)
OnlyReviewedSubmitted ==
    /\ accepted \subseteq cleared
    /\ \A j \in Jobs : job[j].st # "free" => job[j].rel \in cleared

(***************************************************************************)
(* A release that is queued, downloaded or failed was sent to a client     *)
(* that reported no error, unless admins set these states by hand: neither *)
(* a failed or killed send, nor a poll loop or a callback moves a release  *)
(* past APPROVED.  That the client has a job of the release is more than   *)
(* the code knows: it reads no more of qBittorrent's answer than the       *)
(* status.                                                                 *)
(***************************************************************************)
SentWasAccepted ==
    ManualTargets \cap SentState = {} =>
        \A r \in Releases : wf[r] \in SentState => r \in accepted

(***************************************************************************)
(* The inductive invariant behind them: a handler past its submission, and *)
(* a handler that saw a release in a sent state, is about a release that a *)
(* client has accepted.                                                    *)
(***************************************************************************)
SenderSound(k, S) ==
    /\ k.seen \in SentState => k.rel \in S
    /\ k.pc \in {"resolve", "store"} => k.rel \in S
    /\ k.pc = "commit" /\ k.target \in SentState => k.rel \in S
    /\ k.op = "poll" => k.todo \subseteq S

SendersSound ==
    ManualTargets \cap SentState = {} =>
        \A t \in Tasks : SenderSound(task[t], accepted)

SystemInv ==
    /\ StoreInv
    /\ DispatchTypeOK
    /\ OnlyReviewedSubmitted
    /\ SentWasAccepted
    /\ SendersSound

(***************************************************************************)
(* When qBittorrent is the one client, every call is answered with the     *)
(* torrent's hash and senders are not killed, a queued release does not    *)
(* stay queued forever.                                                    *)
(***************************************************************************)
QueuedSettles ==
    \A r \in Releases :
        wf[r] = "queued_for_download" ~> wf[r] # "queued_for_download"

=============================================================================
