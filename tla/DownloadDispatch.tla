-------------------------- MODULE DownloadDispatch --------------------------
(***************************************************************************)
(* From approval to download: ActionService hands a release to SABnzbd or  *)
(* qBittorrent and stores the job id, the webhook and the qBittorrent poll *)
(* loop report the outcome.  The download clients are external; they are   *)
(* modelled from what the integrations send them and read back.            *)
(***************************************************************************)
EXTENDS ReleaseStore

CONSTANTS
    Jobs,           \* job ids the clients can hand out: the bound on sends
    NoJob,          \* Release.download_client_id is NULL
    Clients,        \* the clients that are configured
    ClientFaults,   \* what the clients' answers may be, see SubmitFault
    NameHit         \* NameHit[r]: releases whose name contains r's job name

SubmitFault == {"no_id", "ignored", "error", "timeout"}

ASSUME DispatchAssumption ==
    /\ Clients \subseteq {"sabnzbd", "qbittorrent"}
    /\ Clients # {}
    /\ ClientFaults \subseteq SubmitFault
    /\ NameHit \in [Releases -> SUBSET Releases]
    /\ NoJob \notin Jobs

VARIABLES
    clientId,   \* Release.download_client_id
    active,     \* active_download_client in softarr.ini
    sub,        \* what a sender or a poll loop holds besides its task
    job,        \* the jobs of the clients
    accepted,   \* history: releases whose submission a client answered
                \* without an error
    hooks       \* completion callbacks under way

dispatchVars == <<clientId, active, sub, job, accepted, hooks>>

Via == {"none", "sabnzbd", "nzb", "qbittorrent"}
JobId == Jobs \cup {NoJob}

Job == [rel : Releases \cup {NoRelease},
        kind : {"none", "sabnzbd", "qbittorrent"},
        st : {"free", "fresh", "running", "completed", "failed", "removed"}]

\* via: the endpoint's client; job: the id the client reported; ids: the
\* job ids the poll loop loaded with its releases.
Sub == [via : Via, job : JobId, ids : [Releases -> JobId]]

IdleSub == [via |-> "none", job |-> NoJob, ids |-> [r \in Releases |-> NoJob]]

Hook == [job : Jobs, ok : BOOLEAN]

DispatchTypeOK ==
    /\ clientId \in [Releases -> JobId]
    /\ active \in Clients
    /\ sub \in [Tasks -> Sub]
    /\ job \in [Jobs -> Job]
    /\ accepted \subseteq Releases
    /\ hooks \subseteq Hook

DispatchInit ==
    /\ clientId = [r \in Releases |-> NoJob]
    /\ active \in Clients
    /\ sub = [t \in Tasks |-> IdleSub]
    /\ job = [j \in Jobs |-> [rel |-> NoRelease, kind |-> "none", st |-> "free"]]
    /\ accepted = {}
    /\ hooks = {}

\* A handler that became idle holds nothing.
Release(t) ==
    sub' = IF task'[t].pc = "idle" THEN [sub EXCEPT ![t] = IdleSub] ELSE sub

-----------------------------------------------------------------------------
(* Sending.                                                                *)

\* Variant with a bug: any release may be sent.
BeginSendUnapproved(t, r) ==
    /\ task[t].pc = "idle"
    /\ Present(r)
    /\ \E via \in Clients :
          /\ task' = [task EXCEPT
                 ![t] = Loaded(t, "send", r, "submit", "queued_for_download")]
          /\ sub' = [sub EXCEPT ![t].via = via]
    /\ UNCHANGED <<wf, trust, flag, cleared, clientId, active, job, accepted, hooks>>

\* The endpoints send a URL or an NZB file to SABnzbd, or a URL to
\* qBittorrent; the release must be approved when it is loaded.
BeginSend(t, r) ==
    /\ task[t].pc = "idle"
    /\ Present(r)
    /\ \E via \in Clients \cup (IF "sabnzbd" \in Clients THEN {"nzb"} ELSE {}) :
          IF wf[r] = "approved"
          THEN /\ task' = [task EXCEPT
                     ![t] = Loaded(t, "send", r, "submit", "queued_for_download")]
               /\ sub' = [sub EXCEPT ![t].via = via]
          ELSE /\ Refuse(t, "send", r, "queued_for_download")
               /\ UNCHANGED sub
    /\ UNCHANGED <<wf, trust, flag, cleared, clientId, active, job, accepted, hooks>>

\* Variant with a bug: grab approves whatever is not approved yet.
BeginGrabAnything(t, r) ==
    /\ task[t].pc = "idle"
    /\ Present(r)
    /\ task' = [task EXCEPT ![t] =
          IF wf[r] = "approved"
          THEN Loaded(t, "grab", r, "submit", "queued_for_download")
          ELSE Loaded(t, "grab", r, "commit", "approved")]
    /\ UNCHANGED <<wf, trust, flag, cleared, dispatchVars>>

\* grab: approve first unless approved, then send to the active client.
BeginGrab(t, r) ==
    /\ task[t].pc = "idle"
    /\ Present(r)
    /\ CASE wf[r] = "approved" ->
              task' = [task EXCEPT
                 ![t] = Loaded(t, "grab", r, "submit", "queued_for_download")]
         [] "approved" \in ValidTransitions[wf[r]] ->
              task' = [task EXCEPT ![t] = Loaded(t, "grab", r, "commit", "approved")]
         [] OTHER -> Refuse(t, "grab", r, "approved")
    /\ UNCHANGED <<wf, trust, flag, cleared, dispatchVars>>

\* The second commit of the approval; the send that follows checks the row
\* as refreshed by it.
GrabTrust(t) ==
    LET r == task[t].rel IN
    /\ task[t].pc = "trust"
    /\ task[t].op = "grab"
    /\ CASE ~Present(r) -> UNCHANGED trust /\ Finish(t)
         [] Present(r) /\ wf[r] = "approved" ->
              /\ trust' = [trust EXCEPT ![r] = "admin_verified"]
              /\ task' = [task EXCEPT
                    ![t] = Loaded(t, "grab", r, "submit", "queued_for_download")]
         [] OTHER ->
              /\ trust' = [trust EXCEPT ![r] = "admin_verified"]
              /\ Refuse(t, "grab", r, "queued_for_download")
    /\ UNCHANGED <<wf, flag, cleared, dispatchVars>>

\* Which client a sender talks to; grab reads the setting at this moment.
SendsVia(t) == IF task[t].op = "grab" THEN active ELSE sub[t].via

Kind(via) == IF via = "nzb" THEN "sabnzbd" ELSE via

\* The client takes a new job j for the release of t.
NewJob(t, j) ==
    /\ job[j].st = "free"
    /\ job' = [job EXCEPT ![j] = [
                        rel |-> task[t].rel,
                        kind |-> Kind(SendsVia(t)),
                        st |-> IF SendsVia(t) = "qbittorrent" THEN "fresh" ELSE "running"]]

Accepted(t) == accepted' = accepted \cup {task[t].rel}

\* SABnzbd answers with the new job's id, which the URL endpoint keeps if it
\* is where that looks for it and the NZB endpoint drops, or has taken no job.
SubmitToSab(t) ==
    /\ task[t].pc = "submit"
    /\ Kind(SendsVia(t)) = "sabnzbd"
    /\ \/ \E j \in Jobs :
             /\ NewJob(t, j)
             /\ \/ /\ SendsVia(t) = "sabnzbd"
                   /\ sub' = [sub EXCEPT ![t].job = j]
                   /\ Goto(t, "store")
                \/ /\ SendsVia(t) = "nzb" \/ "no_id" \in ClientFaults
                   /\ UNCHANGED sub
                   /\ Goto(t, "commit")
       \/ /\ "ignored" \in ClientFaults
          /\ UNCHANGED <<job, sub>>
          /\ Goto(t, "commit")
    /\ Accepted(t)
    /\ UNCHANGED <<wf, trust, flag, cleared, clientId, active, hooks>>

\* qBittorrent takes the torrent, or keeps the one it has of the release, or
\* has nothing for it: it refuses in the body of its answer, which nobody
\* reads, never fetches the URL, or has the torrent from elsewhere.  It names
\* no job in any case: the hash is looked up afterwards.
SubmitToQbt(t) ==
    /\ task[t].pc = "submit"
    /\ SendsVia(t) = "qbittorrent"
    /\ \/ \E j \in Jobs : NewJob(t, j)
       \/ /\ \/ "ignored" \in ClientFaults
             \/ \E j \in Jobs : /\ job[j].rel = task[t].rel
                                /\ job[j].kind = "qbittorrent"
                                /\ job[j].st # "removed"
          /\ UNCHANGED job
    /\ Accepted(t)
    /\ Goto(t, "resolve")
    /\ UNCHANGED <<wf, trust, flag, cleared, clientId, active, sub, hooks>>

\* Variant with a bug: a failed submission is queued all the same.
SubmitFailsQueued(t) ==
    /\ task[t].pc = "submit"
    /\ "error" \in ClientFaults
    /\ Goto(t, "commit")
    /\ UNCHANGED <<wf, trust, flag, cleared, dispatchVars>>

\* The call fails, or the hash lookup after it; on a timeout the job exists
\* all the same.  The failure is audited and reported.
SubmitFails(t) ==
    /\ \/ /\ task[t].pc \in {"submit", "resolve"}
          /\ "error" \in ClientFaults
          /\ UNCHANGED job
       \/ /\ task[t].pc = "submit"
          /\ "timeout" \in ClientFaults
          /\ \E j \in Jobs : NewJob(t, j)
    /\ Finish(t)
    /\ Release(t)
    /\ UNCHANGED <<wf, trust, flag, cleared, clientId, active, accepted, hooks>>

\* _get_hash_after_add looks half a second later for torrents added since
\* the call began.  Its own may not be listed yet, those of concurrent calls
\* may be.  A torrent with the release's job name in its name is preferred.
Resolve(t) ==
    LET r == task[t].rel
        recent == {j \in Jobs : job[j].kind = "qbittorrent" /\ job[j].st = "fresh"}
        named(j) == job[j].rel = r \/ job[j].rel \in NameHit[r]
    IN
    /\ task[t].pc = "resolve"
    /\ \E C \in SUBSET recent :
       /\ \A j \in recent \ C : "no_id" \in ClientFaults \/ job[j].rel # r
       /\ \/ /\ C = {}
             /\ Goto(t, "commit")
             /\ UNCHANGED sub
          \/ \E j \in C :
             /\ (\E k \in C : named(k)) => named(j)
             /\ sub' = [sub EXCEPT ![t].job = j]
             /\ Goto(t, "store")
    /\ UNCHANGED <<wf, trust, flag, cleared, clientId, active, job, accepted, hooks>>

\* The reported id is written in a commit of its own; then the transition to
\* QUEUED_FOR_DOWNLOAD is checked against the row loaded before the send.
StoreId(t) ==
    LET r == task[t].rel IN
    /\ task[t].pc = "store"
    /\ clientId' = IF Present(r) THEN [clientId EXCEPT ![r] = sub[t].job] ELSE clientId
    /\ Goto(t, "commit")
    /\ UNCHANGED <<wf, trust, flag, cleared, active, sub, job, accepted, hooks>>

-----------------------------------------------------------------------------
(* The download clients and the setting that selects one.                  *)

JobMoves(j, from, to) ==
    /\ job[j].st \in from
    /\ job' = [job EXCEPT ![j].st = to]
    /\ UNCHANGED <<storeVars, clientId, active, sub, accepted>>

\* The job is older than a hash lookup reaches back; the lookup of the call
\* that added the job reaches back to before it.
AgeJob(j) ==
    /\ \A t \in Tasks : task[t].pc = "resolve" => task[t].rel # job[j].rel
    /\ JobMoves(j, {"fresh"}, "running")
    /\ UNCHANGED hooks

FinishJob(j) ==
    \E ok \in BOOLEAN :
       /\ JobMoves(j, {"running"}, IF ok THEN "completed" ELSE "failed")
       /\ hooks' = hooks \cup {[job |-> j, ok |-> ok]}

RemoveJob(j) ==
    JobMoves(j, {"running", "completed", "failed"}, "removed") /\ UNCHANGED hooks

SetActiveClient ==
    /\ active' \in Clients \ {active}
    /\ UNCHANGED <<storeVars, clientId, sub, job, accepted, hooks>>

LoseHook ==
    /\ \E m \in hooks : hooks' = hooks \ {m}
    /\ UNCHANGED <<storeVars, clientId, active, sub, job, accepted>>

-----------------------------------------------------------------------------
(* Completion.                                                             *)

\* The releases a callback may be matched to: by the release id the script
\* may send, else by the stored job id, else (SABnzbd) by a queued release
\* whose name contains the job name.  Two rows with the job id are an error.
HookMatches(m) ==
    LET byJob == {r \in Releases : Present(r) /\ clientId[r] = m.job}
        byName == {r \in Releases : /\ r \in NameHit[job[m.job].rel]
                                    /\ wf[r] = "queued_for_download"}
    IN  {r \in {job[m.job].rel} : Present(r)}
        \cup (IF byJob # {} THEN {r \in byJob : byJob = {r}}
              ELSE IF job[m.job].kind = "sabnzbd" THEN byName ELSE {})

\* Variant with a bug: the state of the matched release is not looked at.
ReceiveHookAnyState(t) ==
    /\ task[t].pc = "idle"
    /\ \E m \in hooks : \E r \in HookMatches(m) :
          task' = [task EXCEPT ![t] = Loaded(t, "hook", r, "commit",
                     IF m.ok THEN "downloaded" ELSE "download_failed")]
    /\ UNCHANGED <<wf, trust, flag, cleared, dispatchVars>>

\* A callback that matches a queued release goes on to its transition; the
\* client may repeat the callback.
ReceiveHook(t) ==
    /\ task[t].pc = "idle"
    /\ \E m \in hooks :
       /\ \E r \in HookMatches(m) :
             /\ wf[r] = "queued_for_download"
             /\ task' = [task EXCEPT ![t] = Loaded(t, "hook", r, "commit",
                           IF m.ok THEN "downloaded" ELSE "download_failed")]
       /\ hooks' \in {hooks, hooks \ {m}}
    /\ UNCHANGED <<wf, trust, flag, cleared, clientId, active, sub, job, accepted>>

\* One tick of the poll loop loads the queued releases with a torrent hash.
PollLoads(r) ==
    /\ wf[r] = "queued_for_download"
    /\ clientId[r] # NoJob
    /\ job[clientId[r]].kind = "qbittorrent"

BeginPoll(t) ==
    LET Q == {r \in Releases : PollLoads(r)} IN
    /\ task[t].pc = "idle"
    /\ active = "qbittorrent"
    /\ Q # {}
    /\ task' = [task EXCEPT ![t] = [Idle EXCEPT
                  !.op = "poll", !.pc = "poll", !.todo = Q]]
    /\ sub' = [sub EXCEPT ![t].ids =
                  [r \in Releases |-> IF r \in Q THEN clientId[r] ELSE NoJob]]
    /\ UNCHANGED <<wf, trust, flag, cleared, clientId, active, job, accepted, hooks>>

\* It asks the client about each, and moves those whose torrent is done (a
\* torrent the client no longer has counts as done) or failed.
PollVerdict(j) ==
    IF job[j].st = "failed" THEN "download_failed" ELSE "downloaded"

\* Variant with a bug: a torrent the client no longer has settles nothing.
PollSettlesListed(t, r) ==
    /\ task[t].pc = "poll"
    /\ r \in task[t].todo
    /\ job[sub[t].ids[r]].st \in {"completed", "failed"}
    /\ task' = [task EXCEPT ![t] = [Idle EXCEPT
                  !.op = "poll", !.pc = "commit", !.rel = r,
                  !.target = PollVerdict(sub[t].ids[r]),
                  !.seen = "queued_for_download",
                  !.todo = task[t].todo \ {r}]]
    /\ UNCHANGED <<wf, trust, flag, cleared, dispatchVars>>

PollSettles(t, r) ==
    /\ task[t].pc = "poll"
    /\ r \in task[t].todo
    /\ job[sub[t].ids[r]].st \in {"completed", "removed", "failed"}
    /\ task' = [task EXCEPT ![t] = [Idle EXCEPT
                  !.op = "poll", !.pc = "commit", !.rel = r,
                  !.target = PollVerdict(sub[t].ids[r]),
                  !.seen = "queued_for_download",
                  !.todo = task[t].todo \ {r}]]
    /\ UNCHANGED <<wf, trust, flag, cleared, dispatchVars>>

\* A torrent still in progress, or a failed query, is left for a later tick.
PollSkips(t, r) ==
    /\ task[t].pc = "poll"
    /\ r \in task[t].todo
    /\ \/ job[sub[t].ids[r]].st \in {"fresh", "running"}
       \/ "error" \in ClientFaults
    /\ task' = [task EXCEPT ![t].todo = @ \ {r}]
    /\ UNCHANGED <<wf, trust, flag, cleared, dispatchVars>>

EndPoll(t) ==
    /\ task[t].pc = "poll"
    /\ task[t].todo = {}
    /\ Finish(t)
    /\ Release(t)
    /\ UNCHANGED <<wf, trust, flag, cleared, clientId, active, job, accepted, hooks>>

-----------------------------------------------------------------------------

Send(t) ==
    \/ \E r \in Releases : BeginSend(t, r) \/ BeginGrab(t, r)
    \/ GrabTrust(t) \/ SubmitToSab(t) \/ SubmitToQbt(t) \/ SubmitFails(t)
    \/ Resolve(t) \/ StoreId(t) \/ ReceiveHook(t)

Poll(t) ==
    \/ BeginPoll(t) \/ EndPoll(t)
    \/ \E r \in Releases : PollSettles(t, r) \/ PollSkips(t, r)

Client ==
    \/ \E j \in Jobs : AgeJob(j) \/ FinishJob(j) \/ RemoveJob(j)
    \/ SetActiveClient \/ LoseHook

=============================================================================
