---------------------------- MODULE ReleaseStore ----------------------------
(***************************************************************************)
(* The releases table and the handlers at work on it.                      *)
(*                                                                         *)
(* A handler (an HTTP request, a webhook, a background loop) owns one      *)
(* database session.  The session is created with expire_on_commit=False,  *)
(* so the row a handler loaded keeps the column values of that load until  *)
(* the handler refreshes it, whatever other sessions commit meanwhile.     *)
(* task[t].seen and task[t].seenTrust are those loaded values.  There is   *)
(* no version column: a commit updates the changed columns of the row with *)
(* that id, whatever they hold now, and fails only if the row is gone.     *)
(***************************************************************************)
EXTENDS ReleaseStates

CONSTANTS
    Releases,       \* release ids
    Handlers,       \* request handlers and background jobs at work at once
    Pollers,        \* qBittorrent poll loops, one per server process
    NoRelease       \* "this handler is about no release"

ASSUME HandlersAssumption ==
    /\ Handlers \cap Pollers = {}
    /\ NoRelease \notin Releases

VARIABLES
    wf,         \* Release.workflow_state, or "unborn" / "deleted": no such row
    trust,      \* Release.trust_status
    flag,       \* Release.flag_status
    cleared,    \* history: releases that were under review or overridden
    task        \* what each handler is doing

storeVars == <<wf, trust, flag, cleared, task>>

Tasks == Handlers \cup Pollers

RowState == WorkflowState \cup {"unborn", "deleted"}

Op == {"none", "transition", "approve", "override", "delete", "retention",
       "process", "auto", "send", "grab", "hook", "poll"}

\* Where a handler is suspended: the database or network call it is about
\* to make.
Pc == {"idle", "refused", "commit", "trust", "audit", "override", "delete",
       "sweep", "analyse", "verdict", "rules", "submit", "resolve", "store",
       "poll"}

Task == [op : Op, pc : Pc, rel : Releases \cup {NoRelease},
         target : WorkflowState, seen : WorkflowState,
         seenTrust : TrustStatus, todo : SUBSET Releases]

Idle == [op |-> "none", pc |-> "idle", rel |-> NoRelease,
         target |-> "discovered", seen |-> "discovered",
         seenTrust |-> "unverified", todo |-> {}]

StoreTypeOK ==
    /\ wf \in [Releases -> RowState]
    /\ trust \in [Releases -> TrustStatus]
    /\ flag \in [Releases -> FlagStatus]
    /\ cleared \subseteq Releases
    /\ task \in [Tasks -> Task]

StoreInit ==
    /\ wf = [r \in Releases |-> "unborn"]
    /\ trust = [r \in Releases |-> "unverified"]
    /\ flag = [r \in Releases |-> "none"]
    /\ cleared = {}
    /\ task = [t \in Tasks |-> Idle]

Present(r) == r \in Releases /\ wf[r] \in WorkflowState

\* The session of t loads row r for operation op, which will go on at pc.
Loaded(t, op, r, pc, target) ==
    [Idle EXCEPT !.op = op, !.pc = pc, !.rel = r, !.target = target,
                 !.seen = wf[r], !.seenTrust = trust[r]]

Goto(t, pc) == task' = [task EXCEPT ![t].pc = pc]

Finish(t) == task' = [task EXCEPT ![t] = Idle]

\* The handler answers with an error: the state it loaded does not allow
\* what was asked.
Refuse(t, op, r, target) ==
    task' = [task EXCEPT ![t] = Loaded(t, op, r, "refused", target)]

\* Where a handler goes on after the commit of its move.
AfterCommit(t) ==
    CASE task[t].op \in {"approve", "auto"}             -> "trust"
      [] task[t].op = "grab" /\ task[t].target = "approved" -> "trust"
      [] OTHER                                          -> "audit"

\* Variant with a bug, for the model checker: a commit that writes the row
\* back when it is gone.
CommitStateUpserts(t) ==
    /\ task[t].pc = "commit"
    /\ wf' = [wf EXCEPT ![task[t].rel] = task[t].target]
    /\ cleared' = IF task[t].target = "under_review"
                  THEN cleared \cup {task[t].rel} ELSE cleared
    /\ IF task[t].op = "process" THEN Finish(t) ELSE Goto(t, AfterCommit(t))
    /\ UNCHANGED <<trust, flag>>

(***************************************************************************)
(* The commit of transition_state: the target was checked against the      *)
(* state loaded earlier, and is written over the state of now.  If the row *)
(* was deleted meanwhile, the update matches nothing and the operation     *)
(* fails; the poll loop may carry on with its next release.                *)
(***************************************************************************)
CommitState(t) ==
    /\ task[t].pc = "commit"
    /\ Present(task[t].rel)
    /\ wf' = [wf EXCEPT ![task[t].rel] = task[t].target]
    /\ cleared' = IF task[t].target = "under_review"
                  THEN cleared \cup {task[t].rel} ELSE cleared
    /\ IF task[t].op = "process" THEN Finish(t) ELSE Goto(t, AfterCommit(t))
    /\ UNCHANGED <<trust, flag>>

CommitFails(t) ==
    /\ task[t].pc = "commit"
    /\ ~Present(task[t].rel)
    /\ \/ Finish(t)
       \/ task[t].op = "poll" /\ Goto(t, "poll")
    /\ UNCHANGED <<wf, trust, flag, cleared>>

\* The audit entry is inserted, in a commit of its own.
Audit(t) ==
    /\ task[t].pc = "audit"
    /\ IF task[t].op = "poll" THEN Goto(t, "poll") ELSE Finish(t)
    /\ UNCHANGED <<wf, trust, flag, cleared>>

\* A refused request is answered.
Return(t) ==
    /\ task[t].pc = "refused"
    /\ Finish(t)
    /\ UNCHANGED <<wf, trust, flag, cleared>>

\* The server process is killed, or the request cancelled, between two
\* commits.
Crash(t) ==
    /\ task[t].pc # "idle"
    /\ Finish(t)
    /\ UNCHANGED <<wf, trust, flag, cleared>>

=============================================================================
