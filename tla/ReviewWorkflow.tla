--------------------------- MODULE ReviewWorkflow ---------------------------
(***************************************************************************)
(* The life of a release up to its approval: discovery and analysis        *)
(* (process_and_store_release), the review endpoints (transition, approve, *)
(* override, delete and their bulk forms) and retention, as handlers of    *)
(* the releases table that interleave at every await.                      *)
(***************************************************************************)
EXTENDS ReleaseStore

CONSTANTS
    ManualTargets,  \* states admins ask POST /staging/transition for
    AnalysisFlags,  \* flag statuses the analysis may arrive at
    AutoApprove     \* some software has auto_approve_threshold > 0

ASSUME ReviewAssumption ==
    /\ ManualTargets \subseteq WorkflowState
    /\ AnalysisFlags \subseteq FlagStatus
    /\ AutoApprove \in BOOLEAN

-----------------------------------------------------------------------------
(* Requests for a checked transition.                                      *)

\* Variant with a bug: the target is not checked against the table.
BeginMoveUnchecked(t, op, r, target) ==
    /\ task[t].pc = "idle"
    /\ Present(r)
    /\ task' = [task EXCEPT ![t] = Loaded(t, op, r, "commit", target)]
    /\ UNCHANGED <<wf, trust, flag, cleared>>

\* transition_state loads the row and checks the target against it; the
\* commit is a later step.
BeginMove(t, op, r, target) ==
    /\ task[t].pc = "idle"
    /\ Present(r)
    /\ IF target \in ValidTransitions[wf[r]]
       THEN task' = [task EXCEPT ![t] = Loaded(t, op, r, "commit", target)]
       ELSE Refuse(t, op, r, target)
    /\ UNCHANGED <<wf, trust, flag, cleared>>

BeginTransition(t, r) ==
    \E target \in ManualTargets : BeginMove(t, "transition", r, target)

BeginApprove(t, r) == BeginMove(t, "approve", r, "approved")

\* approve_release: a second commit marks the release admin verified, and
\* the refresh after it reloads the row.  The scheduler's own approval
\* writes no audit entry.
CommitTrust(t) ==
    /\ task[t].pc = "trust"
    /\ task[t].op \in {"approve", "auto"}
    /\ IF Present(task[t].rel)
       THEN /\ trust' = [trust EXCEPT ![task[t].rel] = "admin_verified"]
            /\ IF task[t].op = "auto" THEN Finish(t) ELSE Goto(t, "audit")
       ELSE /\ UNCHANGED trust
            /\ Finish(t)
    /\ UNCHANGED <<wf, flag, cleared>>

-----------------------------------------------------------------------------
(* Override: no check against the table, one commit.                       *)

BeginOverride(t, r) ==
    /\ task[t].pc = "idle"
    /\ Present(r)
    /\ \E reason \in BOOLEAN :
          IF flag[r] \in {"restricted", "blocked"} /\ ~reason
          THEN Refuse(t, "override", r, "approved")
          ELSE task' = [task EXCEPT
                 ![t] = Loaded(t, "override", r, "override", "approved")]
    /\ UNCHANGED <<wf, trust, flag, cleared>>

\* Only the columns that differ from the loaded row are updated.
CommitOverride(t) ==
    LET r == task[t].rel IN
    /\ task[t].pc = "override"
    /\ IF Present(r)
       THEN /\ wf' = IF task[t].seen = "approved" THEN wf
                     ELSE [wf EXCEPT ![r] = "approved"]
            /\ trust' = IF task[t].seenTrust = "admin_verified" THEN trust
                        ELSE [trust EXCEPT ![r] = "admin_verified"]
            /\ cleared' = cleared \cup {r}
            /\ Goto(t, "audit")
       ELSE /\ UNCHANGED <<wf, trust, cleared>>
            /\ Finish(t)
    /\ UNCHANGED flag

-----------------------------------------------------------------------------
(* Deletion.                                                               *)

\* The rows of S that are still there go; deleting a missing row is no error.
RemoveRows(S) ==
    LET gone == {r \in S : Present(r)} IN
    /\ wf' = [r \in Releases |-> IF r \in gone THEN "deleted" ELSE wf[r]]
    /\ trust' = [r \in Releases |-> IF r \in gone THEN "unverified" ELSE trust[r]]
    /\ flag' = [r \in Releases |-> IF r \in gone THEN "none" ELSE flag[r]]

\* Variant with a bug: the row is not looked up before it is deleted.
BeginDeleteBlindly(t, r) ==
    /\ task[t].pc = "idle"
    /\ task' = [task EXCEPT ![t] = Loaded(t, "delete", r, "delete", "discovered")]
    /\ UNCHANGED <<wf, trust, flag, cleared>>

BeginDelete(t, r) ==
    /\ task[t].pc = "idle"
    /\ Present(r)
    /\ task' = [task EXCEPT ![t] = Loaded(t, "delete", r, "delete", "discovered")]
    /\ UNCHANGED <<wf, trust, flag, cleared>>

CommitDelete(t) ==
    /\ task[t].pc = "delete"
    /\ RemoveRows({task[t].rel})
    /\ Goto(t, "audit")
    /\ UNCHANGED cleared

\* Retention selects the rows in one state that are old enough, or beyond
\* the count of downloads to keep (age and order are left to the choice of
\* S), and deletes them by id in a later commit.
BeginSweep(t) ==
    /\ task[t].pc = "idle"
    /\ \E s \in {"discovered", "rejected", "downloaded"} :
       \E S \in SUBSET {r \in Releases : wf[r] = s} \ {{}} :
          task' = [task EXCEPT ![t] = [Idle EXCEPT
                     !.op = "retention", !.pc = "sweep", !.todo = S]]
    /\ UNCHANGED <<wf, trust, flag, cleared>>

CommitSweep(t) ==
    /\ task[t].pc = "sweep"
    /\ RemoveRows(task[t].todo)
    /\ Finish(t)
    /\ UNCHANGED cleared

-----------------------------------------------------------------------------
(* process_and_store_release: four commits on a row that is visible to     *)
(* everybody from the first.                                               *)

Discover(t, r) ==
    /\ task[t].pc = "idle"
    /\ wf[r] = "unborn"
    /\ wf' = [wf EXCEPT ![r] = "discovered"]
    /\ task' = [task EXCEPT ![t] =
                  [Idle EXCEPT !.op = "process", !.pc = "analyse", !.rel = r]]
    /\ UNCHANGED <<trust, flag, cleared>>

\* The analysis commits the flag and refreshes the row.  When it raises, the
\* flag is committed as "none" and the row refreshed as well; it may raise
\* after its commit, which the reset is then still to follow.
Analyse(t) ==
    LET r == task[t].rel IN
    /\ task[t].pc = "analyse"
    /\ IF Present(r)
       THEN \E f \in AnalysisFlags \cup {"none"} :
              /\ flag' = [flag EXCEPT ![r] = f]
              /\ \/ task' = [task EXCEPT
                               ![t] = Loaded(t, "process", r, "verdict", "rejected")]
                 \/ UNCHANGED task
       ELSE UNCHANGED flag /\ Finish(t)
    /\ UNCHANGED <<wf, trust, cleared>>

\* Variant with a bug: the verdict may be any trust status.
DetermineAnyTrust(t) ==
    /\ task[t].pc = "verdict"
    /\ Present(task[t].rel)
    /\ \E v \in TrustStatus : trust' = [trust EXCEPT ![task[t].rel] = v]
    /\ Goto(t, "rules")
    /\ UNCHANGED <<wf, flag, cleared>>

\* The trust verdict is written if it differs from the trust loaded by the
\* refresh; the update fails if the row is gone.
DetermineTrust(t) ==
    LET r == task[t].rel IN
    /\ task[t].pc = "verdict"
    /\ \E v \in {"unverified", "developer_verified"} :
          CASE v = task[t].seenTrust -> UNCHANGED trust /\ Goto(t, "rules")
            [] v # task[t].seenTrust /\ Present(r) ->
                  /\ trust' = [trust EXCEPT ![r] = v]
                  /\ Goto(t, "rules")
            [] OTHER -> UNCHANGED trust /\ Finish(t)
    /\ UNCHANGED <<wf, flag, cleared>>

\* Variant with a bug: the rules reject a release whatever its state is.
ApplyRulesAlways(t) ==
    /\ task[t].pc = "rules"
    /\ Goto(t, "commit") \/ Finish(t)
    /\ UNCHANGED <<wf, trust, flag, cleared>>

\* Version pin, auto-reject rules and type filter may reject the release;
\* the move is checked against the refreshed row, not the row of now, and a
\* refusal is only logged.  A release that was not rejected goes back to the
\* scheduler, which may approve it when its confidence meets the threshold.
ApplyRules(t) ==
    LET may == ValidTransitions[task[t].seen] IN
    /\ task[t].pc = "rules"
    /\ \/ /\ "rejected" \in may
          /\ Goto(t, "commit")
       \/ Finish(t)
       \/ /\ AutoApprove
          /\ "approved" \in may
          /\ task' = [task EXCEPT ![t].op = "auto", ![t].pc = "commit",
                                  ![t].target = "approved"]
    /\ UNCHANGED <<wf, trust, flag, cleared>>

-----------------------------------------------------------------------------

Review(t) ==
    \/ \E r \in Releases :
          \/ BeginTransition(t, r) \/ BeginApprove(t, r)
          \/ BeginOverride(t, r) \/ BeginDelete(t, r) \/ Discover(t, r)
    \/ BeginSweep(t)
    \/ CommitTrust(t) \/ CommitOverride(t) \/ CommitDelete(t) \/ CommitSweep(t)
    \/ Analyse(t) \/ DetermineTrust(t) \/ ApplyRules(t)

StoreStep(t) ==
    CommitState(t) \/ CommitFails(t) \/ Audit(t) \/ Return(t) \/ Crash(t)

ReviewNext == \E t \in Handlers : Review(t) \/ StoreStep(t)

ReviewSpec == StoreInit /\ [][ReviewNext]_storeVars

-----------------------------------------------------------------------------
(* Properties.                                                             *)

TypeOK == StoreTypeOK

(***************************************************************************)
(* "All actions go through explicit review and approval" (README): however *)
(* handlers interleave, act on stale rows or crash, a release that is      *)
(* approved, or in a state after it, has been under review or has been     *)
(* overridden by an admin.                                                 *)
(***************************************************************************)
ExplicitReview ==
    \A r \in Releases : wf[r] \in ClearedState => r \in cleared

(***************************************************************************)
(* A row says admin verified only if the release was once under review or  *)
(* was overridden: no interleaving of the two commits of approve_release   *)
(* with the pipeline's own trust commit invents an admin's verdict.        *)
(***************************************************************************)
AdminTrustIsEarned ==
    \A r \in Releases : trust[r] = "admin_verified" => r \in cleared

(***************************************************************************)
(* What VALID_TRANSITIONS guarantees when handlers race: a commit that     *)
(* moves a release follows the table from the state of now or from the     *)
(* state that the handler at work, and no other, had loaded, or it is that *)
(* handler's override.  No other path moves a release.                     *)
(***************************************************************************)
FollowsTable(r) ==
    \/ wf'[r] \in ValidTransitions[wf[r]]
    \/ \E t \in Tasks :
          /\ task'[t] # task[t] /\ task[t].rel = r
          /\ \/ task[t].pc = "commit" /\ wf'[r] \in ValidTransitions[task[t].seen]
             \/ task[t].pc = "override" /\ wf'[r] = "approved"

StepsFollowTable ==
    [][\A r \in Releases :
          (/\ wf[r] \in WorkflowState
           /\ wf'[r] \in WorkflowState
           /\ wf'[r] # wf[r]) => FollowsTable(r)]_storeVars

(***************************************************************************)
(* A deleted release stays deleted: a handler that still holds the row     *)
(* cannot write it back.                                                   *)
(***************************************************************************)
DeletedIsFinal ==
    [][\A r \in Releases : wf[r] = "deleted" => wf'[r] = "deleted"]_storeVars

(***************************************************************************)
(* The inductive invariant behind the properties above: what a handler may *)
(* still hold of a row that has changed since.  A task is sound when a     *)
(* state it saw that lies beyond review belongs to a cleared release, and  *)
(* when the move it is about to commit is one the table allowed from what  *)
(* it saw.                                                                 *)
(***************************************************************************)
Vetted == ClearedState \cup {"under_review"}

Sound(k, C) ==
    /\ k.seen \in Vetted => k.rel \in C
    /\ k.pc = "commit" => k.target \in ValidTransitions[k.seen]
    /\ k.pc = "commit" /\ k.op \in {"approve", "auto"} => k.target = "approved"
    /\ k.pc \in {"verdict", "rules"} => k.target = "rejected" /\ k.op = "process"
    /\ k.pc = "trust" => k.rel \in C
    /\ k.pc \in {"submit", "resolve", "store"} =>
          /\ k.op \in {"send", "grab"}
          /\ k.seen = "approved" /\ k.target = "queued_for_download"
    /\ k.pc = "poll" => k.op = "poll"
    /\ k.op = "poll" => k.todo \subseteq C

VettedRows == \A r \in Releases : wf[r] \in Vetted => r \in cleared
TasksSound == \A t \in Tasks : Sound(task[t], cleared)

StoreInv == TypeOK /\ VettedRows /\ AdminTrustIsEarned /\ TasksSound

\* The rows that handlers are about to move are as those handlers saw them.
RelyingPc == {"verdict", "rules", "commit"}

ViewsFresh ==
    \A t \in Tasks :
        (task[t].pc \in RelyingPc /\ Present(task[t].rel))
           => wf[task[t].rel] = task[t].seen

(***************************************************************************)
(* The table of releases implements the lifecycle that its transition      *)
(* table describes, except where a handler acts on a row that has changed  *)
(* since it was loaded: while no handler relies on a stale row, every step *)
(* is a step of the lifecycle.  With one handler at a time there are no    *)
(* stale rows, and all of the workflow implements the lifecycle.           *)
(***************************************************************************)
Lifecycle == INSTANCE ReleaseLifecycle WITH phase <- wf

FreshStepsFollowLifecycle == [][ViewsFresh => [Lifecycle!Next]_wf]_storeVars

ImplementsLifecycle == Lifecycle!Spec

-----------------------------------------------------------------------------
(* A claim of the tests that the code does not keep.                       *)

(***************************************************************************)
(* test_downloaded_is_terminal: apart from an override or a deletion,      *)
(* nothing moves a release out of DOWNLOADED.                              *)
(***************************************************************************)
DownloadedIsTerminal ==
    [][\A r \in Releases :
          wf[r] = "downloaded" =>
             \/ wf'[r] \in {"downloaded", "deleted"}
             \/ \E t \in Tasks : /\ task'[t] # task[t]
                                /\ task[t].pc = "override" /\ task[t].rel = r
      ]_storeVars

=============================================================================
