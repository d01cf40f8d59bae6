---------------------------- MODULE ReviewProofs ----------------------------
(***************************************************************************)
(* Proofs about ReviewWorkflow for any releases and any number of          *)
(* handlers.  The lemmas about one action speak of any task, so that the   *)
(* proofs about the whole system can cite them too.                        *)
(***************************************************************************)
EXTENDS ReviewWorkflow, TLAPS

-----------------------------------------------------------------------------
(* The transition table.                                                   *)

\* A legal move ends in a workflow state, and a state beyond review is
\* reached only from a state that is vetted.
LEMMA TableFacts ==
    ASSUME NEW s \in WorkflowState
    PROVE  /\ ValidTransitions[s] \subseteq WorkflowState
           /\ \A u \in ValidTransitions[s] : u \in ClearedState => s \in Vetted
BY SMTT(30) DEF ValidTransitions, WorkflowState, ClearedState, Vetted

-----------------------------------------------------------------------------
(* One task at a time.                                                     *)

\* A sound task stays sound when more releases are cleared.
LEMMA SoundMonotone ==
    ASSUME NEW k, NEW C, NEW D, Sound(k, C), C \subseteq D
    PROVE  Sound(k, D)
BY DEF Sound

\* What an action has to show when it gives task t the new value k.
LEMMA TaskStep ==
    ASSUME StoreInv, NEW t \in Tasks, NEW k \in Task,
           task' = [task EXCEPT ![t] = k],
           cleared \subseteq cleared', Sound(k, cleared')
    PROVE  task' \in [Tasks -> Task] /\ TasksSound'
<1>1. task \in [Tasks -> Task] /\ TasksSound
  BY DEF StoreInv, TypeOK, StoreTypeOK
<1>2. task' \in [Tasks -> Task]
  BY <1>1
<1>3. ASSUME NEW u \in Tasks PROVE Sound(task'[u], cleared')
  <2>1. CASE u = t
    BY <2>1, <1>1
  <2>2. CASE u # t
    BY <2>2, <1>1, SoundMonotone DEF TasksSound
  <2> QED BY <2>1, <2>2
<1> QED BY <1>2, <1>3 DEF TasksSound

\* The value a handler takes when it goes on at pc.
LEMMA GotoStep ==
    ASSUME StoreInv, NEW t \in Tasks, NEW pc \in Pc, Goto(t, pc)
    PROVE  /\ [task[t] EXCEPT !.pc = pc] \in Task
           /\ task' = [task EXCEPT ![t] = [task[t] EXCEPT !.pc = pc]]
BY DEF StoreInv, TypeOK, StoreTypeOK, Goto, Task

\* An idle task is sound.
LEMMA IdleSound ==
    ASSUME NEW C
    PROVE  Idle \in Task /\ Sound(Idle, C)
BY DEF Idle, Task, Op, Pc, WorkflowState, TrustStatus, Sound, Vetted, ClearedState

\* A handler that finishes keeps the invariant, if the rows do.
LEMMA FinishStep ==
    ASSUME StoreInv, NEW t \in Tasks, Finish(t), cleared \subseteq cleared'
    PROVE  task' \in [Tasks -> Task] /\ TasksSound'
BY IdleSound, TaskStep DEF Finish

\* Loading a present row makes a sound task, if it makes a legal one.
LEMMA LoadSound ==
    ASSUME StoreInv, NEW t \in Tasks, NEW r \in Releases, Present(r),
           NEW op \in Op \ {"poll"}, NEW pc \in Pc \ {"trust", "poll"}, NEW target \in WorkflowState,
           pc = "commit" => target \in ValidTransitions[wf[r]],
           pc = "commit" /\ op \in {"approve", "auto"} => target = "approved",
           pc \in {"verdict", "rules"} => target = "rejected" /\ op = "process",
           pc \in {"submit", "resolve", "store"} =>
               /\ op \in {"send", "grab"}
               /\ wf[r] = "approved" /\ target = "queued_for_download"
    PROVE  /\ Loaded(t, op, r, pc, target) \in Task
           /\ Sound(Loaded(t, op, r, pc, target), cleared)
<1> DEFINE k == Loaded(t, op, r, pc, target)
<1>1. wf[r] \in WorkflowState /\ trust[r] \in TrustStatus
  BY DEF StoreInv, TypeOK, StoreTypeOK, Present
<1>2. /\ k \in Task
      /\ k.op = op /\ k.pc = pc /\ k.rel = r /\ k.target = target
      /\ k.seen = wf[r]
  BY <1>1 DEF Loaded, Idle, Task
<1>3. wf[r] \in Vetted => r \in cleared
  BY DEF StoreInv, VettedRows
<1> HIDE DEF k
<1> QED
  BY <1>2, <1>3 DEF Sound, k

\* A refused handler is sound.
LEMMA RefuseStep ==
    ASSUME StoreInv, NEW t \in Tasks, NEW r \in Releases, Present(r),
           NEW op \in Op \ {"poll"}, NEW target \in WorkflowState,
           Refuse(t, op, r, target), cleared' = cleared
    PROVE  task' \in [Tasks -> Task] /\ TasksSound'
<1>1. "refused" \in Pc \ {"trust", "poll"}
  BY DEF Pc
<1>2. /\ Loaded(t, op, r, "refused", target) \in Task
      /\ Sound(Loaded(t, op, r, "refused", target), cleared')
  BY <1>1, LoadSound
<1> QED BY <1>2, TaskStep DEF Refuse

\* An action that leaves the rows alone has only its task to account for.
LEMMA RowsStep ==
    ASSUME StoreInv, UNCHANGED <<wf, trust, flag, cleared>>,
           task' \in [Tasks -> Task], TasksSound'
    PROVE  StoreInv'
BY DEF StoreInv, TypeOK, StoreTypeOK, VettedRows, AdminTrustIsEarned

-----------------------------------------------------------------------------
(* The actions of the review.                                              *)

LEMMA BeginMoveInv ==
    ASSUME StoreInv, NEW t \in Tasks, NEW r \in Releases,
           NEW op \in {"transition", "approve"}, NEW target \in WorkflowState,
           op = "approve" => target = "approved",
           BeginMove(t, op, r, target)
    PROVE  StoreInv'
<1>1. Present(r) /\ UNCHANGED <<wf, trust, flag, cleared>>
  BY DEF BeginMove
<1>2. op \in Op \ {"poll"} /\ "commit" \in Pc \ {"trust", "poll"}
  BY DEF Op, Pc
<1>3. CASE target \in ValidTransitions[wf[r]]
  <2>1. task' = [task EXCEPT ![t] = Loaded(t, op, r, "commit", target)]
    BY <1>3 DEF BeginMove
  <2>2. /\ Loaded(t, op, r, "commit", target) \in Task
        /\ Sound(Loaded(t, op, r, "commit", target), cleared')
    BY <1>1, <1>2, <1>3, LoadSound
  <2> QED BY <1>1, <2>1, <2>2, TaskStep, RowsStep
<1>4. CASE target \notin ValidTransitions[wf[r]]
  <2>1. Refuse(t, op, r, target)
    BY <1>4 DEF BeginMove
  <2> QED BY <1>1, <1>2, <2>1, RefuseStep, RowsStep
<1> QED BY <1>3, <1>4

LEMMA BeginTransitionInv ==
    ASSUME StoreInv, NEW t \in Tasks, NEW r \in Releases, BeginTransition(t, r)
    PROVE  StoreInv'
BY BeginMoveInv, ReviewAssumption DEF BeginTransition

LEMMA BeginApproveInv ==
    ASSUME StoreInv, NEW t \in Tasks, NEW r \in Releases, BeginApprove(t, r)
    PROVE  StoreInv'
BY BeginMoveInv DEF BeginApprove, WorkflowState

LEMMA CommitTrustInv ==
    ASSUME StoreInv, NEW t \in Tasks, CommitTrust(t)
    PROVE  StoreInv'
<1> DEFINE r == task[t].rel
<1>1. /\ task[t] \in Task /\ Sound(task[t], cleared) /\ task[t].pc = "trust"
      /\ UNCHANGED <<wf, flag, cleared>>
  BY DEF CommitTrust, StoreInv, TypeOK, StoreTypeOK, TasksSound
<1>2. r \in cleared
  BY <1>1 DEF Sound
<1>3. task' \in [Tasks -> Task] /\ TasksSound'
  <2>1. Finish(t) \/ Goto(t, "audit")
    BY DEF CommitTrust
  <2>2. CASE Finish(t)
    BY <1>1, <2>2, FinishStep
  <2>3. CASE Goto(t, "audit")
    <3>1. "audit" \in Pc BY DEF Pc
    <3>2. /\ [task[t] EXCEPT !.pc = "audit"] \in Task
          /\ task' = [task EXCEPT ![t] = [task[t] EXCEPT !.pc = "audit"]]
      BY <2>3, <3>1, GotoStep
    <3>3. Sound([task[t] EXCEPT !.pc = "audit"], cleared')
      BY <1>1 DEF Sound, Task
    <3> QED BY <1>1, <3>2, <3>3, TaskStep
  <2> QED BY <2>1, <2>2, <2>3
<1>4. trust' \in [Releases -> TrustStatus] /\ AdminTrustIsEarned'
  BY <1>1, <1>2 DEF CommitTrust, StoreInv, TypeOK, StoreTypeOK, TrustStatus,
                    AdminTrustIsEarned
<1> QED
  BY <1>1, <1>3, <1>4 DEF StoreInv, TypeOK, StoreTypeOK, VettedRows

LEMMA BeginOverrideInv ==
    ASSUME StoreInv, NEW t \in Tasks, NEW r \in Releases, BeginOverride(t, r)
    PROVE  StoreInv'
<1>1. Present(r) /\ UNCHANGED <<wf, trust, flag, cleared>>
  BY DEF BeginOverride
<1>2. /\ "override" \in Op \ {"poll"} /\ "override" \in Pc \ {"trust", "poll"}
      /\ "approved" \in WorkflowState
  BY DEF Op, Pc, WorkflowState
<1>3. /\ Loaded(t, "override", r, "override", "approved") \in Task
      /\ Sound(Loaded(t, "override", r, "override", "approved"), cleared')
  BY <1>1, <1>2, LoadSound
<1>4. \/ Refuse(t, "override", r, "approved")
      \/ task' = [task EXCEPT ![t] = Loaded(t, "override", r, "override", "approved")]
  BY DEF BeginOverride
<1>5. task' \in [Tasks -> Task] /\ TasksSound'
  BY <1>1, <1>2, <1>3, <1>4, RefuseStep, TaskStep
<1> QED BY <1>1, <1>5, RowsStep

LEMMA CommitOverrideInv ==
    ASSUME StoreInv, NEW t \in Tasks, CommitOverride(t)
    PROVE  StoreInv'
<1> DEFINE r == task[t].rel
<1>1. /\ task[t] \in Task /\ Sound(task[t], cleared) /\ task[t].pc = "override"
      /\ flag' = flag
  BY DEF CommitOverride, StoreInv, TypeOK, StoreTypeOK, TasksSound
<1>2. CASE ~Present(r)
  BY <1>1, <1>2, FinishStep, RowsStep DEF CommitOverride
<1>3. CASE Present(r)
  <2>1. /\ r \in Releases /\ Goto(t, "audit") /\ cleared' = cleared \cup {r}
        /\ wf' \in {wf, [wf EXCEPT ![r] = "approved"]}
        /\ trust' \in {trust, [trust EXCEPT ![r] = "admin_verified"]}
    BY <1>3 DEF CommitOverride, Present
  <2>2. task' \in [Tasks -> Task] /\ TasksSound'
    <3>1. "audit" \in Pc BY DEF Pc
    <3>2. /\ [task[t] EXCEPT !.pc = "audit"] \in Task
          /\ task' = [task EXCEPT ![t] = [task[t] EXCEPT !.pc = "audit"]]
      BY <2>1, <3>1, GotoStep
    <3>3. Sound([task[t] EXCEPT !.pc = "audit"], cleared')
      BY <1>1, <2>1 DEF Sound, Task
    <3> QED BY <2>1, <3>2, <3>3, TaskStep
  <2>3. /\ wf' \in [Releases -> RowState]
        /\ trust' \in [Releases -> TrustStatus]
        /\ cleared' \subseteq Releases
    BY <2>1 DEF StoreInv, TypeOK, StoreTypeOK, RowState, WorkflowState, TrustStatus
  <2>4. VettedRows'
    BY <2>1 DEF StoreInv, TypeOK, StoreTypeOK, VettedRows
  <2>5. AdminTrustIsEarned'
    BY <2>1 DEF StoreInv, TypeOK, StoreTypeOK, AdminTrustIsEarned
  <2> QED BY <1>1, <2>2, <2>3, <2>4, <2>5 DEF StoreInv, TypeOK, StoreTypeOK
<1> QED BY <1>2, <1>3

-----------------------------------------------------------------------------
(* Deletion and retention.                                                 *)

\* Removing rows leaves the row invariants true.
LEMMA RemoveRowsInv ==
    ASSUME StoreInv, NEW S \in SUBSET Releases, RemoveRows(S), cleared' = cleared,
           task' \in [Tasks -> Task], TasksSound'
    PROVE  StoreInv'
<1>1. /\ wf' \in [Releases -> RowState]
      /\ \A r \in Releases : wf'[r] \in {wf[r], "deleted"}
  BY DEF RemoveRows, StoreInv, TypeOK, StoreTypeOK, RowState
<1>2. /\ trust' \in [Releases -> TrustStatus]
      /\ \A r \in Releases : trust'[r] \in {trust[r], "unverified"}
  BY DEF RemoveRows, StoreInv, TypeOK, StoreTypeOK, TrustStatus
<1>3. flag' \in [Releases -> FlagStatus]
  BY DEF RemoveRows, StoreInv, TypeOK, StoreTypeOK, FlagStatus
<1>4. VettedRows'
  BY <1>1 DEF StoreInv, VettedRows, Vetted, ClearedState
<1>5. AdminTrustIsEarned'
  BY <1>2 DEF StoreInv, AdminTrustIsEarned
<1> QED
  BY <1>1, <1>2, <1>3, <1>4, <1>5 DEF StoreInv, TypeOK, StoreTypeOK

LEMMA BeginDeleteInv ==
    ASSUME StoreInv, NEW t \in Tasks, NEW r \in Releases, BeginDelete(t, r)
    PROVE  StoreInv'
<1>1. Present(r) /\ UNCHANGED <<wf, trust, flag, cleared>>
  BY DEF BeginDelete
<1>2. /\ "delete" \in Op \ {"poll"} /\ "delete" \in Pc \ {"trust", "poll"}
      /\ "discovered" \in WorkflowState
  BY DEF Op, Pc, WorkflowState
<1>3. /\ Loaded(t, "delete", r, "delete", "discovered") \in Task
      /\ Sound(Loaded(t, "delete", r, "delete", "discovered"), cleared')
  BY <1>1, <1>2, LoadSound
<1> QED BY <1>1, <1>3, TaskStep, RowsStep DEF BeginDelete

LEMMA CommitDeleteInv ==
    ASSUME StoreInv, NEW t \in Tasks, CommitDelete(t)
    PROVE  StoreInv'
<1>1. /\ task[t] \in Task /\ Sound(task[t], cleared) /\ task[t].pc = "delete"
      /\ cleared' = cleared /\ Goto(t, "audit") /\ RemoveRows({task[t].rel})
  BY DEF CommitDelete, StoreInv, TypeOK, StoreTypeOK, TasksSound
<1>2. task' \in [Tasks -> Task] /\ TasksSound'
  <2>1. "audit" \in Pc BY DEF Pc
  <2>2. /\ [task[t] EXCEPT !.pc = "audit"] \in Task
        /\ task' = [task EXCEPT ![t] = [task[t] EXCEPT !.pc = "audit"]]
    BY <1>1, <2>1, GotoStep
  <2>3. Sound([task[t] EXCEPT !.pc = "audit"], cleared')
    BY <1>1 DEF Sound, Task
  <2> QED BY <1>1, <2>2, <2>3, TaskStep
<1>3. RemoveRows({task[t].rel} \cap Releases)
  BY <1>1 DEF RemoveRows, Present
<1> QED BY <1>1, <1>2, <1>3, RemoveRowsInv

LEMMA BeginSweepInv ==
    ASSUME StoreInv, NEW t \in Tasks, BeginSweep(t)
    PROVE  StoreInv'
<1>1. PICK S \in SUBSET Releases :
          task' = [task EXCEPT ![t] = [Idle EXCEPT
                     !.op = "retention", !.pc = "sweep", !.todo = S]]
  BY DEF BeginSweep
<1> DEFINE k == [Idle EXCEPT !.op = "retention", !.pc = "sweep", !.todo = S]
<1>2. k \in Task /\ Sound(k, cleared)
  BY DEF Idle, Task, Op, Pc, WorkflowState, TrustStatus, Sound, Vetted, ClearedState
<1> HIDE DEF k
<1>3. UNCHANGED <<wf, trust, flag, cleared>>
  BY DEF BeginSweep
<1>4. task' \in [Tasks -> Task] /\ TasksSound'
  BY <1>1, <1>2, <1>3, TaskStep DEF k
<1> QED BY <1>3, <1>4, RowsStep

LEMMA CommitSweepInv ==
    ASSUME StoreInv, NEW t \in Tasks, CommitSweep(t)
    PROVE  StoreInv'
<1>1. task[t] \in Task /\ cleared' = cleared /\ Finish(t) /\ RemoveRows(task[t].todo)
  BY DEF CommitSweep, StoreInv, TypeOK, StoreTypeOK
<1>2. task[t].todo \in SUBSET Releases
  BY <1>1 DEF Task
<1> QED BY <1>1, <1>2, FinishStep, RemoveRowsInv

-----------------------------------------------------------------------------
(* Discovery and analysis.                                                 *)

LEMMA DiscoverInv ==
    ASSUME StoreInv, NEW t \in Tasks, NEW r \in Releases, Discover(t, r)
    PROVE  StoreInv'
<1> DEFINE k == [Idle EXCEPT !.op = "process", !.pc = "analyse", !.rel = r]
<1>1. /\ task' = [task EXCEPT ![t] = k] /\ wf' = [wf EXCEPT ![r] = "discovered"]
      /\ UNCHANGED <<trust, flag, cleared>>
  BY DEF Discover
<1>2. k \in Task /\ Sound(k, cleared)
  BY DEF Idle, Task, Op, Pc, WorkflowState, TrustStatus, Sound, Vetted, ClearedState
<1> HIDE DEF k
<1>3. task' \in [Tasks -> Task] /\ TasksSound'
  BY <1>1, <1>2, TaskStep
<1>4. wf' \in [Releases -> RowState] /\ VettedRows'
  BY <1>1 DEF StoreInv, TypeOK, StoreTypeOK, RowState, WorkflowState, VettedRows,
              Vetted, ClearedState
<1> QED
  BY <1>1, <1>3, <1>4 DEF StoreInv, TypeOK, StoreTypeOK, AdminTrustIsEarned

LEMMA AnalyseInv ==
    ASSUME StoreInv, NEW t \in Tasks, Analyse(t)
    PROVE  StoreInv'
<1> DEFINE r == task[t].rel
<1>1. task[t].pc = "analyse" /\ UNCHANGED <<wf, trust, cleared>>
  BY DEF Analyse
<1>2. CASE ~Present(r)
  BY <1>1, <1>2, FinishStep, RowsStep DEF Analyse
<1>3. CASE Present(r)
  <2>1. /\ "process" \in Op \ {"poll"} /\ "verdict" \in Pc \ {"trust", "poll"}
        /\ "rejected" \in WorkflowState
    BY DEF Op, Pc, WorkflowState
  <2>2. PICK f \in AnalysisFlags \cup {"none"} :
          /\ flag' = [flag EXCEPT ![r] = f]
          /\ \/ task' = [task EXCEPT ![t] = Loaded(t, "process", r, "verdict", "rejected")]
             \/ task' = task
    BY <1>3 DEF Analyse
  <2>3. /\ Loaded(t, "process", r, "verdict", "rejected") \in Task
        /\ Sound(Loaded(t, "process", r, "verdict", "rejected"), cleared)
    BY <1>3, <2>1, LoadSound DEF Present
  <2>4. task' \in [Tasks -> Task] /\ TasksSound'
    <3>1. CASE task' = [task EXCEPT ![t] = Loaded(t, "process", r, "verdict", "rejected")]
      BY <1>1, <2>3, <3>1, TaskStep
    <3>2. CASE task' = task
      BY <1>1, <3>2 DEF StoreInv, TypeOK, StoreTypeOK, TasksSound
    <3> QED BY <2>2, <3>1, <3>2
  <2>5. flag' \in [Releases -> FlagStatus]
    BY <2>2, ReviewAssumption DEF StoreInv, TypeOK, StoreTypeOK, FlagStatus
  <2> QED
    BY <1>1, <2>4, <2>5 DEF StoreInv, TypeOK, StoreTypeOK, VettedRows, AdminTrustIsEarned
<1> QED BY <1>2, <1>3

LEMMA DetermineTrustInv ==
    ASSUME StoreInv, NEW t \in Tasks, DetermineTrust(t)
    PROVE  StoreInv'
<1> DEFINE r == task[t].rel
<1>1. /\ task[t] \in Task /\ Sound(task[t], cleared) /\ task[t].pc = "verdict"
      /\ UNCHANGED <<wf, flag, cleared>>
  BY DEF DetermineTrust, StoreInv, TypeOK, StoreTypeOK, TasksSound
<1>2. /\ Goto(t, "rules") \/ Finish(t)
      /\ \/ trust' = trust
         \/ \E v \in {"unverified", "developer_verified"} : trust' = [trust EXCEPT ![r] = v]
  BY DEF DetermineTrust
<1>3. task' \in [Tasks -> Task] /\ TasksSound'
  <2>1. CASE Finish(t)
    BY <1>1, <2>1, FinishStep
  <2>2. CASE Goto(t, "rules")
    <3>1. "rules" \in Pc BY DEF Pc
    <3>2. /\ [task[t] EXCEPT !.pc = "rules"] \in Task
          /\ task' = [task EXCEPT ![t] = [task[t] EXCEPT !.pc = "rules"]]
      BY <2>2, <3>1, GotoStep
    <3>3. Sound([task[t] EXCEPT !.pc = "rules"], cleared')
      BY <1>1 DEF Sound, Task
    <3> QED BY <1>1, <3>2, <3>3, TaskStep
  <2> QED BY <1>2, <2>1, <2>2
<1>4. trust' \in [Releases -> TrustStatus] /\ AdminTrustIsEarned'
  BY <1>1, <1>2 DEF StoreInv, TypeOK, StoreTypeOK, TrustStatus, AdminTrustIsEarned
<1> QED
  BY <1>1, <1>3, <1>4 DEF StoreInv, TypeOK, StoreTypeOK, VettedRows

LEMMA ApplyRulesInv ==
    ASSUME StoreInv, NEW t \in Tasks, ApplyRules(t)
    PROVE  StoreInv'
<1>1. /\ task \in [Tasks -> Task] /\ task[t] \in Task
      /\ Sound(task[t], cleared) /\ task[t].pc = "rules"
      /\ UNCHANGED <<wf, trust, flag, cleared>>
  BY DEF ApplyRules, StoreInv, TypeOK, StoreTypeOK, TasksSound
<1>2. /\ "commit" \in Pc /\ "auto" \in Op /\ "approved" \in WorkflowState
  BY DEF Op, Pc, WorkflowState
<1>3. CASE Finish(t)
  BY <1>1, <1>3, FinishStep, RowsStep
<1>4. CASE "rejected" \in ValidTransitions[task[t].seen] /\ Goto(t, "commit")
  <2>1. /\ [task[t] EXCEPT !.pc = "commit"] \in Task
        /\ task' = [task EXCEPT ![t] = [task[t] EXCEPT !.pc = "commit"]]
    BY <1>2, <1>4, GotoStep
  <2>2. Sound([task[t] EXCEPT !.pc = "commit"], cleared')
    BY <1>1, <1>4 DEF Sound, Task
  <2> QED BY <1>1, <2>1, <2>2, TaskStep, RowsStep
<1>5. CASE /\ "approved" \in ValidTransitions[task[t].seen]
           /\ task' = [task EXCEPT ![t].op = "auto", ![t].pc = "commit",
                                   ![t].target = "approved"]
  <2> DEFINE k == [task[t] EXCEPT !.op = "auto", !.pc = "commit", !.target = "approved"]
  <2>1. k \in Task /\ task' = [task EXCEPT ![t] = k]
    BY <1>1, <1>2, <1>5 DEF Task
  <2>2. Sound(k, cleared')
    BY <1>1, <1>5 DEF Sound, Task
  <2> QED BY <1>1, <2>1, <2>2, TaskStep, RowsStep
<1> QED BY <1>3, <1>4, <1>5 DEF ApplyRules

-----------------------------------------------------------------------------
(* The commit of a move, and the steps every handler has.                  *)

LEMMA CommitStateInv ==
    ASSUME StoreInv, NEW t \in Tasks, CommitState(t)
    PROVE  StoreInv'
<1> DEFINE r == task[t].rel
           u == task[t].target
<1>1. /\ task[t] \in Task /\ Sound(task[t], cleared) /\ task[t].pc = "commit"
      /\ r \in Releases /\ u \in WorkflowState /\ task[t].seen \in WorkflowState
      /\ wf' = [wf EXCEPT ![r] = u] /\ UNCHANGED <<trust, flag>>
  BY DEF CommitState, Present, StoreInv, TypeOK, StoreTypeOK, TasksSound, Task
<1>2. /\ cleared \subseteq cleared' /\ cleared' \subseteq Releases
      /\ u = "under_review" => r \in cleared'
  BY <1>1 DEF CommitState, StoreInv, TypeOK, StoreTypeOK
<1>3. u \in ClearedState => r \in cleared
  <2>1. u \in ValidTransitions[task[t].seen]
    BY <1>1 DEF Sound
  <2>2. u \in ClearedState => task[t].seen \in Vetted
    BY <1>1, <2>1, TableFacts
  <2> QED BY <1>1, <2>2 DEF Sound
<1>4. task' \in [Tasks -> Task] /\ TasksSound'
  <2>1. CASE task[t].op = "process"
    BY <1>2, <2>1, FinishStep DEF CommitState
  <2>2. CASE task[t].op # "process"
    <3>1. Goto(t, AfterCommit(t))
      BY <2>2 DEF CommitState
    <3>2. AfterCommit(t) \in {"audit", "trust"}
      BY DEF AfterCommit
    <3>3. AfterCommit(t) = "trust" => u = "approved"
      BY <1>1, <2>2 DEF AfterCommit, Sound
    <3>4. AfterCommit(t) \in Pc
      BY <3>2 DEF Pc
    <3>5. /\ [task[t] EXCEPT !.pc = AfterCommit(t)] \in Task
          /\ task' = [task EXCEPT ![t] = [task[t] EXCEPT !.pc = AfterCommit(t)]]
      BY <3>1, <3>4, GotoStep
    <3>6. Sound([task[t] EXCEPT !.pc = AfterCommit(t)], cleared)
      BY <1>1, <1>3, <3>2, <3>3 DEF Sound, Task, ClearedState
    <3> QED BY <1>2, <3>5, <3>6, SoundMonotone, TaskStep
  <2> QED BY <2>1, <2>2
<1>5. wf' \in [Releases -> RowState]
  BY <1>1 DEF StoreInv, TypeOK, StoreTypeOK, RowState
<1>6. VettedRows'
  BY <1>1, <1>2, <1>3 DEF StoreInv, TypeOK, StoreTypeOK, VettedRows, Vetted
<1>7. AdminTrustIsEarned'
  BY <1>1, <1>2 DEF StoreInv, AdminTrustIsEarned
<1> QED
  BY <1>1, <1>2, <1>4, <1>5, <1>6, <1>7 DEF StoreInv, TypeOK, StoreTypeOK

LEMMA CommitFailsInv ==
    ASSUME StoreInv, NEW t \in Tasks, CommitFails(t)
    PROVE  StoreInv'
<1>1. /\ task[t] \in Task /\ Sound(task[t], cleared) /\ task[t].pc = "commit"
      /\ UNCHANGED <<wf, trust, flag, cleared>>
  BY DEF CommitFails, StoreInv, TypeOK, StoreTypeOK, TasksSound
<1>2. CASE Finish(t)
  BY <1>1, <1>2, FinishStep, RowsStep
<1>3. CASE task[t].op = "poll" /\ Goto(t, "poll")
  <2>1. "poll" \in Pc BY DEF Pc
  <2>2. /\ [task[t] EXCEPT !.pc = "poll"] \in Task
        /\ task' = [task EXCEPT ![t] = [task[t] EXCEPT !.pc = "poll"]]
    BY <1>3, <2>1, GotoStep
  <2>3. Sound([task[t] EXCEPT !.pc = "poll"], cleared')
    BY <1>1, <1>3 DEF Sound, Task
  <2> QED BY <1>1, <2>2, <2>3, TaskStep, RowsStep
<1> QED BY <1>2, <1>3 DEF CommitFails

LEMMA AuditInv ==
    ASSUME StoreInv, NEW t \in Tasks, Audit(t)
    PROVE  StoreInv'
<1>1. /\ task[t] \in Task /\ Sound(task[t], cleared) /\ task[t].pc = "audit"
      /\ UNCHANGED <<wf, trust, flag, cleared>>
  BY DEF Audit, StoreInv, TypeOK, StoreTypeOK, TasksSound
<1>2. CASE Finish(t)
  BY <1>1, <1>2, FinishStep, RowsStep
<1>3. CASE task[t].op = "poll" /\ Goto(t, "poll")
  <2>1. "poll" \in Pc BY DEF Pc
  <2>2. /\ [task[t] EXCEPT !.pc = "poll"] \in Task
        /\ task' = [task EXCEPT ![t] = [task[t] EXCEPT !.pc = "poll"]]
    BY <1>3, <2>1, GotoStep
  <2>3. Sound([task[t] EXCEPT !.pc = "poll"], cleared')
    BY <1>1, <1>3 DEF Sound, Task
  <2> QED BY <1>1, <2>2, <2>3, TaskStep, RowsStep
<1> QED BY <1>2, <1>3 DEF Audit

\* Answering a refusal, and being killed, only ends the task.
LEMMA ReturnOrCrashInv ==
    ASSUME StoreInv, NEW t \in Tasks, Return(t) \/ Crash(t)
    PROVE  StoreInv'
BY FinishStep, RowsStep DEF Return, Crash

-----------------------------------------------------------------------------
(* The invariant.                                                          *)

LEMMA StoreInitInv ==
    ASSUME StoreInit
    PROVE  StoreInv
<1>1. Idle \in Task /\ Sound(Idle, {})
  BY IdleSound
<1> QED
  BY <1>1 DEF StoreInit, StoreInv, TypeOK, StoreTypeOK, RowState, TrustStatus, FlagStatus,
       VettedRows, Vetted, ClearedState, AdminTrustIsEarned, TasksSound

\* Every step of the review keeps it.
LEMMA ReviewInv ==
    ASSUME StoreInv, NEW t \in Tasks, Review(t)
    PROVE  StoreInv'
<1>1. ASSUME NEW r \in Releases, BeginTransition(t, r) PROVE StoreInv'
  BY <1>1, BeginTransitionInv
<1>2. ASSUME NEW r \in Releases, BeginApprove(t, r) PROVE StoreInv'
  BY <1>2, BeginApproveInv
<1>3. ASSUME NEW r \in Releases, BeginOverride(t, r) PROVE StoreInv'
  BY <1>3, BeginOverrideInv
<1>4. ASSUME NEW r \in Releases, BeginDelete(t, r) PROVE StoreInv'
  BY <1>4, BeginDeleteInv
<1>5. ASSUME NEW r \in Releases, Discover(t, r) PROVE StoreInv'
  BY <1>5, DiscoverInv
<1>6. CASE BeginSweep(t)      BY <1>6, BeginSweepInv
<1>7. CASE CommitTrust(t)     BY <1>7, CommitTrustInv
<1>8. CASE CommitOverride(t)  BY <1>8, CommitOverrideInv
<1>9. CASE CommitDelete(t)    BY <1>9, CommitDeleteInv
<1>10. CASE CommitSweep(t)    BY <1>10, CommitSweepInv
<1>11. CASE Analyse(t)        BY <1>11, AnalyseInv
<1>12. CASE DetermineTrust(t) BY <1>12, DetermineTrustInv
<1>13. CASE ApplyRules(t)     BY <1>13, ApplyRulesInv
<1> QED
  BY <1>1, <1>2, <1>3, <1>4, <1>5, <1>6, <1>7, <1>8, <1>9, <1>10, <1>11, <1>12, <1>13
     DEF Review

\* So does every step all handlers have.
LEMMA StoreStepInv ==
    ASSUME StoreInv, NEW t \in Tasks, StoreStep(t)
    PROVE  StoreInv'
BY CommitStateInv, CommitFailsInv, AuditInv, ReturnOrCrashInv DEF StoreStep

\* The inductive invariant holds in every behaviour of the review, for any
\* number of releases and handlers.
THEOREM ReviewInvariant == ReviewSpec => []StoreInv
<1>1. StoreInit => StoreInv
  BY StoreInitInv
<1>2. StoreInv /\ [ReviewNext]_storeVars => StoreInv'
  <2> SUFFICES ASSUME StoreInv, [ReviewNext]_storeVars PROVE StoreInv'
    OBVIOUS
  <2>1. ASSUME NEW t \in Handlers, Review(t) PROVE StoreInv'
    BY <2>1, ReviewInv DEF Tasks
  <2>2. ASSUME NEW t \in Handlers, StoreStep(t) PROVE StoreInv'
    BY <2>2, StoreStepInv DEF Tasks
  <2>3. CASE UNCHANGED storeVars
    BY <2>3 DEF storeVars, StoreInv, TypeOK, StoreTypeOK, VettedRows,
                AdminTrustIsEarned, TasksSound
  <2> QED BY <2>1, <2>2, <2>3 DEF ReviewNext
<1> QED BY <1>1, <1>2, PTL DEF ReviewSpec

\* Type correctness of the releases table and the handlers' records.
THEOREM ReviewTypeCorrect == ReviewSpec => []TypeOK
<1>1. StoreInv => TypeOK
  BY DEF StoreInv
<1> QED BY <1>1, ReviewInvariant, PTL

\* No release is approved, or beyond, that nobody reviewed or overrode.
THEOREM ReviewIsExplicit == ReviewSpec => []ExplicitReview
<1>1. StoreInv => ExplicitReview
  BY DEF StoreInv, VettedRows, ExplicitReview, Vetted
<1> QED BY <1>1, ReviewInvariant, PTL

\* No row is admin verified without a review or an override.
THEOREM AdminTrustCorrect == ReviewSpec => []AdminTrustIsEarned
<1>1. StoreInv => AdminTrustIsEarned
  BY DEF StoreInv
<1> QED BY <1>1, ReviewInvariant, PTL

-----------------------------------------------------------------------------
(* What a step may do to one row.                                          *)

RowMove(t, r) ==
    \/ wf'[r] = wf[r]
    \/ wf[r] \in WorkflowState /\ wf'[r] = "deleted"
    \/ wf[r] = "unborn" /\ wf'[r] = "discovered"
    \/ /\ wf[r] \in WorkflowState
       /\ task'[t] # task[t] /\ task[t].rel = r
       /\ \/ task[t].pc = "commit" /\ wf'[r] \in ValidTransitions[task[t].seen]
          \/ task[t].pc = "override" /\ wf'[r] = "approved"

\* A handler that goes on, or is done, is not where it was.
LEMMA MovedOn ==
    ASSUME StoreInv, NEW t \in Tasks, task[t].pc # "idle",
           Finish(t) \/ \E pc \in Pc \ {task[t].pc} : Goto(t, pc)
    PROVE  task'[t] # task[t]
<1>1. task \in [Tasks -> Task]
  BY DEF StoreInv, TypeOK, StoreTypeOK
<1>2. CASE Finish(t)
  BY <1>1, <1>2 DEF Finish, Idle
<1>3. ASSUME NEW pc \in Pc \ {task[t].pc}, Goto(t, pc)
      PROVE  task'[t].pc # task[t].pc
  BY <1>1, <1>3 DEF Goto, Task
<1> QED BY <1>2, <1>3

LEMMA ReviewRowMove ==
    ASSUME StoreInv, NEW t \in Tasks, NEW r \in Releases, Review(t)
    PROVE  RowMove(t, r)
<1>1. wf \in [Releases -> RowState]
  BY DEF StoreInv, TypeOK, StoreTypeOK
<1>2. ASSUME NEW S, RemoveRows(S) PROVE RowMove(t, r)
  BY <1>2, <1>1 DEF RemoveRows, RowMove, Present
<1>3. CASE CommitDelete(t) \/ CommitSweep(t)
  BY <1>2, <1>3 DEF CommitDelete, CommitSweep
<1>4. CASE CommitOverride(t)
  <2>1. CASE Present(task[t].rel)
    <3>1. task[t].pc = "override" /\ Goto(t, "audit") /\ "audit" \in Pc
      BY <1>4, <2>1 DEF CommitOverride, Pc
    <3>2. task'[t] # task[t]
      BY <3>1, MovedOn
    <3> QED BY <1>4, <1>1, <2>1, <3>1, <3>2 DEF CommitOverride, RowMove, Present
  <2>2. CASE ~Present(task[t].rel)
    BY <1>4, <2>2 DEF CommitOverride, RowMove
  <2> QED BY <2>1, <2>2
<1>5. ASSUME NEW q \in Releases, Discover(t, q) PROVE RowMove(t, r)
  BY <1>5, <1>1 DEF Discover, RowMove
<1>6. CASE wf' = wf
  BY <1>6 DEF RowMove
<1> QED
  BY <1>3, <1>4, <1>5, <1>6 DEF Review, BeginTransition, BeginApprove, BeginMove,
     BeginOverride, BeginDelete, BeginSweep, CommitTrust, Analyse, DetermineTrust, ApplyRules

LEMMA StoreStepRowMove ==
    ASSUME StoreInv, NEW t \in Tasks, NEW r \in Releases, StoreStep(t)
    PROVE  RowMove(t, r)
<1>1. wf \in [Releases -> RowState] /\ Sound(task[t], cleared)
  BY DEF StoreInv, TypeOK, StoreTypeOK, TasksSound
<1>2. CASE CommitState(t)
  <2>1. /\ task[t].pc = "commit" /\ Present(task[t].rel)
        /\ wf' = [wf EXCEPT ![task[t].rel] = task[t].target]
    BY <1>2 DEF CommitState
  <2>2. task[t].target \in ValidTransitions[task[t].seen]
    BY <1>1, <2>1 DEF Sound
  <2>5. Finish(t) \/ Goto(t, AfterCommit(t))
    BY <1>2 DEF CommitState
  <2>6. AfterCommit(t) \in Pc \ {"commit"}
    BY DEF AfterCommit, Pc
  <2>7. task'[t] # task[t]
    BY <2>1, <2>5, <2>6, MovedOn
  <2>3. CASE r = task[t].rel
    BY <1>1, <2>1, <2>2, <2>3, <2>7 DEF RowMove, Present
  <2>4. CASE r # task[t].rel
    BY <1>1, <2>1, <2>4 DEF RowMove
  <2> QED BY <2>3, <2>4
<1>3. CASE wf' = wf
  BY <1>3 DEF RowMove
<1> QED BY <1>2, <1>3 DEF StoreStep, CommitFails, Audit, Return, Crash

\* A row move is a move of the table as its handler saw it, or an override.
LEMMA RowMoveFollowsTable ==
    ASSUME StoreInv, NEW t \in Tasks, NEW r \in Releases, RowMove(t, r),
           wf[r] \in WorkflowState, wf'[r] \in WorkflowState, wf'[r] # wf[r]
    PROVE  FollowsTable(r)
<1>1. "deleted" \notin WorkflowState /\ "unborn" \notin WorkflowState
  BY DEF WorkflowState
<1> QED BY <1>1 DEF RowMove, FollowsTable

LEMMA RowMoveKeepsDeleted ==
    ASSUME NEW t \in Tasks, NEW r \in Releases, RowMove(t, r), wf[r] = "deleted"
    PROVE  wf'[r] = "deleted"
BY DEF RowMove, WorkflowState

\* Commits that move a release follow the table from what the handler saw.
THEOREM ReviewFollowsTable == ReviewSpec => StepsFollowTable
<1> DEFINE Moves(r) == /\ wf[r] \in WorkflowState
                       /\ wf'[r] \in WorkflowState
                       /\ wf'[r] # wf[r]
<1>1. ASSUME StoreInv, [ReviewNext]_storeVars
      PROVE  [\A r \in Releases : Moves(r) => FollowsTable(r)]_storeVars
  <2>1. CASE UNCHANGED storeVars
    BY <2>1
  <2>2. ASSUME NEW t \in Handlers, Review(t) \/ StoreStep(t),
               NEW r \in Releases, Moves(r)
        PROVE  FollowsTable(r)
    <3>1. t \in Tasks BY DEF Tasks
    <3>2. RowMove(t, r) BY <1>1, <2>2, <3>1, ReviewRowMove, StoreStepRowMove
    <3> QED BY <1>1, <2>2, <3>1, <3>2, RowMoveFollowsTable
  <2> QED BY <1>1, <2>1, <2>2 DEF ReviewNext
<1> QED BY <1>1, ReviewInvariant, PTL DEF ReviewSpec, StepsFollowTable

\* Nobody writes a deleted release back.
THEOREM ReviewDeletedIsFinal == ReviewSpec => DeletedIsFinal
<1>1. ASSUME StoreInv, [ReviewNext]_storeVars
      PROVE  [\A r \in Releases : wf[r] = "deleted" => wf'[r] = "deleted"]_storeVars
  <2>1. CASE UNCHANGED storeVars
    BY <2>1
  <2>2. ASSUME NEW t \in Handlers, Review(t) \/ StoreStep(t),
               NEW r \in Releases, wf[r] = "deleted"
        PROVE  wf'[r] = "deleted"
    <3>1. t \in Tasks BY DEF Tasks
    <3>2. RowMove(t, r) BY <1>1, <2>2, <3>1, ReviewRowMove, StoreStepRowMove
    <3> QED BY <2>2, <3>1, <3>2, RowMoveKeepsDeleted
  <2> QED BY <1>1, <2>1, <2>2 DEF ReviewNext
<1> QED BY <1>1, ReviewInvariant, PTL DEF ReviewSpec, DeletedIsFinal

-----------------------------------------------------------------------------
(* The workflow and the abstract lifecycle: with one handler at a time     *)
(* what the handler saw is still so when it commits, and the releases      *)
(* table implements the lifecycle its transition table describes.          *)

\* Handlers take turns: a single session is at work at any time.
OneAtATime == \E h : Handlers = {h} /\ Pollers = {}

-----------------------------------------------------------------------------
(* Views stay fresh.                                                       *)

\* A step that leaves its task relying on a view moves no row, and has just
\* loaded the view or relied on it before.
FreshTask(t, k) ==
    /\ task' = [task EXCEPT ![t] = k]
    /\ k.pc \in RelyingPc =>
          /\ wf' = wf
          /\ \/ k.seen = wf[k.rel]
             \/ /\ task[t].pc \in RelyingPc
                /\ k.rel = task[t].rel /\ k.seen = task[t].seen

LEMMA FreshTaskKeeps ==
    ASSUME OneAtATime, StoreInv, ViewsFresh, NEW t \in Handlers, NEW k, FreshTask(t, k)
    PROVE  ViewsFresh'
<1>1. Tasks = {t} /\ task'[t] = k
  BY DEF OneAtATime, Tasks, FreshTask, StoreInv, TypeOK, StoreTypeOK
<1>2. CASE k.pc \notin RelyingPc
  BY <1>1, <1>2 DEF ViewsFresh
<1>3. CASE k.pc \in RelyingPc
  BY <1>1, <1>3 DEF ViewsFresh, FreshTask, Present
<1> QED BY <1>2, <1>3

\* Going on to a step that relies on no view, or from one that does while
\* the rows stay as they are.
LEMMA GotoFresh ==
    ASSUME StoreInv, NEW t \in Tasks, NEW pc, Goto(t, pc),
           pc \notin RelyingPc \/ (wf' = wf /\ task[t].pc \in RelyingPc)
    PROVE  \E k : FreshTask(t, k)
<1> DEFINE k == [task[t] EXCEPT !.pc = pc]
<1>1. task[t] \in Task /\ task \in [Tasks -> Task]
  BY DEF StoreInv, TypeOK, StoreTypeOK
<1>2. /\ k.pc = pc /\ k.rel = task[t].rel /\ k.seen = task[t].seen
      /\ task' = [task EXCEPT ![t] = k]
  BY <1>1 DEF Task, Goto
<1> HIDE DEF k
<1>3. FreshTask(t, k)
  BY <1>2 DEF FreshTask
<1> QED BY <1>3

LEMMA LoadedFresh ==
    ASSUME NEW t, NEW op, NEW r, NEW pc, NEW target, wf' = wf,
           task' = [task EXCEPT ![t] = Loaded(t, op, r, pc, target)]
    PROVE  \E k : FreshTask(t, k)
<1> DEFINE k == Loaded(t, op, r, pc, target)
<1>1. k.rel = r /\ k.seen = wf[r]
  BY DEF Loaded, Idle
<1> HIDE DEF k
<1>2. FreshTask(t, k)
  BY <1>1 DEF FreshTask, k
<1> QED BY <1>2

LEMMA FinishFresh ==
    ASSUME NEW t, Finish(t)
    PROVE  \E k : FreshTask(t, k)
<1>1. FreshTask(t, Idle)
  BY DEF FreshTask, Finish, Idle, RelyingPc
<1> QED BY <1>1

LEMMA ReviewFresh ==
    ASSUME StoreInv, NEW t \in Tasks, Review(t)
    PROVE  \E k : FreshTask(t, k)
<1>1. ASSUME NEW r \in Releases,
             \/ BeginTransition(t, r) \/ BeginApprove(t, r)
             \/ BeginOverride(t, r) \/ BeginDelete(t, r)
      PROVE  \E k : FreshTask(t, k)
  BY <1>1, LoadedFresh DEF BeginTransition, BeginApprove, BeginMove, BeginOverride,
                           BeginDelete, Refuse
<1>2. ASSUME NEW r \in Releases, Discover(t, r)
      PROVE  \E k : FreshTask(t, k)
  <2>1. FreshTask(t, [Idle EXCEPT !.op = "process", !.pc = "analyse", !.rel = r])
    BY <1>2 DEF Discover, FreshTask, Idle, RelyingPc
  <2> QED BY <2>1
<1>3. CASE BeginSweep(t)
  <2>1. PICK S : FreshTask(t, [Idle EXCEPT !.op = "retention", !.pc = "sweep", !.todo = S])
    BY <1>3 DEF BeginSweep, FreshTask, Idle, RelyingPc
  <2> QED BY <2>1
<1>4. CASE CommitTrust(t) \/ CommitOverride(t) \/ CommitDelete(t) \/ CommitSweep(t)
  BY <1>4, GotoFresh, FinishFresh
     DEF CommitTrust, CommitOverride, CommitDelete, CommitSweep, RelyingPc
<1>5. CASE Analyse(t)
  <2>1. CASE task' = task
    <3>1. FreshTask(t, task[t])
      BY <1>5, <2>1 DEF Analyse, FreshTask, RelyingPc, StoreInv, TypeOK, StoreTypeOK
    <3> QED BY <3>1
  <2>2. CASE task' # task
    BY <1>5, <2>2, LoadedFresh, FinishFresh DEF Analyse
  <2> QED BY <2>1, <2>2
<1>6. CASE DetermineTrust(t)
  BY <1>6, GotoFresh, FinishFresh DEF DetermineTrust, RelyingPc
<1>7. CASE ApplyRules(t)
  <2>1. task[t].pc = "rules" /\ wf' = wf
    BY <1>7 DEF ApplyRules
  <2>2. CASE Goto(t, "commit") \/ Finish(t)
    BY <2>1, <2>2, GotoFresh, FinishFresh DEF RelyingPc
  <2>3. CASE task' = [task EXCEPT ![t].op = "auto", ![t].pc = "commit",
                                  ![t].target = "approved"]
    <3> DEFINE k == [task[t] EXCEPT !.op = "auto", !.pc = "commit", !.target = "approved"]
    <3>1. /\ k.rel = task[t].rel /\ k.seen = task[t].seen
          /\ task' = [task EXCEPT ![t] = k]
      BY <2>3 DEF StoreInv, TypeOK, StoreTypeOK, Task
    <3> HIDE DEF k
    <3>2. FreshTask(t, k)
      BY <2>1, <3>1 DEF FreshTask, RelyingPc
    <3> QED BY <3>2
  <2> QED BY <1>7, <2>2, <2>3 DEF ApplyRules
<1> QED
  BY <1>1, <1>2, <1>3, <1>4, <1>5, <1>6, <1>7 DEF Review

LEMMA StoreStepFresh ==
    ASSUME StoreInv, NEW t \in Tasks, StoreStep(t)
    PROVE  \E k : FreshTask(t, k)
<1>1. AfterCommit(t) \notin RelyingPc
  BY DEF AfterCommit, RelyingPc
<1>2. "audit" \notin RelyingPc /\ "poll" \notin RelyingPc
  BY DEF RelyingPc
<1> QED
  BY <1>1, <1>2, GotoFresh, FinishFresh
     DEF StoreStep, CommitState, CommitFails, Audit, Return, Crash

-----------------------------------------------------------------------------
(* Every step is a step of the lifecycle, or none.                         *)

\* The lifecycle speaks of the same states and the same table.
LEMMA SameTable ==
    /\ Lifecycle!WorkflowState = WorkflowState
    /\ Lifecycle!ValidTransitions = ValidTransitions
BY DEF Lifecycle!WorkflowState, WorkflowState, Lifecycle!ValidTransitions, ValidTransitions

LEMMA RemoveImplements ==
    ASSUME StoreInv, NEW S \in SUBSET Releases, RemoveRows(S)
    PROVE  [Lifecycle!Next]_wf
<1> DEFINE gone == {r \in S : Present(r)}
<1>1. wf' = [r \in Releases |-> IF r \in gone THEN "deleted" ELSE wf[r]]
  BY DEF RemoveRows
<1>2. CASE gone = {}
  BY <1>1, <1>2 DEF StoreInv, TypeOK, StoreTypeOK
<1>3. CASE gone # {}
  <2>1. Lifecycle!Delete(gone) /\ gone \in SUBSET Releases
    BY <1>1, <1>3, SameTable DEF Lifecycle!Delete, Present
  <2> QED BY <2>1 DEF Lifecycle!Next
<1> QED BY <1>2, <1>3

LEMMA ReviewImplements ==
    ASSUME StoreInv, NEW t \in Tasks, Review(t)
    PROVE  [Lifecycle!Next]_wf
<1>1. ASSUME NEW r \in Releases, Discover(t, r)
      PROVE  [Lifecycle!Next]_wf
  BY <1>1 DEF Discover, Lifecycle!Next, Lifecycle!Insert
<1>2. CASE CommitOverride(t)
  BY <1>2, SameTable DEF CommitOverride, Present, Lifecycle!Next, Lifecycle!Override
<1>3. CASE CommitDelete(t)
  <2>1. RemoveRows({task[t].rel} \cap Releases)
    BY <1>3 DEF CommitDelete, RemoveRows, Present
  <2> QED BY <2>1, RemoveImplements
<1>4. CASE CommitSweep(t)
  <2>1. task[t].todo \in SUBSET Releases
    BY DEF StoreInv, TypeOK, StoreTypeOK, Task
  <2> QED BY <1>4, <2>1, RemoveImplements DEF CommitSweep
<1>5. CASE wf' = wf
  BY <1>5
<1> QED
  BY <1>1, <1>2, <1>3, <1>4, <1>5 DEF Review, BeginTransition, BeginApprove, BeginMove,
     BeginOverride, BeginDelete, BeginSweep, CommitTrust, Analyse, DetermineTrust, ApplyRules

LEMMA StoreStepImplements ==
    ASSUME StoreInv, ViewsFresh, NEW t \in Tasks, StoreStep(t)
    PROVE  [Lifecycle!Next]_wf
<1>1. CASE CommitState(t)
  <2>1. /\ task[t].pc = "commit" /\ Present(task[t].rel) /\ task[t].rel \in Releases
        /\ wf' = [wf EXCEPT ![task[t].rel] = task[t].target]
    BY <1>1 DEF CommitState, Present
  <2>2. task[t].target \in ValidTransitions[task[t].seen]
    BY <2>1 DEF StoreInv, TasksSound, Sound
  <2>3. wf[task[t].rel] = task[t].seen
    BY <2>1 DEF ViewsFresh, RelyingPc
  <2>4. Lifecycle!Transition(task[t].rel)
    BY <2>1, <2>2, <2>3, SameTable DEF Lifecycle!Transition, Present
  <2> QED BY <2>1, <2>4 DEF Lifecycle!Next
<1>2. CASE wf' = wf
  BY <1>2
<1> QED BY <1>1, <1>2 DEF StoreStep, CommitFails, Audit, Return, Crash

(***************************************************************************)
(* For any number of handlers: every commit is a transition of the table,  *)
(* an override, an insertion or a deletion, as long as no handler relies   *)
(* on a row that has changed since it was loaded.                          *)
(***************************************************************************)
THEOREM FreshReviewIsLifecycle == ReviewSpec => FreshStepsFollowLifecycle
<1>1. StoreInv /\ [ReviewNext]_storeVars => [ViewsFresh => [Lifecycle!Next]_wf]_storeVars
  <2> SUFFICES ASSUME StoreInv, ViewsFresh, ReviewNext PROVE [Lifecycle!Next]_wf
    OBVIOUS
  <2>1. PICK t \in Handlers : Review(t) \/ StoreStep(t)
    BY DEF ReviewNext
  <2> QED BY <2>1, ReviewImplements, StoreStepImplements DEF Tasks
<1> QED BY <1>1, ReviewInvariant, PTL DEF ReviewSpec, FreshStepsFollowLifecycle

\* When handlers take turns, the workflow states of the releases behave as
\* the lifecycle promises: every commit is a transition of the table, an
\* override, an insertion or a deletion.
THEOREM SerialReviewIsLifecycle ==
    ASSUME OneAtATime
    PROVE  ReviewSpec => ImplementsLifecycle
<1>1. StoreInit => Lifecycle!Init /\ ViewsFresh
  BY DEF StoreInit, Lifecycle!Init, ViewsFresh, Idle, RelyingPc
<1>2. StoreInv /\ ViewsFresh /\ [ReviewNext]_storeVars => ViewsFresh' /\ [Lifecycle!Next]_wf
  <2> SUFFICES ASSUME StoreInv, ViewsFresh, [ReviewNext]_storeVars
               PROVE  ViewsFresh' /\ [Lifecycle!Next]_wf
    OBVIOUS
  <2>1. ASSUME NEW t \in Handlers, Review(t)
        PROVE  ViewsFresh' /\ [Lifecycle!Next]_wf
    BY <2>1, OneAtATime, ReviewFresh, FreshTaskKeeps, ReviewImplements DEF Tasks
  <2>2. ASSUME NEW t \in Handlers, StoreStep(t)
        PROVE  ViewsFresh' /\ [Lifecycle!Next]_wf
    BY <2>2, OneAtATime, StoreStepFresh, FreshTaskKeeps, StoreStepImplements DEF Tasks
  <2>3. CASE UNCHANGED storeVars
    BY <2>3 DEF storeVars, ViewsFresh, Present
  <2> QED BY <2>1, <2>2, <2>3 DEF ReviewNext
<1> QED
  BY <1>1, <1>2, ReviewInvariant, PTL DEF ReviewSpec, ImplementsLifecycle, Lifecycle!Spec

=============================================================================
