------------------------- MODULE ReleaseSystemProofs -------------------------
(***************************************************************************)
(* Proofs about the whole path of a release, for any releases, handlers,   *)
(* poll loops, jobs and client faults.                                     *)
(***************************************************************************)
EXTENDS ReleaseSystem, ReviewProofs

JobsInv == DispatchTypeOK /\ OnlyReviewedSubmitted

SentInv == SentWasAccepted /\ SendersSound

-----------------------------------------------------------------------------
(* Jobs.                                                                   *)

\* A step that leaves the jobs alone and uncovers no release keeps what is
\* known of jobs, if the other variables keep their types.
LEMMA SameJobs ==
    ASSUME JobsInv, job' = job, accepted' = accepted, cleared \subseteq cleared',
           clientId' \in [Releases -> JobId], active' \in Clients,
           sub' \in [Tasks -> Sub], hooks' \subseteq Hook
    PROVE  JobsInv'
BY DEF JobsInv, DispatchTypeOK, OnlyReviewedSubmitted

\* A sender at "submit" is about a release that was vetted.
LEMMA SubmitsCleared ==
    ASSUME StoreInv, NEW t \in Tasks, task[t].pc = "submit"
    PROVE  /\ task[t] \in Task /\ task[t].rel \in cleared /\ task[t].rel \in Releases
           /\ task[t].seen = "approved" /\ task[t].target = "queued_for_download"
<1>1. task[t] \in Task /\ Sound(task[t], cleared) /\ cleared \subseteq Releases
  BY DEF StoreInv, TypeOK, StoreTypeOK, TasksSound
<1> QED BY <1>1 DEF Sound, Vetted, ClearedState

\* A submission, whatever the client makes of it, is of a cleared release: a
\* new job of it or none, accepted or not.
LEMMA SubmissionStep ==
    ASSUME StoreInv, JobsInv, NEW t \in Tasks, task[t].pc = "submit",
           job' = job \/ \E j \in Jobs : NewJob(t, j),
           accepted' = accepted \/ Accepted(t),
           cleared' = cleared, clientId' = clientId, active' = active,
           sub' \in [Tasks -> Sub], hooks' = hooks
    PROVE  JobsInv' /\ accepted \subseteq accepted'
<1>1. task[t].rel \in cleared /\ task[t].rel \in Releases
  BY SubmitsCleared
<1>2. accepted' \subseteq accepted \cup {task[t].rel} /\ accepted \subseteq accepted'
  BY DEF Accepted
<1>3. job \in [Jobs -> Job] /\ accepted \subseteq Releases /\ accepted \subseteq cleared
  BY DEF JobsInv, DispatchTypeOK, OnlyReviewedSubmitted
<1>4. accepted' \subseteq Releases /\ accepted' \subseteq cleared'
  BY <1>1, <1>2, <1>3
<1>5. CASE job' = job
  BY <1>2, <1>4, <1>5 DEF JobsInv, DispatchTypeOK, OnlyReviewedSubmitted
<1>6. CASE \E j \in Jobs : NewJob(t, j)
  <2> DEFINE J == [rel |-> task[t].rel,
                   kind |-> Kind(SendsVia(t)),
                   st |-> IF SendsVia(t) = "qbittorrent" THEN "fresh" ELSE "running"]
  <2>1. PICK j \in Jobs : job' = [job EXCEPT ![j] = J]
    BY <1>6 DEF NewJob
  <2>2. Kind(SendsVia(t)) \in {"none", "sabnzbd", "qbittorrent"}
    <3>1. SendsVia(t) \in Via
      BY DispatchAssumption DEF JobsInv, DispatchTypeOK, SendsVia, Sub, Via
    <3> QED BY <3>1 DEF Kind, Via
  <2>3. J \in Job /\ J.rel \in cleared
    BY <1>1, <2>2 DEF Job
  <2> HIDE DEF J
  <2>4. job' \in [Jobs -> Job]
    BY <1>3, <2>1, <2>3
  <2>5. OnlyReviewedSubmitted'
    BY <1>3, <1>4, <2>1, <2>3 DEF JobsInv, OnlyReviewedSubmitted
  <2> QED BY <1>2, <1>4, <2>4, <2>5 DEF JobsInv, DispatchTypeOK
<1> QED BY <1>5, <1>6

\* A job that ends, ages or is removed is still the job of its release.
LEMMA JobMovesStep ==
    ASSUME JobsInv, NEW j \in Jobs, NEW from, "free" \notin from,
           NEW to \in {"running", "completed", "failed", "removed"},
           JobMoves(j, from, to), hooks' \subseteq Hook
    PROVE  JobsInv' /\ accepted' = accepted
<1>1. /\ job[j].st \in from /\ job' = [job EXCEPT ![j].st = to]
      /\ UNCHANGED <<cleared, clientId, active, sub, accepted>>
  BY DEF JobMoves, storeVars
<1>2. job \in [Jobs -> Job]
  BY DEF JobsInv, DispatchTypeOK
<1>3. job' \in [Jobs -> Job]
  BY <1>1, <1>2 DEF Job
<1>4. /\ \A i \in Jobs : job'[i].rel = job[i].rel
      /\ \A i \in Jobs : job'[i].st = "free" <=> job[i].st = "free"
  BY <1>1, <1>2 DEF Job
<1>5. JobsInv'
  BY <1>1, <1>3, <1>4 DEF JobsInv, DispatchTypeOK, OnlyReviewedSubmitted
<1> QED BY <1>1, <1>5

-----------------------------------------------------------------------------
(* The senders' tasks.                                                     *)

\* What a dispatch action has to show of the task it changes, when it leaves
\* the rows alone or changes only the trust of cleared releases.
DispatchStep(t, k) ==
    /\ task' = [task EXCEPT ![t] = k]
    /\ k \in Task
    /\ Sound(k, cleared)
    /\ ManualTargets \cap SentState = {} => SenderSound(k, accepted')
    /\ UNCHANGED <<wf, flag, cleared>>
    /\ \/ trust' = trust
       \/ \E r \in cleared : trust' = [trust EXCEPT ![r] = "admin_verified"]

\* A bigger set of submitted releases does no harm to a sender.
LEMMA SenderMonotone ==
    ASSUME NEW k, NEW S, NEW V, SenderSound(k, S), S \subseteq V
    PROVE  SenderSound(k, V)
BY DEF SenderSound

LEMMA DispatchStepInv ==
    ASSUME StoreInv, NEW t \in Tasks, NEW k, DispatchStep(t, k)
    PROVE  StoreInv'
<1>1. task' \in [Tasks -> Task] /\ TasksSound'
  BY TaskStep DEF DispatchStep
<1>2. trust' \in [Releases -> TrustStatus] /\ AdminTrustIsEarned'
  BY DEF DispatchStep, StoreInv, TypeOK, StoreTypeOK, TrustStatus, AdminTrustIsEarned
<1> QED
  BY <1>1, <1>2 DEF DispatchStep, StoreInv, TypeOK, StoreTypeOK, VettedRows

LEMMA DispatchStepSent ==
    ASSUME StoreInv, SentInv, NEW t \in Tasks, NEW k, DispatchStep(t, k),
           accepted \subseteq accepted'
    PROVE  SentInv'
<1>1. task \in [Tasks -> Task] /\ task' = [task EXCEPT ![t] = k] /\ wf' = wf
  BY DEF DispatchStep, StoreInv, TypeOK, StoreTypeOK
<1>2. SentWasAccepted'
  BY <1>1 DEF SentInv, SentWasAccepted
<1>3. ASSUME ManualTargets \cap SentState = {}, NEW u \in Tasks
      PROVE  SenderSound(task'[u], accepted')
  <2>1. CASE u = t
    BY <1>1, <1>3, <2>1 DEF DispatchStep
  <2>2. CASE u # t
    BY <1>1, <1>3, <2>2, SenderMonotone DEF SentInv, SendersSound
  <2> QED BY <2>1, <2>2
<1> QED BY <1>2, <1>3 DEF SentInv, SendersSound

LEMMA DispatchClose ==
    ASSUME SystemInv, NEW t \in Tasks, NEW k, DispatchStep(t, k),
           JobsInv', accepted \subseteq accepted'
    PROVE  SystemInv'
<1>1. StoreInv /\ SentInv
  BY DEF SystemInv, SentInv
<1> QED BY <1>1, DispatchStepInv, DispatchStepSent DEF SystemInv, SentInv, JobsInv

\* Loading a present row makes a sound sender.
LEMMA LoadSender ==
    ASSUME SystemInv, NEW t \in Tasks, NEW r \in Releases, Present(r),
           NEW op \in Op \ {"poll"}, NEW pc \in Pc \ {"trust", "poll"}, NEW target \in WorkflowState,
           pc = "commit" => target \in ValidTransitions[wf[r]],
           pc = "commit" /\ op \in {"approve", "auto"} => target = "approved",
           pc \in {"verdict", "rules"} => target = "rejected" /\ op = "process",
           pc \in {"submit", "resolve", "store"} =>
               /\ op \in {"send", "grab"}
               /\ wf[r] = "approved" /\ target = "queued_for_download",
           pc \notin {"resolve", "store"},
           pc = "commit" /\ target \in SentState => wf[r] \in SentState
    PROVE  /\ Loaded(t, op, r, pc, target) \in Task
           /\ Sound(Loaded(t, op, r, pc, target), cleared)
           /\ ManualTargets \cap SentState = {} =>
                 SenderSound(Loaded(t, op, r, pc, target), accepted)
<1> DEFINE k == Loaded(t, op, r, pc, target)
<1>1. StoreInv
  BY DEF SystemInv
<1>2. k \in Task /\ Sound(k, cleared)
  BY <1>1, LoadSound
<1>3. k.op = op /\ k.pc = pc /\ k.rel = r /\ k.target = target /\ k.seen = wf[r]
  BY DEF Loaded, Idle
<1>4. ManualTargets \cap SentState = {} /\ wf[r] \in SentState => r \in accepted
  BY DEF SystemInv, SentWasAccepted
<1> HIDE DEF k
<1>5. ManualTargets \cap SentState = {} => SenderSound(k, accepted)
  BY <1>3, <1>4 DEF SenderSound
<1> QED BY <1>2, <1>5 DEF k

\* What the tasks of senders and poll loops are known to be.
LEMMA TaskFacts ==
    ASSUME SystemInv, NEW t \in Tasks
    PROVE  /\ task[t] \in Task /\ Sound(task[t], cleared) /\ StoreInv /\ JobsInv
           /\ ManualTargets \cap SentState = {} => SenderSound(task[t], accepted)
           /\ task \in [Tasks -> Task] /\ cleared \subseteq Releases
BY DEF SystemInv, StoreInv, TypeOK, StoreTypeOK, TasksSound, JobsInv, SendersSound

\* A handler that goes idle is sound, and holds nothing.
LEMMA IdleSender ==
    ASSUME NEW C, NEW S
    PROVE  Idle \in Task /\ Sound(Idle, C) /\ SenderSound(Idle, S)
BY IdleSound DEF Idle, SenderSound, SentState

LEMMA IdleSubTyped == IdleSub \in Sub
BY DEF IdleSub, Sub, Via, JobId

LEMMA ReleaseTyped ==
    ASSUME JobsInv, NEW t \in Tasks, Release(t)
    PROVE  sub' \in [Tasks -> Sub]
BY IdleSubTyped DEF Release, JobsInv, DispatchTypeOK

-----------------------------------------------------------------------------
(* The actions of the senders.                                             *)

LEMMA BeginSendInv ==
    ASSUME SystemInv, NEW t \in Handlers, NEW r \in Releases, BeginSend(t, r)
    PROVE  SystemInv'
<1> DEFINE k(pc) == Loaded(t, "send", r, pc, "queued_for_download")
<1>1. /\ t \in Tasks /\ Present(r)
      /\ UNCHANGED <<wf, trust, flag, cleared, clientId, active, job, accepted, hooks>>
  BY DEF BeginSend, Tasks
<1>2. /\ "send" \in Op \ {"poll"} /\ "submit" \in Pc \ {"trust", "poll"} /\ "refused" \in Pc \ {"trust", "poll"}
      /\ "queued_for_download" \in WorkflowState
  BY DEF Op, Pc, WorkflowState
<1>3. PICK via \in Clients \cup {"nzb"} :
        IF wf[r] = "approved"
        THEN task' = [task EXCEPT ![t] = k("submit")] /\ sub' = [sub EXCEPT ![t].via = via]
        ELSE task' = [task EXCEPT ![t] = k("refused")] /\ UNCHANGED sub
  BY DEF BeginSend, Refuse
<1>4. via \in Via
  BY DispatchAssumption DEF Via
<1>5. JobsInv /\ sub \in [Tasks -> Sub]
  BY <1>1, TaskFacts DEF JobsInv, DispatchTypeOK
<1>6. sub' \in [Tasks -> Sub]
  BY <1>1, <1>3, <1>4, <1>5 DEF Sub
<1>7. JobsInv' /\ accepted' = accepted
  BY <1>1, <1>5, <1>6, SameJobs DEF JobsInv, DispatchTypeOK
<1>8. CASE wf[r] = "approved"
  <2>1. /\ k("submit") \in Task /\ Sound(k("submit"), cleared)
        /\ ManualTargets \cap SentState = {} => SenderSound(k("submit"), accepted)
    BY <1>1, <1>2, <1>8, LoadSender
  <2>2. DispatchStep(t, k("submit"))
    BY <1>1, <1>3, <1>7, <1>8, <2>1 DEF DispatchStep
  <2> QED BY <1>1, <1>7, <2>2, DispatchClose
<1>9. CASE wf[r] # "approved"
  <2>1. /\ k("refused") \in Task /\ Sound(k("refused"), cleared)
        /\ ManualTargets \cap SentState = {} => SenderSound(k("refused"), accepted)
    BY <1>1, <1>2, LoadSender
  <2>2. DispatchStep(t, k("refused"))
    BY <1>1, <1>3, <1>7, <1>9, <2>1 DEF DispatchStep
  <2> QED BY <1>1, <1>7, <2>2, DispatchClose
<1> QED BY <1>8, <1>9

LEMMA BeginGrabInv ==
    ASSUME SystemInv, NEW t \in Handlers, NEW r \in Releases, BeginGrab(t, r)
    PROVE  SystemInv'
<1>1. /\ t \in Tasks /\ Present(r)
      /\ UNCHANGED <<wf, trust, flag, cleared, dispatchVars>>
  BY DEF BeginGrab, Tasks
<1>2. /\ "grab" \in Op \ {"poll"} /\ {"submit", "refused", "commit"} \subseteq Pc \ {"trust", "poll"}
      /\ {"queued_for_download", "approved"} \subseteq WorkflowState
  BY DEF Op, Pc, WorkflowState
<1>3. JobsInv' /\ accepted' = accepted
  BY <1>1, TaskFacts, SameJobs DEF JobsInv, DispatchTypeOK, dispatchVars
<1>4. ASSUME NEW k, task' = [task EXCEPT ![t] = k], k \in Task, Sound(k, cleared),
             ManualTargets \cap SentState = {} => SenderSound(k, accepted)
      PROVE  SystemInv'
  <2>1. DispatchStep(t, k)
    BY <1>1, <1>3, <1>4 DEF DispatchStep
  <2> QED BY <1>1, <1>3, <2>1, DispatchClose
<1>5. CASE wf[r] = "approved"
  <2>1. "approved" \notin ValidTransitions["approved"]
    BY DEF ValidTransitions, WorkflowState
  <2>2. task' = [task EXCEPT ![t] = Loaded(t, "grab", r, "submit", "queued_for_download")]
    BY <1>5, <2>1 DEF BeginGrab
  <2> QED BY <1>1, <1>2, <1>4, <1>5, <2>2, LoadSender
<1>6. CASE wf[r] # "approved" /\ "approved" \in ValidTransitions[wf[r]]
  <2>1. task' = [task EXCEPT ![t] = Loaded(t, "grab", r, "commit", "approved")]
    BY <1>6 DEF BeginGrab
  <2>2. "approved" \notin SentState
    BY DEF SentState
  <2> QED BY <1>1, <1>2, <1>4, <1>6, <2>1, <2>2, LoadSender
<1>7. CASE wf[r] # "approved" /\ "approved" \notin ValidTransitions[wf[r]]
  <2>1. task' = [task EXCEPT ![t] = Loaded(t, "grab", r, "refused", "approved")]
    BY <1>7 DEF BeginGrab, Refuse
  <2> QED BY <1>1, <1>2, <1>4, <2>1, LoadSender
<1> QED BY <1>5, <1>6, <1>7

LEMMA GrabTrustInv ==
    ASSUME SystemInv, NEW t \in Tasks, GrabTrust(t)
    PROVE  SystemInv'
<1> DEFINE r == task[t].rel
<1>1. /\ task[t].pc = "trust" /\ UNCHANGED <<wf, flag, cleared, dispatchVars>>
  BY DEF GrabTrust
<1>2. /\ "grab" \in Op \ {"poll"} /\ {"submit", "refused"} \subseteq Pc \ {"trust", "poll"}
      /\ "queued_for_download" \in WorkflowState
  BY DEF Op, Pc, WorkflowState
<1>3. JobsInv' /\ accepted' = accepted
  BY <1>1, TaskFacts, SameJobs DEF JobsInv, DispatchTypeOK, dispatchVars
<1>4. r \in cleared
  BY <1>1, TaskFacts DEF Sound
<1>5. ASSUME NEW k, task' = [task EXCEPT ![t] = k], k \in Task, Sound(k, cleared),
             ManualTargets \cap SentState = {} => SenderSound(k, accepted),
             trust' \in {trust, [trust EXCEPT ![r] = "admin_verified"]}
      PROVE  SystemInv'
  <2>1. DispatchStep(t, k)
    BY <1>1, <1>3, <1>4, <1>5 DEF DispatchStep
  <2> QED BY <1>3, <2>1, DispatchClose
<1>6. CASE ~Present(r)
  BY <1>5, <1>6, IdleSender DEF GrabTrust, Finish
<1>7. CASE Present(r) /\ wf[r] = "approved"
  <2>1. /\ trust' = [trust EXCEPT ![r] = "admin_verified"] /\ r \in Releases
        /\ task' = [task EXCEPT ![t] = Loaded(t, "grab", r, "submit", "queued_for_download")]
    BY <1>7 DEF GrabTrust, Present
  <2> QED BY <1>2, <1>5, <1>7, <2>1, LoadSender
<1>8. CASE Present(r) /\ wf[r] # "approved"
  <2>1. /\ trust' = [trust EXCEPT ![r] = "admin_verified"] /\ r \in Releases
        /\ task' = [task EXCEPT ![t] = Loaded(t, "grab", r, "refused", "queued_for_download")]
    BY <1>8 DEF GrabTrust, Present, Refuse
  <2> QED BY <1>2, <1>5, <1>8, <2>1, LoadSender
<1> QED BY <1>6, <1>7, <1>8

\* A sender that goes on at pc.
LEMMA SenderGoes ==
    ASSUME SystemInv, NEW t \in Tasks, task[t].pc \in {"submit", "resolve", "store"},
           NEW pc \in {"resolve", "store", "commit"}, Goto(t, pc),
           UNCHANGED <<wf, trust, flag, cleared>>,
           ManualTargets \cap SentState = {} => task[t].rel \in accepted',
           accepted \subseteq accepted', JobsInv'
    PROVE  SystemInv'
<1> DEFINE k == [task[t] EXCEPT !.pc = pc]
<1>1. /\ task[t] \in Task /\ Sound(task[t], cleared) /\ StoreInv
      /\ ManualTargets \cap SentState = {} => SenderSound(task[t], accepted)
  BY TaskFacts
<1>2. pc \in Pc
  BY DEF Pc
<1>3. k \in Task /\ task' = [task EXCEPT ![t] = k]
  BY <1>1, <1>2, GotoStep
<1>4. /\ k.pc = pc /\ k.op = task[t].op /\ k.rel = task[t].rel /\ k.seen = task[t].seen
      /\ k.target = task[t].target /\ k.todo = task[t].todo
  BY <1>1 DEF Task
<1>5. task[t].seen = "approved" /\ task[t].target = "queued_for_download"
  BY <1>1 DEF Sound
<1>6. "queued_for_download" \in ValidTransitions["approved"]
  BY DEF ValidTransitions, WorkflowState
<1> HIDE DEF k
<1>7. task[t].op \in {"send", "grab"}
  BY <1>1 DEF Sound
<1>8. Sound(k, cleared)
  BY <1>1, <1>4, <1>5, <1>6, <1>7 DEF Sound
<1>9. ManualTargets \cap SentState = {} => SenderSound(k, accepted')
  BY <1>4, <1>5, <1>7 DEF SenderSound, SentState
<1>10. DispatchStep(t, k)
  BY <1>3, <1>8, <1>9 DEF DispatchStep
<1> QED BY <1>10, DispatchClose

\* An accepted submission whose sender goes on at pc.
LEMMA AcceptedGoes ==
    ASSUME SystemInv, NEW t \in Tasks, task[t].pc = "submit", Accepted(t),
           NEW pc \in {"resolve", "store", "commit"}, Goto(t, pc),
           job' = job \/ \E j \in Jobs : NewJob(t, j), sub' \in [Tasks -> Sub],
           UNCHANGED <<wf, trust, flag, cleared, clientId, active, hooks>>
    PROVE  SystemInv'
<1>1. StoreInv /\ JobsInv
  BY TaskFacts
<1>2. JobsInv' /\ accepted \subseteq accepted'
  BY <1>1, SubmissionStep
<1>3. task[t].rel \in accepted'
  BY DEF Accepted
<1> QED BY <1>2, <1>3, SenderGoes

LEMMA SubmitToSabInv ==
    ASSUME SystemInv, NEW t \in Tasks, SubmitToSab(t)
    PROVE  SystemInv'
<1>1. /\ task[t].pc = "submit" /\ Accepted(t)
      /\ UNCHANGED <<wf, trust, flag, cleared, clientId, active, hooks>>
      /\ job' = job \/ \E j \in Jobs : NewJob(t, j)
      /\ \/ \E j \in Jobs : sub' = [sub EXCEPT ![t].job = j] /\ Goto(t, "store")
         \/ UNCHANGED sub /\ Goto(t, "commit")
  BY DEF SubmitToSab
<1>2. sub \in [Tasks -> Sub]
  BY TaskFacts DEF JobsInv, DispatchTypeOK
<1>3. sub' \in [Tasks -> Sub]
  BY <1>1, <1>2 DEF Sub, JobId
<1> QED BY <1>1, <1>3, AcceptedGoes

LEMMA SubmitToQbtInv ==
    ASSUME SystemInv, NEW t \in Tasks, SubmitToQbt(t)
    PROVE  SystemInv'
<1>1. /\ task[t].pc = "submit" /\ Accepted(t) /\ Goto(t, "resolve")
      /\ UNCHANGED <<wf, trust, flag, cleared, clientId, active, sub, hooks>>
      /\ job' = job \/ \E j \in Jobs : NewJob(t, j)
  BY DEF SubmitToQbt
<1>2. sub' \in [Tasks -> Sub]
  BY <1>1, TaskFacts DEF JobsInv, DispatchTypeOK
<1> QED BY <1>1, <1>2, AcceptedGoes

LEMMA SubmitFailsInv ==
    ASSUME SystemInv, NEW t \in Tasks, SubmitFails(t)
    PROVE  SystemInv'
<1>1. /\ Finish(t) /\ Release(t)
      /\ UNCHANGED <<wf, trust, flag, cleared, clientId, active, accepted, hooks>>
      /\ \/ job' = job
         \/ task[t].pc = "submit" /\ \E j \in Jobs : NewJob(t, j)
  BY DEF SubmitFails
<1>2. StoreInv /\ JobsInv
  BY TaskFacts
<1>3. sub' \in [Tasks -> Sub]
  BY <1>1, <1>2, ReleaseTyped
<1>4. JobsInv'
  <2>1. CASE job' = job
    BY <1>1, <1>2, <1>3, <2>1, SameJobs DEF JobsInv, DispatchTypeOK
  <2>2. CASE task[t].pc = "submit" /\ \E j \in Jobs : NewJob(t, j)
    BY <1>1, <1>2, <1>3, <2>2, SubmissionStep
  <2> QED BY <1>1, <2>1, <2>2
<1>5. DispatchStep(t, Idle)
  BY <1>1, IdleSender DEF DispatchStep, Finish
<1> QED BY <1>1, <1>4, <1>5, DispatchClose

LEMMA ResolveInv ==
    ASSUME SystemInv, NEW t \in Tasks, Resolve(t)
    PROVE  SystemInv'
<1>1. /\ task[t].pc = "resolve"
      /\ UNCHANGED <<wf, trust, flag, cleared, clientId, active, job, accepted, hooks>>
      /\ \/ Goto(t, "commit") /\ UNCHANGED sub
         \/ \E j \in Jobs : sub' = [sub EXCEPT ![t].job = j] /\ Goto(t, "store")
  BY DEF Resolve
<1>2. JobsInv /\ (ManualTargets \cap SentState = {} => SenderSound(task[t], accepted))
  BY TaskFacts
<1>3. sub' \in [Tasks -> Sub]
  BY <1>1, <1>2 DEF JobsInv, DispatchTypeOK, Sub, JobId
<1>4. JobsInv' /\ accepted' = accepted
  BY <1>1, <1>2, <1>3, SameJobs DEF JobsInv, DispatchTypeOK
<1>5. ManualTargets \cap SentState = {} => task[t].rel \in accepted'
  BY <1>1, <1>2, <1>4 DEF SenderSound
<1> QED BY <1>1, <1>4, <1>5, SenderGoes

LEMMA StoreIdInv ==
    ASSUME SystemInv, NEW t \in Tasks, StoreId(t)
    PROVE  SystemInv'
<1>1. /\ task[t].pc = "store" /\ Goto(t, "commit")
      /\ UNCHANGED <<wf, trust, flag, cleared, active, sub, job, accepted, hooks>>
      /\ clientId' \in {clientId, [clientId EXCEPT ![task[t].rel] = sub[t].job]}
  BY DEF StoreId
<1>2. JobsInv /\ (ManualTargets \cap SentState = {} => SenderSound(task[t], accepted))
  BY TaskFacts
<1>3. clientId' \in [Releases -> JobId]
  BY <1>1, <1>2 DEF JobsInv, DispatchTypeOK, Sub
<1>4. JobsInv' /\ accepted' = accepted
  BY <1>1, <1>2, <1>3, SameJobs DEF JobsInv, DispatchTypeOK
<1>5. ManualTargets \cap SentState = {} => task[t].rel \in accepted'
  BY <1>1, <1>2, <1>4 DEF SenderSound
<1> QED BY <1>1, <1>4, <1>5, SenderGoes

-----------------------------------------------------------------------------
(* Completion.                                                             *)

LEMMA ReceiveHookInv ==
    ASSUME SystemInv, NEW t \in Tasks, ReceiveHook(t)
    PROVE  SystemInv'
<1>1. /\ UNCHANGED <<wf, trust, flag, cleared, clientId, active, sub, job, accepted>>
      /\ hooks' \subseteq hooks
  BY DEF ReceiveHook
<1>2. PICK m \in hooks : \E r \in HookMatches(m) :
        /\ wf[r] = "queued_for_download"
        /\ task' = [task EXCEPT ![t] = Loaded(t, "hook", r, "commit",
                      IF m.ok THEN "downloaded" ELSE "download_failed")]
  BY DEF ReceiveHook
<1>3. PICK r \in HookMatches(m) :
        /\ wf[r] = "queued_for_download"
        /\ task' = [task EXCEPT ![t] = Loaded(t, "hook", r, "commit",
                      IF m.ok THEN "downloaded" ELSE "download_failed")]
  BY <1>2
<1> DEFINE v == IF m.ok THEN "downloaded" ELSE "download_failed"
           k == Loaded(t, "hook", r, "commit", v)
<1>4. r \in Releases /\ Present(r)
  BY <1>3 DEF HookMatches, Present, WorkflowState
<1>5. /\ "hook" \in Op \ {"poll"} /\ "commit" \in Pc \ {"trust", "poll"}
      /\ v \in WorkflowState /\ v \in ValidTransitions["queued_for_download"]
      /\ "queued_for_download" \in SentState
  BY DEF Op, Pc, WorkflowState, ValidTransitions, SentState
<1>6. JobsInv' /\ accepted' = accepted
  BY <1>1, TaskFacts, SameJobs DEF JobsInv, DispatchTypeOK
<1>7. /\ k \in Task /\ Sound(k, cleared)
      /\ ManualTargets \cap SentState = {} => SenderSound(k, accepted)
  BY <1>3, <1>4, <1>5, LoadSender
<1>8. DispatchStep(t, k)
  BY <1>1, <1>3, <1>6, <1>7 DEF DispatchStep
<1> QED BY <1>6, <1>8, DispatchClose

LEMMA BeginPollInv ==
    ASSUME SystemInv, NEW t \in Tasks, BeginPoll(t)
    PROVE  SystemInv'
<1> DEFINE Q == {r \in Releases : PollLoads(r)}
           k == [Idle EXCEPT !.op = "poll", !.pc = "poll", !.todo = Q]
<1>1. /\ UNCHANGED <<wf, trust, flag, cleared, clientId, active, job, accepted, hooks>>
      /\ task' = [task EXCEPT ![t] = k]
      /\ sub' = [sub EXCEPT ![t].ids =
                   [r \in Releases |-> IF r \in Q THEN clientId[r] ELSE NoJob]]
  BY DEF BeginPoll
<1>2. StoreInv /\ JobsInv
  BY TaskFacts
<1>3. Q \subseteq Releases /\ \A r \in Q : wf[r] = "queued_for_download"
  BY DEF PollLoads
<1>4. Q \subseteq cleared
  BY <1>2, <1>3 DEF StoreInv, VettedRows, Vetted, ClearedState
<1>5. ManualTargets \cap SentState = {} => Q \subseteq accepted
  BY <1>3 DEF SystemInv, SentWasAccepted, SentState
<1>6. sub' \in [Tasks -> Sub]
  BY <1>1, <1>2 DEF JobsInv, DispatchTypeOK, Sub, JobId
<1>7. JobsInv' /\ accepted' = accepted
  BY <1>1, <1>2, <1>6, SameJobs DEF JobsInv, DispatchTypeOK
<1>8. /\ k.op = "poll" /\ k.pc = "poll" /\ k.todo = Q /\ k.seen = "discovered"
      /\ k \in Task
  BY <1>3 DEF Idle, Task, Op, Pc, WorkflowState, TrustStatus
<1> HIDE DEF k, Q
<1>9. Sound(k, cleared)
  BY <1>4, <1>8 DEF Sound, Vetted, ClearedState
<1>10. ManualTargets \cap SentState = {} => SenderSound(k, accepted)
  BY <1>5, <1>8 DEF SenderSound, SentState
<1>11. DispatchStep(t, k)
  BY <1>1, <1>7, <1>8, <1>9, <1>10 DEF DispatchStep
<1> QED BY <1>7, <1>11, DispatchClose

LEMMA PollSettlesInv ==
    ASSUME SystemInv, NEW t \in Pollers, NEW r \in Releases, PollSettles(t, r)
    PROVE  SystemInv'
<1> DEFINE v == PollVerdict(sub[t].ids[r])
           k == [Idle EXCEPT
                  !.op = "poll", !.pc = "commit", !.rel = r, !.target = v,
                  !.seen = "queued_for_download",
                  !.todo = task[t].todo \ {r}]
<1>1. /\ t \in Tasks /\ task[t].pc = "poll" /\ r \in task[t].todo
      /\ UNCHANGED <<wf, trust, flag, cleared, dispatchVars>>
      /\ task' = [task EXCEPT ![t] = k]
  BY DEF PollSettles, Tasks
<1>2. /\ task[t] \in Task /\ task[t].todo \subseteq cleared /\ JobsInv
      /\ ManualTargets \cap SentState = {} => task[t].todo \subseteq accepted
  BY <1>1, TaskFacts DEF Sound, SenderSound
<1>3. /\ v \in WorkflowState /\ v \in ValidTransitions["queued_for_download"]
      /\ "queued_for_download" \in WorkflowState
  BY DEF PollVerdict, WorkflowState, ValidTransitions
<1>4. JobsInv' /\ accepted' = accepted
  BY <1>1, <1>2, SameJobs DEF JobsInv, DispatchTypeOK, dispatchVars
<1> HIDE DEF v
<1>5. /\ k.op = "poll" /\ k.pc = "commit" /\ k.rel = r /\ k.target = v
      /\ k.seen = "queued_for_download" /\ k.todo = task[t].todo \ {r}
      /\ k \in Task
  BY <1>2, <1>3 DEF Idle, Task, Op, Pc, TrustStatus
<1> HIDE DEF k
<1>6. Sound(k, cleared)
  BY <1>1, <1>2, <1>3, <1>5 DEF Sound
<1>7. ManualTargets \cap SentState = {} => SenderSound(k, accepted)
  BY <1>1, <1>2, <1>5 DEF SenderSound
<1>8. DispatchStep(t, k)
  BY <1>1, <1>4, <1>5, <1>6, <1>7 DEF DispatchStep
<1> QED BY <1>1, <1>4, <1>8, DispatchClose

LEMMA PollSkipsInv ==
    ASSUME SystemInv, NEW t \in Tasks, NEW r \in Releases, PollSkips(t, r)
    PROVE  SystemInv'
<1> DEFINE k == [task[t] EXCEPT !.todo = @ \ {r}]
<1>1. /\ UNCHANGED <<wf, trust, flag, cleared, dispatchVars>>
      /\ task[t].pc = "poll"
      /\ task' = [task EXCEPT ![t].todo = @ \ {r}]
  BY DEF PollSkips
<1>2. /\ task[t] \in Task /\ Sound(task[t], cleared) /\ JobsInv
      /\ ManualTargets \cap SentState = {} => SenderSound(task[t], accepted)
      /\ task \in [Tasks -> Task]
  BY TaskFacts
<1>3. JobsInv' /\ accepted' = accepted
  BY <1>1, <1>2, SameJobs DEF JobsInv, DispatchTypeOK, dispatchVars
<1>4. k \in Task /\ task' = [task EXCEPT ![t] = k]
  BY <1>1, <1>2 DEF Task
<1>5. Sound(k, cleared)
  BY <1>1, <1>2 DEF Sound, Task
<1>6. ManualTargets \cap SentState = {} => SenderSound(k, accepted)
  BY <1>1, <1>2 DEF SenderSound, Task
<1>7. DispatchStep(t, k)
  BY <1>1, <1>3, <1>4, <1>5, <1>6 DEF DispatchStep
<1> QED BY <1>3, <1>7, DispatchClose

LEMMA EndPollInv ==
    ASSUME SystemInv, NEW t \in Tasks, EndPoll(t)
    PROVE  SystemInv'
<1>1. /\ Finish(t) /\ Release(t)
      /\ UNCHANGED <<wf, trust, flag, cleared, clientId, active, job, accepted, hooks>>
  BY DEF EndPoll
<1>2. JobsInv
  BY TaskFacts
<1>3. sub' \in [Tasks -> Sub]
  BY <1>1, <1>2, ReleaseTyped
<1>4. JobsInv' /\ accepted' = accepted
  BY <1>1, <1>2, <1>3, SameJobs DEF JobsInv, DispatchTypeOK
<1>5. DispatchStep(t, Idle)
  BY <1>1, IdleSender DEF DispatchStep, Finish
<1> QED BY <1>4, <1>5, DispatchClose

-----------------------------------------------------------------------------
(* The review and the steps every handler has, beside the download.        *)

\* What these steps may do to the task t and to the rows: a task keeps what
\* it saw, or loads a row as it is now; it enters no state of a sender, and
\* no release enters a sent state but by a commit that was due.
ReviewTask(t, k) ==
    /\ task' = [task EXCEPT ![t] = k]
    /\ \/ k.seen = "discovered"
       \/ k.seen = task[t].seen /\ k.rel = task[t].rel
       \/ k.rel \in Releases /\ k.seen = wf[k.rel]
    /\ k.pc \notin {"resolve", "store"}
    /\ k.pc = "commit" => k.target \notin SentState
    /\ k.op = "poll" => k.todo = task[t].todo /\ task[t].op = "poll"

LEMMA ReviewTaskSent ==
    ASSUME SystemInv, NEW t \in Tasks, NEW k, ReviewTask(t, k), UNCHANGED accepted,
           \A r \in Releases : wf'[r] \in SentState =>
              \/ wf'[r] = wf[r]
              \/ task[t].pc = "commit" /\ task[t].rel = r /\ wf'[r] = task[t].target
    PROVE  SentInv'
<1>1. accepted' = accepted /\ task \in [Tasks -> Task]
  BY TaskFacts
<1>2. ASSUME ManualTargets \cap SentState = {}, NEW r \in Releases, wf'[r] \in SentState
      PROVE  r \in accepted
  <2>1. CASE wf'[r] = wf[r]
    BY <1>2, <2>1 DEF SystemInv, SentWasAccepted
  <2>2. CASE task[t].pc = "commit" /\ task[t].rel = r /\ wf'[r] = task[t].target
    BY <1>2, <2>2, TaskFacts DEF SenderSound
  <2> QED BY <1>2, <2>1, <2>2
<1>3. ASSUME ManualTargets \cap SentState = {}, NEW u \in Tasks
      PROVE  SenderSound(task'[u], accepted)
  <2>1. SenderSound(task[t], accepted)
    BY <1>3, TaskFacts
  <2>2. CASE u = t
    <3>1. task'[u] = k
      BY <1>1, <2>2 DEF ReviewTask
    <3>2. k.seen \in SentState => k.rel \in accepted
      BY <1>3, <2>1 DEF ReviewTask, SenderSound, SystemInv, SentWasAccepted, SentState
    <3>3. SenderSound(k, accepted)
      BY <2>1, <3>2 DEF ReviewTask, SenderSound
    <3> QED BY <3>1, <3>3
  <2>3. CASE u # t
    BY <1>1, <1>3, <2>3, TaskFacts DEF ReviewTask
  <2> QED BY <2>2, <2>3
<1> QED BY <1>1, <1>2, <1>3 DEF SentInv, SentWasAccepted, SendersSound

\* Every action of the review changes one task that way.
LEMMA ReviewTaskShape ==
    ASSUME SystemInv, NEW t \in Tasks, Review(t), ManualTargets \cap SentState = {}
    PROVE  \E k : ReviewTask(t, k)
<1>1. task \in [Tasks -> Task] /\ task[t] \in Task /\ Sound(task[t], cleared)
  BY TaskFacts
<1>2. "approved" \notin SentState /\ "rejected" \notin SentState
  BY DEF SentState
<1>3. ASSUME NEW op \in Op \ {"poll"}, NEW r \in Releases, NEW pc, NEW target,
             pc \notin {"resolve", "store"}, pc = "commit" => target \notin SentState,
             task' = [task EXCEPT ![t] = Loaded(t, op, r, pc, target)]
      PROVE  \E k : ReviewTask(t, k)
  <2> DEFINE k == Loaded(t, op, r, pc, target)
  <2>1. k.op = op /\ k.pc = pc /\ k.rel = r /\ k.target = target /\ k.seen = wf[r]
    BY DEF Loaded, Idle
  <2> HIDE DEF k
  <2>2. ReviewTask(t, k)
    BY <1>3, <2>1 DEF ReviewTask, k
  <2> QED BY <2>2
<1>4. ASSUME NEW pc, pc \notin {"resolve", "store"},
             pc = "commit" => task[t].target \notin SentState,
             Goto(t, pc)
      PROVE  \E k : ReviewTask(t, k)
  <2> DEFINE k == [task[t] EXCEPT !.pc = pc]
  <2>1. /\ k.op = task[t].op /\ k.pc = pc /\ k.rel = task[t].rel
        /\ k.target = task[t].target /\ k.seen = task[t].seen /\ k.todo = task[t].todo
        /\ task' = [task EXCEPT ![t] = k]
    BY <1>1, <1>4 DEF Task, Goto
  <2> HIDE DEF k
  <2>2. ReviewTask(t, k)
    BY <1>4, <2>1 DEF ReviewTask
  <2> QED BY <2>2
<1>5. CASE Finish(t)
  <2>1. ReviewTask(t, Idle)
    BY <1>5 DEF ReviewTask, Finish, Idle
  <2> QED BY <2>1
<1>6. ASSUME NEW r \in Releases, BeginTransition(t, r) \/ BeginApprove(t, r)
      PROVE  \E k : ReviewTask(t, k)
  <2>1. PICK op \in {"transition", "approve"}, target \in ManualTargets \cup {"approved"} :
          BeginMove(t, op, r, target)
    BY <1>6 DEF BeginTransition, BeginApprove
  <2>2. op \in Op \ {"poll"} /\ target \notin SentState
    BY <1>2, <2>1 DEF Op
  <2>3. \E pc \in {"commit", "refused"} :
           task' = [task EXCEPT ![t] = Loaded(t, op, r, pc, target)]
    BY <2>1 DEF BeginMove, Refuse
  <2> QED BY <1>3, <2>2, <2>3
<1>7. ASSUME NEW r \in Releases, BeginOverride(t, r) \/ BeginDelete(t, r)
      PROVE  \E k : ReviewTask(t, k)
  <2>1. {"override", "delete"} \subseteq Op \ {"poll"}
    BY DEF Op
  <2> QED BY <1>3, <1>7, <2>1 DEF BeginOverride, BeginDelete, Refuse
<1>8. ASSUME NEW r \in Releases, Discover(t, r)
      PROVE  \E k : ReviewTask(t, k)
  <2>1. ReviewTask(t, [Idle EXCEPT !.op = "process", !.pc = "analyse", !.rel = r])
    BY <1>8 DEF ReviewTask, Discover, Idle
  <2> QED BY <2>1
<1>9. CASE BeginSweep(t)
  <2>1. PICK S : ReviewTask(t, [Idle EXCEPT !.op = "retention", !.pc = "sweep", !.todo = S])
    BY <1>9 DEF ReviewTask, BeginSweep, Idle
  <2> QED BY <2>1
<1>10. CASE CommitTrust(t) \/ CommitOverride(t) \/ CommitDelete(t) \/ CommitSweep(t)
  BY <1>4, <1>5, <1>10 DEF CommitTrust, CommitOverride, CommitDelete, CommitSweep
<1>11. CASE Analyse(t)
  <2>1. "process" \in Op \ {"poll"}
    BY DEF Op
  <2>2. CASE task' = task
    <3>1. ReviewTask(t, task[t])
      BY <1>11, <2>2 DEF Analyse, ReviewTask, SystemInv, StoreInv, TypeOK, StoreTypeOK
    <3> QED BY <3>1
  <2>3. CASE task' # task
    BY <1>3, <1>5, <1>11, <2>1, <2>3 DEF Analyse, Present
  <2> QED BY <2>2, <2>3
<1>12. CASE DetermineTrust(t)
  BY <1>4, <1>5, <1>12 DEF DetermineTrust
<1>13. CASE ApplyRules(t)
  <2>1. task[t].target = "rejected"
    BY <1>1, <1>13 DEF ApplyRules, Sound
  <2>2. CASE Finish(t) \/ Goto(t, "commit")
    BY <1>2, <1>4, <1>5, <2>1, <2>2
  <2>3. CASE task' = [task EXCEPT ![t].op = "auto", ![t].pc = "commit",
                                  ![t].target = "approved"]
    <3> DEFINE k == [task[t] EXCEPT !.op = "auto", !.pc = "commit", !.target = "approved"]
    <3>1. /\ k.op = "auto" /\ k.pc = "commit" /\ k.target = "approved"
          /\ k.rel = task[t].rel /\ k.seen = task[t].seen
          /\ task' = [task EXCEPT ![t] = k]
      BY <1>1, <2>3 DEF Task
    <3> HIDE DEF k
    <3>2. ReviewTask(t, k)
      BY <1>2, <3>1 DEF ReviewTask
    <3> QED BY <3>2
  <2> QED BY <1>13, <2>2, <2>3 DEF ApplyRules
<1> QED
  BY <1>6, <1>7, <1>8, <1>9, <1>10, <1>11, <1>12, <1>13 DEF Review

\* No action of the review puts a release into a sent state.
LEMMA ReviewNotSent ==
    ASSUME StoreInv, NEW t \in Tasks, NEW r \in Releases, Review(t), wf'[r] \in SentState
    PROVE  wf'[r] = wf[r]
<1>1. wf \in [Releases -> RowState]
  BY DEF StoreInv, TypeOK, StoreTypeOK
<1>2. {"approved", "deleted", "discovered"} \cap SentState = {}
  BY DEF SentState
<1>3. CASE CommitOverride(t) \/ CommitDelete(t) \/ CommitSweep(t)
  BY <1>1, <1>2, <1>3 DEF CommitOverride, CommitDelete, CommitSweep, RemoveRows, Present
<1>4. ASSUME NEW q \in Releases, Discover(t, q) PROVE wf'[r] = wf[r]
  BY <1>1, <1>2, <1>4 DEF Discover
<1>5. CASE wf' = wf
  BY <1>5
<1> QED
  BY <1>3, <1>4, <1>5 DEF Review, BeginTransition, BeginApprove, BeginMove,
     BeginOverride, BeginDelete, BeginSweep, CommitTrust, Analyse, DetermineTrust, ApplyRules

\* A handler's step never takes a release out of the cleared ones.
LEMMA ClearedGrows ==
    ASSUME NEW t, Review(t) \/ StoreStep(t)
    PROVE  cleared \subseteq cleared'
BY DEF Review, StoreStep, BeginTransition, BeginApprove, BeginMove, BeginOverride,
   BeginDelete, BeginSweep, Discover, CommitTrust, CommitOverride, CommitDelete,
   CommitSweep, Analyse, DetermineTrust, ApplyRules, CommitState, CommitFails, Audit,
   Return, Crash

LEMMA SystemReviewInv ==
    ASSUME SystemInv, NEW t \in Handlers, Review(t), UNCHANGED dispatchVars
    PROVE  SystemInv'
<1>1. t \in Tasks /\ StoreInv /\ JobsInv
  BY TaskFacts DEF Tasks
<1>2. StoreInv'
  BY <1>1, ReviewInv
<1>3. JobsInv' /\ accepted' = accepted
  BY <1>1, ClearedGrows, SameJobs DEF dispatchVars, JobsInv, DispatchTypeOK
<1>4. SentInv'
  <2>1. CASE ManualTargets \cap SentState = {}
    BY <1>1, <1>3, <2>1, ReviewTaskShape, ReviewTaskSent, ReviewNotSent
  <2>2. CASE ManualTargets \cap SentState # {}
    BY <2>2 DEF SentInv, SentWasAccepted, SendersSound
  <2> QED BY <2>1, <2>2
<1> QED BY <1>2, <1>3, <1>4 DEF SystemInv, JobsInv, SentInv

LEMMA SystemStoreStepInv ==
    ASSUME SystemInv, NEW t \in Tasks, StoreStepOf(t)
    PROVE  SystemInv'
<1>1. /\ StoreStep(t) /\ Release(t) /\ UNCHANGED <<clientId, active, job, accepted, hooks>>
      /\ StoreInv /\ JobsInv /\ task \in [Tasks -> Task] /\ task[t] \in Task
      /\ wf \in [Releases -> RowState]
  BY TaskFacts DEF StoreStepOf, StoreStep, StoreInv, TypeOK, StoreTypeOK
<1>2. StoreInv'
  BY <1>1, StoreStepInv
<1>3. sub' \in [Tasks -> Sub]
  BY <1>1, ReleaseTyped
<1>4. JobsInv'
  BY <1>1, <1>3, ClearedGrows, SameJobs DEF JobsInv, DispatchTypeOK
<1>5. \E k : ReviewTask(t, k)
  <2>1. CASE Finish(t)
    <3>1. ReviewTask(t, Idle)
      BY <2>1 DEF ReviewTask, Finish, Idle
    <3> QED BY <3>1
  <2>2. ASSUME NEW pc \in {"audit", "trust", "poll"}, Goto(t, pc)
        PROVE  \E k : ReviewTask(t, k)
    <3> DEFINE k == [task[t] EXCEPT !.pc = pc]
    <3>1. /\ k.op = task[t].op /\ k.pc = pc /\ k.rel = task[t].rel
          /\ k.seen = task[t].seen /\ k.todo = task[t].todo
          /\ task' = [task EXCEPT ![t] = k]
      BY <1>1, <2>2 DEF Task, Goto
    <3> HIDE DEF k
    <3>2. ReviewTask(t, k)
      BY <2>2, <3>1 DEF ReviewTask
    <3> QED BY <3>2
  <2>3. AfterCommit(t) \in {"audit", "trust"}
    BY DEF AfterCommit
  <2> QED
    BY <1>1, <2>1, <2>2, <2>3 DEF StoreStep, CommitState, CommitFails, Audit, Return, Crash
<1>6. ASSUME NEW r \in Releases, wf'[r] # wf[r]
      PROVE  task[t].pc = "commit" /\ task[t].rel = r /\ wf'[r] = task[t].target
  BY <1>1, <1>6 DEF StoreStep, CommitState, CommitFails, Audit, Return, Crash
<1>7. SentInv'
  BY <1>1, <1>5, <1>6, ReviewTaskSent
<1> QED BY <1>2, <1>4, <1>7 DEF SystemInv, JobsInv, SentInv

\* The clients and the setting touch no handler and no row.
LEMMA ClientInv ==
    ASSUME SystemInv, Client
    PROVE  SystemInv'
<1>1. StoreInv /\ JobsInv /\ SentInv
  BY DEF SystemInv, JobsInv, SentInv
<1>2. storeVars' = storeVars
  BY DEF Client, AgeJob, FinishJob, RemoveJob, JobMoves, SetActiveClient, LoseHook
<1>3. JobsInv' /\ accepted' = accepted
  <2>1. ASSUME NEW j \in Jobs, AgeJob(j) \/ RemoveJob(j)
        PROVE  JobsInv' /\ accepted' = accepted
    BY <1>1, <2>1, JobMovesStep DEF AgeJob, RemoveJob, JobsInv, DispatchTypeOK
  <2>2. ASSUME NEW j \in Jobs, FinishJob(j)
        PROVE  JobsInv' /\ accepted' = accepted
    <3>1. PICK ok \in BOOLEAN :
            /\ JobMoves(j, {"running"}, IF ok THEN "completed" ELSE "failed")
            /\ hooks' = hooks \cup {[job |-> j, ok |-> ok]}
      BY <2>2 DEF FinishJob
    <3>2. hooks' \subseteq Hook
      BY <1>1, <3>1 DEF JobsInv, DispatchTypeOK, Hook
    <3> QED BY <1>1, <3>1, <3>2, JobMovesStep
  <2>3. CASE SetActiveClient
    BY <1>1, <2>3, SameJobs DEF SetActiveClient, JobsInv, DispatchTypeOK, storeVars
  <2>4. CASE LoseHook
    BY <1>1, <2>4, SameJobs DEF LoseHook, JobsInv, DispatchTypeOK, storeVars
  <2> QED BY <2>1, <2>2, <2>3, <2>4 DEF Client
<1>4. StoreInv'
  BY <1>1, <1>2 DEF storeVars, StoreInv, TypeOK, StoreTypeOK, VettedRows,
                    AdminTrustIsEarned, TasksSound
<1>5. SentInv'
  BY <1>1, <1>2, <1>3 DEF storeVars, SentInv, SentWasAccepted, SendersSound
<1> QED BY <1>3, <1>4, <1>5 DEF SystemInv, JobsInv, SentInv

-----------------------------------------------------------------------------
(* The theorems.                                                           *)

LEMMA SystemInitInv ==
    ASSUME SystemInit
    PROVE  SystemInv
<1>1. StoreInv
  BY StoreInitInv DEF SystemInit
<1>2. DispatchTypeOK
  BY IdleSubTyped DEF SystemInit, DispatchInit, DispatchTypeOK, Job, JobId, Hook
<1>3. OnlyReviewedSubmitted
  BY DEF SystemInit, DispatchInit, OnlyReviewedSubmitted
<1>4. SentWasAccepted
  BY DEF SystemInit, StoreInit, SentWasAccepted, SentState
<1>5. SendersSound
  BY IdleSender DEF SystemInit, StoreInit, SendersSound
<1> QED BY <1>1, <1>2, <1>3, <1>4, <1>5 DEF SystemInv

LEMMA SystemNextInv ==
    ASSUME SystemInv, [SystemNext]_systemVars
    PROVE  SystemInv'
<1>1. ASSUME NEW t \in Handlers, Review(t), UNCHANGED dispatchVars PROVE SystemInv'
  BY <1>1, SystemReviewInv
<1>2. ASSUME NEW t \in Handlers, Send(t) PROVE SystemInv'
  BY <1>2, BeginSendInv, BeginGrabInv, GrabTrustInv, SubmitToSabInv, SubmitToQbtInv,
     SubmitFailsInv, ResolveInv, StoreIdInv, ReceiveHookInv DEF Send, Tasks
<1>3. ASSUME NEW t \in Pollers, Poll(t) PROVE SystemInv'
  BY <1>3, BeginPollInv, EndPollInv, PollSettlesInv, PollSkipsInv DEF Poll, Tasks
<1>4. ASSUME NEW t \in Tasks, StoreStepOf(t) PROVE SystemInv'
  BY <1>4, SystemStoreStepInv
<1>5. CASE Client
  BY <1>5, ClientInv
<1>6. CASE UNCHANGED systemVars
  BY <1>6 DEF systemVars, storeVars, dispatchVars, SystemInv, StoreInv, TypeOK, StoreTypeOK,
     VettedRows, AdminTrustIsEarned, TasksSound, DispatchTypeOK, OnlyReviewedSubmitted,
     SentWasAccepted, SendersSound
<1> QED BY <1>1, <1>2, <1>3, <1>4, <1>5, <1>6 DEF SystemNext

\* The inductive invariant of the whole system: any releases, any number of
\* handlers, poll loops and jobs, any client faults and any crashes.
THEOREM SystemInvariant == SystemSpec => []SystemInv
<1>1. SystemInit => SystemInv
  BY SystemInitInv
<1>2. SystemInv /\ [SystemNext]_systemVars => SystemInv'
  BY SystemNextInv
<1> QED BY <1>1, <1>2, PTL DEF SystemSpec

\* Type correctness of the table, the handlers, the clients' jobs and hooks.
THEOREM SystemTypeCorrect == SystemSpec => []SystemTypeOK
<1>1. SystemInv => SystemTypeOK
  BY DEF SystemInv, StoreInv, TypeOK, SystemTypeOK
<1> QED BY <1>1, SystemInvariant, PTL

\* Sending, callbacks and polling do not open a way around the review.
THEOREM SystemReviewIsExplicit == SystemSpec => []ExplicitReview
<1>1. SystemInv => ExplicitReview
  BY DEF SystemInv, StoreInv, VettedRows, ExplicitReview, Vetted
<1> QED BY <1>1, SystemInvariant, PTL

\* No download client ever gets a release that nobody reviewed or overrode.
THEOREM NothingUnreviewedIsSent == SystemSpec => []OnlyReviewedSubmitted
<1>1. SystemInv => OnlyReviewedSubmitted
  BY DEF SystemInv
<1> QED BY <1>1, SystemInvariant, PTL

\* No release counts as queued, downloaded or failed unless a client was asked
\* for it and reported no error, whatever fails or crashes and whatever the
\* client made of it, if admins set no such states by hand.
THEOREM SentReleasesWereAccepted == SystemSpec => []SentWasAccepted
<1>1. SystemInv => SentWasAccepted
  BY DEF SystemInv
<1> QED BY <1>1, SystemInvariant, PTL

-----------------------------------------------------------------------------
(* The rows of the whole system and the transition table.                  *)

LEMMA SendKeepsRows ==
    ASSUME NEW t, Send(t) \/ Poll(t)
    PROVE  wf' = wf
BY DEF Send, Poll, BeginSend, BeginGrab, GrabTrust, SubmitToSab, SubmitToQbt, SubmitFails,
       Resolve, StoreId, ReceiveHook, BeginPoll, EndPoll, PollSettles, PollSkips

LEMMA ClientKeepsStore ==
    ASSUME Client
    PROVE  UNCHANGED storeVars
BY DEF Client, AgeJob, FinishJob, RemoveJob, JobMoves, SetActiveClient, LoseHook, storeVars

\* Only the review and the commits of a handler move a row.
LEMMA SystemRowStep ==
    ASSUME SystemInv, [SystemNext]_systemVars
    PROVE  \/ wf' = wf
           \/ \E t \in Tasks : /\ Review(t) \/ StoreStep(t)
                               /\ \A r \in Releases : RowMove(t, r)
<1>1. StoreInv
  BY DEF SystemInv
<1>2. ASSUME NEW t \in Tasks, Review(t) \/ StoreStep(t)
      PROVE  \A r \in Releases : RowMove(t, r)
  BY <1>1, <1>2, ReviewRowMove, StoreStepRowMove
<1>3. ASSUME NEW t \in Tasks, StoreStepOf(t) PROVE StoreStep(t)
  BY <1>3 DEF StoreStepOf, StoreStep
<1> QED
  BY <1>2, <1>3, SendKeepsRows, ClientKeepsStore
     DEF SystemNext, Tasks, systemVars, storeVars

(***************************************************************************)
(* Sending, callbacks and polling included, a commit that moves a release  *)
(* follows the table from the state of now or from the state its handler   *)
(* had loaded, or it is an override.                                       *)
(***************************************************************************)
THEOREM SystemFollowsTable == SystemSpec => StepsFollowTable
<1> DEFINE Moves(r) == /\ wf[r] \in WorkflowState
                       /\ wf'[r] \in WorkflowState
                       /\ wf'[r] # wf[r]
<1>1. ASSUME SystemInv, [SystemNext]_systemVars
      PROVE  [\A r \in Releases : Moves(r) => FollowsTable(r)]_storeVars
  <2>1. StoreInv
    BY <1>1 DEF SystemInv
  <2>2. ASSUME NEW t \in Tasks, \A r \in Releases : RowMove(t, r)
        PROVE  \A r \in Releases : Moves(r) => FollowsTable(r)
    BY <2>1, <2>2, RowMoveFollowsTable
  <2> QED BY <1>1, <2>2, SystemRowStep
<1> QED BY <1>1, SystemInvariant, PTL DEF SystemSpec, StepsFollowTable

\* No sender, callback or poll loop writes a deleted release back.
THEOREM SystemDeletedIsFinal == SystemSpec => DeletedIsFinal
<1>1. ASSUME SystemInv, [SystemNext]_systemVars
      PROVE  [\A r \in Releases : wf[r] = "deleted" => wf'[r] = "deleted"]_storeVars
  BY <1>1, SystemRowStep, RowMoveKeepsDeleted
<1> QED BY <1>1, SystemInvariant, PTL DEF SystemSpec, DeletedIsFinal

\* The approval of grab invents no admin's verdict either.
THEOREM SystemAdminTrust == SystemSpec => []AdminTrustIsEarned
<1>1. SystemInv => AdminTrustIsEarned
  BY DEF SystemInv, StoreInv
<1> QED BY <1>1, SystemInvariant, PTL

-----------------------------------------------------------------------------
(* The whole system as an implementation of the lifecycle.                 *)

LEMMA SystemStepImplements ==
    ASSUME SystemInv, ViewsFresh, [SystemNext]_systemVars
    PROVE  [Lifecycle!Next]_wf
<1>1. StoreInv
  BY DEF SystemInv
<1> QED BY <1>1, SystemRowStep, ReviewImplements, StoreStepImplements

\* With any number of handlers and poll loops, a step that no stale row is
\* behind is a step of the lifecycle.
THEOREM FreshSystemIsLifecycle == SystemSpec => FreshStepsFollowLifecycle
<1>1. SystemInv /\ [SystemNext]_systemVars => [ViewsFresh => [Lifecycle!Next]_wf]_storeVars
  BY SystemStepImplements
<1> QED BY <1>1, SystemInvariant, PTL DEF SystemSpec, FreshStepsFollowLifecycle

-----------------------------------------------------------------------------
(* Handlers that take turns.                                               *)

\* Of all handlers and poll loops at most one is at work.
TakesTurns == \A t, u \in Tasks : task[t].pc # "idle" /\ task[u].pc # "idle" => t = u

\* Where a task relies on the row it loaded; a poll loop relies on all the
\* rows it has yet to ask about.
HeldPc == RelyingPc \cup {"submit", "resolve", "store"}

HeldTask(k, w) ==
    /\ (k.pc \in HeldPc /\ k.rel \in Releases /\ w[k.rel] \in WorkflowState)
           => w[k.rel] = k.seen
    /\ k.op = "poll" =>
           /\ k.pc \in {"poll", "commit", "audit"}
           /\ k.pc = "commit" => k.rel \notin k.todo
           /\ \A r \in k.todo : w[r] \in WorkflowState => w[r] = "queued_for_download"

ViewsHeld == \A t \in Tasks : HeldTask(task[t], wf)

\* A step of the task at work, to a task whose views hold.
HeldStep(t, k) ==
    /\ task' = [task EXCEPT ![t] = k]
    /\ task[t].pc # "idle" \/ k.pc # "idle"
    /\ HeldTask(k, wf')

\* While tasks take turns nobody else relies on anything.
LEMMA TurnKeepsViews ==
    ASSUME SystemInv, ViewsHeld, TakesTurns, TakesTurns',
           NEW t \in Tasks, NEW k, HeldStep(t, k)
    PROVE  ViewsHeld'
<1>1. task \in [Tasks -> Task]
  BY DEF SystemInv, StoreInv, TypeOK, StoreTypeOK
<1>2. task'[t] = k
  BY <1>1 DEF HeldStep
<1>3. ASSUME NEW u \in Tasks, u # t
      PROVE  HeldTask(task'[u], wf')
  <2>1. task'[u] = task[u]
    BY <1>1, <1>3 DEF HeldStep
  <2>2. task[u].pc = "idle"
    BY <1>2, <1>3, <2>1 DEF TakesTurns, HeldStep
  <2>3. HeldTask(task[u], wf)
    BY DEF ViewsHeld
  <2> QED BY <2>1, <2>2, <2>3 DEF HeldTask, HeldPc, RelyingPc
<1> QED BY <1>2, <1>3 DEF ViewsHeld, HeldStep

LEMMA FinishHeld ==
    ASSUME NEW t \in Tasks, Finish(t), task[t].pc # "idle"
    PROVE  \E k : HeldStep(t, k)
<1>1. HeldStep(t, Idle)
  BY DEF HeldStep, Finish, Idle, HeldTask, HeldPc, RelyingPc
<1> QED BY <1>1

LEMMA LoadedHeld ==
    ASSUME NEW t \in Tasks, NEW op, op # "poll", NEW r, NEW pc, pc # "idle", NEW target,
           wf' = wf, task' = [task EXCEPT ![t] = Loaded(t, op, r, pc, target)]
    PROVE  \E k : HeldStep(t, k)
<1> DEFINE k == Loaded(t, op, r, pc, target)
<1>1. k.op = op /\ k.pc = pc /\ k.rel = r /\ k.seen = wf[r]
  BY DEF Loaded, Idle
<1> HIDE DEF k
<1>2. HeldStep(t, k)
  BY <1>1 DEF HeldStep, HeldTask, k
<1> QED BY <1>2

\* Going on to where no view matters, or with the same view of the same rows.
LEMMA GotoHeld ==
    ASSUME SystemInv, ViewsHeld, NEW t \in Tasks, task[t].pc # "idle", task[t].op # "poll",
           NEW pc, Goto(t, pc), pc \notin HeldPc \/ (wf' = wf /\ task[t].pc \in HeldPc)
    PROVE  \E k : HeldStep(t, k)
<1> DEFINE k == [task[t] EXCEPT !.pc = pc]
<1>1. /\ k.op = task[t].op /\ k.pc = pc /\ k.rel = task[t].rel /\ k.seen = task[t].seen
      /\ task' = [task EXCEPT ![t] = k]
  BY TaskFacts DEF Task, Goto
<1> HIDE DEF k
<1>2. HeldTask(task[t], wf)
  BY DEF ViewsHeld
<1>3. HeldStep(t, k)
  BY <1>1, <1>2 DEF HeldStep, HeldTask
<1> QED BY <1>3

LEMMA ReviewHeld ==
    ASSUME SystemInv, ViewsHeld, NEW t \in Tasks, Review(t)
    PROVE  \E k : HeldStep(t, k)
<1>1. /\ task[t] \in Task /\ task \in [Tasks -> Task]
      /\ HeldTask(task[t], wf)
  BY TaskFacts DEF ViewsHeld, SystemInv, StoreInv, TypeOK, StoreTypeOK
<1>2. ASSUME NEW r \in Releases,
             \/ BeginTransition(t, r) \/ BeginApprove(t, r)
             \/ BeginOverride(t, r) \/ BeginDelete(t, r)
      PROVE  \E k : HeldStep(t, k)
  BY <1>2, LoadedHeld DEF BeginTransition, BeginApprove, BeginMove, BeginOverride,
                          BeginDelete, Refuse
<1>3. ASSUME NEW r \in Releases, Discover(t, r)
      PROVE  \E k : HeldStep(t, k)
  <2>1. HeldStep(t, [Idle EXCEPT !.op = "process", !.pc = "analyse", !.rel = r])
    BY <1>3 DEF Discover, HeldStep, HeldTask, Idle, HeldPc, RelyingPc
  <2> QED BY <2>1
<1>4. CASE BeginSweep(t)
  <2>1. PICK S : HeldStep(t, [Idle EXCEPT !.op = "retention", !.pc = "sweep", !.todo = S])
    BY <1>4 DEF BeginSweep, HeldStep, HeldTask, Idle, HeldPc, RelyingPc
  <2> QED BY <2>1
<1>5. CASE CommitTrust(t) \/ CommitOverride(t) \/ CommitDelete(t) \/ CommitSweep(t)
  <2>1. task[t].pc \in {"trust", "override", "delete", "sweep"}
    BY <1>5 DEF CommitTrust, CommitOverride, CommitDelete, CommitSweep
  <2>2. task[t].op # "poll"
    BY <1>1, <2>1 DEF HeldTask
  <2> QED
    BY <1>5, <2>1, <2>2, GotoHeld, FinishHeld
       DEF CommitTrust, CommitOverride, CommitDelete, CommitSweep, HeldPc, RelyingPc
<1>6. CASE Analyse(t)
  <2>1. CASE task' = task
    <3>1. HeldStep(t, task[t])
      BY <1>1, <1>6, <2>1 DEF Analyse, HeldStep
    <3> QED BY <3>1
  <2>2. CASE task' # task
    BY <1>6, <2>2, LoadedHeld, FinishHeld DEF Analyse
  <2> QED BY <2>1, <2>2
<1>7. CASE DetermineTrust(t)
  <2>1. task[t].pc = "verdict" /\ wf' = wf
    BY <1>7 DEF DetermineTrust
  <2>2. task[t].op # "poll"
    BY <1>1, <2>1 DEF HeldTask
  <2> QED BY <1>7, <2>1, <2>2, GotoHeld, FinishHeld DEF DetermineTrust, HeldPc, RelyingPc
<1>8. CASE ApplyRules(t)
  <2>1. task[t].pc = "rules" /\ wf' = wf
    BY <1>8 DEF ApplyRules
  <2>2. task[t].op # "poll"
    BY <1>1, <2>1 DEF HeldTask
  <2>3. CASE Goto(t, "commit") \/ Finish(t)
    BY <2>1, <2>2, <2>3, GotoHeld, FinishHeld DEF HeldPc, RelyingPc
  <2>4. CASE task' = [task EXCEPT ![t].op = "auto", ![t].pc = "commit",
                                  ![t].target = "approved"]
    <3> DEFINE k == [task[t] EXCEPT !.op = "auto", !.pc = "commit", !.target = "approved"]
    <3>1. /\ k.op = "auto" /\ k.pc = "commit"
          /\ k.rel = task[t].rel /\ k.seen = task[t].seen
          /\ task' = [task EXCEPT ![t] = k]
      BY <1>1, <2>4 DEF Task
    <3> HIDE DEF k
    <3>2. HeldStep(t, k)
      BY <1>1, <2>1, <3>1 DEF HeldStep, HeldTask, HeldPc, RelyingPc
    <3> QED BY <3>2
  <2> QED BY <1>8, <2>3, <2>4 DEF ApplyRules
<1> QED
  BY <1>2, <1>3, <1>4, <1>5, <1>6, <1>7, <1>8 DEF Review

\* The poll loop is done with a row before it moves it.
LEMMA StoreStepHeld ==
    ASSUME SystemInv, ViewsHeld, NEW t \in Tasks, StoreStep(t)
    PROVE  \E k : HeldStep(t, k)
<1>1. /\ task[t] \in Task /\ task \in [Tasks -> Task] /\ HeldTask(task[t], wf)
      /\ wf \in [Releases -> RowState]
  BY TaskFacts DEF ViewsHeld, SystemInv, StoreInv, TypeOK, StoreTypeOK
<1>2. task[t].pc # "idle"
  BY DEF StoreStep, CommitState, CommitFails, Audit, Return, Crash
<1>3. CASE Finish(t)
  BY <1>2, <1>3, FinishHeld
<1>4. ASSUME task[t].op # "poll", NEW pc \in {"audit", "trust"}, Goto(t, pc)
      PROVE  \E k : HeldStep(t, k)
  BY <1>2, <1>4, GotoHeld DEF HeldPc, RelyingPc
<1>5. ASSUME task[t].op = "poll", NEW pc \in {"audit", "poll"}, Goto(t, pc),
             \/ wf' = wf
             \/ /\ task[t].pc = "commit"
                /\ wf' = [wf EXCEPT ![task[t].rel] = task[t].target]
      PROVE  \E k : HeldStep(t, k)
  <2> DEFINE k == [task[t] EXCEPT !.pc = pc]
  <2>1. /\ k.op = "poll" /\ k.pc = pc /\ k.rel = task[t].rel
        /\ k.seen = task[t].seen /\ k.todo = task[t].todo
        /\ task' = [task EXCEPT ![t] = k]
    BY <1>1, <1>5 DEF Task, Goto
  <2> HIDE DEF k
  <2>2. task[t].todo \subseteq Releases
    BY <1>1 DEF Task
  <2>3. \A r \in task[t].todo : wf'[r] = wf[r]
    BY <1>1, <1>5, <2>2 DEF HeldTask
  <2>4. HeldTask(k, wf')
    BY <1>1, <1>5, <2>1, <2>3 DEF HeldTask, HeldPc, RelyingPc
  <2> QED BY <1>2, <2>1, <2>4 DEF HeldStep
<1>6. /\ AfterCommit(t) \in {"audit", "trust"}
      /\ task[t].op = "poll" => AfterCommit(t) = "audit"
  BY DEF AfterCommit
<1>7. CASE CommitState(t)
  BY <1>3, <1>4, <1>5, <1>6, <1>7 DEF CommitState
<1>8. CASE CommitFails(t) \/ Audit(t) \/ Return(t) \/ Crash(t)
  BY <1>3, <1>4, <1>5, <1>8 DEF CommitFails, Audit, Return, Crash
<1> QED BY <1>7, <1>8 DEF StoreStep

LEMMA SendHeld ==
    ASSUME SystemInv, ViewsHeld, NEW t \in Tasks, Send(t)
    PROVE  \E k : HeldStep(t, k)
<1>1. Sound(task[t], cleared) /\ wf' = wf
  BY TaskFacts, SendKeepsRows
<1>2. ASSUME NEW r \in Releases, BeginSend(t, r) \/ BeginGrab(t, r)
      PROVE  \E k : HeldStep(t, k)
  BY <1>1, <1>2, LoadedHeld DEF BeginSend, BeginGrab, Refuse
<1>3. CASE GrabTrust(t)
  <2>1. task[t].pc # "idle"
    BY <1>3 DEF GrabTrust
  <2>2. \/ Finish(t)
        \/ task' = [task EXCEPT
              ![t] = Loaded(t, "grab", task[t].rel, "submit", "queued_for_download")]
        \/ task' = [task EXCEPT
              ![t] = Loaded(t, "grab", task[t].rel, "refused", "queued_for_download")]
    BY <1>3 DEF GrabTrust, Refuse
  <2> QED BY <1>1, <2>1, <2>2, LoadedHeld, FinishHeld
<1>4. CASE SubmitFails(t)
  BY <1>4, FinishHeld DEF SubmitFails
<1>5. CASE SubmitToSab(t) \/ SubmitToQbt(t) \/ Resolve(t) \/ StoreId(t)
  <2>1. /\ task[t].pc \in {"submit", "resolve", "store"}
        /\ \E pc \in {"resolve", "store", "commit"} : Goto(t, pc)
    BY <1>5 DEF SubmitToSab, SubmitToQbt, Resolve, StoreId
  <2>2. task[t].op # "poll"
    BY <1>1, <2>1 DEF Sound
  <2> QED BY <1>1, <2>1, <2>2, GotoHeld DEF HeldPc
<1>6. CASE ReceiveHook(t)
  <2>1. PICK r, target : task' = [task EXCEPT ![t] = Loaded(t, "hook", r, "commit", target)]
    BY <1>6 DEF ReceiveHook
  <2> QED BY <1>1, <2>1, LoadedHeld
<1> QED BY <1>2, <1>3, <1>4, <1>5, <1>6 DEF Send

LEMMA PollHeld ==
    ASSUME SystemInv, ViewsHeld, NEW t \in Tasks, Poll(t)
    PROVE  \E k : HeldStep(t, k)
<1>1. /\ task[t] \in Task /\ Sound(task[t], cleared) /\ HeldTask(task[t], wf) /\ wf' = wf
      /\ task \in [Tasks -> Task]
  BY TaskFacts, SendKeepsRows DEF ViewsHeld, SystemInv, StoreInv, TypeOK, StoreTypeOK
<1>2. CASE BeginPoll(t)
  <2> DEFINE Q == {r \in Releases : PollLoads(r)}
             k == [Idle EXCEPT !.op = "poll", !.pc = "poll", !.todo = Q]
  <2>1. task' = [task EXCEPT ![t] = k] /\ k.op = "poll" /\ k.pc = "poll" /\ k.todo = Q
    BY <1>2 DEF BeginPoll, Idle
  <2>2. \A r \in Q : wf[r] = "queued_for_download"
    BY DEF PollLoads
  <2> HIDE DEF k, Q
  <2>3. HeldStep(t, k)
    BY <1>1, <2>1, <2>2 DEF HeldStep, HeldTask, HeldPc, RelyingPc
  <2> QED BY <2>3
<1>3. CASE EndPoll(t)
  BY <1>3, FinishHeld DEF EndPoll
<1>4. ASSUME NEW r \in Releases, PollSettles(t, r)
      PROVE  \E k : HeldStep(t, k)
  <2> DEFINE v == PollVerdict(sub[t].ids[r])
             k == [Idle EXCEPT !.op = "poll", !.pc = "commit", !.rel = r, !.target = v,
                               !.seen = "queued_for_download", !.todo = task[t].todo \ {r}]
  <2>1. task' = [task EXCEPT ![t] = k] /\ task[t].pc = "poll" /\ r \in task[t].todo
    BY <1>4 DEF PollSettles
  <2>2. /\ k.op = "poll" /\ k.pc = "commit" /\ k.rel = r /\ k.seen = "queued_for_download"
        /\ k.todo = task[t].todo \ {r}
    BY DEF Idle
  <2> HIDE DEF k, v
  <2>3. task[t].op = "poll"
    BY <1>1, <2>1 DEF Sound
  <2>4. HeldStep(t, k)
    BY <1>1, <2>1, <2>2, <2>3 DEF HeldStep, HeldTask
  <2> QED BY <2>4
<1>5. ASSUME NEW r \in Releases, PollSkips(t, r)
      PROVE  \E k : HeldStep(t, k)
  <2> DEFINE k == [task[t] EXCEPT !.todo = @ \ {r}]
  <2>1. task' = [task EXCEPT ![t] = k] /\ task[t].pc = "poll"
    BY <1>1, <1>5 DEF PollSkips
  <2>2. k.op = task[t].op /\ k.pc = "poll" /\ k.todo = task[t].todo \ {r}
    BY <1>1, <2>1 DEF Task
  <2> HIDE DEF k
  <2>3. HeldStep(t, k)
    BY <1>1, <2>1, <2>2 DEF HeldStep, HeldTask, HeldPc, RelyingPc
  <2> QED BY <2>3
<1> QED BY <1>2, <1>3, <1>4, <1>5 DEF Poll

LEMMA SystemKeepsViews ==
    ASSUME SystemInv, ViewsHeld, TakesTurns, TakesTurns', [SystemNext]_systemVars
    PROVE  ViewsHeld'
<1>1. ASSUME NEW t \in Tasks, Review(t) \/ Send(t) \/ Poll(t) \/ StoreStepOf(t)
      PROVE  ViewsHeld'
  <2>1. StoreStepOf(t) => StoreStep(t)
    BY DEF StoreStepOf, StoreStep
  <2>2. PICK k : HeldStep(t, k)
    BY <1>1, <2>1, ReviewHeld, SendHeld, PollHeld, StoreStepHeld
  <2> QED BY <2>2, TurnKeepsViews
<1>2. CASE UNCHANGED storeVars
  BY <1>2 DEF storeVars, ViewsHeld
<1> QED BY <1>1, <1>2, ClientKeepsStore DEF SystemNext, Tasks, systemVars

(***************************************************************************)
(* As long as handlers and poll loops take turns, whatever the clients do  *)
(* meanwhile, the workflow states of the releases behave as the lifecycle  *)
(* promises: what breaks the promise of the transition table is the        *)
(* overlap of two handlers, and nothing else.                              *)
(***************************************************************************)
THEOREM SystemInTurnsIsLifecycle == SystemSpec /\ []TakesTurns => ImplementsLifecycle
<1>1. SystemInit => Lifecycle!Init /\ ViewsHeld
  BY DEF SystemInit, StoreInit, Lifecycle!Init, ViewsHeld, HeldTask, Idle, HeldPc, RelyingPc
<1>2. /\ SystemInv /\ ViewsHeld /\ TakesTurns /\ TakesTurns'
      /\ [SystemNext]_systemVars
      => ViewsHeld' /\ [Lifecycle!Next]_wf
  <2> SUFFICES ASSUME SystemInv, ViewsHeld, TakesTurns, TakesTurns',
                      [SystemNext]_systemVars
               PROVE  ViewsHeld' /\ [Lifecycle!Next]_wf
    OBVIOUS
  <2>1. ViewsFresh
    BY DEF ViewsHeld, ViewsFresh, HeldTask, HeldPc, Present
  <2> QED BY <2>1, SystemKeepsViews, SystemStepImplements
<1> QED
  BY <1>1, <1>2, SystemInvariant, PTL DEF SystemSpec, ImplementsLifecycle, Lifecycle!Spec

=============================================================================
