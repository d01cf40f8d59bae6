------------------------------ MODULE IniProofs ------------------------------
(***************************************************************************)
(* Proofs about IniSettings for any callers, processes, settings, indexer  *)
(* names and values.                                                       *)
(***************************************************************************)
EXTENDS IniSettings, TLAPS

\* The indexer an update leaves behind is an indexer.
LEMMA UpdatedType ==
    ASSUME NEW op \in UpdateOp, NEW cfg \in Config,
           Finds(op, cfg), ~Raises(op, cfg)
    PROVE  Updated(op, cfg) \in Indexer
<1>1. cfg.idx[op.name] \in Indexer
  BY DEF Config, Finds, UpdateOp
<1>2. CASE op.url = Keep
  BY <1>1, <1>2 DEF Updated, Indexer
<1>3. CASE op.url # Keep
  <2>1. op.url \in Values \ Refused
    BY <1>3, <1>1 DEF Raises, UpdateOp, Finds
  <2> QED BY <1>1, <1>3, <2>1 DEF Updated, Indexer
<1> QED BY <1>2, <1>3

\* A method that saves saves a configuration.
LEMMA AfterType ==
    ASSUME NEW op \in Op, NEW cfg \in Config,
           Finds(op, cfg), ~Raises(op, cfg)
    PROVE  After(op, cfg) \in Config
<1>1. CASE op \in SetOp
  BY <1>1 DEF SetOp, After, Raises, Config
<1>2. CASE op \in CreateOp
  <2>1. Created(op) \in Indexer
    BY <1>2 DEF CreateOp, Created, Raises, Indexer
  <2> QED BY <1>2, <2>1 DEF CreateOp, After, Config
<1>3. CASE op \in UpdateOp
  <2>1. Updated(op, cfg) \in Indexer
    BY <1>3, UpdatedType
  <2>2. After(op, cfg) = [cfg EXCEPT !.idx =
           [n \in Names |->
              CASE n = (IF Renames(op) THEN op.to ELSE op.name) -> Updated(op, cfg)
                [] n = op.name /\ Renames(op) -> Absent
                [] OTHER -> cfg.idx[n]]]
    BY <1>3 DEF UpdateOp, After
  <2> QED BY <2>1, <2>2 DEF Config
<1>4. CASE op \in DeleteOp
  BY <1>4 DEF DeleteOp, After, Config
<1>5. CASE op \in RecordOp
  <2>1. cfg.idx[op.name] \in Indexer
    BY <1>5 DEF Config, Finds, RecordOp
  <2>2. Recorded(op, cfg.idx[op.name]) \in Indexer
    BY <2>1, <1>5 DEF Recorded, Indexer, RecordOp
  <2> QED BY <1>5, <2>2 DEF RecordOp, After, Config
<1> QED BY <1>1, <1>2, <1>3, <1>4, <1>5 DEF Op

\* The created file is a configuration.
LEMMA DefaultsType == Defaults \in Config
BY ConfigAssumption DEF Defaults, Config

\* What a request puts on a caller's list are calls.
LEMMA AskStep ==
    ASSUME IniInv, NEW c \in Callers, NEW calls \in Seq(Op), Ask(c, calls)
    PROVE  IniInv'
<1>1. todo' \in [Callers -> Seq(Op)]
  BY DEF IniInv, IniTypeOK, Ask
<1>2. \A d \in Callers : Holds(d)' <=> Holds(d)
  BY DEF Ask, Holds
<1>3. ~Holds(c)
  BY DEF IniInv, HoldersWork, Ask
<1>4. HoldersWork'
  BY <1>2, <1>3 DEF IniInv, IniTypeOK, HoldersWork, Ask
<1>5. ViewIsCurrent'
  BY <1>2 DEF IniInv, ViewIsCurrent, Ask, SoleProcess
<1> QED BY <1>1, <1>4, <1>5 DEF IniInv, IniTypeOK, Ask

\* When a caller leaves the lock nobody is in it any more, and whoever holds
\* another lock held it before.
LEMMA ReleaseStep ==
    ASSUME IniInv, NEW c \in Callers, Holds(c), ReleaseLock(c)
    PROVE  /\ lock' \in [Procs -> Callers \cup {Free}]
           /\ view' \in [Callers -> Config]
           /\ \A d \in Callers : Holds(d)' => Holds(d) /\ d # c /\ ProcOf[d] # ProcOf[c]
           /\ \A d \in Callers : d # c => view'[d] = view[d]
BY DefaultsType, IniAssumption DEF IniInv, IniTypeOK, ReleaseLock, Holds

\* The first of a caller's calls is a call, and so are the others.
LEMMA HeadIsOp ==
    ASSUME IniInv, NEW c \in Callers, Holds(c)
    PROVE  Head(todo[c]) \in Op /\ Tail(todo[c]) \in Seq(Op)
BY DEF IniInv, IniTypeOK, HoldersWork

\* No step breaks the invariant.
LEMMA IniStep == IniInv /\ [Next]_vars => IniInv'
<1> SUFFICES ASSUME IniInv, [Next]_vars PROVE IniInv'
  OBVIOUS
<1>1. CASE UNCHANGED vars
  BY <1>1 DEF vars, IniInv, IniTypeOK, HoldersWork, ViewIsCurrent, Holds, SoleProcess
<1>2. ASSUME NEW c \in Callers, NEW op \in Op, Ask(c, <<op>>)
      PROVE  IniInv'
  <2>1. <<op>> \in Seq(Op)
    OBVIOUS
  <2> QED BY <1>2, <2>1, AskStep
<1>3. ASSUME NEW c \in Callers, SetMany(c)
      PROVE  IniInv'
  <2>1. PICK calls \in Bundles : Ask(c, calls)
    BY <1>3 DEF SetMany
  <2>2. calls \in Seq(Op)
    BY IniAssumption DEF Op
  <2> QED BY <2>1, <2>2, AskStep
<1>4. ASSUME NEW c \in Callers, Load(c)
      PROVE  IniInv'
  <2>1. /\ lock' \in [Procs -> Callers \cup {Free}]
        /\ view' \in [Callers -> Config]
        /\ view'[c] = file
        /\ \A d \in Callers : Holds(d)' => d = c \/ (Holds(d) /\ ProcOf[d] # ProcOf[c])
        /\ \A d \in Callers : d # c => view'[d] = view[d]
    BY <1>4, IniAssumption DEF IniInv, IniTypeOK, Load, Holds
  <2>2. HoldersWork'
    BY <1>4, <2>1 DEF IniInv, HoldersWork, Load
  <2>3. ViewIsCurrent'
    BY <1>4, <2>1 DEF ViewIsCurrent, SoleProcess, Load
  <2> QED BY <1>4, <2>1, <2>2, <2>3 DEF IniInv, IniTypeOK, Load
<1>5. ASSUME NEW c \in Callers, Save(c)
      PROVE  IniInv'
  <2>1. Holds(c) /\ ReleaseLock(c) /\ file' \in Config
    BY <1>5, HeadIsOp, AfterType DEF Save, IniInv, IniTypeOK
  <2>2. todo' \in [Callers -> Seq(Op)] /\ \A d \in Callers : d # c => todo'[d] = todo[d]
    BY <1>5, HeadIsOp DEF Save, IniInv, IniTypeOK
  <2>3. HoldersWork'
    BY <2>1, <2>2, ReleaseStep DEF IniInv, HoldersWork
  <2>4. ViewIsCurrent'
    BY <2>1, ReleaseStep DEF ViewIsCurrent, SoleProcess
  <2> QED BY <2>1, <2>2, <2>3, <2>4, ReleaseStep DEF IniInv, IniTypeOK
<1>6. ASSUME NEW c \in Callers, Fail(c)
      PROVE  IniInv'
  <2>1. Holds(c) /\ ReleaseLock(c) /\ file' = file
    BY <1>6 DEF Fail
  <2>2. todo' \in [Callers -> Seq(Op)] /\ \A d \in Callers : d # c => todo'[d] = todo[d]
    BY <1>6 DEF Fail, IniInv, IniTypeOK
  <2>3. HoldersWork'
    BY <2>1, <2>2, ReleaseStep DEF IniInv, HoldersWork
  <2>4. ViewIsCurrent'
    BY <2>1, ReleaseStep DEF ViewIsCurrent, SoleProcess
  <2> QED BY <2>1, <2>2, <2>3, <2>4, ReleaseStep DEF IniInv, IniTypeOK
<1>7. ASSUME NEW p \in MayDie, Die(p)
      PROVE  IniInv'
  <2>1. /\ lock' \in [Procs -> Callers \cup {Free}]
        /\ todo' \in [Callers -> Seq(Op)]
        /\ view' \in [Callers -> Config]
    <3>1. lock' \in [Procs -> Callers \cup {Free}]
      BY <1>7 DEF IniInv, IniTypeOK, Die
    <3>2. <<>> \in Seq(Op)
      OBVIOUS
    <3>3. todo' \in [Callers -> Seq(Op)]
      BY <1>7, <3>2 DEF IniInv, IniTypeOK, Die
    <3>4. view' \in [Callers -> Config]
      BY <1>7, DefaultsType DEF IniInv, IniTypeOK, Die
    <3> QED BY <3>1, <3>3, <3>4
  <2>2. \A d \in Callers : Holds(d)' => /\ Holds(d)
                                        /\ todo'[d] = todo[d]
                                        /\ view'[d] = view[d]
    BY <1>7, IniAssumption DEF IniInv, IniTypeOK, Die, Holds
  <2> QED BY <1>7, <2>1, <2>2
          DEF IniInv, IniTypeOK, HoldersWork, ViewIsCurrent, SoleProcess, Die
<1>8. CASE Next
  <2>1. ASSUME NEW c \in Callers, SetOne(c) PROVE IniInv'
    BY <2>1, <1>2 DEF SetOne, Op
  <2>2. ASSUME NEW c \in Callers, EditIndexer(c) PROVE IniInv'
    BY <2>2, <1>2 DEF EditIndexer, Op
  <2>3. ASSUME NEW c \in Callers, RecordSearch(c) PROVE IniInv'
    BY <2>3, <1>2 DEF RecordSearch, Op
  <2> QED BY <1>8, <2>1, <2>2, <2>3, <1>3, <1>4, <1>5, <1>6, <1>7 DEF Next
<1> QED BY <1>1, <1>8

(***************************************************************************)
(* However callers, failures and kills interleave, in any number of        *)
(* processes: the file always holds a configuration, a caller inside a     *)
(* lock has work to do, and with one process its view is the file.         *)
(***************************************************************************)
THEOREM IniInvariant == IniSpec => []IniInv
<1>1. Init => IniInv
  BY DefaultsType, IniAssumption
     DEF Init, IniInv, IniTypeOK, HoldersWork, ViewIsCurrent, Holds
<1>2. IniInv /\ [Next]_vars => IniInv'
  BY IniStep
<1> QED BY <1>1, <1>2, PTL DEF IniSpec

-----------------------------------------------------------------------------
(* The register.                                                           *)

\* The two modules speak of the same calls and the same configurations.
LEMMA SameConfig ==
    /\ Register!Op = Op
    /\ Register!Defaults = Defaults
    /\ \A op, cfg : /\ Register!Finds(op, cfg) <=> Finds(op, cfg)
                    /\ Register!Raises(op, cfg) <=> Raises(op, cfg)
                    /\ Register!After(op, cfg) = After(op, cfg)
<1>1. Register!Op = Op
  BY DEF Register!Op, Op, Register!SetOp, SetOp, Register!CreateOp, CreateOp,
         Register!UpdateOp, UpdateOp, Register!DeleteOp, DeleteOp,
         Register!RecordOp, RecordOp
<1>2. Register!Defaults = Defaults
  BY DEF Register!Defaults, Defaults
<1>3. ASSUME NEW op, NEW cfg
      PROVE  /\ Register!Finds(op, cfg) <=> Finds(op, cfg)
             /\ Register!Raises(op, cfg) <=> Raises(op, cfg)
             /\ Register!After(op, cfg) = After(op, cfg)
  BY DEF Register!Finds, Finds, Register!Raises, Raises, Register!After, After,
         Register!Updated, Updated, Register!Renames, Renames,
         Register!Created, Created, Register!Recorded, Recorded
<1> QED BY <1>1, <1>2, <1>3

(***************************************************************************)
(* With one process the settings are the register, whatever the number of  *)
(* callers: threading.Lock is enough there, and only there.                *)
(***************************************************************************)
THEOREM SoleProcessIsRegister == SoleProcess => (IniSpec => ImplementsRegister)
<1> SUFFICES ASSUME SoleProcess PROVE IniSpec => ImplementsRegister
  OBVIOUS
<1>1. Init => Register!Init
  BY SameConfig DEF Init, Register!Init
<1>2. IniInv /\ [Next]_vars => [Register!Next]_<<file, todo>>
  <2> SUFFICES ASSUME IniInv, [Next]_vars PROVE [Register!Next]_<<file, todo>>
    OBVIOUS
  <2>1. ASSUME NEW c \in Callers, NEW calls \in Seq(Op), Ask(c, calls)
        PROVE  Register!Next
    <3>1. todo'[c] = calls
      BY <2>1 DEF Ask, IniInv, IniTypeOK
    <3>2. Register!Ask(c)
      BY <2>1, <3>1, SameConfig DEF Ask, Register!Ask
    <3> QED BY <3>2 DEF Register!Next
  <2>2. ASSUME NEW c \in Callers, NEW op \in Op, Ask(c, <<op>>)
        PROVE  Register!Next
    <3>1. <<op>> \in Seq(Op)
      OBVIOUS
    <3> QED BY <2>1, <2>2, <3>1
  <2>3. ASSUME NEW c \in Callers, SetMany(c)
        PROVE  Register!Next
    <3>1. PICK calls \in Bundles : Ask(c, calls)
      BY <2>3 DEF SetMany
    <3>2. calls \in Seq(Op)
      BY IniAssumption DEF Op
    <3> QED BY <2>1, <3>1, <3>2
  <2>4. ASSUME NEW c \in Callers, Save(c)
        PROVE  Register!Next
    <3>1. view[c] = file /\ todo[c] # <<>>
      BY <2>4 DEF IniInv, ViewIsCurrent, HoldersWork, Save
    <3>2. Register!Apply(c)
      BY <2>4, <3>1, SameConfig DEF Save, Register!Apply
    <3> QED BY <3>2 DEF Register!Next
  <2>5. ASSUME NEW C \in SUBSET Callers, file' = file,
               todo' = [c \in Callers |-> IF c \in C THEN <<>> ELSE todo[c]]
        PROVE  Register!Next
    BY <2>5 DEF Register!Next, Register!Abandon
  <2>6. ASSUME NEW c \in Callers, Fail(c)
        PROVE  Register!Next
    <3>1. todo' = [d \in Callers |-> IF d \in {c} THEN <<>> ELSE todo[d]]
      BY <2>6 DEF Fail, IniInv, IniTypeOK
    <3> QED BY <2>5, <2>6, <3>1 DEF Fail
  <2>7. ASSUME NEW p \in Procs, Die(p)
        PROVE  Register!Next
    <3> DEFINE C == {c \in Callers : ProcOf[c] = p}
    <3>1. todo' = [c \in Callers |-> IF c \in C THEN <<>> ELSE todo[c]]
      BY <2>7 DEF Die
    <3> QED BY <2>5, <2>7, <3>1 DEF Die
  <2>8. ASSUME NEW c \in Callers, SetOne(c) \/ EditIndexer(c) \/ RecordSearch(c)
        PROVE  Register!Next
    BY <2>8, <2>2 DEF SetOne, EditIndexer, RecordSearch, Op
  <2>9. ASSUME NEW c \in Callers, Load(c)
        PROVE  UNCHANGED <<file, todo>>
    BY <2>9 DEF Load
  <2> QED
    BY <2>3, <2>4, <2>6, <2>7, <2>8, <2>9, IniAssumption DEF Next, vars
<1> QED BY <1>1, <1>2, IniInvariant, PTL DEF IniSpec, ImplementsRegister, Register!Spec

-----------------------------------------------------------------------------
(* Several processes.                                                      *)

\* Configurations that calls, made one after the other, do not lead out of.
ClosedUnderCalls(S) ==
    /\ Defaults \in S
    /\ \A cfg \in S, op \in Op :
          Finds(op, cfg) /\ ~Raises(op, cfg) => After(op, cfg) \in S

(***************************************************************************)
(* In any number of processes a change may be undone by a caller that      *)
(* parsed the file before it, but what the file holds is always what some  *)
(* calls, made one after the other, make of the file as created: no mix of *)
(* two writes, nothing of a refused call, and nothing half written by a    *)
(* worker that was killed.                                                 *)
(***************************************************************************)
THEOREM FileIsComposed ==
    ASSUME NEW S, ClosedUnderCalls(S)
    PROVE  IniSpec => [](file \in S)
<1> DEFINE Composed == file \in S /\ \A c \in Callers : view[c] \in S
<1>1. Init => Composed
  BY DEF Init, ClosedUnderCalls
<1>2. IniInv /\ Composed /\ [Next]_vars => Composed'
  <2> SUFFICES ASSUME IniInv, Composed, [Next]_vars PROVE Composed'
    OBVIOUS
  <2>1. ASSUME UNCHANGED <<file, view>> PROVE Composed'
    BY <2>1
  <2>2. ASSUME NEW c \in Callers, NEW calls, Ask(c, calls) PROVE Composed'
    BY <2>1, <2>2 DEF Ask
  <2>3. ASSUME NEW c \in Callers, Load(c) PROVE Composed'
    BY <2>3 DEF Load, IniInv, IniTypeOK
  <2>4. ASSUME NEW c \in Callers, ReleaseLock(c), file' \in S PROVE Composed'
    BY <2>4 DEF ReleaseLock, ClosedUnderCalls, IniInv, IniTypeOK
  <2>5. ASSUME NEW c \in Callers, Save(c) PROVE Composed'
    <3>1. Head(todo[c]) \in Op
      BY <2>5, HeadIsOp DEF Save
    <3>2. file' \in S
      BY <2>5, <3>1 DEF Save, ClosedUnderCalls
    <3> QED BY <2>4, <2>5, <3>2 DEF Save
  <2>6. ASSUME NEW c \in Callers, Fail(c) PROVE Composed'
    BY <2>4, <2>6 DEF Fail
  <2>7. ASSUME NEW p \in MayDie, Die(p) PROVE Composed'
    BY <2>7 DEF Die, ClosedUnderCalls
  <2> QED
    BY <2>1, <2>2, <2>3, <2>5, <2>6, <2>7
       DEF Next, SetOne, SetMany, EditIndexer, RecordSearch, vars
<1> QED BY <1>1, <1>2, IniInvariant, PTL DEF IniSpec

=============================================================================
