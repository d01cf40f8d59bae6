----------------------------- MODULE IniSettings -----------------------------
(***************************************************************************)
(* IniSettingsManager: every worker process has one, with a lock of its    *)
(* own, and all of them read and replace the same softarr.ini.             *)
(***************************************************************************)
EXTENDS IniConfig

CONSTANTS
    Callers,        \* threads of execution that call the manager
    Procs,          \* worker processes
    ProcOf,         \* the process of each caller
    Free,           \* nobody holds the lock
    Bundles,        \* the sequences of set calls one request may make
    MayDie,         \* processes that may be killed
    SaveMayFail,    \* writing the temporary file may raise OSError
    MaxCount        \* bound on the results recorded against an indexer

ASSUME IniAssumption ==
    /\ ProcOf \in [Callers -> Procs]
    /\ Free \notin Callers
    /\ Bundles \subseteq Seq(SetOp)
    /\ MayDie \subseteq Procs
    /\ SaveMayFail \in BOOLEAN
    /\ MaxCount \in Nat

VARIABLES
    file,   \* the contents of softarr.ini
    lock,   \* _lock of each process
    todo,   \* the calls a request has still to make
    view    \* the configuration a caller parsed under the lock

vars == <<file, lock, todo, view>>

IniTypeOK ==
    /\ file \in Config
    /\ lock \in [Procs -> Callers \cup {Free}]
    /\ todo \in [Callers -> Seq(Op)]
    /\ view \in [Callers -> Config]

\* softarr-init has created the file before the workers start.
Init ==
    /\ file = Defaults
    /\ lock = [p \in Procs |-> Free]
    /\ todo = [c \in Callers |-> <<>>]
    /\ view = [c \in Callers |-> Defaults]

Holds(c) == lock[ProcOf[c]] = c

\* Leaving the with block.
ReleaseLock(c) ==
    /\ lock' = [lock EXCEPT ![ProcOf[c]] = Free]
    /\ view' = [view EXCEPT ![c] = Defaults]

-----------------------------------------------------------------------------
(* Requests.                                                               *)

Ask(c, calls) ==
    /\ todo[c] = <<>>
    /\ todo' = [todo EXCEPT ![c] = calls]
    /\ UNCHANGED <<file, lock, view>>

\* PUT /settings and the choice of the active client.
SetOne(c) == \E op \in SetOp : Ask(c, <<op>>)

\* The client configurations, the presets and the import make one call per
\* key (the import leaves out unknown keys and masked values).
SetMany(c) == \E calls \in Bundles : Ask(c, calls)

\* The indexer endpoints.
EditIndexer(c) == \E op \in CreateOp \cup UpdateOp \cup DeleteOp : Ask(c, <<op>>)

\* An adapter records how the search of an indexer went; a bound on the
\* counters that exist keeps them finite.
RecordSearch(c) ==
    /\ \A n \in Names :
          file.idx[n] # Absent => file.idx[n].good + file.idx[n].bad < MaxCount
    /\ \E op \in RecordOp : Ask(c, <<op>>)

-----------------------------------------------------------------------------
(* One call.                                                               *)

\* The lock is taken and the file parsed.
Load(c) ==
    /\ todo[c] # <<>>
    /\ lock[ProcOf[c]] = Free
    /\ lock' = [lock EXCEPT ![ProcOf[c]] = c]
    /\ view' = [view EXCEPT ![c] = file]
    /\ UNCHANGED <<file, todo>>

\* The changed configuration replaces the file in one step; a method that
\* finds nothing to change does not save.
Save(c) ==
    LET op == Head(todo[c]) IN
    /\ Holds(c)
    /\ ~Raises(op, view[c])
    /\ file' = IF Finds(op, view[c]) THEN After(op, view[c]) ELSE file
    /\ todo' = [todo EXCEPT ![c] = Tail(@)]
    /\ ReleaseLock(c)

\* Variant with a bug: the other fields are saved before a rename is refused.
FailHalfDone(c) ==
    LET op == Head(todo[c]) IN
    /\ Holds(c)
    /\ Raises(op, view[c]) \/ SaveMayFail
    /\ todo' = [todo EXCEPT ![c] = <<>>]
    /\ ReleaseLock(c)
    /\ file' = IF Renames(op) /\ op.url \in Values \ Refused /\ Finds(op, view[c])
               THEN [view[c] EXCEPT !.idx[op.name] = Updated(op, view[c])]
               ELSE file

\* Variant with a bug: an exception leaves the lock taken.
FailKeepsLock(c) ==
    /\ Holds(c)
    /\ Raises(Head(todo[c]), view[c]) \/ SaveMayFail
    /\ todo' = [todo EXCEPT ![c] = <<>>]
    /\ UNCHANGED <<file, lock, view>>

\* A refused call, or a write that fails, leaves the file alone and ends the
\* request: its earlier calls stay, its later ones are not made.
Fail(c) ==
    /\ Holds(c)
    /\ Raises(Head(todo[c]), view[c]) \/ SaveMayFail
    /\ todo' = [todo EXCEPT ![c] = <<>>]
    /\ ReleaseLock(c)
    /\ UNCHANGED file

\* A killed worker leaves the file as it is; the next one starts afresh.
Die(p) ==
    /\ lock' = [lock EXCEPT ![p] = Free]
    /\ todo' = [c \in Callers |-> IF ProcOf[c] = p THEN <<>> ELSE todo[c]]
    /\ view' = [c \in Callers |-> IF ProcOf[c] = p THEN Defaults ELSE view[c]]
    /\ UNCHANGED file

Next ==
    \/ \E c \in Callers :
          \/ SetOne(c) \/ SetMany(c) \/ EditIndexer(c) \/ RecordSearch(c)
          \/ Load(c) \/ Save(c) \/ Fail(c)
    \/ \E p \in MayDie : Die(p)

IniSpec == Init /\ [][Next]_vars

-----------------------------------------------------------------------------
(* Properties.                                                             *)

(***************************************************************************)
(* A caller inside the lock has calls to make, and in a process of its own *)
(* the configuration it parsed is still the file: nobody has replaced the  *)
(* file since.                                                             *)
(***************************************************************************)
SoleProcess == \A c, d \in Callers : ProcOf[c] = ProcOf[d]

HoldersWork == \A c \in Callers : Holds(c) => todo[c] # <<>>

ViewIsCurrent == SoleProcess => \A c \in Callers : Holds(c) => view[c] = file

IniInv == IniTypeOK /\ HoldersWork /\ ViewIsCurrent

(***************************************************************************)
(* Within one process the settings are the register of SettingsRegister:   *)
(* no call is lost, half applied, or applied to an old configuration,      *)
(* whatever fails and whenever the process is killed.                      *)
(***************************************************************************)
Register == INSTANCE SettingsRegister WITH contents <- file, todo <- todo
ImplementsRegister == Register!Spec

=============================================================================
