------------------------------ MODULE Backups ------------------------------
(***************************************************************************)
(* Backups of the INI file and the database: every server process runs the *)
(* loop, and a request may run one as well.  A run copies the two files    *)
(* under the time it began at, file by file, and then removes the oldest   *)
(* sets beyond backup_keep_count.  Runs know nothing of each other; they   *)
(* overlap, fail halfway, and may begin in the same second.                *)
(***************************************************************************)
EXTENDS Naturals, FiniteSets

CONSTANTS
    Runners,    \* those who run backups
    Seconds,    \* the times at which runs begin: a bound
    KeepCounts, \* what backup_keep_count may be set to; 0 keeps all
    Least       \* a keep count no positive setting is below

ASSUME BackupsAssumption ==
    /\ Seconds \subseteq Nat /\ IsFiniteSet(Seconds)
    /\ KeepCounts \subseteq Nat
    /\ Least \in Nat
    /\ \A k \in KeepCounts : k = 0 \/ Least <= k

VARIABLES
    clock,      \* the second it is, while it matters
    archive,    \* the files of the backup directory
    runner,     \* the runs
    complete    \* history: sets of which both files were copied

backupVars == <<clock, archive, runner, complete>>

Files == {"ini", "db"}
FileState == {"none", "partial", "whole"}

Runner == [pc : {"idle", "ini", "copying ini", "db", "copying db", "list", "unlink"},
           stamp : Seconds, doomed : SUBSET (Seconds \X Files)]

\* A set is there if one of its files is.
Present(t) == \E f \in Files : archive[t][f] # "none"

NewerSets(t) == {u \in Seconds : u > t /\ Present(u)}

\* The sets that sorted()[:-keep] names.
\* Variant with a bug: one set too many.
BeyondByOne(keep) ==
    {t \in Seconds : Present(t) /\ Cardinality(NewerSets(t)) + 1 >= keep}
Beyond(keep) ==
    {t \in Seconds : Present(t) /\ Cardinality(NewerSets(t)) >= keep}

BackupsTypeOK ==
    /\ clock \in Seconds
    /\ archive \in [Seconds -> [Files -> FileState]]
    /\ runner \in [Runners -> Runner]
    /\ complete \subseteq Seconds

BackupsInit ==
    /\ clock \in Seconds
    /\ \A t \in Seconds : clock <= t
    /\ archive = [t \in Seconds |-> [f \in Files |-> "none"]]
    /\ runner = [w \in Runners |-> [pc |-> "idle", stamp |-> clock, doomed |-> {}]]
    /\ complete = {}

Pass ==
    /\ clock' \in Seconds
    /\ clock' > clock
    /\ UNCHANGED <<archive, runner, complete>>

Begin(w) ==
    /\ runner[w].pc = "idle"
    /\ runner' = [runner EXCEPT ![w] = [pc |-> "ini", stamp |-> clock, doomed |-> {}]]
    /\ UNCHANGED <<clock, archive, complete>>

\* The destination is truncated, and another copy under the same time with it.
BeginCopy(w, f) ==
    /\ runner[w].pc = f
    /\ archive' = [archive EXCEPT ![runner[w].stamp][f] = "partial"]
    /\ runner' = [runner EXCEPT ![w].pc = IF f = "ini" THEN "copying ini" ELSE "copying db"]
    /\ UNCHANGED <<clock, complete>>

\* copy2 sets the times of the copy by its path, and raises if somebody has
\* removed it meanwhile: see End.
EndIni(w) ==
    /\ runner[w].pc = "copying ini"
    /\ archive[runner[w].stamp]["ini"] # "none"
    /\ archive' = [archive EXCEPT ![runner[w].stamp]["ini"] = "whole"]
    /\ runner' = [runner EXCEPT ![w].pc = "db"]
    /\ UNCHANGED <<clock, complete>>

EndDb(w) ==
    /\ runner[w].pc = "copying db"
    /\ archive[runner[w].stamp]["db"] # "none"
    /\ archive' = [archive EXCEPT ![runner[w].stamp]["db"] = "whole"]
    /\ runner' = [runner EXCEPT ![w].pc = "list"]
    /\ complete' = complete \cup {runner[w].stamp}
    /\ UNCHANGED clock

ListSets(w, keep) ==
    /\ runner[w].pc = "list"
    /\ runner' = [runner EXCEPT ![w].pc = "unlink", ![w].doomed =
                    IF keep = 0 THEN {} ELSE Beyond(keep) \X Files]
    /\ UNCHANGED <<clock, archive, complete>>

\* The files go one by one; the order is left open.
Unlink(w, t, f) ==
    /\ runner[w].pc = "unlink"
    /\ <<t, f>> \in runner[w].doomed
    /\ archive' = [archive EXCEPT ![t][f] = "none"]
    /\ runner' = [runner EXCEPT ![w].doomed = @ \ {<<t, f>>}]
    /\ UNCHANGED <<clock, complete>>

\* An OSError is passed over.
UnlinkFails(w, t, f) ==
    /\ runner[w].pc = "unlink"
    /\ <<t, f>> \in runner[w].doomed
    /\ runner' = [runner EXCEPT ![w].doomed = @ \ {<<t, f>>}]
    /\ UNCHANGED <<clock, archive, complete>>

\* The run is over: done, by an error of a copy, or with its process.
End(w) ==
    /\ runner[w].pc # "idle"
    /\ runner' = [runner EXCEPT ![w].pc = "idle", ![w].doomed = {}]
    /\ UNCHANGED <<clock, archive, complete>>

BackupsNext ==
    \/ Pass
    \/ \E w \in Runners :
          \/ Begin(w) \/ EndIni(w) \/ EndDb(w) \/ End(w)
          \/ \E f \in Files : BeginCopy(w, f)
          \/ \E keep \in KeepCounts : ListSets(w, keep)
          \/ \E t \in Seconds, f \in Files : Unlink(w, t, f) \/ UnlinkFails(w, t, f)

BackupsSpec == BackupsInit /\ [][BackupsNext]_backupVars

-----------------------------------------------------------------------------

\* What a prune may cost: a set that was once copied in full still has its
\* two files, or as many newer sets as were to be kept are there, however
\* many runs copy and prune at once and wherever they fail.
ArchivesKept ==
    \A t \in complete :
        \/ \A f \in Files : archive[t][f] # "none"
        \/ Cardinality(NewerSets(t)) >= Least

\* The invariant of the proofs.  A prune dooms only sets that enough newer ones
\* stand behind, and that stays so; and a file that a run has copied and still
\* counts on went only if as many newer sets are there.
Enough(t) == Cardinality(NewerSets(t)) >= Least

Safe(t, f) == archive[t][f] # "none" \/ Enough(t)

BackupsInv ==
    /\ BackupsTypeOK
    /\ \A t \in complete, f \in Files : Safe(t, f)
    /\ \A w \in Runners :
          /\ runner[w].pc \in {"db", "copying db"} => Safe(runner[w].stamp, "ini")
          /\ \A t \in Seconds, f \in Files :
                <<t, f>> \in runner[w].doomed => Enough(t)

=============================================================================
