--------------------------- MODULE ServiceProofs ---------------------------
(***************************************************************************)
(* Proofs about the parts of the server that share no state.  Backups:     *)
(* however many runs copy, fail and prune at once, a set that was copied   *)
(* in full loses a file only when as many newer sets as were to be kept    *)
(* are there.  SoftwareLibrary: what an import replies is so.              *)
(* PasswordHistory: how early a password may return.  NewznabSearch: what  *)
(* the filtering, collapsing and ordering of the answers leave.  At the    *)
(* end, that exploring the parts side by side keeps each to its            *)
(* specification.                                                          *)
(***************************************************************************)
EXTENDS MCServices, UpgradeProofs, FiniteSetTheorems, TLAPS

-----------------------------------------------------------------------------
(* Counting the newer sets.                                                *)

LEMMA NewerSetsFinite ==
    ASSUME NEW t \in Seconds
    PROVE  IsFiniteSet(NewerSets(t)) /\ Cardinality(NewerSets(t)) \in Nat
<1>1. NewerSets(t) \subseteq Seconds
  BY DEF NewerSets
<1> QED BY <1>1, BackupsAssumption, FS_Subset, FS_CardinalityType

(***************************************************************************)
(* If the sets that are newer than t include all those that were newer     *)
(* than u, and u had enough, then t has enough now.                        *)
(***************************************************************************)
LEMMA EnoughGrows ==
    ASSUME NEW t \in Seconds, NEW u \in Seconds, Enough(u),
           NewerSets(u) \subseteq NewerSets(t)'
    PROVE  Enough(t)'
<1>1. NewerSets(t)' \subseteq Seconds
  BY DEF NewerSets
<1>2. IsFiniteSet(NewerSets(t)')
  BY <1>1, BackupsAssumption, FS_Subset
<1>3. Cardinality(NewerSets(u)) <= Cardinality(NewerSets(t)')
  BY <1>2, FS_Subset
<1>4. /\ Cardinality(NewerSets(u)) \in Nat
      /\ Cardinality(NewerSets(t)') \in Nat
  BY <1>2, NewerSetsFinite, FS_CardinalityType
<1> QED BY <1>3, <1>4, BackupsAssumption DEF Enough

(***************************************************************************)
(* A step that removes no set from the directory takes enough from no one. *)
(***************************************************************************)
LEMMA NothingRemoved ==
    ASSUME \A t \in Seconds : Present(t) => Present(t)',
           NEW t \in Seconds, Enough(t)
    PROVE  Enough(t)'
<1>1. NewerSets(t) \subseteq NewerSets(t)'
  BY DEF NewerSets
<1> QED BY <1>1, EnoughGrows

(***************************************************************************)
(* Removing a file of a set that has enough newer ones takes enough from   *)
(* no one: a set that is older than the removed one has at least the       *)
(* others behind it, and a set that is not does not count the removed one. *)
(***************************************************************************)
LEMMA DoomedRemoved ==
    ASSUME BackupsTypeOK, NEW u \in Seconds, NEW f \in Files, Enough(u),
           archive' = [archive EXCEPT ![u][f] = "none"],
           NEW t \in Seconds, Enough(t)
    PROVE  Enough(t)'
<1>1. \A s \in Seconds : s # u => Present(s)' = Present(s)
  BY DEF Present, BackupsTypeOK
<1>2. t \in Nat /\ u \in Nat
  BY BackupsAssumption
<1>3. CASE t < u
  <2>1. NewerSets(u) \subseteq NewerSets(t)'
    BY <1>1, <1>2, <1>3, BackupsAssumption DEF NewerSets
  <2> QED BY <2>1, EnoughGrows
<1>4. CASE ~(t < u)
  <2>1. NewerSets(t) \subseteq NewerSets(t)'
    BY <1>1, <1>2, <1>4, BackupsAssumption DEF NewerSets
  <2> QED BY <2>1, EnoughGrows
<1> QED BY <1>3, <1>4

(***************************************************************************)
(* What pruning names has enough newer sets.                               *)
(***************************************************************************)
LEMMA BeyondHasEnough ==
    ASSUME NEW keep \in KeepCounts, keep # 0, NEW t \in Beyond(keep)
    PROVE  t \in Seconds /\ Enough(t)
<1>1. t \in Seconds /\ Cardinality(NewerSets(t)) >= keep
  BY DEF Beyond
<1>2. keep \in Nat /\ Least \in Nat /\ Least <= keep
  BY BackupsAssumption
<1>3. Cardinality(NewerSets(t)) \in Nat
  BY <1>1, NewerSetsFinite
<1> QED BY <1>1, <1>2, <1>3 DEF Enough

-----------------------------------------------------------------------------
(* The invariant.                                                          *)

LEMMA BackupsInitInv == BackupsInit => BackupsInv
<1> SUFFICES ASSUME BackupsInit PROVE BackupsInv
  OBVIOUS
<1>1. \A w \in Runners : runner[w].pc = "idle" /\ runner[w].doomed = {}
  BY DEF BackupsInit
<1>2. BackupsTypeOK
  <2>1. archive \in [Seconds -> [Files -> FileState]]
    BY DEF BackupsInit, FileState
  <2>2. runner \in [Runners -> Runner]
    BY DEF BackupsInit, Runner
  <2> QED BY <2>1, <2>2 DEF BackupsInit, BackupsTypeOK
<1>3. complete = {}
  BY DEF BackupsInit
<1> QED BY <1>1, <1>2, <1>3 DEF BackupsInv

(***************************************************************************)
(* What a step may do to a run: begin to count on a copy only if it is     *)
(* safe, and doom only files of sets with enough newer ones.               *)
(***************************************************************************)
CountsOnCopy(w) == runner[w].pc \in {"db", "copying db"}

GoesOn(w) ==
    /\ CountsOnCopy(w)' => \/ CountsOnCopy(w) /\ runner'[w].stamp = runner[w].stamp
                           \/ Safe(runner[w].stamp, "ini")'
    /\ \A t \in Seconds, f \in Files :
          <<t, f>> \in runner'[w].doomed => <<t, f>> \in runner[w].doomed \/ Enough(t)'

LEMMA OthersGoOn ==
    ASSUME NEW w \in Runners, runner'[w] = runner[w]
    PROVE  GoesOn(w)
BY DEF GoesOn, CountsOnCopy

(***************************************************************************)
(* A step keeps the invariant if it keeps the types, takes enough from no  *)
(* one, removes only what has enough, and lets every run go on.            *)
(***************************************************************************)
LEMMA OrderlyStep ==
    ASSUME BackupsInv, BackupsTypeOK',
           \A t \in Seconds : Enough(t) => Enough(t)',
           \A t \in Seconds, f \in Files : archive[t][f] # "none" => Safe(t, f)',
           \A t \in complete' \ complete, f \in Files : Safe(t, f)',
           \A w \in Runners : GoesOn(w)
    PROVE  BackupsInv'
<1>1. \A t \in Seconds, f \in Files : Safe(t, f) => Safe(t, f)'
  BY DEF Safe
<1>2. \A t \in complete', f \in Files : Safe(t, f)'
  BY <1>1 DEF BackupsInv, BackupsTypeOK
<1>3. ASSUME NEW w \in Runners
      PROVE  /\ CountsOnCopy(w)' => Safe(runner[w].stamp, "ini")'
             /\ \A t \in Seconds, f \in Files :
                   <<t, f>> \in runner'[w].doomed => Enough(t)'
  <2>1. runner'[w].stamp \in Seconds
    BY DEF BackupsTypeOK, Runner
  <2>2. \A t \in Seconds : runner[w].stamp = t /\ CountsOnCopy(w) => Safe(t, "ini")'
    BY <1>1 DEF BackupsInv, CountsOnCopy, Files
  <2>3. CASE CountsOnCopy(w) /\ runner'[w].stamp = runner[w].stamp
    BY <2>1, <2>2, <2>3 DEF GoesOn, BackupsInv, Safe, Enough, NewerSets, Present
  <2>4. CASE ~(CountsOnCopy(w) /\ runner'[w].stamp = runner[w].stamp)
    BY <2>4 DEF GoesOn, BackupsInv
  <2> QED BY <2>3, <2>4
<1> QED BY <1>2, <1>3 DEF BackupsInv, CountsOnCopy

(***************************************************************************)
(* A step that leaves the directory alone takes nothing from anyone.       *)
(***************************************************************************)
LEMMA QuietStep ==
    ASSUME BackupsInv, BackupsTypeOK', archive' = archive, complete' = complete,
           \A w \in Runners : GoesOn(w)
    PROVE  BackupsInv'
<1>1. \A t \in Seconds : Enough(t) => Enough(t)'
  BY DEF Enough, NewerSets, Present
<1>2. \A t \in Seconds, f \in Files : archive[t][f] # "none" => Safe(t, f)'
  BY DEF Safe
<1> QED BY <1>1, <1>2, OrderlyStep

LEMMA PassKeeps == ASSUME BackupsInv, Pass PROVE BackupsInv'
<1>1. BackupsTypeOK'
  BY DEF Pass, BackupsInv, BackupsTypeOK
<1> QED BY <1>1, QuietStep, OthersGoOn DEF Pass

(***************************************************************************)
(* A run that begins or ends counts on nothing and dooms nothing.          *)
(***************************************************************************)
LEMMA BeginKeeps == ASSUME BackupsInv, NEW w \in Runners, Begin(w) PROVE BackupsInv'
<1>1. BackupsTypeOK'
  BY DEF Begin, BackupsInv, BackupsTypeOK, Runner
<1>2. runner'[w].pc = "ini" /\ runner'[w].doomed = {}
  BY DEF Begin, BackupsInv, BackupsTypeOK
<1>3. GoesOn(w)
  BY <1>2 DEF GoesOn, CountsOnCopy
<1>4. \A v \in Runners : v # w => runner'[v] = runner[v]
  BY DEF Begin, BackupsInv, BackupsTypeOK
<1> QED BY <1>1, <1>3, <1>4, OthersGoOn, QuietStep DEF Begin

LEMMA EndKeeps == ASSUME BackupsInv, NEW w \in Runners, End(w) PROVE BackupsInv'
<1>1. BackupsTypeOK'
  BY DEF End, BackupsInv, BackupsTypeOK, Runner
<1>2. runner'[w].pc = "idle" /\ runner'[w].doomed = {}
  BY DEF End, BackupsInv, BackupsTypeOK, Runner
<1>3. GoesOn(w)
  BY <1>2 DEF GoesOn, CountsOnCopy
<1>4. \A v \in Runners : v # w => runner'[v] = runner[v]
  BY DEF End, BackupsInv, BackupsTypeOK
<1> QED BY <1>1, <1>3, <1>4, OthersGoOn, QuietStep DEF End

(***************************************************************************)
(* Copying adds files, so a step that copies keeps the invariant if the    *)
(* runs go on and what becomes complete is there.                          *)
(***************************************************************************)
LEMMA CopyKeeps ==
    ASSUME BackupsInv, BackupsTypeOK', NEW u \in Seconds, NEW g \in Files,
           NEW state \in {"partial", "whole"},
           archive' = [archive EXCEPT ![u][g] = state],
           \A t \in complete' \ complete, f \in Files : Safe(t, f)',
           \A w \in Runners : GoesOn(w)
    PROVE  BackupsInv'
<1>1. \A t \in Seconds, f \in Files : archive[t][f] # "none" => archive'[t][f] # "none"
  BY DEF BackupsInv, BackupsTypeOK
<1>2. \A t \in Seconds : Present(t) => Present(t)'
  BY <1>1 DEF Present
<1>3. \A t \in Seconds : Enough(t) => Enough(t)'
  BY <1>2, NothingRemoved
<1>4. \A t \in Seconds, f \in Files : archive[t][f] # "none" => Safe(t, f)'
  BY <1>1 DEF Safe
<1> QED BY <1>3, <1>4, OrderlyStep

LEMMA BeginCopyKeeps ==
    ASSUME BackupsInv, NEW w \in Runners, NEW f \in Files, BeginCopy(w, f)
    PROVE  BackupsInv'
<1>1. /\ archive \in [Seconds -> [Files -> FileState]]
      /\ runner \in [Runners -> Runner] /\ runner[w].stamp \in Seconds
  BY DEF BackupsInv, BackupsTypeOK, Runner
<1>2. BackupsTypeOK'
  <2>1. archive' \in [Seconds -> [Files -> FileState]]
    BY <1>1 DEF BeginCopy, FileState
  <2>2. runner' \in [Runners -> Runner]
    BY <1>1 DEF BeginCopy, Runner
  <2> QED BY <2>1, <2>2 DEF BeginCopy, BackupsInv, BackupsTypeOK
<1>3. GoesOn(w)
  <2>1. /\ runner'[w].stamp = runner[w].stamp /\ runner'[w].doomed = runner[w].doomed
        /\ runner[w].pc = f
        /\ runner'[w].pc = IF f = "ini" THEN "copying ini" ELSE "copying db"
    BY <1>1 DEF BeginCopy, Runner
  <2> QED BY <2>1 DEF GoesOn, CountsOnCopy, Files
<1>4. \A v \in Runners : v # w => runner'[v] = runner[v]
  BY <1>1 DEF BeginCopy
<1> QED BY <1>1, <1>2, <1>3, <1>4, OthersGoOn, CopyKeeps DEF BeginCopy

LEMMA EndIniKeeps ==
    ASSUME BackupsInv, NEW w \in Runners, EndIni(w)
    PROVE  BackupsInv'
<1>1. /\ archive \in [Seconds -> [Files -> FileState]]
      /\ runner \in [Runners -> Runner] /\ runner[w].stamp \in Seconds
  BY DEF BackupsInv, BackupsTypeOK, Runner
<1>2. BackupsTypeOK'
  <2>1. archive' \in [Seconds -> [Files -> FileState]]
    BY <1>1 DEF EndIni, FileState, Files
  <2>2. runner' \in [Runners -> Runner]
    BY <1>1 DEF EndIni, Runner
  <2> QED BY <2>1, <2>2 DEF EndIni, BackupsInv, BackupsTypeOK
<1>3. /\ runner'[w].stamp = runner[w].stamp /\ runner'[w].doomed = runner[w].doomed
  BY <1>1 DEF EndIni, Runner
<1>4. archive'[runner[w].stamp]["ini"] = "whole"
  BY <1>1 DEF EndIni, Files
<1>5. GoesOn(w)
  BY <1>3, <1>4 DEF GoesOn, Safe
<1>6. \A v \in Runners : v # w => runner'[v] = runner[v]
  BY <1>1 DEF EndIni
<1> QED BY <1>1, <1>2, <1>5, <1>6, OthersGoOn, CopyKeeps DEF EndIni, Files

(***************************************************************************)
(* A set becomes complete: its INI file, copied before, is safe.           *)
(***************************************************************************)
LEMMA EndDbKeeps ==
    ASSUME BackupsInv, NEW w \in Runners, EndDb(w)
    PROVE  BackupsInv'
<1> DEFINE s == runner[w].stamp
<1>1. /\ archive \in [Seconds -> [Files -> FileState]]
      /\ runner \in [Runners -> Runner] /\ s \in Seconds
  BY DEF BackupsInv, BackupsTypeOK, Runner
<1>2. BackupsTypeOK'
  <2>1. archive' \in [Seconds -> [Files -> FileState]]
    BY <1>1 DEF EndDb, FileState, Files
  <2>2. runner' \in [Runners -> Runner]
    BY <1>1 DEF EndDb, Runner
  <2> QED BY <1>1, <2>1, <2>2 DEF EndDb, BackupsInv, BackupsTypeOK
<1>3. /\ runner'[w].doomed = runner[w].doomed /\ runner'[w].pc = "list"
  BY <1>1 DEF EndDb, Runner
<1>4. GoesOn(w)
  BY <1>3 DEF GoesOn, CountsOnCopy
<1>5. \A v \in Runners : v # w => runner'[v] = runner[v]
  BY <1>1 DEF EndDb
<1>6. ASSUME NEW t \in complete' \ complete, NEW f \in Files
      PROVE  Safe(t, f)'
  <2>1. t = s
    BY <1>6 DEF EndDb
  <2>2. CASE f = "db"
    BY <1>1, <2>1, <2>2 DEF EndDb, Safe, Files
  <2>3. CASE f = "ini"
    <3>1. Safe(s, "ini")
      BY DEF EndDb, BackupsInv
    <3>2. CASE archive[s]["ini"] # "none"
      <4>1. archive'[s]["ini"] # "none"
        BY <1>1, <3>2 DEF EndDb, Files
      <4> QED BY <2>1, <2>3, <4>1 DEF Safe
    <3>3. CASE Enough(s)
      <4>1. \A u \in Seconds : Present(u) => Present(u)'
        BY <1>1 DEF EndDb, Present, Files
      <4>2. Enough(t)
        BY <2>1, <3>3
      <4>3. Enough(t)'
        BY <1>1, <2>1, <4>1, <4>2, NothingRemoved
      <4> QED BY <4>3 DEF Safe
    <3> QED BY <3>1, <3>2, <3>3 DEF Safe
  <2> QED BY <2>2, <2>3 DEF Files
<1> QED BY <1>1, <1>2, <1>4, <1>5, <1>6, OthersGoOn, CopyKeeps DEF EndDb, Files

(***************************************************************************)
(* Listing dooms what has enough newer sets.                               *)
(***************************************************************************)
LEMMA ListSetsKeeps ==
    ASSUME BackupsInv, NEW w \in Runners, NEW keep \in KeepCounts, ListSets(w, keep)
    PROVE  BackupsInv'
<1> DEFINE named == IF keep = 0 THEN {} ELSE Beyond(keep) \X Files
<1>1. runner \in [Runners -> Runner] /\ named \in SUBSET (Seconds \X Files)
  BY DEF BackupsInv, BackupsTypeOK, Beyond
<1>2. BackupsTypeOK'
  <2>1. runner' = [runner EXCEPT ![w] =
                      [runner[w] EXCEPT !.pc = "unlink", !.doomed = named]]
    BY <1>1 DEF ListSets
  <2>2. [runner[w] EXCEPT !.pc = "unlink", !.doomed = named] \in Runner
    <3> HIDE DEF named
    <3> QED BY <1>1 DEF Runner
  <2>3. runner' \in [Runners -> Runner]
    BY <1>1, <2>1, <2>2
  <2> QED BY <2>3 DEF ListSets, BackupsInv, BackupsTypeOK
<1>3. /\ runner'[w].pc = "unlink" /\ runner'[w].doomed = named
  BY <1>1 DEF ListSets, Runner
<1>4. \A t \in Seconds, f \in Files : <<t, f>> \in named => Enough(t)
  BY BeyondHasEnough
<1>5. \A t \in Seconds : Enough(t)' = Enough(t)
  BY DEF ListSets, Enough, NewerSets, Present
<1>6. GoesOn(w)
  BY <1>3, <1>4, <1>5 DEF GoesOn, CountsOnCopy
<1>7. \A v \in Runners : v # w => runner'[v] = runner[v]
  BY <1>1 DEF ListSets
<1> QED BY <1>2, <1>6, <1>7, OthersGoOn, QuietStep DEF ListSets

(***************************************************************************)
(* Only doomed files go, and what is doomed has enough newer sets.         *)
(***************************************************************************)
LEMMA UnlinkKeeps ==
    ASSUME BackupsInv, NEW w \in Runners, NEW u \in Seconds, NEW g \in Files,
           Unlink(w, u, g)
    PROVE  BackupsInv'
<1>1. /\ archive \in [Seconds -> [Files -> FileState]]
      /\ runner \in [Runners -> Runner]
  BY DEF BackupsInv, BackupsTypeOK
<1>2. BackupsTypeOK'
  <2>1. archive' \in [Seconds -> [Files -> FileState]]
    BY <1>1 DEF Unlink, FileState
  <2>2. runner' \in [Runners -> Runner]
    BY <1>1 DEF Unlink, Runner
  <2> QED BY <2>1, <2>2 DEF Unlink, BackupsInv, BackupsTypeOK
<1>3. Enough(u)
  BY DEF Unlink, BackupsInv
<1>4. \A t \in Seconds : Enough(t) => Enough(t)'
  BY <1>3, DoomedRemoved DEF Unlink, BackupsInv
<1>5. \A t \in Seconds, f \in Files : archive[t][f] # "none" => Safe(t, f)'
  <2>1. ASSUME NEW t \in Seconds, NEW f \in Files, archive[t][f] # "none"
        PROVE  Safe(t, f)'
    <3>1. CASE t = u
      BY <1>3, <1>4, <3>1 DEF Safe
    <3>2. CASE t # u
      BY <1>1, <2>1, <3>2 DEF Unlink, Safe
    <3> QED BY <3>1, <3>2
  <2> QED BY <2>1
<1>6. GoesOn(w)
  <2>1. /\ runner'[w].pc = "unlink" /\ runner'[w].doomed \subseteq runner[w].doomed
    BY <1>1 DEF Unlink, Runner
  <2> QED BY <2>1 DEF GoesOn, CountsOnCopy
<1>7. \A v \in Runners : v # w => runner'[v] = runner[v]
  BY <1>1 DEF Unlink
<1> QED BY <1>2, <1>4, <1>5, <1>6, <1>7, OthersGoOn, OrderlyStep DEF Unlink

LEMMA UnlinkFailsKeeps ==
    ASSUME BackupsInv, NEW w \in Runners, NEW u \in Seconds, NEW g \in Files,
           UnlinkFails(w, u, g)
    PROVE  BackupsInv'
<1>1. runner \in [Runners -> Runner]
  BY DEF BackupsInv, BackupsTypeOK
<1>2. BackupsTypeOK'
  <2>1. runner' \in [Runners -> Runner]
    BY <1>1 DEF UnlinkFails, Runner
  <2> QED BY <2>1 DEF UnlinkFails, BackupsInv, BackupsTypeOK
<1>3. GoesOn(w)
  <2>1. /\ runner'[w].pc = "unlink" /\ runner'[w].doomed \subseteq runner[w].doomed
    BY <1>1 DEF UnlinkFails, Runner
  <2> QED BY <2>1 DEF GoesOn, CountsOnCopy
<1>4. \A v \in Runners : v # w => runner'[v] = runner[v]
  BY <1>1 DEF UnlinkFails
<1> QED BY <1>2, <1>3, <1>4, OthersGoOn, QuietStep DEF UnlinkFails

-----------------------------------------------------------------------------
(* The theorems.                                                           *)

LEMMA BackupsStep == BackupsInv /\ [BackupsNext]_backupVars => BackupsInv'
<1> SUFFICES ASSUME BackupsInv, [BackupsNext]_backupVars
             PROVE  BackupsInv'
  OBVIOUS
<1>1. CASE Pass
  BY <1>1, PassKeeps
<1>2. ASSUME NEW w \in Runners, Begin(w) \/ EndIni(w) \/ EndDb(w) \/ End(w)
      PROVE  BackupsInv'
  BY <1>2, BeginKeeps, EndIniKeeps, EndDbKeeps, EndKeeps
<1>3. ASSUME NEW w \in Runners, NEW f \in Files, BeginCopy(w, f)
      PROVE  BackupsInv'
  BY <1>3, BeginCopyKeeps
<1>4. ASSUME NEW w \in Runners, NEW keep \in KeepCounts, ListSets(w, keep)
      PROVE  BackupsInv'
  BY <1>4, ListSetsKeeps
<1>5. ASSUME NEW w \in Runners, NEW t \in Seconds, NEW f \in Files,
             Unlink(w, t, f) \/ UnlinkFails(w, t, f)
      PROVE  BackupsInv'
  BY <1>5, UnlinkKeeps, UnlinkFailsKeeps
<1>6. CASE UNCHANGED backupVars
  <2>1. BackupsTypeOK'
    BY <1>6 DEF backupVars, BackupsInv, BackupsTypeOK
  <2> QED BY <1>6, <2>1, OthersGoOn, QuietStep DEF backupVars
<1> QED BY <1>1, <1>2, <1>3, <1>4, <1>5, <1>6 DEF BackupsNext

(***************************************************************************)
(* The inductive invariant: what a prune has doomed has as many newer sets *)
(* as are to be kept, and what a run has copied is there or does not       *)
(* matter any more, for any number of runs.                                *)
(***************************************************************************)
THEOREM BackupsInvariant == BackupsSpec => []BackupsInv
<1> QED BY BackupsInitInv, BackupsStep, PTL DEF BackupsSpec

(***************************************************************************)
(* However many server processes and requests run backups at once, with    *)
(* whatever keep counts, and wherever they fail, a set that was copied in  *)
(* full keeps its files until Least newer sets are there.                  *)
(***************************************************************************)
THEOREM PruneKeepsArchives == BackupsSpec => []ArchivesKept
<1>1. BackupsInv => ArchivesKept
  BY DEF BackupsInv, ArchivesKept, Safe, Enough
<1> QED BY <1>1, BackupsInvariant, PTL

-----------------------------------------------------------------------------
(* The import.                                                             *)

\* The phases in which an import has counted something.
Working == {"lookup", "insert", "refresh", "audit", "replied"}

LEMMA LibraryInitInv == LibraryInit => LibraryInv
<1> SUFFICES ASSUME LibraryInit PROVE LibraryInv
  OBVIOUS
<1> USE LibraryAssumption DEF LibraryInit, NoImport
<1>1. LibraryTypeOK
  BY DEF LibraryTypeOK, Import
<1>2. AtHand /\ Counted /\ import.pc # "replied"
  BY DEF AtHand, Counted
<1> QED BY <1>1, <1>2 DEF LibraryInv

\* A step that stores names, or takes some away, and leaves the import alone.
LEMMA TableStep ==
    ASSUME LibraryInv, NEW tab \in [Ids -> Names \cup {NoName}], Store(tab),
           spent \subseteq spent', spent' \subseteq Ids,
           UNCHANGED <<audited, body, import>>
    PROVE  LibraryInv'
<1> USE DEF LibraryInv
<1>1. seen \subseteq seen' /\ Stored(table)' \subseteq seen' /\ seen' \subseteq Names
  BY DEF Store, Stored, LibraryTypeOK
<1>2. LibraryTypeOK'
  BY <1>1 DEF LibraryTypeOK, Store
<1>3. AtHand'
  BY <1>1 DEF AtHand, Current
<1>4. Counted'
  BY <1>1 DEF Counted
<1> QED BY <1>2, <1>3, <1>4

LEMMA CreateEntryKeeps ==
    ASSUME LibraryInv, NEW i \in Ids, NEW n \in Names, CreateEntry(i, n)
    PROVE  LibraryInv'
<1> DEFINE tab == [table EXCEPT ![i] = n]
<1>1. tab \in [Ids -> Names \cup {NoName}] /\ spent \subseteq Ids
  BY DEF LibraryInv, LibraryTypeOK
<1>2. Store(tab) /\ spent' = spent \cup {i} /\ UNCHANGED <<audited, body, import>>
  BY DEF CreateEntry, Insert
<1> HIDE DEF tab
<1> QED BY <1>1, <1>2, TableStep

LEMMA RenameEntryKeeps ==
    ASSUME LibraryInv, NEW i \in Ids, NEW n \in Names \cup {NoName},
           Store([table EXCEPT ![i] = n]), UNCHANGED <<spent, audited, body, import>>
    PROVE  LibraryInv'
<1> DEFINE tab == [table EXCEPT ![i] = n]
<1>1. tab \in [Ids -> Names \cup {NoName}] /\ spent \subseteq Ids
  BY DEF LibraryInv, LibraryTypeOK
<1>2. Store(tab)
  OBVIOUS
<1> HIDE DEF tab
<1> QED BY <1>1, <1>2, TableStep

LEMMA AuditEntryKeeps ==
    ASSUME LibraryInv, NEW i \in Ids, AuditEntry(i)
    PROVE  LibraryInv'
<1> USE DEF LibraryInv, AuditEntry
<1>1. LibraryTypeOK'
  BY DEF LibraryTypeOK
<1>2. AtHand'
  BY DEF AtHand, Current
<1>3. Counted'
  BY DEF Counted
<1> QED BY <1>1, <1>2, <1>3

LEMMA StartImportKeeps ==
    ASSUME LibraryInv, NEW list \in BoundedSeq(Entry, MaxEntries), StartImport(list)
    PROVE  LibraryInv'
<1>1. list \in Seq(Entry)
  <2>1. PICK m \in 0..MaxEntries : list \in [1..m -> Entry]
    BY DEF BoundedSeq, SeqOf
  <2>2. m \in Nat
    BY LibraryAssumption
  <2> QED BY <2>1, <2>2
<1>2. /\ import' = [NoImport EXCEPT !.pc = "lookup"] /\ body' = list
      /\ seen' = Stored(table) /\ UNCHANGED <<table, spent, audited>>
  BY DEF StartImport
<1>3. /\ import'.pc = "lookup" /\ import'.next = 1 /\ import'.created = {}
      /\ import'.skipped = 0 /\ import' \in Import
  <2>1. import' = [pc |-> "lookup", next |-> 1, row |-> NoId, broken |-> FALSE,
                   created |-> {}, skipped |-> 0]
    BY <1>2 DEF NoImport
  <2> QED BY <2>1 DEF Import
<1>4. LibraryTypeOK'
  BY <1>1, <1>2, <1>3 DEF LibraryInv, LibraryTypeOK, Stored
<1>5. AtHand'
  BY <1>3 DEF AtHand
<1>6. Counted'
  <2>1. Stored(table)' = seen'
    BY <1>2 DEF Stored
  <2>2. import'.next \in 1..(Len(body') + 1) /\ 1..(import'.next - 1) = {}
    BY <1>1, <1>2, <1>3
  <2>3. IsFiniteSet(import'.created) /\ Cardinality(import'.created) = 0
    BY <1>3, FS_EmptySet
  <2>4. Cardinality(import'.created) + import'.skipped = import'.next - 1
    BY <1>3, <2>3
  <2>5. import'.created \subseteq audited'
    BY <1>3
  <2> QED BY <2>1, <2>2, <2>3, <2>4, <2>5 DEF Counted
<1> QED BY <1>3, <1>4, <1>5, <1>6 DEF LibraryInv

\* An element has a name, or is unfit.
LEMMA ElementIsEntry ==
    ASSUME LibraryTypeOK, NEW k \in 1..Len(body)
    PROVE  /\ body[k].name \in Names \cup {NoName} /\ body[k].fit \in BOOLEAN
           /\ body[k].name = NoName => ~body[k].fit
<1>1. body[k] \in Entry
  BY DEF LibraryTypeOK
<1> QED BY <1>1, LibraryAssumption DEF Entry

\* The element at hand is counted, as created or as skipped.
LEMMA ElementCounted ==
    ASSUME LibraryInv, import.pc \in Working \ {"replied"},
           import.next \in 1..Len(body),
           import' \in Import, import'.pc = "lookup",
           import'.next = import.next + 1,
           \/ import'.created = import.created /\ import'.skipped = import.skipped + 1
           \/ /\ import'.skipped = import.skipped
              /\ import.row \notin import.created
              /\ import'.created = import.created \cup {import.row}
              /\ import.row \in audited' \cap spent,
           import.broken => import'.broken /\ Current.name = NoName,
           \/ ~Current.fit \/ Current.name \in seen
           \/ ~import.broken /\ import'.broken,
           audited \subseteq audited', audited' \subseteq spent,
           UNCHANGED <<table, spent, body, seen>>
    PROVE  LibraryInv'
<1> USE DEF LibraryInv
<1>1. LibraryTypeOK'
  BY DEF LibraryTypeOK
<1>2. AtHand'
  BY DEF AtHand
<1>3. /\ import.next \in Nat /\ import.skipped \in Nat /\ Len(body) \in Nat
      /\ import.created \subseteq audited /\ IsFiniteSet(import.created)
      /\ Cardinality(import.created) + import.skipped = import.next - 1
      /\ Stored(table) \subseteq seen
  BY DEF Working, Counted, LibraryTypeOK, Import
<1>4. import'.created \subseteq audited' /\ IsFiniteSet(import'.created)
  BY <1>3, FS_AddElement
<1>5. Cardinality(import'.created) + import'.skipped = import'.next - 1
  <2>1. Cardinality(import.created) \in Nat
    BY <1>3, FS_CardinalityType
  <2>2. CASE import'.created = import.created /\ import'.skipped = import.skipped + 1
    BY <1>3, <2>1, <2>2
  <2>3. CASE /\ import'.skipped = import.skipped
             /\ import.row \notin import.created
             /\ import'.created = import.created \cup {import.row}
    <3>1. Cardinality(import'.created) = Cardinality(import.created) + 1
      <4>1. IsFiniteSet(import.created)
        BY <1>3
      <4>2. Cardinality(import.created \cup {import.row}) =
              IF import.row \in import.created THEN Cardinality(import.created)
              ELSE Cardinality(import.created) + 1
        BY <4>1, FS_AddElement
      <4> QED BY <2>3, <4>2
    <3>2. import'.next = import.next + 1 /\ import'.skipped = import.skipped
      BY <2>3
    <3>3. /\ import.next \in Nat /\ import.skipped \in Nat
          /\ Cardinality(import.created) + import.skipped = import.next - 1
      BY <1>3
    <3> QED BY <2>1, <3>1, <3>2, <3>3
  <2> QED BY <2>2, <2>3
<1>6. ASSUME NEW k \in 1..(import'.next - 1), body[k].fit, body[k].name \notin seen
      PROVE  /\ import'.broken
             /\ \A j \in (k + 1)..(import'.next - 1) : body[j].name = NoName
  <2>1. k \in 1..(import.next - 1) \/ k = import.next
    BY <1>3
  <2>2. CASE k \in 1..(import.next - 1)
    <3>1. /\ import.broken
          /\ \A j \in (k + 1)..(import.next - 1) : body[j].name = NoName
      BY <1>6, <2>2 DEF Counted, Working
    <3>2. import'.broken /\ body[import.next].name = NoName
      BY <3>1 DEF Current
    <3>3. \A j \in (k + 1)..(import'.next - 1) :
             j \in (k + 1)..(import.next - 1) \/ j = import.next
      BY <1>3, <2>2
    <3> QED BY <3>1, <3>2, <3>3
  <2>3. CASE k = import.next
    <3>1. (k + 1)..(import'.next - 1) = {}
      BY <1>3, <2>3
    <3> QED BY <1>6, <2>3, <3>1 DEF Current
  <2> QED BY <2>1, <2>2, <2>3
<1>7. import'.next \in 1..(Len(body) + 1)
  BY <1>3
<1>8. Stored(table)' \subseteq seen'
  BY <1>3 DEF Stored
<1>9. Counted'
  BY <1>4, <1>5, <1>6, <1>7, <1>8 DEF Counted
<1> QED BY <1>1, <1>2, <1>9

LEMMA SkippedIsTyped ==
    ASSUME import \in Import
    PROVE  /\ Skipped \in Import /\ Skipped.pc = "lookup"
           /\ Skipped.next = import.next + 1 /\ Skipped.broken = import.broken
           /\ Skipped.created = import.created
           /\ Skipped.skipped = import.skipped + 1
<1>0. import.next \in Nat /\ import.skipped \in Nat
  BY DEF Import
<1>1. import.next + 1 \in Nat /\ import.skipped + 1 \in Nat
  BY <1>0
<1>2. Skipped = [pc |-> "lookup", next |-> import.next + 1, row |-> NoId,
                 broken |-> import.broken, created |-> import.created,
                 skipped |-> import.skipped + 1]
  <2>1. import = [pc |-> import.pc, next |-> import.next, row |-> import.row,
                  broken |-> import.broken, created |-> import.created,
                  skipped |-> import.skipped]
    BY DEF Import
  <2>2. Skipped = [import EXCEPT !.pc = "lookup", !.next = import.next + 1, !.row = NoId,
                                 !.skipped = import.skipped + 1]
    BY <2>1 DEF Skipped
  <2> QED BY <2>1, <2>2
<1>3. import.broken \in BOOLEAN /\ import.created \in SUBSET Ids
  BY DEF Import
<1> QED BY <1>1, <1>2, <1>3 DEF Import

LEMMA LookupKeeps ==
    ASSUME LibraryInv, Lookup
    PROVE  LibraryInv'
<1>1. /\ import \in Import /\ import.pc = "lookup" /\ import.next <= Len(body)
      /\ LibraryTypeOK /\ audited \subseteq spent
      /\ UNCHANGED <<table, spent, audited, body, seen>>
  BY DEF LibraryInv, LibraryTypeOK, Lookup
<1>2. import.next \in 1..Len(body) /\ Stored(table) \subseteq seen
  BY <1>1 DEF LibraryInv, Counted, Import, LibraryTypeOK
<1>3. /\ Current.name \in Names \cup {NoName}
      /\ Current.name = NoName => ~Current.fit
  BY <1>1, <1>2, ElementIsEntry DEF Current
<1>4. ASSUME import' = Skipped,
             Current.name = NoName \/ ~import.broken,
             ~Current.fit \/ Current.name \in seen
      PROVE  LibraryInv'
  <2>1. /\ import' \in Import /\ import'.pc = "lookup" /\ import'.next = import.next + 1
        /\ import'.created = import.created /\ import'.skipped = import.skipped + 1
        /\ import'.broken = import.broken
    BY <1>1, <1>4, SkippedIsTyped
  <2> QED BY <1>1, <1>2, <1>4, <2>1, ElementCounted DEF Working
<1>5. CASE import' = [import EXCEPT !.pc = "raised"]
  <2>1. import' \in Import /\ import'.pc = "raised"
    BY <1>1, <1>5 DEF Import
  <2> QED BY <1>1, <2>1 DEF LibraryInv, LibraryTypeOK, AtHand, Counted
<1>6. ASSUME import' = [import EXCEPT !.pc = "insert"],
             Current.name # NoName, ~import.broken
      PROVE  LibraryInv'
  <2>1. /\ import' \in Import /\ import'.pc = "insert" /\ import'.next = import.next
        /\ import'.created = import.created /\ import'.skipped = import.skipped
        /\ import'.broken = import.broken
    BY <1>1, <1>6 DEF Import
  <2>2. AtHand'
    BY <1>1, <1>2, <1>3, <1>6, <2>1 DEF AtHand, Current
  <2>3. Counted'
    BY <1>1, <2>1 DEF LibraryInv, Counted, Stored
  <2> QED BY <1>1, <2>1, <2>2, <2>3 DEF LibraryInv, LibraryTypeOK
<1>7. CASE Current.name = NoName
  BY <1>3, <1>4, <1>7 DEF Lookup
<1>8. CASE Current.name # NoName /\ import.broken
  BY <1>5, <1>8 DEF Lookup
<1>9. CASE Current.name # NoName /\ ~import.broken
  BY <1>2, <1>4, <1>6, <1>9 DEF Lookup, Caught
<1> QED BY <1>7, <1>8, <1>9

\* The element is caught and counted as skipped.
LEMMA CaughtKeeps ==
    ASSUME LibraryInv, import.pc \in {"insert", "refresh", "audit"},
           \/ import' = Caught /\ Current.name \in seen
           \/ import' = [Caught EXCEPT !.broken = TRUE],
           UNCHANGED <<table, spent, audited, body, seen>>
    PROVE  LibraryInv'
<1>1. import \in Import /\ LibraryTypeOK /\ audited \subseteq spent
  BY DEF LibraryInv, LibraryTypeOK
<1>2. import.next \in 1..Len(body) /\ ~import.broken
  BY DEF LibraryInv, AtHand
<1>3. /\ Caught \in Import /\ Caught.pc = "lookup" /\ Caught.next = import.next + 1
      /\ Caught.created = import.created /\ Caught.skipped = import.skipped + 1
  BY <1>1, SkippedIsTyped DEF Caught
<1>4. /\ import' \in Import /\ import'.pc = "lookup" /\ import'.next = import.next + 1
      /\ import'.created = import.created /\ import'.skipped = import.skipped + 1
      /\ Current.name \in seen \/ import'.broken
  <2> HIDE DEF Caught
  <2> QED BY <1>3 DEF Import
<1> QED BY <1>1, <1>2, <1>4, ElementCounted DEF Working

LEMMA InsertRowKeeps ==
    ASSUME LibraryInv, NEW i \in Ids, InsertRow(i)
    PROVE  LibraryInv'
<1> DEFINE tab == [table EXCEPT ![i] = Current.name]
<1>1. /\ import \in Import /\ import.pc = "insert" /\ spent \subseteq Ids
      /\ table \in [Ids -> Names \cup {NoName}] /\ seen \subseteq Names
      /\ audited \subseteq spent
  BY DEF LibraryInv, LibraryTypeOK, InsertRow
<1>2. /\ i \notin spent /\ table' = tab /\ seen' = seen \cup Stored(tab)
      /\ spent' = spent \cup {i} /\ UNCHANGED <<audited, body>>
      /\ import' = [import EXCEPT !.pc = "refresh", !.row = i]
  BY DEF InsertRow, Insert, Store
<1>3. import.next \in 1..Len(body) /\ Current.name \in Names /\ ~import.broken
  BY <1>1 DEF LibraryInv, AtHand
<1>4. /\ tab \in [Ids -> Names \cup {NoName}] /\ Current.name \in Stored(tab)
      /\ Stored(tab) \subseteq Names
  BY <1>1, <1>3, LibraryAssumption DEF Stored
<1> HIDE DEF tab
<1>5. /\ import' \in Import /\ import'.pc = "refresh" /\ import'.row = i
      /\ import'.next = import.next /\ import'.created = import.created
      /\ import'.skipped = import.skipped /\ import'.broken = import.broken
  BY <1>1, <1>2 DEF Import
<1>6. LibraryTypeOK'
  BY <1>1, <1>2, <1>4, <1>5 DEF LibraryInv, LibraryTypeOK
<1>7. AtHand'
  BY <1>1, <1>2, <1>3, <1>4, <1>5 DEF AtHand, Current
<1>8. Counted'
  <2>1. Stored(table)' \subseteq seen'
    BY <1>2 DEF Stored
  <2> QED BY <1>1, <1>2, <1>5, <2>1 DEF LibraryInv, Counted
<1> QED BY <1>5, <1>6, <1>7, <1>8 DEF LibraryInv

\* The import goes on with the element at hand, or replies.
LEMMA PhaseKeeps ==
    ASSUME LibraryInv, import' \in Import,
           \/ import.pc = "refresh" /\ import'.pc = "audit"
           \/ import.pc = "lookup" /\ import'.pc = "replied" /\ import.next > Len(body),
           import'.next = import.next, import'.row = import.row,
           import'.created = import.created, import'.skipped = import.skipped,
           import'.broken = import.broken,
           UNCHANGED <<table, spent, audited, body, seen>>
    PROVE  LibraryInv'
<1> USE DEF LibraryInv
<1>1. LibraryTypeOK'
  BY DEF LibraryTypeOK
<1>2. AtHand'
  BY DEF AtHand, Current
<1>3. Counted'
  BY DEF Counted, Stored
<1>4. import'.pc = "replied" => import'.next = Len(body') + 1
  BY DEF Counted, LibraryTypeOK
<1> QED BY <1>1, <1>2, <1>3, <1>4

LEMMA RefreshKeeps ==
    ASSUME LibraryInv, Refresh
    PROVE  LibraryInv'
<1>1. /\ import.pc = "refresh" /\ import \in Import
      /\ UNCHANGED <<table, spent, audited, body, seen>>
  BY DEF Refresh, LibraryInv, LibraryTypeOK
<1>2. CASE import' = Caught
  BY <1>1, <1>2, CaughtKeeps DEF LibraryInv, AtHand
<1>3. CASE import' = [import EXCEPT !.pc = "audit"]
  <2>1. /\ import' \in Import /\ import'.pc = "audit"
        /\ import'.next = import.next /\ import'.row = import.row
        /\ import'.created = import.created /\ import'.skipped = import.skipped
        /\ import'.broken = import.broken
    BY <1>1, <1>3 DEF Import
  <2> QED BY <1>1, <2>1, PhaseKeeps
<1> QED BY <1>2, <1>3 DEF Refresh

LEMMA ReplyKeeps ==
    ASSUME LibraryInv, Reply
    PROVE  LibraryInv'
<1>1. /\ import.pc = "lookup" /\ import \in Import /\ import.next > Len(body)
      /\ import' = [import EXCEPT !.pc = "replied"]
      /\ UNCHANGED <<table, spent, audited, body, seen>>
  BY DEF Reply, LibraryInv, LibraryTypeOK
<1>2. /\ import' \in Import /\ import'.pc = "replied"
      /\ import'.next = import.next /\ import'.row = import.row
      /\ import'.created = import.created /\ import'.skipped = import.skipped
      /\ import'.broken = import.broken
  BY <1>1 DEF Import
<1> QED BY <1>1, <1>2, PhaseKeeps

LEMMA AuditImportKeeps ==
    ASSUME LibraryInv, AuditImport
    PROVE  LibraryInv'
<1>1. /\ import.pc = "audit" /\ import \in Import /\ LibraryTypeOK
      /\ audited' = audited \cup {import.row} /\ audited \subseteq spent
      /\ import' = [import EXCEPT !.pc = "lookup", !.next = import.next + 1, !.row = NoId,
                                  !.created = import.created \cup {import.row}]
      /\ UNCHANGED <<table, spent, body, seen>>
  BY DEF AuditImport, LibraryInv, LibraryTypeOK, Import
<1>2. /\ import.next \in 1..Len(body) /\ ~import.broken /\ Current.name \in seen
      /\ import.row \in spent \ audited /\ import.created \subseteq audited
  BY <1>1 DEF LibraryInv, AtHand, Counted
<1>3. /\ import' \in Import /\ import'.pc = "lookup" /\ import'.next = import.next + 1
      /\ import'.skipped = import.skipped
      /\ import'.created = import.created \cup {import.row}
  <2>1. import.row \in Ids /\ import.next + 1 \in Nat
    BY <1>1, <1>2 DEF LibraryTypeOK, Import
  <2>2. import' = [pc |-> "lookup", next |-> import.next + 1, row |-> NoId,
                   broken |-> import.broken,
                   created |-> import.created \cup {import.row},
                   skipped |-> import.skipped]
    BY <1>1 DEF Import
  <2> QED BY <1>1, <2>1, <2>2 DEF Import
<1>4. /\ import.row \notin import.created
      /\ import.row \in audited' \cap spent
      /\ audited \subseteq audited' /\ audited' \subseteq spent
  BY <1>1, <1>2
<1> QED BY <1>1, <1>2, <1>3, <1>4, ElementCounted DEF Working

LEMMA KillKeeps ==
    ASSUME LibraryInv, Kill
    PROVE  LibraryInv'
<1>1. /\ import' = NoImport /\ NoImport \in Import /\ NoImport.pc = "idle"
      /\ UNCHANGED <<table, spent, audited, body, seen>>
  BY DEF Kill, NoImport, Import
<1> QED BY <1>1 DEF LibraryInv, LibraryTypeOK, AtHand, Counted

LEMMA LibraryStep == LibraryInv /\ [LibraryNext]_libraryVars => LibraryInv'
<1> SUFFICES ASSUME LibraryInv, [LibraryNext]_libraryVars PROVE LibraryInv'
  OBVIOUS
<1>1. ASSUME NEW i \in Ids, NEW n \in Names, CreateEntry(i, n) PROVE LibraryInv'
  BY <1>1, CreateEntryKeeps
<1>2. ASSUME NEW i \in Ids, NEW n \in Names, RenameEntry(i, n) PROVE LibraryInv'
  BY <1>2, RenameEntryKeeps DEF RenameEntry
<1>3. ASSUME NEW i \in Ids, AuditEntry(i) PROVE LibraryInv'
  BY <1>3, AuditEntryKeeps
<1>4. ASSUME NEW i \in Ids, DeleteEntry(i) PROVE LibraryInv'
  BY <1>4, RenameEntryKeeps DEF DeleteEntry
<1>5. ASSUME NEW i \in Ids, InsertRow(i) PROVE LibraryInv'
  BY <1>5, InsertRowKeeps
<1>6. ASSUME NEW list \in BoundedSeq(Entry, MaxEntries), StartImport(list)
      PROVE  LibraryInv'
  BY <1>6, StartImportKeeps
<1>7. CASE Lookup
  BY <1>7, LookupKeeps
<1>8. CASE InsertFails
  BY <1>8, CaughtKeeps DEF InsertFails
<1>9. CASE Refresh
  BY <1>9, RefreshKeeps
<1>10. CASE AuditImport
  BY <1>10, AuditImportKeeps
<1>11. CASE AuditFails
  BY <1>11, CaughtKeeps DEF AuditFails
<1>12. CASE Reply
  BY <1>12, ReplyKeeps
<1>13. CASE Kill
  BY <1>13, KillKeeps
<1>14. CASE UNCHANGED libraryVars
  BY <1>14 DEF libraryVars, LibraryInv, LibraryTypeOK, AtHand, Counted, Current, Stored
<1> QED BY <1>1, <1>2, <1>3, <1>4, <1>5, <1>6, <1>7, <1>8, <1>9, <1>10, <1>11,
           <1>12, <1>13, <1>14 DEF LibraryNext

(***************************************************************************)
(* Every element of an import is accounted for at every point of it.       *)
(***************************************************************************)
THEOREM LibraryInvariant == LibrarySpec => []LibraryInv
BY LibraryInitInv, LibraryStep, PTL DEF LibrarySpec

(***************************************************************************)
(* What POST /software/import replies is so, for lists of any length and   *)
(* whatever others store, rename and delete meanwhile.                     *)
(***************************************************************************)
THEOREM ImportRepliesTrue == LibrarySpec => []ImportAccounts
<1>1. LibraryInv => ImportAccounts
  <2> SUFFICES ASSUME LibraryInv, import.pc = "replied" PROVE ImportAccounts
    BY DEF ImportAccounts
  <2>1. import.next - 1 = Len(body)
    BY DEF LibraryInv, LibraryTypeOK
  <2> QED BY <2>1 DEF LibraryInv, Counted, ImportAccounts
<1> QED BY <1>1, LibraryInvariant, PTL

-----------------------------------------------------------------------------
(* Passwords.                                                              *)

LEMMA PasswordInitInv == PasswordInit => PasswordInv
<1> SUFFICES ASSUME PasswordInit PROVE PasswordInv
  OBVIOUS
<1> USE DEF PasswordInit
<1>1. /\ Len(trail) = 1 /\ trail[1].pw = password /\ trail[1].at = 0
      /\ 2..Len(trail) = {} /\ DOMAIN trail = {1}
  OBVIOUS
<1>2. PasswordTypeOK
  BY DEF PasswordTypeOK
<1>3. HistoryIsTrail
  BY <1>1 DEF HistoryIsTrail
<1>4. AloneIsInOrder /\ ChecksHold
  BY <1>1 DEF AloneIsInOrder, ChecksHold
<1>5. NoEarlyReuse
  BY <1>1 DEF NoEarlyReuse
<1> QED BY <1>2, <1>3, <1>4, <1>5 DEF PasswordInv, NoChange

LEMMA TrailIsTyped ==
    ASSUME PasswordTypeOK, NEW k \in 1..Len(trail)
    PROVE  /\ trail[k].pw \in Passwords /\ trail[k].alone \in BOOLEAN
           /\ trail[k].old \in Passwords /\ trail[k].at \in Nat
<1> DEFINE R == [pw : Passwords, alone : BOOLEAN, old : Passwords, at : Nat]
<1>1. trail[k] \in R
  <2>1. trail \in Seq(R)
    BY DEF PasswordTypeOK
  <2> HIDE DEF R
  <2> QED BY <2>1
<1> QED BY <1>1

\* Steps of a handler that commit nothing, and what it may hold afterwards.
LEMMA HandlerStep ==
    ASSUME PasswordInv, NEW h \in Handlers, NEW new \in Handler \cup {NoChange},
           handler' = [handler EXCEPT ![h] = new],
           ticket' \in Nat, ticket <= ticket',
           UNCHANGED <<password, history, trail>>,
           new # NoChange =>
              /\ new.at <= ticket'
              /\ new.alone =>
                    /\ new.old = password
                    /\ new.pc \in {"allowed", "flushed"} =>
                          AllowedBy(LastRows(Count), new.new)
                    /\ new.pc = "flushed" =>
                          \A k \in 1..Len(trail) : trail[k].at <= new.at
    PROVE  PasswordInv'
<1> USE DEF PasswordInv
<1>1. /\ handler \in [Handlers -> Handler \cup {NoChange}] /\ ticket \in Nat
      /\ trail \in Seq([pw : Passwords, alone : BOOLEAN, old : Passwords, at : Nat])
  BY DEF PasswordTypeOK
<1>2. /\ handler'[h] = new
      /\ \A g \in Handlers : g # h => handler'[g] = handler[g]
  BY <1>1
<1>3. PasswordTypeOK'
  BY <1>1 DEF PasswordTypeOK
<1>4. \A g \in Handlers : handler'[g] # NoChange => handler'[g].at <= ticket'
  <2> SUFFICES ASSUME NEW g \in Handlers, handler'[g] # NoChange, g # h
               PROVE  handler'[g].at <= ticket'
    BY <1>2
  <2>1. handler[g] \in Handler /\ handler[g].at <= ticket /\ handler'[g] = handler[g]
    BY <1>1, <1>2
  <2>2. handler[g].at \in Nat
    BY <2>1 DEF Handler
  <2> QED BY <1>1, <2>1, <2>2
<1>5. HistoryIsTrail'
  <2>1. \A k \in 1..Len(trail) : trail[k].at <= ticket /\ trail[k].at \in Nat
    BY TrailIsTyped DEF HistoryIsTrail
  <2>2. \A k \in 1..Len(trail) : trail[k].at <= ticket'
    BY <1>1, <2>1
  <2> QED BY <2>2 DEF HistoryIsTrail, Left
<1>6. AloneIsInOrder'
  BY DEF AloneIsInOrder
<1>7. ChecksHold'
  <2>1. LastRows(Count)' = LastRows(Count)
    BY DEF LastRows
  <2> SUFFICES ASSUME NEW g \in Handlers, handler'[g] # NoChange, handler'[g].alone
               PROVE  /\ handler'[g].old = password
                      /\ handler'[g].pc \in {"allowed", "flushed"} =>
                            AllowedBy(LastRows(Count), handler'[g].new)
                      /\ handler'[g].pc = "flushed" =>
                            \A k \in 1..Len(trail) : trail[k].at <= handler'[g].at
    BY <2>1 DEF ChecksHold, AllowedBy
  <2>2. CASE g = h
    BY <1>2, <2>2
  <2>3. CASE g # h
    BY <1>2, <2>3 DEF ChecksHold
  <2> QED BY <2>2, <2>3
<1>8. NoEarlyReuse'
  BY DEF NoEarlyReuse
<1> QED BY <1>3, <1>4, <1>5, <1>6, <1>7, <1>8

LEMMA ReadUserKeeps ==
    ASSUME PasswordInv, NEW h \in Handlers, NEW p \in Passwords, ReadUser(h, p)
    PROVE  PasswordInv'
<1> DEFINE new == [pc |-> "read", old |-> password, new |-> p, at |-> 0, alone |-> TRUE]
<1>1. password \in Passwords /\ ticket \in Nat
  BY DEF PasswordInv, PasswordTypeOK
<1>2. new \in Handler /\ new.at <= ticket /\ new.old = password /\ new.pc = "read"
  BY <1>1 DEF Handler
<1>3. handler' = [handler EXCEPT ![h] = new] /\ UNCHANGED <<password, history, ticket, trail>>
  BY DEF ReadUser
<1> HIDE DEF new
<1>4. ticket' \in Nat /\ ticket <= ticket' /\ new.at <= ticket'
  BY <1>1, <1>2, <1>3
<1>5. UNCHANGED <<password, history, trail>>
  BY <1>3
<1> QED BY <1>2, <1>3, <1>4, <1>5, HandlerStep

\* A handler that is in some phase is at work.
LEMMA AtWork ==
    ASSUME PasswordInv, NEW h \in Handlers, handler[h].pc # "idle"
    PROVE  handler[h] \in Handler /\ handler[h] # NoChange
BY DEF PasswordInv, PasswordTypeOK, NoChange

LEMMA CheckHistoryKeeps ==
    ASSUME PasswordInv, NEW h \in Handlers, CheckHistory(h)
    PROVE  PasswordInv'
<1> DEFINE new == [handler[h] EXCEPT !.pc = "allowed"]
<1>1. /\ handler[h] \in Handler /\ handler[h] # NoChange /\ ticket \in Nat
      /\ handler \in [Handlers -> Handler \cup {NoChange}]
  BY AtWork DEF CheckHistory, PasswordInv, PasswordTypeOK
<1>2. /\ new \in Handler /\ new.at = handler[h].at /\ new.old = handler[h].old
      /\ new.new = handler[h].new /\ new.alone = handler[h].alone /\ new.pc = "allowed"
  BY <1>1 DEF Handler
<1>3. handler' = [handler EXCEPT ![h] = new] /\ UNCHANGED <<password, history, ticket, trail>>
  BY <1>1 DEF CheckHistory
<1>4. /\ handler[h].at <= ticket
      /\ handler[h].alone => handler[h].old = password
      /\ AllowedBy(LastRows(Count), handler[h].new)
  BY <1>1 DEF PasswordInv, ChecksHold, CheckHistory
<1> HIDE DEF new
<1>5. ticket' \in Nat /\ ticket <= ticket' /\ new.at <= ticket'
  <2>1. ticket' = ticket
    BY <1>3
  <2>2. new.at <= ticket
    BY <1>2, <1>4
  <2> QED BY <1>1, <2>1, <2>2
<1>6. UNCHANGED <<password, history, trail>>
  BY <1>3
<1> QED BY <1>2, <1>3, <1>4, <1>5, <1>6, HandlerStep

LEMMA FlushKeeps ==
    ASSUME PasswordInv, NEW h \in Handlers, Flush(h)
    PROVE  PasswordInv'
<1> DEFINE new == [handler[h] EXCEPT !.pc = "flushed", !.at = ticket + 1]
<1>1. /\ handler[h] \in Handler /\ handler[h] # NoChange /\ ticket \in Nat
      /\ handler \in [Handlers -> Handler \cup {NoChange}]
      /\ trail \in Seq([pw : Passwords, alone : BOOLEAN, old : Passwords, at : Nat])
  BY AtWork DEF Flush, PasswordInv, PasswordTypeOK
<1>0. ticket + 1 \in Nat
  BY <1>1
<1>2. /\ new \in Handler /\ new.at = ticket + 1 /\ new.old = handler[h].old
      /\ new.new = handler[h].new /\ new.alone = handler[h].alone /\ new.pc = "flushed"
  BY <1>0, <1>1 DEF Handler
<1>3. /\ handler' = [handler EXCEPT ![h] = new] /\ ticket' = ticket + 1
      /\ UNCHANGED <<password, history, trail>>
  BY <1>1 DEF Flush
<1>4. /\ handler[h].alone => /\ handler[h].old = password
                             /\ AllowedBy(LastRows(Count), handler[h].new)
  BY <1>1 DEF PasswordInv, ChecksHold, Flush
<1>5. \A k \in 1..Len(trail) : trail[k].at <= ticket + 1
  <2>1. \A k \in 1..Len(trail) : trail[k].at <= ticket /\ trail[k].at \in Nat
    BY TrailIsTyped DEF PasswordInv, HistoryIsTrail
  <2> QED BY <1>1, <2>1
<1> HIDE DEF new
<1>6. ticket' \in Nat /\ ticket <= ticket' /\ new.at <= ticket'
  BY <1>1, <1>2, <1>3
<1> QED BY <1>2, <1>3, <1>4, <1>5, <1>6, HandlerStep

LEMMA EndChangeKeeps ==
    ASSUME PasswordInv, NEW h \in Handlers, EndChange(h)
    PROVE  PasswordInv'
<1>1. ticket \in Nat
  BY DEF PasswordInv, PasswordTypeOK
<1>2. /\ handler' = [handler EXCEPT ![h] = NoChange]
      /\ UNCHANGED <<password, history, ticket, trail>>
  BY DEF EndChange
<1>3. ticket' \in Nat /\ ticket <= ticket' /\ UNCHANGED <<password, history, trail>>
  BY <1>1, <1>2
<1> QED BY <1>2, <1>3, HandlerStep

\* The invariant bounds the rows that are newer than one left by a change on
\* a current row: all of them were left after it.
LEMMA NewerRowsAreLater ==
    ASSUME PasswordInv, NEW k \in 2..Len(trail), trail[k].alone
    PROVE  Cardinality({q \in history : q.at > Left(k).at}) <= Len(trail) - k
<1> DEFINE N == {q \in history : q.at > Left(k).at}
           Later == (k + 1)..Len(trail)
           T == {Left(m) : m \in Later}
<1>1. trail \in Seq([pw : Passwords, alone : BOOLEAN, old : Passwords, at : Nat])
  BY DEF PasswordInv, PasswordTypeOK
<1>2. Len(trail) \in Nat /\ k \in Nat /\ k <= Len(trail)
  BY <1>1
<1>3. N \subseteq T
  <2> SUFFICES ASSUME NEW q \in N PROVE q \in T
    OBVIOUS
  <2>1. PICK m \in 2..Len(trail) : q = Left(m)
    BY DEF PasswordInv, HistoryIsTrail
  <2>2. trail[m].at > trail[k].at
    BY <2>1 DEF Left
  <2>3. m \notin 1..(k - 1)
    <3>1. \A n \in 1..(k - 1) : trail[n].at <= trail[k].at
      BY DEF PasswordInv, AloneIsInOrder
    <3>2. trail[m].at \in Nat /\ trail[k].at \in Nat
      <4>1. m \in 1..Len(trail) /\ k \in 1..Len(trail)
        BY <1>2
      <4> QED BY <4>1, TrailIsTyped DEF PasswordInv
    <3> QED BY <2>2, <3>1, <3>2
  <2>4. m # k
    <3>1. trail[k].at \in Nat
      <4>1. k \in 1..Len(trail)
        BY <1>2
      <4> QED BY <4>1, TrailIsTyped DEF PasswordInv
    <3> QED BY <2>2, <3>1
  <2>5. m \in Later
    BY <1>2, <2>3, <2>4
  <2> QED BY <2>1, <2>5
<1>4. IsFiniteSet(Later) /\ Cardinality(Later) = Len(trail) - k
  <2>1. /\ IsFiniteSet(Later)
        /\ Cardinality(Later) = IF k + 1 > Len(trail) THEN 0 ELSE Len(trail) - (k + 1) + 1
    <3>1. k + 1 \in Int /\ Len(trail) \in Int
      BY <1>2
    <3> QED BY <3>1, FS_Interval
  <2> QED BY <1>2, <2>1
<1>5. IsFiniteSet(T) /\ Cardinality(T) <= Cardinality(Later)
  <2> DEFINE f == [m \in Later |-> Left(m)]
  <2>1. f \in Surjection(Later, T)
    BY DEF Surjection
  <2> HIDE DEF f, T, Later
  <2> QED BY <1>4, <2>1, FS_Surjection
<1>6. Cardinality(N) <= Cardinality(T) /\ IsFiniteSet(N)
  <2> HIDE DEF N, T
  <2> QED BY <1>3, <1>5, FS_Subset
<1>7. Cardinality(N) \in Nat /\ Cardinality(T) \in Nat
  <2> HIDE DEF N, T
  <2> QED BY <1>5, <1>6, FS_CardinalityType
<1> HIDE DEF N, T, Later
<1>8. Cardinality(N) <= Len(trail) - k
  BY <1>2, <1>4, <1>5, <1>6, <1>7
<1> QED BY <1>8 DEF N

\* What the newest Count rows do not hold is none of the Count passwords
\* before the current one, if the changes since were made on current rows.
LEMMA AllowedIsNew ==
    ASSUME PasswordInv, NEW p \in Passwords, AllowedBy(LastRows(Count), p),
           NEW j \in 1..(Len(trail) - 1), j + Count >= Len(trail),
           trail[j + 1].alone
    PROVE  trail[j].pw # p
<1>1. Len(trail) \in Nat /\ Count \in Nat /\ j \in Nat /\ j + 1 \in 2..Len(trail)
  BY PasswordAssumption DEF PasswordInv, PasswordTypeOK
<1> DEFINE r == Left(j + 1)
           N == {q \in history : q.at > r.at}
<1>2. r \in history
  BY <1>1 DEF PasswordInv, HistoryIsTrail
<1>3. r.pw = trail[j].pw
  <2>1. trail[j + 1].old = trail[(j + 1) - 1].pw
    BY <1>1 DEF PasswordInv, AloneIsInOrder
  <2>2. (j + 1) - 1 = j
    BY <1>1
  <2> QED BY <2>1, <2>2 DEF Left
<1>4. Cardinality(N) <= Len(trail) - (j + 1)
  BY <1>1, NewerRowsAreLater
<1>5. Cardinality(N) < Count
  <2>1. Cardinality(N) \in Nat
    <3>1. history = {Left(k) : k \in 2..Len(trail)}
      BY DEF PasswordInv, HistoryIsTrail
    <3> DEFINE f == [k \in 2..Len(trail) |-> Left(k)]
    <3>2. f \in Surjection(2..Len(trail), history)
      BY <3>1 DEF Surjection
    <3>3. IsFiniteSet(2..Len(trail))
      BY <1>1, FS_Interval
    <3> HIDE DEF f
    <3>4. IsFiniteSet(history)
      BY <3>2, <3>3, FS_Surjection
    <3>5. N \subseteq history
      OBVIOUS
    <3> HIDE DEF N
    <3> QED BY <3>4, <3>5, FS_Subset, FS_CardinalityType
  <2> HIDE DEF N
  <2> QED BY <1>1, <1>4, <2>1
<1>6. r \in LastRows(Count)
  BY <1>2, <1>5 DEF LastRows
<1> HIDE DEF r
<1> QED BY <1>3, <1>6 DEF AllowedBy

LEMMA CommitChangeKeeps ==
    ASSUME PasswordInv, NEW h \in Handlers, CommitChange(h)
    PROVE  PasswordInv'
<1> DEFINE R == [pw : Passwords, alone : BOOLEAN, old : Passwords, at : Nat]
           n == Len(trail)
           x == [pw |-> handler[h].new, alone |-> handler[h].alone,
                 old |-> handler[h].old, at |-> handler[h].at]
<1>1. /\ handler[h] \in Handler /\ handler[h] # NoChange /\ ticket \in Nat
      /\ handler \in [Handlers -> Handler \cup {NoChange}]
      /\ trail \in Seq(R) /\ handler[h].pc = "flushed"
      /\ history \subseteq [pw : Passwords, at : Nat]
  BY AtWork DEF CommitChange, PasswordInv, PasswordTypeOK
<1>2. /\ history' = history \cup {[pw |-> x.old, at |-> x.at]}
      /\ password' = x.pw /\ trail' = Append(trail, x) /\ ticket' = ticket
      /\ handler' = [g \in Handlers |->
                       IF g = h \/ handler[g] = NoChange THEN NoChange
                       ELSE [handler[g] EXCEPT !.alone = FALSE]]
  BY DEF CommitChange
<1>3. x \in R
  BY <1>1 DEF Handler
<1>4. handler[h].at <= ticket
  BY <1>1 DEF PasswordInv
<1>5. handler[h].alone => /\ handler[h].old = password
                          /\ AllowedBy(LastRows(Count), handler[h].new)
                          /\ \A k \in 1..n : trail[k].at <= handler[h].at
  BY <1>1 DEF PasswordInv, ChecksHold
<1>6. /\ x.pw \in Passwords /\ x.at <= ticket
      /\ x.alone => /\ x.old = password
                    /\ AllowedBy(LastRows(Count), x.pw)
                    /\ \A k \in 1..n : trail[k].at <= x.at
  BY <1>3, <1>4, <1>5
<1> HIDE DEF x, R
<1>7. /\ n \in Nat \ {0} /\ Len(trail') = n + 1 /\ trail'[n + 1] = x
      /\ \A k \in 1..n : trail'[k] = trail[k]
      /\ trail' \in Seq(R)
  <2>1. trail # <<>>
    BY DEF PasswordInv, HistoryIsTrail
  <2> QED BY <1>1, <1>2, <1>3, <2>1
<1>8. \A g \in Handlers : /\ handler'[g] \in Handler \cup {NoChange}
                          /\ handler'[g] # NoChange => /\ handler[g] # NoChange
                                                       /\ ~handler'[g].alone
                                                       /\ handler'[g].at = handler[g].at
  <2> SUFFICES ASSUME NEW g \in Handlers
               PROVE  /\ handler'[g] \in Handler \cup {NoChange}
                      /\ handler'[g] # NoChange => /\ handler[g] # NoChange
                                                   /\ ~handler'[g].alone
                                                   /\ handler'[g].at = handler[g].at
    OBVIOUS
  <2>1. CASE g = h \/ handler[g] = NoChange
    BY <1>2, <2>1
  <2>2. CASE g # h /\ handler[g] # NoChange
    <3>1. handler'[g] = [handler[g] EXCEPT !.alone = FALSE] /\ handler[g] \in Handler
      BY <1>1, <1>2, <2>2
    <3> QED BY <2>2, <3>1 DEF Handler
  <2> QED BY <2>1, <2>2
<1>9. PasswordTypeOK'
  <2>1. history' \subseteq [pw : Passwords, at : Nat]
    BY <1>1, <1>2, <1>3 DEF R
  <2>2. handler' \in [Handlers -> Handler \cup {NoChange}]
    <3>1. handler' = [g \in Handlers |-> handler'[g]]
      BY <1>2
    <3>2. \A g \in Handlers : handler'[g] \in Handler \cup {NoChange}
      BY <1>8
    <3> QED BY <3>1, <3>2, Zenon
  <2> QED BY <1>1, <1>2, <1>6, <1>7, <2>1, <2>2 DEF PasswordTypeOK, R
<1>10. \A g \in Handlers : handler'[g] # NoChange => handler'[g].at <= ticket'
  BY <1>2, <1>8 DEF PasswordInv
<1>11. HistoryIsTrail'
  <2>1. trail'[Len(trail')].pw = password' /\ trail' # <<>>
    BY <1>2, <1>7
  <2>2. \A k \in 1..Len(trail') : trail'[k].at <= ticket'
    <3>1. \A k \in 1..n : trail[k].at <= ticket
      BY DEF PasswordInv, HistoryIsTrail
    <3> QED BY <1>2, <1>6, <1>7, <3>1
  <2>3. history' = {[pw |-> trail'[k].old, at |-> trail'[k].at] : k \in 2..Len(trail')}
    <3>1. history = {[pw |-> trail[k].old, at |-> trail[k].at] : k \in 2..n}
      BY DEF PasswordInv, HistoryIsTrail, Left
    <3>2. 2..Len(trail') = 2..n \cup {n + 1} /\ n + 1 \notin 2..n
      BY <1>7
    <3>3. \A k \in 2..n : k \in 1..n
      BY <1>7
    <3> HIDE DEF n
    <3> QED BY <1>2, <1>7, <3>1, <3>2, <3>3
  <2> QED BY <2>1, <2>2, <2>3 DEF HistoryIsTrail, Left
<1>12. AloneIsInOrder'
  <2> SUFFICES ASSUME NEW k \in 2..(n + 1), trail'[k].alone
               PROVE  /\ trail'[k].old = trail'[k - 1].pw
                      /\ \A m \in 1..(k - 1) : trail'[m].at <= trail'[k].at
    BY <1>7 DEF AloneIsInOrder
  <2>1. CASE k <= n
    <3>1. k \in 2..n /\ k \in 1..n /\ k - 1 \in 1..n
      BY <1>7, <2>1
    <3>2. \A m \in 1..(k - 1) : m \in 1..n
      BY <1>7, <2>1
    <3> HIDE DEF n
    <3>3. /\ trail[k].old = trail[k - 1].pw
          /\ \A m \in 1..(k - 1) : trail[m].at <= trail[k].at
      BY <1>7, <3>1 DEF PasswordInv, AloneIsInOrder, n
    <3> QED BY <1>7, <3>1, <3>2, <3>3
  <2>2. CASE k = n + 1
    <3>1. k - 1 = n /\ n \in 1..n
      BY <1>7, <2>2
    <3>2. trail[n].pw = password
      BY DEF PasswordInv, HistoryIsTrail
    <3> HIDE DEF n
    <3> QED BY <1>6, <1>7, <2>2, <3>1, <3>2
  <2> QED BY <1>7, <2>1, <2>2
<1>13. ChecksHold'
  <2>1. ASSUME NEW g \in Handlers, handler'[g] # NoChange, handler'[g].alone
        PROVE  FALSE
    BY <1>8, <2>1
  <2> QED BY <2>1, Zenon DEF ChecksHold
<1>14. NoEarlyReuse'
  <2> SUFFICES ASSUME NEW i \in 1..(n + 1),
                      \A k \in 1..(n + 1) :
                          k <= i /\ k + Count >= i => trail'[k].alone,
                      NEW j \in 1..(n + 1), j < i - 1, j + Count >= i - 1
               PROVE  trail'[j].pw # trail'[i].pw
    <3>1. DOMAIN trail' = 1..(n + 1)
      BY <1>7
    <3> QED BY <3>1 DEF NoEarlyReuse
  <2>1. CASE i <= n
    <3>1. i \in 1..n /\ j \in 1..n /\ \A k \in 1..n : k \in 1..(n + 1)
      BY <1>7, <2>1
    <3>2. \A k \in 1..n : k <= i /\ k + Count >= i => trail[k].alone
      BY <1>7, <3>1
    <3>3. DOMAIN trail = 1..n
      BY <1>1
    <3>4. trail[j].pw # trail[i].pw
      BY <3>1, <3>2, <3>3 DEF PasswordInv, NoEarlyReuse
    <3> QED BY <1>7, <3>1, <3>4
  <2>2. CASE i = n + 1
    <3>1. Count \in Nat
      BY PasswordAssumption
    <3>2. trail'[n + 1].alone
      BY <1>7, <2>2, <3>1
    <3>3. j \in 1..(n - 1) /\ j + Count >= n /\ j + 1 \in 1..n
      BY <1>7, <2>2, <3>1
    <3>4. trail'[j + 1].alone
      BY <1>7, <2>2, <3>1, <3>3
    <3>5. trail[j + 1].alone
      BY <1>7, <3>3, <3>4
    <3>6. trail[j].pw # x.pw
      BY <1>6, <1>7, <3>2, <3>3, <3>5, AllowedIsNew
    <3> QED BY <1>7, <2>2, <3>3, <3>6
  <2> QED BY <1>7, <2>1, <2>2
<1> QED BY <1>9, <1>10, <1>11, <1>12, <1>13, <1>14 DEF PasswordInv

LEMMA PasswordStep == PasswordInv /\ [PasswordNext]_passwordVars => PasswordInv'
<1> SUFFICES ASSUME PasswordInv, [PasswordNext]_passwordVars PROVE PasswordInv'
  OBVIOUS
<1>1. ASSUME NEW h \in Handlers, NEW new \in Passwords, ReadUser(h, new)
      PROVE  PasswordInv'
  BY <1>1, ReadUserKeeps
<1>2. ASSUME NEW h \in Handlers, CheckHistory(h) PROVE PasswordInv'
  BY <1>2, CheckHistoryKeeps
<1>3. ASSUME NEW h \in Handlers, Flush(h) PROVE PasswordInv'
  BY <1>3, FlushKeeps
<1>4. ASSUME NEW h \in Handlers, CommitChange(h) PROVE PasswordInv'
  BY <1>4, CommitChangeKeeps
<1>5. ASSUME NEW h \in Handlers, EndChange(h) PROVE PasswordInv'
  BY <1>5, EndChangeKeeps
<1>6. CASE UNCHANGED passwordVars
  BY <1>6 DEF passwordVars, PasswordInv, PasswordTypeOK, HistoryIsTrail, Left,
              AloneIsInOrder, ChecksHold, AllowedBy, LastRows, NoEarlyReuse
<1> QED BY <1>1, <1>2, <1>3, <1>4, <1>5, <1>6 DEF PasswordNext

(***************************************************************************)
(* The history is what the changes left, in the order of its times wherever*)
(* a change was made on a current row, and what a handler has checked      *)
(* still holds while nobody overtakes it.                                  *)
(***************************************************************************)
THEOREM PasswordInvariant == PasswordSpec => []PasswordInv
BY PasswordInitInv, PasswordStep, PTL DEF PasswordSpec

(***************************************************************************)
(* For any count to remember and any number of changes at once: a password *)
(* is none of the last Count before the one it replaces, if the changes    *)
(* since were made on current rows.                                        *)
(***************************************************************************)
THEOREM PasswordsStayOut == PasswordSpec => []NoEarlyReuse
<1>1. PasswordInv => NoEarlyReuse
  BY DEF PasswordInv
<1> QED BY <1>1, PasswordInvariant, PTL

-----------------------------------------------------------------------------
(* The results of a search: keys, order and what stands for what.          *)

DistinctKeys(hits) ==
    \A i, j \in 1..Len(hits) : SameKey(hits[i], hits[j]) => i = j

InOrder(hits) ==
    \A i, j \in 1..Len(hits) : i < j => ~RanksBelow(hits[i], hits[j])

\* Every hit of a set is there, or one of its key that is as large.
Covered(set, hits) ==
    \A c \in set : \E k \in 1..Len(hits) :
        SameKey(hits[k], c) /\ hits[k].size >= c.size

LEMMA KeyIsEquivalence ==
    /\ \A c : SameKey(c, c)
    /\ \A c, d : SameKey(c, d) => SameKey(d, c)
    /\ \A b, c, d : SameKey(b, c) /\ SameKey(c, d) => SameKey(b, d)
BY DEF SameKey

LEMMA HitIsTyped ==
    ASSUME NEW c \in Hits
    PROVE  c.size \in Nat /\ c.score \in Nat /\ c.score >= Threshold
<1>1. PICK p \in Posts : Usable(p) /\ p.size # NoNumber /\ c = Candidate(p)
  BY DEF Hits
<1>2. c.size = p.size /\ c.score = MatchScore(p)
  BY <1>1 DEF Candidate
<1>3. p.size \in Nat
  BY <1>1, NewznabAssumption
<1> DEFINE S == {0} \cup {p.like[t] : t \in Terms}
           U == {x \in 1..(Contained + 1) : x - 1 \in S}
<1>4. \A s \in S : s \in 0..Contained
  BY NewznabAssumption
<1>5. \E s \in S : \A y \in S : s >= y
  <2>1. 1 \in U
    BY NewznabAssumption
  <2>2. PICK x \in U : \A y \in U : x >= y
    <3>1. U \in SUBSET (1..(Contained + 1)) /\ U # {}
      BY <2>1
    <3>2. Contained + 1 \in Nat
      BY NewznabAssumption
    <3> HIDE DEF U
    <3> QED BY <3>1, <3>2, GreatestExists
  <2>3. ASSUME NEW y \in S PROVE x - 1 >= y
    <3>1. y \in 0..Contained
      BY <1>4
    <3>2. y + 1 \in U
      <4>1. y + 1 - 1 = y /\ y + 1 \in 1..(Contained + 1)
        BY <3>1, NewznabAssumption
      <4> DEFINE z == y + 1
      <4>2. z \in 1..(Contained + 1) /\ z - 1 \in S
        BY <4>1
      <4> HIDE DEF S, z
      <4>3. z \in U
        BY <4>2
      <4> QED BY <4>3 DEF z
    <3>3. x \in Nat /\ x >= y + 1
      <4>1. x \in 1..(Contained + 1)
        BY <2>2
      <4> HIDE DEF U
      <4> QED BY <2>2, <3>2, <4>1, NewznabAssumption
    <3> QED BY <3>1, <3>3
  <2>4. x - 1 \in S
    BY <2>2
  <2> HIDE DEF S, U
  <2> QED BY <2>3, <2>4
<1>6. MatchScore(p) \in S /\ \A t \in Terms : p.like[t] <= MatchScore(p)
  <2>1. PICK s \in S : \A y \in S : s >= y
    BY <1>5
  <2>2. \A t \in Terms : p.like[t] <= s
    <3> SUFFICES ASSUME NEW t \in Terms PROVE p.like[t] <= s
      OBVIOUS
    <3>1. p.like[t] \in S
      OBVIOUS
    <3> HIDE DEF S
    <3>2. p.like[t] \in 0..Contained /\ s \in 0..Contained
      BY <1>4, <3>1
    <3> QED BY <2>1, <3>1, <3>2, NewznabAssumption
  <2>3. \E v \in S : \A t \in Terms : p.like[t] <= v
    BY <2>2
  <2>4. MatchScore(p) = CHOOSE v \in S : \A t \in Terms : p.like[t] <= v
    BY DEF MatchScore
  <2> HIDE DEF S
  <2> QED BY <2>3, <2>4
<1>7. PICK t \in Terms : p.like[t] >= Threshold
  BY <1>1, NewznabAssumption DEF Usable, FuzzyMatches
<1>8. p.like[t] \in 0..Contained /\ MatchScore(p) \in 0..Contained
  <2>1. p.like[t] \in S
    OBVIOUS
  <2> HIDE DEF S
  <2> QED BY <1>4, <1>6, <2>1
<1>9. MatchScore(p) >= Threshold /\ MatchScore(p) \in Nat
  BY <1>6, <1>7, <1>8, NewznabAssumption
<1> QED BY <1>2, <1>3, <1>9

LEMMA KeepBestKeeps ==
    ASSUME NEW kept \in Seq(Hits), NEW c \in Hits, DistinctKeys(kept)
    PROVE  /\ KeepBest(kept, c) \in Seq(Hits)
           /\ DistinctKeys(KeepBest(kept, c))
           /\ \A set \in SUBSET Hits : Covered(set, kept) => Covered(set \cup {c}, KeepBest(kept, c))
<1> DEFINE I == {i \in 1..Len(kept) : SameKey(c, kept[i])}
           at == IF I # {} THEN Min(I) ELSE 0
           r == KeepBest(kept, c)
<1>1. r = IF at = 0 THEN Append(kept, c)
          ELSE IF c.size > kept[at].size THEN ReplaceAt(kept, at, c) ELSE kept
  BY DEF KeepBest, SelectInSeq
<1>2. /\ at = 0 => I = {}
      /\ at # 0 => at \in 1..Len(kept) /\ SameKey(kept[at], c)
  <2>1. I \in SUBSET Nat /\ 0 \notin I
    OBVIOUS
  <2>2. \A i \in I : i \in 1..Len(kept) /\ SameKey(kept[i], c)
    BY KeyIsEquivalence
  <2> HIDE DEF I
  <2> QED BY <2>1, <2>2, MinIsLeast
<1>3. c.size \in Nat /\ \A i \in 1..Len(kept) : kept[i] \in Hits /\ kept[i].size \in Nat
  BY HitIsTyped
<1> HIDE DEF at, r
\* In every case a row of the map is as large as before, of the same key.
<1> SUFFICES /\ r \in Seq(Hits)
             /\ DistinctKeys(r)
             /\ \E k \in 1..Len(r) : SameKey(r[k], c) /\ r[k].size >= c.size
             /\ \A i \in 1..Len(kept) : \E k \in 1..Len(r) :
                   SameKey(r[k], kept[i]) /\ r[k].size >= kept[i].size /\ r[k].size \in Nat
  <2> SUFFICES ASSUME NEW set \in SUBSET Hits, Covered(set, kept),
                      NEW d \in set \cup {c}, d # c
               PROVE  \E k \in 1..Len(r) : SameKey(r[k], d) /\ r[k].size >= d.size
    BY DEF Covered, r
  <2>1. PICK i \in 1..Len(kept) : SameKey(kept[i], d) /\ kept[i].size >= d.size
    BY DEF Covered
  <2>2. PICK k \in 1..Len(r) : SameKey(r[k], kept[i]) /\ r[k].size >= kept[i].size /\ r[k].size \in Nat
    OBVIOUS
  <2>3. SameKey(r[k], d)
    BY <2>1, <2>2, KeyIsEquivalence
  <2>4. d.size \in Nat /\ kept[i].size \in Nat /\ r[k].size \in Nat
    BY <1>3, <2>2, HitIsTyped
  <2> QED BY <2>1, <2>2, <2>3, <2>4
<1>4. CASE at = 0
  <2>1. r = Append(kept, c) /\ r \in Seq(Hits) /\ Len(r) = Len(kept) + 1 /\ r[Len(r)] = c
    BY <1>1, <1>4
  <2>2. \A i \in 1..Len(kept) : r[i] = kept[i] /\ i \in 1..Len(r)
    BY <2>1
  <2>3. \A i \in 1..Len(kept) : ~SameKey(c, kept[i])
    BY <1>2, <1>4
  <2>4. DistinctKeys(r)
    BY <2>1, <2>2, <2>3, KeyIsEquivalence DEF DistinctKeys
  <2>5. Len(r) \in 1..Len(r)
    BY <2>1
  <2> QED BY <1>3, <2>1, <2>2, <2>4, <2>5, KeyIsEquivalence
<1>5. CASE at # 0 /\ c.size > kept[at].size
  <2>1. at \in 1..Len(kept) /\ SameKey(kept[at], c)
    BY <1>2, <1>5
  <2>2. r = [kept EXCEPT ![at] = c]
    BY <1>1, <1>5 DEF ReplaceAt
  <2>3. r \in Seq(Hits) /\ Len(r) = Len(kept) /\ r[at] = c
    BY <2>1, <2>2
  <2>4. \A i \in 1..Len(kept) : i # at => r[i] = kept[i]
    BY <2>1, <2>2
  <2>5. \A i \in 1..Len(kept) : SameKey(r[i], kept[i]) /\ r[i].size >= kept[i].size /\ r[i].size \in Nat
    BY <1>3, <1>5, <2>1, <2>3, <2>4, KeyIsEquivalence
  <2>6. DistinctKeys(r)
    BY <2>3, <2>5, KeyIsEquivalence DEF DistinctKeys
  <2> QED BY <1>3, <2>1, <2>3, <2>5, <2>6, KeyIsEquivalence
<1>6. CASE at # 0 /\ ~(c.size > kept[at].size)
  <2>1. at \in 1..Len(kept) /\ SameKey(kept[at], c)
    BY <1>2, <1>6
  <2>2. r = kept
    BY <1>1, <1>6
  <2>3. kept[at].size >= c.size
    BY <1>3, <1>6, <2>1
  <2> QED BY <1>3, <2>1, <2>2, <2>3, KeyIsEquivalence
<1> QED BY <1>4, <1>5, <1>6

\* Induction up to n, over a set so that it can be cited.
LEMMA InductionUpTo ==
    ASSUME NEW n \in Nat, NEW S, 0 \in S, \A i \in 1..n : i - 1 \in S => i \in S
    PROVE  n \in S
<1> DEFINE Bad == (0..n) \ S
<1>1. Bad = {}
  <2> SUFFICES ASSUME Bad # {} PROVE FALSE
    OBVIOUS
  <2>1. PICK m \in Bad : \A k \in Bad : m <= k
    <3>1. Bad \in SUBSET Nat
      OBVIOUS
    <3> HIDE DEF Bad
    <3> QED BY <3>1, LeastExists
  <2>2. m \in 1..n /\ m - 1 \in 0..n /\ ~(m <= m - 1)
    BY <2>1
  <2>3. m - 1 \in S
    BY <2>1, <2>2
  <2> QED BY <2>1, <2>2, <2>3
<1>2. n \in 0..n
  OBVIOUS
<1> QED BY <1>1, <1>2

LEMMA RanksAreOrder ==
    ASSUME NEW b \in Hits, NEW c \in Hits, NEW d \in Hits
    PROVE  /\ ~RanksBelow(b, b)
           /\ RanksBelow(b, c) => ~RanksBelow(c, b)
           /\ RanksBelow(b, c) /\ RanksBelow(c, d) => RanksBelow(b, d)
<1>1. /\ b.score \in Nat /\ c.score \in Nat /\ d.score \in Nat
      /\ b.size \in Nat /\ c.size \in Nat /\ d.size \in Nat
  BY HitIsTyped
<1> QED BY <1>1 DEF RanksBelow

\* r is s with c before its element a: behind those that c does not outrank,
\* and before one that it does.
PutAt(r, s, c, a) ==
    /\ r[a] = c
    /\ \A i \in 1..(a - 1) : r[i] = s[i] /\ ~RanksBelow(s[i], c)
    /\ \A i \in a..Len(s) : r[i + 1] = s[i]
    /\ a <= Len(s) => RanksBelow(s[a], c)

LEMMA PlaceShape ==
    ASSUME NEW sorted \in Seq(Hits), NEW c \in Hits
    PROVE  /\ Place(sorted, c) \in Seq(Hits)
           /\ Len(Place(sorted, c)) = Len(sorted) + 1
           /\ \E a \in 1..(Len(sorted) + 1) : PutAt(Place(sorted, c), sorted, c, a)
<1> DEFINE I == {i \in 1..Len(sorted) : RanksBelow(sorted[i], c)}
           at == IF I # {} THEN Min(I) ELSE 0
           r == Place(sorted, c)
           n == Len(sorted)
<1>1. r = IF at = 0 THEN Append(sorted, c) ELSE InsertAt(sorted, at, c)
  BY DEF Place, SelectInSeq
<1>2. /\ at = 0 => \A i \in 1..n : ~RanksBelow(sorted[i], c)
      /\ at # 0 => /\ at \in 1..n /\ RanksBelow(sorted[at], c)
                   /\ \A i \in 1..(at - 1) : ~RanksBelow(sorted[i], c)
  <2>1. I \in SUBSET Nat /\ 0 \notin I /\ I \subseteq 1..n
    OBVIOUS
  <2>2. \A i \in I : i \in 1..n /\ RanksBelow(sorted[i], c)
    OBVIOUS
  <2>3. \A i \in 1..n : i \notin I => ~RanksBelow(sorted[i], c)
    OBVIOUS
  <2> HIDE DEF I
  <2>4. at = 0 => I = {}
    BY <2>1, MinIsLeast
  <2>5. at # 0 => at \in I /\ \A y \in I : at <= y
    BY <2>1, MinIsLeast
  <2> HIDE DEF at
  <2>6. ASSUME at # 0, NEW i \in 1..(at - 1) PROVE i \in 1..n /\ i \notin I
    <3>0. n \in Nat
      OBVIOUS
    <3> HIDE DEF n
    <3>1. at \in 1..n /\ \A y \in I : at <= y
      BY <2>1, <2>5, <2>6
    <3>2. i \in 1..n /\ ~(at <= i)
      BY <3>0, <3>1
    <3> QED BY <3>1, <3>2
  <2> QED BY <2>2, <2>3, <2>4, <2>5, <2>6
<1> HIDE DEF at, r, I
<1> SUFFICES /\ r \in Seq(Hits) /\ Len(r) = n + 1
             /\ \E a \in 1..(n + 1) :
                   /\ r[a] = c
                   /\ \A i \in 1..(a - 1) : r[i] = sorted[i] /\ ~RanksBelow(sorted[i], c)
                   /\ \A i \in a..n : r[i + 1] = sorted[i]
                   /\ a <= n => RanksBelow(sorted[a], c)
  BY DEF r, PutAt
<1>3. CASE at = 0
  <2>1. r = Append(sorted, c)
    BY <1>1, <1>3
  <2>2. r \in Seq(Hits) /\ Len(r) = n + 1 /\ r[n + 1] = c
    BY <2>1
  <2>3. \A i \in 1..n : r[i] = sorted[i]
    BY <2>1
  <2>4. n + 1 \in 1..(n + 1) /\ ~(n + 1 <= n) /\ (n + 1) - 1 = n
    OBVIOUS
  <2>5. \A i \in (n + 1)..n : FALSE
    OBVIOUS
  <2>6. /\ r[n + 1] = c
        /\ \A i \in 1..((n + 1) - 1) : r[i] = sorted[i] /\ ~RanksBelow(sorted[i], c)
        /\ \A i \in (n + 1)..n : r[i + 1] = sorted[i]
        /\ n + 1 <= n => RanksBelow(sorted[n + 1], c)
    <3> HIDE DEF n
    <3> QED BY <1>2, <1>3, <2>2, <2>3, <2>4, <2>5
  <2> HIDE DEF n
  <2> QED BY <2>2, <2>4, <2>6
<1>4. CASE at # 0
  <2>1. at \in 1..n
    BY <1>2, <1>4
  <2>2. r = SubSeq(sorted, 1, at - 1) \o <<c>> \o SubSeq(sorted, at, n)
    BY <1>1, <1>4 DEF InsertAt
  <2> DEFINE s == SubSeq(sorted, 1, at - 1)
             t == SubSeq(sorted, at, n)
  <2>3. s \in Seq(Hits) /\ Len(s) = at - 1 /\ \A i \in 1..(at - 1) : s[i] = sorted[i]
    BY <2>1
  <2>4. t \in Seq(Hits) /\ Len(t) = n - at + 1 /\ \A i \in 1..(n - at + 1) : t[i] = sorted[at + i - 1]
    BY <2>1
  <2> HIDE DEF s, t
  <2>5. r = s \o <<c>> \o t
    BY <2>2 DEF s, t
  <2> DEFINE u == s \o <<c>>
  <2>6. u \in Seq(Hits) /\ Len(u) = at /\ u[at] = c /\ \A i \in 1..(at - 1) : u[i] = s[i]
    <3>1. /\ u \in Seq(Hits) /\ Len(u) = Len(s) + 1 /\ u[Len(s) + 1] = c
          /\ \A i \in 1..Len(s) : u[i] = s[i]
      BY <2>3
    <3>2. at \in Int
      BY <2>1
    <3> DEFINE ls == Len(s)
    <3>3. /\ u \in Seq(Hits) /\ Len(u) = ls + 1 /\ u[ls + 1] = c
          /\ \A i \in 1..ls : u[i] = s[i]
          /\ ls = at - 1
      BY <2>3, <3>1
    <3> HIDE DEF u, ls
    <3>4. ls + 1 = at
      BY <3>2, <3>3
    <3> QED BY <3>3, <3>4
  <2> HIDE DEF u
  <2>7. r = u \o t
    BY <2>5 DEF u
  <2>8. /\ r \in Seq(Hits) /\ Len(r) = Len(u) + Len(t)
        /\ \A i \in 1..Len(u) : r[i] = u[i]
        /\ \A i \in 1..Len(t) : r[Len(u) + i] = t[i]
    <3>1. u \in Seq(Hits) /\ t \in Seq(Hits) /\ r = u \o t
      BY <2>4, <2>6, <2>7
    <3>2. r \in Seq(Hits) /\ Len(r) = Len(u) + Len(t)
      BY <3>1
    <3>3. \A i \in 1..Len(u) : r[i] = u[i]
      BY <3>1
    <3>4. ASSUME NEW i \in 1..Len(t) PROVE r[Len(u) + i] = t[i]
      <4>1. Len(u) \in Nat /\ Len(t) \in Nat /\ (Len(u) + i) - Len(u) = i
        BY <3>1
      <4>2. Len(u) + i \in 1..(Len(u) + Len(t)) /\ Len(u) + i > Len(u)
        BY <4>1
      <4>3. r[Len(u) + i] = t[(Len(u) + i) - Len(u)]
        BY <3>1, <4>2
      <4> QED BY <4>1, <4>3
    <3> QED BY <3>2, <3>3, <3>4
  <2> DEFINE lu == Len(u)  lt == Len(t)
  <2>9. /\ lu = at /\ lt = n - at + 1 /\ n \in Nat
        /\ Len(r) = lu + lt
        /\ \A i \in 1..lu : r[i] = u[i]
        /\ \A i \in 1..lt : r[lu + i] = t[i]
    BY <2>4, <2>6, <2>8
  <2> HIDE DEF lu, lt, n
  <2>10. /\ Len(r) = n + 1 /\ r[at] = c
         /\ \A i \in 1..(at - 1) : r[i] = sorted[i]
         /\ \A i \in at..n : r[i + 1] = sorted[i]
    <3>1. at \in 1..at /\ at \in Int /\ n \in Int
      BY <2>1, <2>9
    <3>2. Len(r) = n + 1 /\ r[at] = c
      BY <2>6, <2>9, <3>1
    <3>3. \A i \in 1..(at - 1) : i \in 1..at
      BY <3>1
    <3>4. \A i \in 1..(at - 1) : r[i] = sorted[i]
      BY <2>3, <2>6, <2>9, <3>3
    <3>5. ASSUME NEW i \in at..n PROVE r[i + 1] = sorted[i]
      <4>1. i - at + 1 \in 1..lt
        BY <2>9, <3>1
      <4>2. at + (i - at + 1) = i + 1 /\ at + (i - at + 1) - 1 = i
        BY <3>1
      <4>3. r[at + (i - at + 1)] = t[i - at + 1]
        BY <2>9, <4>1
      <4>4. t[i - at + 1] = sorted[at + (i - at + 1) - 1]
        BY <2>4, <2>9, <4>1
      <4> QED BY <4>2, <4>3, <4>4
    <3> QED BY <3>2, <3>4, <3>5
  <2>11. at \in 1..(n + 1)
    BY <2>1, <2>9
  <2> QED BY <1>2, <1>4, <2>8, <2>10, <2>11
<1> QED BY <1>3, <1>4

LEMMA PlaceKeeps ==
    ASSUME NEW sorted \in Seq(Hits), NEW c \in Hits, DistinctKeys(sorted), InOrder(sorted),
           \A i \in 1..Len(sorted) : ~SameKey(sorted[i], c)
    PROVE  DistinctKeys(Place(sorted, c)) /\ InOrder(Place(sorted, c))
<1> DEFINE r == Place(sorted, c)
           n == Len(sorted)
<1>1. PICK a \in 1..(n + 1) :
            /\ r[a] = c
            /\ \A i \in 1..(a - 1) : r[i] = sorted[i] /\ ~RanksBelow(sorted[i], c)
            /\ \A i \in a..n : r[i + 1] = sorted[i]
            /\ a <= n => RanksBelow(sorted[a], c)
  <2>1. PICK a \in 1..(n + 1) : PutAt(r, sorted, c, a)
    BY PlaceShape
  <2> HIDE DEF r
  <2> QED BY <2>1 DEF PutAt
<1>2. Len(r) = n + 1 /\ n \in Nat
  BY PlaceShape
<1>3. \A i \in 1..n : sorted[i] \in Hits
  OBVIOUS
<1> HIDE DEF r
<1>4. ASSUME NEW k \in 1..(n + 1), k # a
      PROVE  \E i \in 1..n : i = (IF k < a THEN k ELSE k - 1) /\ r[k] = sorted[i]
  <2>1. CASE k < a
    <3>1. k \in 1..(a - 1) /\ k \in 1..n
      BY <1>2, <2>1
    <3> QED BY <1>1, <2>1, <3>1
  <2>2. CASE k > a
    <3>1. k - 1 \in a..n /\ k - 1 \in 1..n /\ (k - 1) + 1 = k
      BY <1>2, <2>2
    <3> HIDE DEF n
    <3>2. r[k] = sorted[k - 1]
      BY <1>1, <3>1
    <3> QED BY <1>2, <2>2, <3>1, <3>2
  <2> QED BY <1>2, <1>4, <2>1, <2>2
<1>5. DistinctKeys(r)
  <2> SUFFICES ASSUME NEW k \in 1..(n + 1), NEW l \in 1..(n + 1), SameKey(r[k], r[l]), k # l
               PROVE  FALSE
    BY <1>2 DEF DistinctKeys
  <2>1. CASE k = a
    BY <1>1, <1>4, <2>1, KeyIsEquivalence
  <2>2. CASE l = a
    BY <1>1, <1>4, <2>2, KeyIsEquivalence
  <2>3. CASE k # a /\ l # a
    <3>1. PICK i \in 1..n : i = (IF k < a THEN k ELSE k - 1) /\ r[k] = sorted[i]
      BY <1>4, <2>3
    <3>2. PICK j \in 1..n : j = (IF l < a THEN l ELSE l - 1) /\ r[l] = sorted[j]
      BY <1>4, <2>3
    <3>3. i # j
      BY <1>2, <2>3, <3>1, <3>2
    <3> QED BY <3>1, <3>2, <3>3 DEF DistinctKeys
  <2> QED BY <2>1, <2>2, <2>3
<1>6. InOrder(r)
  <2> SUFFICES ASSUME NEW k \in 1..(n + 1), NEW l \in 1..(n + 1), k < l, RanksBelow(r[k], r[l])
               PROVE  FALSE
    BY <1>2 DEF InOrder
  <2>1. CASE k = a
    <3>1. PICK j \in 1..n : j = (IF l < a THEN l ELSE l - 1) /\ r[l] = sorted[j]
      BY <1>2, <1>4, <2>1
    <3>2. a <= n /\ a <= j /\ a \in 1..n
      BY <1>2, <2>1, <3>1
    <3>3. RanksBelow(sorted[a], c) /\ RanksBelow(c, sorted[j])
      BY <1>1, <2>1, <3>1, <3>2
    <3>4. RanksBelow(sorted[a], sorted[j])
      BY <1>3, <3>2, <3>3, RanksAreOrder
    <3>5. a # j
      BY <1>3, <3>2, <3>4, RanksAreOrder
    <3>6. a < j
      BY <1>2, <3>2, <3>5
    <3> QED BY <3>2, <3>4, <3>6 DEF InOrder
  <2>2. CASE l = a
    <3>1. k \in 1..(a - 1)
      BY <1>2, <2>2
    <3> QED BY <1>1, <2>2, <3>1
  <2>3. CASE k # a /\ l # a
    <3>1. PICK i \in 1..n : i = (IF k < a THEN k ELSE k - 1) /\ r[k] = sorted[i]
      BY <1>4, <2>3
    <3>2. PICK j \in 1..n : j = (IF l < a THEN l ELSE l - 1) /\ r[l] = sorted[j]
      BY <1>4, <2>3
    <3>3. i < j
      BY <1>2, <2>3, <3>1, <3>2
    <3> QED BY <3>1, <3>2, <3>3 DEF InOrder
  <2> QED BY <2>1, <2>2, <2>3
<1> QED BY <1>5, <1>6 DEF r

\* The hits among the first i items of an answer.
HitsUpTo(list, i) ==
    {Candidate(list[j]) : j \in {k \in 1..i : Usable(list[k])}}

LEMMA CollapseKeeps ==
    ASSUME NEW list \in Seq(Posts), ~Unreadable(list)
    PROVE  /\ Collapse(list) \in Seq(Hits)
           /\ DistinctKeys(Collapse(list))
           /\ Covered(HitsUpTo(list, Len(list)), Collapse(list))
<1> DEFINE n == Len(list)
           Maps == {q \in Seq(Hits) : DistinctKeys(q)}
           step == [i \in 1..n |-> [x \in Maps |->
                       IF Usable(list[i]) THEN KeepBest(x, Candidate(list[i])) ELSE x]]
           IsMap(f) == f = [i \in 0..n |->
                          IF i = 0 THEN <<>>
                          ELSE IF Usable(list[i]) THEN KeepBest(f[i - 1], Candidate(list[i]))
                          ELSE f[i - 1]]
<1>1. n \in Nat
  OBVIOUS
<1>2. ASSUME NEW i \in 1..n, Usable(list[i]) PROVE Candidate(list[i]) \in Hits
  <2>1. list[i] \in Posts /\ list[i].size # NoNumber
    BY <1>2 DEF Unreadable
  <2> QED BY <1>2, <2>1 DEF Hits
<1>3. <<>> \in Maps
  BY DEF DistinctKeys
<1>4. StepsWithin(n, Maps, step)
  <2>1. ASSUME NEW i \in 1..n, NEW x \in Maps PROVE step[i][x] \in Maps
    <3>1. x \in Seq(Hits) /\ DistinctKeys(x)
      OBVIOUS
    <3>2. Usable(list[i]) => KeepBest(x, Candidate(list[i])) \in Maps
      BY <1>2, <3>1, KeepBestKeeps
    <3> HIDE DEF Maps
    <3>3. step[i][x] = IF Usable(list[i]) THEN KeepBest(x, Candidate(list[i])) ELSE x
      OBVIOUS
    <3> QED BY <3>2, <3>3
  <2> HIDE DEF step, Maps, n
  <2> QED BY <2>1 DEF StepsWithin
<1>5. PICK h : Unfolds(h, n, Maps, <<>>, step)
  <2> HIDE DEF step, Maps, n
  <2> QED BY <1>1, <1>3, <1>4, RecursionExists
<1>6. h \in [0..n -> Maps] /\ h[0] = <<>> /\ \A i \in 1..n : h[i] = step[i][h[i - 1]]
  BY <1>5 DEF Unfolds
<1>7. IsMap(h)
  <2> HIDE DEF Maps, n
  <2>1. ASSUME NEW i \in 1..n
        PROVE  h[i] = IF Usable(list[i]) THEN KeepBest(h[i - 1], Candidate(list[i]))
                      ELSE h[i - 1]
    <3>1. h[i - 1] \in Maps
      <4>1. i - 1 \in 0..n
        BY <1>1
      <4> QED BY <1>6, <4>1
    <3> QED BY <1>6, <3>1
  <2>2. h = [i \in 0..n |-> h[i]]
    BY <1>6
  <2>3. \A i \in 0..n : h[i] = IF i = 0 THEN <<>>
                               ELSE IF Usable(list[i]) THEN KeepBest(h[i - 1], Candidate(list[i]))
                               ELSE h[i - 1]
    BY <1>1, <1>6, <2>1
  <2> HIDE DEF step
  <2> QED BY <2>2, <2>3
<1> DEFINE c == CHOOSE f : IsMap(f)
<1>8. IsMap(c)
  <2> HIDE DEF IsMap
  <2> QED BY <1>7
<1>9. Collapse(list) = c[n]
  BY DEF Collapse
<1>10. /\ c[0] = <<>>
       /\ \A i \in 1..n : /\ Usable(list[i]) => c[i] = KeepBest(c[i - 1], Candidate(list[i]))
                          /\ ~Usable(list[i]) => c[i] = c[i - 1]
  <2> HIDE DEF c, n, step, Maps
  <2> QED BY <1>1, <1>8
<1> HIDE DEF c, step
<1> DEFINE Good == {i \in 0..n : /\ c[i] \in Maps
                                 /\ HitsUpTo(list, i) \subseteq Hits
                                 /\ Covered(HitsUpTo(list, i), c[i])}
<1>11. 0 \in Good
  <2>1. HitsUpTo(list, 0) = {}
    BY DEF HitsUpTo
  <2> HIDE DEF Maps
  <2> QED BY <1>1, <1>3, <1>10, <2>1 DEF Covered
<1>12. ASSUME NEW i \in 1..n, i - 1 \in Good PROVE i \in Good
  <2>1. /\ c[i - 1] \in Seq(Hits) /\ DistinctKeys(c[i - 1])
        /\ HitsUpTo(list, i - 1) \subseteq Hits
        /\ Covered(HitsUpTo(list, i - 1), c[i - 1])
    BY <1>12
  <2>2. (1..i) = (1..(i - 1)) \cup {i} /\ i \in 0..n
    BY <1>1
  <2>3. CASE Usable(list[i])
    <3>1. Candidate(list[i]) \in Hits /\ c[i] = KeepBest(c[i - 1], Candidate(list[i]))
      BY <1>2, <1>10, <2>3
    <3>2. HitsUpTo(list, i) = HitsUpTo(list, i - 1) \cup {Candidate(list[i])}
      BY <2>2, <2>3 DEF HitsUpTo
    <3>3. /\ c[i] \in Seq(Hits) /\ DistinctKeys(c[i])
          /\ Covered(HitsUpTo(list, i), c[i])
      BY <2>1, <3>1, <3>2, KeepBestKeeps
    <3> QED BY <2>1, <2>2, <3>1, <3>2, <3>3
  <2>4. CASE ~Usable(list[i])
    <3>1. c[i] = c[i - 1]
      BY <1>10, <2>4
    <3>2. HitsUpTo(list, i) = HitsUpTo(list, i - 1)
      BY <2>2, <2>4 DEF HitsUpTo
    <3> QED BY <2>1, <2>2, <3>1, <3>2
  <2> QED BY <2>3, <2>4
<1>13. n \in Good
  <2> HIDE DEF Good, n
  <2> QED BY <1>1, <1>11, <1>12, InductionUpTo
<1> QED BY <1>9, <1>13

\* The same rows, and no others.
SameRows(r, s, i) ==
    /\ \A k \in 1..Len(r) : \E j \in 1..i : r[k] = s[j]
    /\ \A j \in 1..i : \E k \in 1..Len(r) : r[k] = s[j]

LEMMA RankedKeeps ==
    ASSUME NEW found \in Seq(Hits), DistinctKeys(found)
    PROVE  /\ Ranked(found) \in Seq(Hits)
           /\ DistinctKeys(Ranked(found)) /\ InOrder(Ranked(found))
           /\ SameRows(Ranked(found), found, Len(found))
<1> DEFINE n == Len(found)
           step == [i \in 1..n |-> [x \in Seq(Hits) |-> Place(x, found[i])]]
           IsOrder(f) == f = [i \in 0..n |->
                            IF i = 0 THEN <<>> ELSE Place(f[i - 1], found[i])]
<1>1. n \in Nat /\ \A i \in 1..n : found[i] \in Hits
  OBVIOUS
<1>2. <<>> \in Seq(Hits)
  OBVIOUS
<1>3. \A i \in 1..n, x \in Seq(Hits) : step[i][x] = Place(x, found[i])
  OBVIOUS
<1> HIDE DEF step
<1>4. StepsWithin(n, Seq(Hits), step)
  <2>1. ASSUME NEW i \in 1..n, NEW x \in Seq(Hits) PROVE step[i][x] \in Seq(Hits)
    <3>1. found[i] \in Hits
      BY <1>1
    <3>2. Place(x, found[i]) \in Seq(Hits)
      BY <3>1, PlaceShape
    <3> QED BY <1>3, <3>2
  <2> HIDE DEF n
  <2> QED BY <2>1 DEF StepsWithin
<1>5. PICK h : Unfolds(h, n, Seq(Hits), <<>>, step)
  <2> HIDE DEF n
  <2> QED BY <1>1, <1>2, <1>4, RecursionExists
<1>6. h \in [0..n -> Seq(Hits)] /\ h[0] = <<>> /\ \A i \in 1..n : h[i] = step[i][h[i - 1]]
  BY <1>5 DEF Unfolds
<1>7. IsOrder(h)
  <2> HIDE DEF n
  <2>1. ASSUME NEW i \in 1..n PROVE h[i] = Place(h[i - 1], found[i])
    <3>1. i - 1 \in 0..n
      BY <1>1
    <3>2. h[i - 1] \in Seq(Hits)
      BY <1>6, <3>1
    <3> QED BY <1>3, <1>6, <3>2
  <2>2. h = [i \in 0..n |-> h[i]]
    BY <1>6
  <2>3. \A i \in 0..n : h[i] = IF i = 0 THEN <<>> ELSE Place(h[i - 1], found[i])
    BY <1>1, <1>6, <2>1
  <2> QED BY <2>2, <2>3
<1> DEFINE c == CHOOSE f : IsOrder(f)
<1>8. IsOrder(c)
  <2> HIDE DEF IsOrder
  <2> QED BY <1>7
<1>9. Ranked(found) = c[n]
  BY DEF Ranked
<1>10. c[0] = <<>> /\ \A i \in 1..n : c[i] = Place(c[i - 1], found[i])
  <2> HIDE DEF c, n
  <2> QED BY <1>1, <1>8
<1> HIDE DEF c
<1> DEFINE Good == {i \in 0..n : /\ c[i] \in Seq(Hits)
                                 /\ DistinctKeys(c[i]) /\ InOrder(c[i])
                                 /\ SameRows(c[i], found, i)}
<1>11. 0 \in Good
  <2>1. Len(<<>>) = 0 /\ (1..0) = {} /\ 0 \in 0..n
    BY <1>1
  <2>2. DistinctKeys(<<>>) /\ InOrder(<<>>) /\ SameRows(<<>>, found, 0)
    BY <2>1 DEF DistinctKeys, InOrder, SameRows
  <2> QED BY <1>2, <1>10, <2>1, <2>2
<1>12. ASSUME NEW i \in 1..n, i - 1 \in Good PROVE i \in Good
  <2> DEFINE s == c[i - 1]
             r == Place(s, found[i])
             m == Len(s)
  <2>1. s \in Seq(Hits) /\ DistinctKeys(s) /\ InOrder(s) /\ SameRows(s, found, i - 1)
    BY <1>12
  <2>2. c[i] = r
    BY <1>10
  <2> HIDE DEF s
  <2>3. \A k \in 1..m : ~SameKey(s[k], found[i])
    <3> SUFFICES ASSUME NEW k \in 1..m, SameKey(s[k], found[i]) PROVE FALSE
      OBVIOUS
    <3>1. PICK j \in 1..(i - 1) : s[k] = found[j]
      BY <2>1 DEF SameRows
    <3>2. j \in 1..n /\ i \in 1..n /\ j # i
      BY <1>1
    <3> QED BY <3>1, <3>2 DEF DistinctKeys
  <2>4. r \in Seq(Hits) /\ Len(r) = m + 1 /\ DistinctKeys(r) /\ InOrder(r) /\ m \in Nat
    <3>1. found[i] \in Hits
      BY <1>1
    <3>2. m \in Nat /\ s \in Seq(Hits)
      BY <2>1
    <3>3. r \in Seq(Hits) /\ Len(r) = m + 1
      BY <3>1, <3>2, PlaceShape
    <3>4. DistinctKeys(r) /\ InOrder(r)
      BY <2>1, <2>3, <3>1, PlaceKeeps
    <3> QED BY <3>2, <3>3, <3>4
  <2>5. PICK a \in 1..(m + 1) :
              /\ r[a] = found[i]
              /\ \A k \in 1..(a - 1) : r[k] = s[k]
              /\ \A k \in a..m : r[k + 1] = s[k]
    <3>1. found[i] \in Hits /\ s \in Seq(Hits)
      BY <1>1, <2>1
    <3>2. PICK a \in 1..(m + 1) : PutAt(r, s, found[i], a)
      BY <3>1, PlaceShape
    <3> HIDE DEF r
    <3> QED BY <3>2 DEF PutAt
  <2> HIDE DEF r, m
  <2>6. SameRows(r, found, i)
    <3>1. ASSUME NEW k \in 1..(m + 1) PROVE \E j \in 1..i : r[k] = found[j]
      <4>1. i \in 1..i /\ \A j \in 1..(i - 1) : j \in 1..i
        BY <1>1
      <4>2. \A l \in 1..m : \E j \in 1..(i - 1) : s[l] = found[j]
        BY <2>1 DEF SameRows, m
      <4>3. CASE k = a
        BY <2>5, <4>1, <4>3
      <4>4. CASE k < a
        <5>1. k \in 1..(a - 1) /\ k \in 1..m
          BY <2>4, <4>4
        <5> QED BY <2>5, <4>1, <4>2, <5>1
      <4>5. CASE k > a
        <5>1. k - 1 \in a..m /\ k - 1 \in 1..m /\ (k - 1) + 1 = k
          BY <2>4, <4>5
        <5>2. r[k] = s[k - 1]
          BY <2>5, <5>1
        <5> QED BY <4>1, <4>2, <5>1, <5>2
      <4> QED BY <2>4, <4>3, <4>4, <4>5
    <3>2. ASSUME NEW j \in 1..i PROVE \E k \in 1..(m + 1) : r[k] = found[j]
      <4>1. CASE j = i
        BY <2>5, <4>1
      <4>2. CASE j # i
        <5>1. j \in 1..(i - 1)
          BY <1>1, <4>2
        <5>2. PICK l \in 1..m : s[l] = found[j]
          BY <2>1, <5>1 DEF SameRows, m
        <5>3. CASE l < a
          <6>1. l \in 1..(a - 1) /\ l \in 1..(m + 1)
            BY <2>4, <5>3
          <6> QED BY <2>5, <5>2, <6>1
        <5>4. CASE l >= a
          <6>1. l \in a..m /\ l + 1 \in 1..(m + 1)
            BY <2>4, <5>4
          <6> QED BY <2>5, <5>2, <6>1
        <5> QED BY <2>4, <5>3, <5>4
      <4> QED BY <4>1, <4>2
    <3> QED BY <2>4, <3>1, <3>2 DEF SameRows
  <2>7. i \in 0..n
    BY <1>1
  <2> QED BY <2>2, <2>4, <2>6, <2>7
<1>13. n \in Good
  <2> HIDE DEF Good, n
  <2> QED BY <1>1, <1>11, <1>12, InductionUpTo
<1> QED BY <1>9, <1>13

LEMMA AnswerIsBest ==
    ASSUME NEW list \in Seq(Posts), ~Unreadable(list)
    PROVE  /\ ParseResponse(list) \in Seq(Hits)
           /\ DistinctKeys(ParseResponse(list)) /\ InOrder(ParseResponse(list))
           /\ \A i \in 1..Len(list) : Usable(list[i]) =>
                 \E k \in 1..Len(ParseResponse(list)) :
                    /\ SameKey(ParseResponse(list)[k], Candidate(list[i]))
                    /\ ParseResponse(list)[k].size >= list[i].size
<1> DEFINE q == Collapse(list)
           r == Ranked(q)
<1>1. q \in Seq(Hits) /\ DistinctKeys(q) /\ Covered(HitsUpTo(list, Len(list)), q)
  BY CollapseKeeps
<1> HIDE DEF q
<1>2. r \in Seq(Hits) /\ DistinctKeys(r) /\ InOrder(r) /\ SameRows(r, q, Len(q))
  BY <1>1, RankedKeeps
<1> HIDE DEF r
<1>3. ParseResponse(list) = r
  BY DEF ParseResponse, r, q
<1>4. ASSUME NEW i \in 1..Len(list), Usable(list[i])
      PROVE  \E k \in 1..Len(r) :
                SameKey(r[k], Candidate(list[i])) /\ r[k].size >= list[i].size
  <2>1. Candidate(list[i]) \in HitsUpTo(list, Len(list))
    BY <1>4 DEF HitsUpTo
  <2>2. Candidate(list[i]).size = list[i].size
    BY DEF Candidate
  <2>3. PICK j \in 1..Len(q) : SameKey(q[j], Candidate(list[i])) /\ q[j].size >= list[i].size
    BY <1>1, <2>1, <2>2 DEF Covered
  <2>4. PICK k \in 1..Len(r) : r[k] = q[j]
    BY <1>2 DEF SameRows
  <2> QED BY <2>3, <2>4
<1> QED BY <1>2, <1>3, <1>4

\* The results of a key, by their places.
KeyPlaces(hits, c) == {j \in 1..Len(hits) : SameKey(hits[j], c)}

LEMMA KeyPlacesGrow ==
    ASSUME NEW s \in Seq(Hits), NEW r \in Seq(Hits), DistinctKeys(r), NEW c
    PROVE  /\ IsFiniteSet(KeyPlaces(s, c)) /\ Cardinality(KeyPlaces(s, c)) \in Nat
           /\ Cardinality(KeyPlaces(s \o r, c)) <= Cardinality(KeyPlaces(s, c)) + 1
<1> DEFINE m == Len(s)  n == Len(r)  q == s \o r
<1>1. /\ m \in Nat /\ n \in Nat /\ Len(q) = m + n
      /\ \A i \in 1..m : q[i] = s[i]
      /\ \A i \in (m + 1)..(m + n) : q[i] = r[i - m]
  OBVIOUS
<1>2. IsFiniteSet(KeyPlaces(s, c)) /\ Cardinality(KeyPlaces(s, c)) \in Nat
  <2>1. KeyPlaces(s, c) \subseteq 1..m /\ IsFiniteSet(1..m)
    BY <1>1, FS_Interval DEF KeyPlaces
  <2> QED BY <2>1, FS_Subset, FS_CardinalityType
<1> HIDE DEF q, m, n
<1>3. KeyPlaces(q, c) = {j \in 1..m : SameKey(s[j], c)}
                           \cup {j \in (m + 1)..(m + n) : SameKey(r[j - m], c)}
  <2>1. (1..Len(q)) = (1..m) \cup ((m + 1)..(m + n))
    BY <1>1
  <2> QED BY <1>1, <2>1 DEF KeyPlaces
<1>4. KeyPlaces(s, c) = {j \in 1..m : SameKey(s[j], c)}
  BY DEF KeyPlaces, m
<1>5. CASE \E j \in (m + 1)..(m + n) : SameKey(r[j - m], c)
  <2>1. PICK j \in (m + 1)..(m + n) : SameKey(r[j - m], c)
    BY <1>5
  <2>2. ASSUME NEW i \in (m + 1)..(m + n), SameKey(r[i - m], c) PROVE i = j
    <3>1. i - m \in 1..n /\ j - m \in 1..n
      BY <1>1, <2>1
    <3>2. SameKey(r[i - m], r[j - m])
      BY <2>1, <2>2, KeyIsEquivalence
    <3>3. i - m = j - m
      BY <3>1, <3>2 DEF DistinctKeys, n
    <3> QED BY <1>1, <3>3
  <2>3. KeyPlaces(q, c) = KeyPlaces(s, c) \cup {j}
    BY <1>3, <1>4, <2>1, <2>2
  <2> DEFINE S == KeyPlaces(s, c)
  <2>4. IsFiniteSet(S) /\ Cardinality(S) \in Nat
    BY <1>2
  <2> HIDE DEF S
  <2>5. Cardinality(S \cup {j}) = IF j \in S THEN Cardinality(S) ELSE Cardinality(S) + 1
    BY <2>4, FS_AddElement
  <2>6. Cardinality(S \cup {j}) <= Cardinality(S) + 1
    BY <2>4, <2>5
  <2>7. KeyPlaces(q, c) = S \cup {j}
    BY <2>3 DEF S
  <2> QED BY <1>2, <2>6, <2>7 DEF q, S
<1>6. CASE ~\E j \in (m + 1)..(m + n) : SameKey(r[j - m], c)
  <2>1. KeyPlaces(q, c) = KeyPlaces(s, c)
    BY <1>3, <1>4, <1>6
  <2> QED BY <1>2, <2>1 DEF q
<1> QED BY <1>2, <1>5, <1>6

LEMMA SearchInitInv == SearchInit => SearchInv
<1> SUFFICES ASSUME SearchInit PROVE SearchInv
  OBVIOUS
<1>1. asked = 0 /\ answers = <<>> /\ results = <<>>
  BY DEF SearchInit
<1>2. Len(<<>>) = 0 /\ DOMAIN <<>> = {} /\ <<>> \in Seq(Seq(Posts)) /\ <<>> \in Seq(Hits)
  OBVIOUS
<1>3. BestPostPerKey
  BY <1>1, <1>2 DEF BestPostPerKey
<1> QED BY <1>1, <1>2, <1>3, NewznabAssumption DEF SearchInv

LEMMA AnswerKeeps ==
    ASSUME SearchInv, NEW list \in BoundedSeq(Posts, MaxPosts), Answer(list)
    PROVE  SearchInv'
<1> DEFINE r == ParseResponse(list)
           m == Len(results)
<1>1. list \in Seq(Posts) /\ ~Unreadable(list)
  BY NewznabAssumption DEF Answer, BoundedSeq, SeqOf
<1>2. /\ r \in Seq(Hits) /\ DistinctKeys(r) /\ InOrder(r)
      /\ \A i \in 1..Len(list) : Usable(list[i]) =>
            \E k \in 1..Len(r) :
               SameKey(r[k], Candidate(list[i])) /\ r[k].size >= list[i].size
  BY <1>1, AnswerIsBest
<1>3. asked' = asked + 1 /\ answers' = Append(answers, list) /\ results' = results \o r
  BY DEF Answer
<1> HIDE DEF r
<1>4. /\ answers \in Seq(Seq(Posts)) /\ results \in Seq(Hits) /\ BestPostPerKey
      /\ answers = <<>> => results = <<>>
  BY DEF SearchInv
<1>5. /\ answers' \in Seq(Seq(Posts)) /\ Len(answers') = Len(answers) + 1
      /\ answers'[Len(answers) + 1] = list
      /\ \A n \in 1..Len(answers) : answers'[n] = answers[n]
      /\ DOMAIN answers' = 1..(Len(answers) + 1) /\ DOMAIN answers = 1..Len(answers)
  BY <1>1, <1>3, <1>4
<1>6. /\ results' \in Seq(Hits) /\ m \in Nat /\ Len(r) \in Nat /\ Len(results') = m + Len(r)
      /\ \A k \in 1..m : results'[k] = results[k]
  BY <1>2, <1>3, <1>4
<1>7. \A k \in 1..Len(r) : results'[m + k] = r[k]
  <2> SUFFICES ASSUME NEW k \in 1..Len(r) PROVE results'[m + k] = r[k]
    OBVIOUS
  <2>1. m + k \in 1..(m + Len(r)) /\ m + k > m /\ (m + k) - m = k
    BY <1>6
  <2>2. results'[m + k] = r[(m + k) - m]
    BY <1>2, <1>3, <1>4, <2>1
  <2> QED BY <2>1, <2>2
<1>8. DOMAIN results' = 1..(m + Len(r)) /\ DOMAIN results = 1..m
  BY <1>4, <1>6
<1> HIDE DEF m
\* What was usable in an answer is still stood for, and what the new one has.
<1>9. \A n \in DOMAIN answers' : \A i \in DOMAIN answers'[n] :
         Usable(answers'[n][i]) =>
            \E k \in DOMAIN results' :
               /\ SameKey(results'[k], Candidate(answers'[n][i]))
               /\ results'[k].size >= answers'[n][i].size
  <2> SUFFICES ASSUME NEW n \in 1..(Len(answers) + 1), NEW i \in DOMAIN answers'[n],
                      Usable(answers'[n][i])
               PROVE  \E k \in 1..(m + Len(r)) :
                         /\ SameKey(results'[k], Candidate(answers'[n][i]))
                         /\ results'[k].size >= answers'[n][i].size
    BY <1>5, <1>8
  <2>1. CASE n = Len(answers) + 1
    <3>1. answers'[n] = list /\ i \in 1..Len(list)
      BY <1>1, <1>5, <2>1
    <3>2. PICK k \in 1..Len(r) :
             SameKey(r[k], Candidate(list[i])) /\ r[k].size >= list[i].size
      BY <1>2, <3>1
    <3>3. m + k \in 1..(m + Len(r))
      BY <1>6
    <3> QED BY <1>7, <3>1, <3>2, <3>3
  <2>2. CASE n # Len(answers) + 1
    <3>1. n \in 1..Len(answers)
      BY <1>4, <2>2
    <3>2. answers'[n] = answers[n]
      BY <1>5, <3>1
    <3>3. PICK k \in 1..m : /\ SameKey(results[k], Candidate(answers[n][i]))
                            /\ results[k].size >= answers[n][i].size
      BY <1>4, <1>5, <1>8, <3>1, <3>2 DEF BestPostPerKey
    <3>4. k \in 1..(m + Len(r)) /\ results'[k] = results[k]
      BY <1>6
    <3> QED BY <3>2, <3>3, <3>4
  <2> QED BY <2>1, <2>2
<1>10. \A c : Cardinality(KeyPlaces(results', c)) <= Cardinality(KeyPlaces(results, c)) + 1
  BY <1>2, <1>3, <1>4, KeyPlacesGrow
<1>11. \A c : Cardinality(KeyPlaces(results, c)) \in Nat
  BY <1>2, <1>4, KeyPlacesGrow
<1>12. ASSUME NEW k \in DOMAIN results'
       PROVE  /\ results'[k].score >= Threshold
              /\ Cardinality({j \in DOMAIN results' : SameKey(results'[j], results'[k])})
                    <= Len(answers')
  <2>1. results'[k] \in Hits
    BY <1>6, <1>12
  <2> DEFINE c == results'[k]
  <2>2. {j \in DOMAIN results' : SameKey(results'[j], c)} = KeyPlaces(results', c)
    BY <1>6, <1>8 DEF KeyPlaces
  <2> HIDE DEF c
  <2>3. Cardinality(KeyPlaces(results, c)) <= Len(answers)
    <3>1. CASE KeyPlaces(results, c) = {}
      BY <1>4, <3>1, FS_EmptySet
    <3>2. CASE KeyPlaces(results, c) # {}
      <4>1. PICK l \in 1..m : SameKey(results[l], c)
        BY <3>2 DEF KeyPlaces, m
      <4>2. KeyPlaces(results, c) = {j \in DOMAIN results : SameKey(results[j], results[l])}
        BY <1>8, <4>1, KeyIsEquivalence DEF KeyPlaces, m
      <4>3. Cardinality({j \in DOMAIN results : SameKey(results[j], results[l])})
               <= Len(answers)
        BY <1>4, <1>8, <4>1 DEF BestPostPerKey
      <4> QED BY <4>2, <4>3
    <3> QED BY <3>1, <3>2
  <2> DEFINE before == Cardinality(KeyPlaces(results, c))
             now == Cardinality(KeyPlaces(results', c))
             asks == Len(answers)
  <2>4. before <= asks /\ now <= before + 1 /\ asks \in Nat /\ before \in Nat
        /\ Len(answers') = asks + 1
    BY <1>4, <1>5, <1>10, <1>11, <2>3
  <2>5. now \in Nat
    BY <1>6, <1>2, KeyPlacesGrow
  <2>6. now <= Len(answers')
    <3> HIDE DEF before, now, asks
    <3> QED BY <2>4, <2>5
  <2>7. c.score >= Threshold
    BY <2>1, HitIsTyped DEF c
  <2> QED BY <2>2, <2>6, <2>7 DEF c
<1>13. Len(answers') = 1 =>
          \A k \in 2..Len(results') : ~RanksBelow(results'[k - 1], results'[k])
  <2> SUFFICES ASSUME Len(answers') = 1, NEW k \in 2..Len(results')
               PROVE  ~RanksBelow(results'[k - 1], results'[k])
    OBVIOUS
  <2>1. Len(answers) = 0
    <3>1. Len(answers) \in Nat
      BY <1>4
    <3> DEFINE asks == Len(answers)
    <3>2. asks \in Nat /\ asks + 1 = 1
      BY <1>5, <3>1
    <3> HIDE DEF asks
    <3>3. asks = 0
      BY <3>2
    <3> QED BY <3>3 DEF asks
  <2>2. answers = <<>>
    BY <1>4, <2>1
  <2>3. results = <<>>
    BY <1>4, <2>2
  <2>4. results' = r
    BY <1>2, <1>3, <2>3
  <2>5. k - 1 \in 1..Len(r) /\ k \in 1..Len(r) /\ k - 1 < k
    BY <1>2, <2>4
  <2> QED BY <1>2, <2>4, <2>5 DEF InOrder
<1>14. BestPostPerKey'
  BY <1>9, <1>12, <1>13 DEF BestPostPerKey
<1>15. asked' \in 0..Indexers /\ Len(answers') <= asked' /\ answers' # <<>>
  BY <1>3, <1>4, <1>5, NewznabAssumption DEF SearchInv, Answer
<1> QED BY <1>5, <1>6, <1>14, <1>15 DEF SearchInv

LEMMA SearchStep == SearchInv /\ [SearchNext]_searchVars => SearchInv'
<1> SUFFICES ASSUME SearchInv, [SearchNext]_searchVars PROVE SearchInv'
  OBVIOUS
<1>1. ASSUME NEW list \in BoundedSeq(Posts, MaxPosts), Answer(list) PROVE SearchInv'
  BY <1>1, AnswerKeeps
<1>2. CASE AnswerFails
  <2>1. asked' = asked + 1 /\ asked < Indexers /\ UNCHANGED <<answers, results>>
    BY <1>2 DEF AnswerFails
  <2>2. BestPostPerKey'
    BY <2>1 DEF SearchInv, BestPostPerKey
  <2>3. Len(answers) \in Nat
    BY DEF SearchInv
  <2> QED BY <2>1, <2>2, <2>3, NewznabAssumption DEF SearchInv
<1>3. CASE UNCHANGED searchVars
  BY <1>3 DEF SearchInv, BestPostPerKey, searchVars
<1> QED BY <1>1, <1>2, <1>3 DEF SearchNext

(***************************************************************************)
(* Whatever the indexers list and whichever of them fail, the search has   *)
(* for every usable post the post itself or a larger one of its name and   *)
(* version, no key more often than indexers answered, nothing below the    *)
(* threshold, and one answer's results in order (search_releases).         *)
(***************************************************************************)
THEOREM SearchKeepsBest == SearchSpec => []BestPostPerKey
<1>1. SearchSpec => []SearchInv
  BY SearchInitInv, SearchStep, PTL DEF SearchSpec
<1>2. SearchInv => BestPostPerKey
  BY DEF SearchInv
<1> QED BY <1>1, <1>2, PTL

-----------------------------------------------------------------------------
(* All parts side by side.                                                 *)

(***************************************************************************)
(* Each part behaves as if it were alone: the modules of the parts may be  *)
(* read, checked and proved about separately, and the theorems above hold  *)
(* of the system in which they are explored.                               *)
(***************************************************************************)
THEOREM PartsAsSpecified ==
    Spec => LibrarySpec /\ SearchSpec /\ BackupsSpec /\ PasswordSpec /\ WatchSpec
<1>1. Init => LibraryInit /\ SearchInit /\ BackupsInit /\ PasswordInit /\ WatchInit
  BY DEF Init
<1>2. [Next]_vars => /\ [LibraryNext]_libraryVars /\ [SearchNext]_searchVars
                     /\ [BackupsNext]_backupVars /\ [PasswordNext]_passwordVars
                     /\ [WatchNext]_watchVars
  BY DEF Next, vars
<1> QED BY <1>1, <1>2, PTL
        DEF Spec, LibrarySpec, SearchSpec, BackupsSpec, PasswordSpec, WatchSpec

(***************************************************************************)
(* The invariants of the parts hold of the system that TLC explores.       *)
(***************************************************************************)
THEOREM ServicesInvariant == Spec => []ServicesInv
<1>1. SearchSpec => []SearchInv
  BY SearchInitInv, SearchStep, PTL DEF SearchSpec
<1>2. LibraryInv /\ SearchInv /\ BackupsInv /\ PasswordInv /\ WatchInv => ServicesInv
  BY DEF ServicesInv
<1> QED BY <1>1, <1>2, PartsAsSpecified, LibraryInvariant, BackupsInvariant,
           PasswordInvariant, WatchInvariant, PTL

=============================================================================
