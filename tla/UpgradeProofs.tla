---------------------------- MODULE UpgradeProofs ----------------------------
(***************************************************************************)
(* Proofs about UpgradeWatch, and about the order of versions it rests on: *)
(* whatever reviewers, downloads, other scans and PATCH do to the entry    *)
(* while a scan works on its copies, what the scan announces and hands     *)
(* over was justified at some moment of the scan; and what check-version   *)
(* answers is the same release the order of the rest of the code prefers,  *)
(* wherever the two read a version alike.                                  *)
(***************************************************************************)
EXTENDS UpgradeWatch, WellFoundedInduction, TLAPS

-----------------------------------------------------------------------------
(* Least and greatest elements.                                            *)

LEMMA LeastExists ==
    ASSUME NEW S \in SUBSET Nat, S # {}
    PROVE  \E x \in S : \A y \in S : x <= y
<1> DEFINE R == OpToRel(<, Nat)
<1>1. PICK x \in S : \A y \in S : <<y, x>> \notin R
  BY NatLessThanWellFounded, WFMin
<1>2. \A y \in S : ~(y < x)
  BY <1>1 DEF OpToRel
<1> QED BY <1>2

LEMMA GreatestExists ==
    ASSUME NEW n \in Nat, NEW S \in SUBSET (1..n), S # {}
    PROVE  \E x \in S : \A y \in S : x >= y
<1> DEFINE T == {m \in Nat : \E x \in S : m = n - x}
<1>1. T # {}
  <2>1. PICK x \in S : TRUE
    OBVIOUS
  <2>2. n - x \in T
    BY <2>1
  <2> QED BY <2>2
<1>2. PICK m \in T : \A k \in T : m <= k
  <2> HIDE DEF T
  <2>1. T \subseteq Nat
    BY DEF T
  <2> QED BY <1>1, <2>1, LeastExists
<1>3. PICK x \in S : m = n - x
  BY <1>2
<1>4. \A y \in S : n - y \in T
  OBVIOUS
<1> QED BY <1>2, <1>3, <1>4

-----------------------------------------------------------------------------
(* The order of versions.                                                  *)

(***************************************************************************)
(* Python's order of tuples is irreflexive, transitive and total, for      *)
(* tuples of any lengths.                                                  *)
(***************************************************************************)
LEMMA ExceedsAsymmetric ==
    ASSUME NEW s \in Seq(Nat), NEW t \in Seq(Nat), Exceeds(s, t)
    PROVE  ~Exceeds(t, s)
<1> SUFFICES ASSUME Exceeds(t, s) PROVE FALSE
  OBVIOUS
<1>1. PICK i \in 1..Len(s) : /\ i <= Len(t) + 1
                             /\ \A j \in 1..(i - 1) : s[j] = t[j]
                             /\ i <= Len(t) => s[i] > t[i]
  BY DEF Exceeds
<1>2. PICK k \in 1..Len(t) : /\ k <= Len(s) + 1
                             /\ \A j \in 1..(k - 1) : t[j] = s[j]
                             /\ k <= Len(s) => t[k] > s[k]
  BY DEF Exceeds
<1>3. CASE i < k
  BY <1>1, <1>2, <1>3
<1>4. CASE k < i
  BY <1>1, <1>2, <1>4
<1>5. CASE i = k
  BY <1>1, <1>2, <1>5
<1> QED BY <1>3, <1>4, <1>5

LEMMA ElementIsNat ==
    ASSUME NEW s \in Seq(Nat), NEW i \in 1..Len(s)
    PROVE  s[i] \in Nat
OBVIOUS

LEMMA GreaterTransitive ==
    ASSUME NEW a \in Nat, NEW b \in Nat, NEW c \in Nat, a > b, b > c
    PROVE  a > c
OBVIOUS

LEMMA ExceedsTransitive ==
    ASSUME NEW s \in Seq(Nat), NEW t \in Seq(Nat), NEW u \in Seq(Nat),
           Exceeds(s, t), Exceeds(t, u)
    PROVE  Exceeds(s, u)
<1>1. PICK i \in 1..Len(s) : /\ i <= Len(t) + 1
                             /\ \A j \in 1..(i - 1) : s[j] = t[j]
                             /\ i <= Len(t) => s[i] > t[i]
  BY DEF Exceeds
<1>2. PICK k \in 1..Len(t) : /\ k <= Len(u) + 1
                             /\ \A j \in 1..(k - 1) : t[j] = u[j]
                             /\ k <= Len(u) => t[k] > u[k]
  BY DEF Exceeds
<1>3. CASE i <= k
  <2>1. i <= Len(u) + 1
    BY <1>2, <1>3
  <2>2. \A j \in 1..(i - 1) : s[j] = u[j]
    BY <1>1, <1>2, <1>3
  <2>3. ASSUME i <= Len(u) PROVE s[i] > u[i]
    <3>1. i \in 1..Len(t) /\ i \in 1..Len(u)
      BY <1>3, <2>3
    <3>t. s[i] \in Nat /\ t[i] \in Nat /\ u[i] \in Nat
      BY <3>1, ElementIsNat
    <3>2. s[i] > t[i]
      BY <1>1, <3>1
    <3>3. CASE i < k
      <4>1. i \in 1..(k - 1)
        BY <3>3
      <4>2. t[i] = u[i]
        BY <1>2, <4>1
      <4> QED BY <3>2, <4>2
    <3>4. CASE i = k
      <4>1. t[i] > u[i]
        BY <1>2, <2>3, <3>4
      <4> QED BY <3>t, <3>2, <4>1, GreaterTransitive
    <3> QED BY <1>3, <3>3, <3>4
  <2> QED BY <2>1, <2>2, <2>3 DEF Exceeds
<1>4. CASE k < i
  <2>1. k \in 1..Len(s)
    BY <1>1, <1>2, <1>4
  <2>2. \A j \in 1..(k - 1) : s[j] = u[j]
    BY <1>1, <1>2, <1>4
  <2>3. k <= Len(u) => s[k] > u[k]
    BY <1>1, <1>2, <1>4
  <2> QED BY <1>2, <2>1, <2>2, <2>3 DEF Exceeds
<1> QED BY <1>3, <1>4

LEMMA ExceedsTotal ==
    ASSUME NEW s \in Seq(Nat), NEW t \in Seq(Nat), s # t
    PROVE  Exceeds(s, t) \/ Exceeds(t, s)
<1> DEFINE D == {i \in Nat : /\ i >= 1
                             /\ \/ i <= Len(s) /\ i <= Len(t) /\ s[i] # t[i]
                                \/ i <= Len(s) /\ i > Len(t)
                                \/ i > Len(s) /\ i <= Len(t)}
<1>1. D # {}
  <2>1. CASE Len(s) = Len(t)
    <3>1. PICK i \in 1..Len(s) : s[i] # t[i]
      BY <2>1
    <3>2. i \in D
      BY <2>1, <3>1
    <3> QED BY <3>2
  <2>2. CASE Len(s) < Len(t)
    <3>1. Len(t) \in D
      BY <2>2
    <3> QED BY <3>1
  <2>3. CASE Len(t) < Len(s)
    <3>1. Len(s) \in D
      BY <2>3
    <3> QED BY <3>1
  <2> QED BY <2>1, <2>2, <2>3
<1>2. PICK i \in D : \A k \in D : i <= k
  <2> HIDE DEF D
  <2>1. D \subseteq Nat
    BY DEF D
  <2> QED BY <1>1, <2>1, LeastExists
<1>3. \A j \in 1..(i - 1) : j <= Len(s) /\ j <= Len(t) /\ s[j] = t[j]
  <2> SUFFICES ASSUME NEW j \in 1..(i - 1)
               PROVE  j <= Len(s) /\ j <= Len(t) /\ s[j] = t[j]
    OBVIOUS
  <2>1. j \notin D /\ j \in Nat /\ j >= 1 /\ j < i
    BY <1>2
  <2>2. i - 1 <= Len(s) /\ i - 1 <= Len(t)
    <3>1. i - 1 \in 1..(i - 1) /\ i - 1 \notin D /\ i - 1 \in Nat
      BY <1>2, <2>1
    <3> QED BY <1>2, <3>1
  <2> QED BY <2>1, <2>2
<1>4. i <= Len(s) + 1 /\ i <= Len(t) + 1
  <2>1. CASE i = 1
    BY <2>1
  <2>2. CASE i > 1
    <3>1. i - 1 \in 1..(i - 1)
      BY <1>2, <2>2
    <3> QED BY <1>2, <1>3, <3>1
  <2> QED BY <1>2, <2>1, <2>2
<1>5. CASE i <= Len(s) /\ (i > Len(t) \/ s[i] > t[i])
  BY <1>2, <1>3, <1>4, <1>5 DEF Exceeds
<1>6. CASE i <= Len(t) /\ (i > Len(s) \/ t[i] > s[i])
  BY <1>2, <1>3, <1>4, <1>6 DEF Exceeds
<1> QED BY <1>2, <1>5, <1>6

(***************************************************************************)
(* The order that compare_versions (utils/version.py) puts on the tuples   *)
(* of two versions is a strict total order: whatever the lengths, exactly  *)
(* one of "newer", "older" and "the same tuple" holds, and newer than a    *)
(* newer one is newer.                                                     *)
(***************************************************************************)
THEOREM TuplesAreOrdered ==
    /\ \A s, t \in Seq(Nat) : Exceeds(s, t) => ~Exceeds(t, s)
    /\ \A s, t \in Seq(Nat) : s = t \/ Exceeds(s, t) \/ Exceeds(t, s)
    /\ \A s, t, u \in Seq(Nat) :
          Exceeds(s, t) /\ Exceeds(t, u) => Exceeds(s, u)
BY ExceedsAsymmetric, ExceedsTotal, ExceedsTransitive

-----------------------------------------------------------------------------
(* What the steps of UpgradeWatch are made of.                             *)

Row == [ver : Versions, state : RowState]
History == [pins : SUBSET Pins, approved : SUBSET (1..MaxRows),
            downloaded : SUBSET Versions]
ScanRecord == [pc : {"idle", "search", "lookup", "compare", "queue"}, pin : Pins,
               results : Found, next : Nat \ {0},
               copy : [1..MaxRows -> RowState \cup {NotLoaded}],
               current : Versions \cup {NoVersion}]

LEMMA TypeOKInRecords ==
    WatchTypeOK <=> /\ listed \in BOOLEAN /\ pin \in Pins
                    /\ rows \in Seq(Row) /\ Len(rows) <= MaxRows
                    /\ scan \in ScanRecord
                    /\ announced \in Seq([ver : Versions, over : Versions \cup {NoVersion}])
                    /\ queued \subseteq 1..MaxRows /\ hist \in History
BY DEF WatchTypeOK, Row, ScanRecord, History

LEMMA IdleIsTyped == IdleScan \in ScanRecord
BY WatchAssumption DEF IdleScan, ScanRecord

\* What get_latest_downloaded_version returns is the version of a row that is
\* downloaded at this moment.
LEMMA LatestIsDownloaded ==
    ASSUME rows \in Seq(Row), LatestDownloaded # NoVersion
    PROVE  \E r \in DOMAIN rows : /\ rows[r].state = "downloaded"
                                  /\ rows[r].ver = LatestDownloaded
<1> DEFINE I == {i \in 1..Len(rows) : rows[i].state = "downloaded"}
           last == SelectLastInSeq(rows, LAMBDA x : x.state = "downloaded")
<1>1. last = IF I # {} THEN Max(I) ELSE 0
  BY DEF SelectLastInSeq
<1>2. LatestDownloaded = IF last = 0 THEN NoVersion ELSE rows[last].ver
  BY DEF LatestDownloaded
<1>3. I \in SUBSET (1..Len(rows)) /\ Len(rows) \in Nat
  OBVIOUS
<1>4. last # 0
  BY <1>2
<1> HIDE DEF last
<1>5. I # {} /\ last = Max(I)
  BY <1>1, <1>4
<1>6. last \in I
  <2> HIDE DEF I
  <2>1. \E x \in I : \A y \in I : x >= y
    BY <1>3, <1>5, GreatestExists
  <2>2. Max(I) \in I
    BY <2>1 DEF Max
  <2> QED BY <1>5, <2>2
<1> QED BY <1>2, <1>4, <1>6

\* What is noted of a state.
LEMMA HistoryIsTyped ==
    ASSUME NEW p \in Pins, NEW rs \in Seq(Row), Len(rs) <= MaxRows
    PROVE  /\ HistoryOf(p, rs) \in History
           /\ HistoryOf(p, rs).pins = {p}
           /\ \A r \in DOMAIN rs :
                 /\ rs[r].state = "approved" => r \in HistoryOf(p, rs).approved
                 /\ rs[r].state = "downloaded" => rs[r].ver \in HistoryOf(p, rs).downloaded
<1> DEFINE A == {r \in DOMAIN rs : rs[r].state = "approved"}
           D == {rs[r].ver : r \in {q \in DOMAIN rs : rs[q].state = "downloaded"}}
<1>1. HistoryOf(p, rs) = [pins |-> {p}, approved |-> A, downloaded |-> D]
  BY DEF HistoryOf
<1>2. A \subseteq 1..MaxRows /\ D \subseteq Versions
  <2>1. DOMAIN rs = 1..Len(rs) /\ Len(rs) \in Nat /\ MaxRows \in Nat
    BY WatchAssumption
  <2>2. \A r \in DOMAIN rs : rs[r] \in Row
    OBVIOUS
  <2> QED BY <2>1, <2>2 DEF Row
<1>3. \A r \in DOMAIN rs :
        /\ rs[r].state = "approved" => r \in A
        /\ rs[r].state = "downloaded" => rs[r].ver \in D
  OBVIOUS
<1> HIDE DEF A, D
<1> QED BY <1>1, <1>2, <1>3 DEF History

\* The history only grows, and takes note of the new state while a scan is on.
LEMMA ChangeGrows ==
    ASSUME WatchTypeOK, NEW p \in Pins, NEW rs \in Seq(Row),
           Len(rs) <= MaxRows, Change(p, rs)
    PROVE  /\ pin' = p /\ rows' = rs
           /\ hist' \in History
           /\ hist.pins \subseteq hist'.pins
           /\ hist.approved \subseteq hist'.approved
           /\ hist.downloaded \subseteq hist'.downloaded
           /\ scan.pc # "idle" =>
                 /\ p \in hist'.pins
                 /\ \A r \in DOMAIN rs :
                       /\ rs[r].state = "approved" => r \in hist'.approved
                       /\ rs[r].state = "downloaded" => rs[r].ver \in hist'.downloaded
<1> DEFINE now == HistoryOf(p, rs)
<1>1. now \in History /\ now.pins = {p}
  BY HistoryIsTyped
<1>2. \A r \in DOMAIN rs :
        /\ rs[r].state = "approved" => r \in now.approved
        /\ rs[r].state = "downloaded" => rs[r].ver \in now.downloaded
  BY HistoryIsTyped
<1>3. hist \in History
  BY TypeOKInRecords
<1>4. /\ pin' = p /\ rows' = rs
      /\ hist' = IF scan.pc = "idle" THEN hist
                 ELSE [pins |-> hist.pins \cup now.pins,
                       approved |-> hist.approved \cup now.approved,
                       downloaded |-> hist.downloaded \cup now.downloaded]
  BY DEF Change
<1> HIDE DEF now
<1>5. CASE scan.pc = "idle"
  BY <1>3, <1>4, <1>5
<1>6. CASE scan.pc # "idle"
  BY <1>1, <1>2, <1>3, <1>4, <1>6 DEF History
<1> QED BY <1>5, <1>6

\* Steps of the others: they change what is so, and the scan stays as it is.
LEMMA ChangeKeeps ==
    ASSUME WatchInv, NEW p \in Pins, NEW rs \in Seq(Row),
           Len(rs) <= MaxRows, Change(p, rs),
           listed' \in BOOLEAN, UNCHANGED <<scan, announced, queued>>
    PROVE  WatchInv'
<1> USE DEF WatchInv
<1>1. /\ pin' = p /\ rows' = rs
      /\ hist' \in History
      /\ hist.pins \subseteq hist'.pins
      /\ hist.approved \subseteq hist'.approved
      /\ hist.downloaded \subseteq hist'.downloaded
  BY ChangeGrows
<1>2. scan.pc # "idle" =>
        /\ p \in hist'.pins
        /\ \A r \in DOMAIN rs :
              /\ rs[r].state = "approved" => r \in hist'.approved
              /\ rs[r].state = "downloaded" => rs[r].ver \in hist'.downloaded
  BY ChangeGrows
<1>3. WatchTypeOK'
  BY <1>1 DEF WatchTypeOK, History, Row
<1>4. HistoryIsKept'
  BY <1>1, <1>2 DEF HistoryIsKept
<1>5. NothingYet'
  BY DEF NothingYet
<1>6. AnnouncedUpgrades'
  BY <1>1 DEF AnnouncedUpgrades
<1>7. QueuedWasApproved'
  BY <1>1 DEF QueuedWasApproved
<1> QED BY <1>3, <1>4, <1>5, <1>6, <1>7

\* Steps of the scan that only move it: they copy nothing that the history
\* has not got, and announce and hand over nothing.
LEMMA ScanMoves ==
    ASSUME WatchInv, scan' \in ScanRecord,
           scan'.pc # "idle" =>
              /\ scan.pc # "idle" /\ scan'.pin = scan.pin
              /\ \A r \in 1..MaxRows :
                    scan'.copy[r] = "approved" => r \in hist.approved
              /\ scan'.pc \in {"compare", "queue"} => scan'.current \in hist.downloaded
              /\ scan'.pc \in {"search", "lookup", "compare"} => announced = <<>>,
           UNCHANGED <<listed, pin, rows, announced, queued, hist>>
    PROVE  WatchInv'
<1> USE DEF WatchInv
<1>1. WatchTypeOK'
  BY DEF WatchTypeOK, ScanRecord
<1>2. HistoryIsKept'
  BY DEF HistoryIsKept
<1>3. NothingYet'
  BY DEF NothingYet
<1>4. AnnouncedUpgrades' /\ QueuedWasApproved'
  BY DEF AnnouncedUpgrades, QueuedWasApproved
<1> QED BY <1>1, <1>2, <1>3, <1>4

-----------------------------------------------------------------------------
(* One lemma per step.                                                     *)

LEMMA WatchInitially == WatchInit => WatchInv
<1> SUFFICES ASSUME WatchInit PROVE WatchInv
  OBVIOUS
<1>1. /\ listed = TRUE /\ pin = NoPin /\ rows = <<>> /\ scan = IdleScan
      /\ announced = <<>> /\ queued = {} /\ hist = HistoryOf(NoPin, <<>>)
  BY DEF WatchInit
<1>2. hist \in History
  <2>1. <<>> \in Seq(Row) /\ Len(<<>>) <= MaxRows
    BY WatchAssumption
  <2> QED BY <1>1, <2>1, WatchAssumption, HistoryIsTyped
<1>3. WatchTypeOK
  BY <1>1, <1>2, TypeOKInRecords, IdleIsTyped, WatchAssumption
<1>4. HistoryIsKept /\ NothingYet
  BY <1>1 DEF HistoryIsKept, NothingYet, IdleScan
<1>5. AnnouncedUpgrades /\ QueuedWasApproved
  BY <1>1 DEF AnnouncedUpgrades, QueuedWasApproved
<1> QED BY <1>3, <1>4, <1>5 DEF WatchInv

LEMMA PatchPinKeeps ==
    ASSUME WatchInv, NEW p \in Pins, PatchPin(p)
    PROVE  WatchInv'
<1>1. rows \in Seq(Row) /\ Len(rows) <= MaxRows /\ listed \in BOOLEAN
  BY DEF WatchInv, WatchTypeOK, Row
<1> QED BY <1>1, ChangeKeeps DEF PatchPin

LEMMA DeleteSoftwareKeeps ==
    ASSUME WatchInv, DeleteSoftware
    PROVE  WatchInv'
<1> DEFINE rs == [r \in DOMAIN rows |-> [rows[r] EXCEPT !.state = "deleted"]]
<1>1. rows \in Seq(Row) /\ Len(rows) <= MaxRows /\ pin \in Pins
  BY DEF WatchInv, WatchTypeOK, Row
<1>2. rs \in Seq(Row) /\ Len(rs) <= MaxRows
  <2>1. \A r \in 1..Len(rows) : [rows[r] EXCEPT !.state = "deleted"] \in Row
    <3>1. \A r \in 1..Len(rows) : rows[r] \in Row
      BY <1>1
    <3> QED BY <3>1 DEF Row, RowState
  <2>2. DOMAIN rows = 1..Len(rows) /\ Len(rows) \in Nat
    BY <1>1
  <2>3. rs \in [1..Len(rows) -> Row]
    BY <2>1, <2>2
  <2> QED BY <1>1, <2>2, <2>3
<1> HIDE DEF rs
<1>3. Change(pin, rs) /\ listed' \in BOOLEAN /\ UNCHANGED <<scan, announced, queued>>
  BY DEF DeleteSoftware, rs
<1> QED BY <1>1, <1>2, <1>3, ChangeKeeps

LEMMA MoveReleaseKeeps ==
    ASSUME WatchInv, NEW r \in DOMAIN rows, NEW s \in RowState, MoveRelease(r, s)
    PROVE  WatchInv'
<1> DEFINE rs == [rows EXCEPT ![r].state = s]
<1>1. rows \in Seq(Row) /\ Len(rows) <= MaxRows /\ pin \in Pins /\ listed \in BOOLEAN
  BY DEF WatchInv, WatchTypeOK, Row
<1>2. rs \in Seq(Row) /\ Len(rs) <= MaxRows
  <2>1. rows[r] \in Row /\ r \in 1..Len(rows)
    BY <1>1
  <2>2. [rows[r] EXCEPT !.state = s] \in Row
    BY <2>1 DEF Row
  <2>3. rs = [rows EXCEPT ![r] = [rows[r] EXCEPT !.state = s]]
    OBVIOUS
  <2> QED BY <1>1, <2>1, <2>2, <2>3
<1> HIDE DEF rs
<1>3. Change(pin, rs) /\ UNCHANGED <<listed, scan, announced, queued>>
  BY DEF MoveRelease, rs
<1> QED BY <1>1, <1>2, <1>3, ChangeKeeps

LEMMA NewRowIsTyped ==
    ASSUME rows \in Seq(Row), Len(rows) < MaxRows, NEW v \in Versions
    PROVE  NewRow(v) \in Seq(Row) /\ Len(NewRow(v)) <= MaxRows
<1>1. [ver |-> v, state |-> "staged"] \in Row
  BY DEF Row, RowState
<1> QED BY <1>1, WatchAssumption DEF NewRow

LEMMA StoreElsewhereKeeps ==
    ASSUME WatchInv, NEW v \in Versions, StoreElsewhere(v)
    PROVE  WatchInv'
<1>1. rows \in Seq(Row) /\ pin \in Pins /\ listed \in BOOLEAN
  BY DEF WatchInv, WatchTypeOK, Row
<1>2. NewRow(v) \in Seq(Row) /\ Len(NewRow(v)) <= MaxRows
  BY <1>1, NewRowIsTyped DEF StoreElsewhere
<1> QED BY <1>1, <1>2, ChangeKeeps DEF StoreElsewhere

LEMMA StartScanKeeps ==
    ASSUME WatchInv, StartScan
    PROVE  WatchInv'
<1>1. /\ scan' = [IdleScan EXCEPT !.pc = "search", !.pin = pin]
      /\ announced' = <<>> /\ queued' = {} /\ hist' = HistoryOf(pin, rows)
      /\ UNCHANGED <<listed, pin, rows>>
  BY DEF StartScan
<1>2. /\ pin \in Pins /\ rows \in Seq(Row) /\ Len(rows) <= MaxRows
      /\ listed \in BOOLEAN
  BY TypeOKInRecords DEF WatchInv
<1>3. /\ hist' \in History /\ hist'.pins = {pin}
      /\ \A r \in DOMAIN rows :
            /\ rows[r].state = "approved" => r \in hist'.approved
            /\ rows[r].state = "downloaded" => rows[r].ver \in hist'.downloaded
  BY <1>1, <1>2, HistoryIsTyped
<1>4. /\ scan' \in ScanRecord /\ scan'.pc = "search" /\ scan'.pin = pin
      /\ \A r \in 1..MaxRows : scan'.copy[r] = NotLoaded
  BY <1>1, <1>2, IdleIsTyped DEF IdleScan, ScanRecord
<1>5. WatchTypeOK'
  BY <1>1, <1>2, <1>3, <1>4 DEF WatchTypeOK, Row, ScanRecord, History
<1>6. HistoryIsKept'
  BY <1>1, <1>3, <1>4 DEF HistoryIsKept, NotLoaded
<1>7. NothingYet' /\ AnnouncedUpgrades' /\ QueuedWasApproved'
  BY <1>1 DEF NothingYet, AnnouncedUpgrades, QueuedWasApproved
<1> QED BY <1>5, <1>6, <1>7 DEF WatchInv

LEMMA EndOfScanKeeps ==
    ASSUME WatchInv, scan' = IdleScan,
           UNCHANGED <<listed, pin, rows, announced, queued, hist>>
    PROVE  WatchInv'
<1>1. IdleScan.pc = "idle"
  BY DEF IdleScan
<1> QED BY <1>1, IdleIsTyped, ScanMoves

LEMMA SearchReleasesKeeps ==
    ASSUME WatchInv, NEW found \in Found, SearchReleases(found)
    PROVE  WatchInv'
<1> USE DEF WatchInv, SearchReleases
<1>0. scan \in ScanRecord
  BY TypeOKInRecords
<1>1. scan' \in ScanRecord
  BY <1>0 DEF ScanRecord
<1>2. /\ scan'.pc = "lookup" /\ scan'.pin = scan.pin /\ scan'.copy = scan.copy
      /\ scan.pc = "search"
  BY <1>0 DEF ScanRecord
<1>3. announced = <<>>
  BY <1>2 DEF NothingYet
<1>4. \A r \in 1..MaxRows : scan.copy[r] = "approved" => r \in hist.approved
  BY <1>2 DEF HistoryIsKept
<1> QED BY <1>1, <1>2, <1>3, <1>4, ScanMoves

\* What the session sees of a row is approved only if the row was approved
\* at some moment of the scan.
LEMMA LoadedIsKept ==
    ASSUME WatchInv, scan.pc # "idle", NEW r \in DOMAIN rows
    PROVE  /\ r \in 1..MaxRows
           /\ Loaded(r) \subseteq RowState
           /\ "approved" \in Loaded(r) => r \in hist.approved
<1>1. rows \in Seq(Row) /\ Len(rows) <= MaxRows /\ scan \in ScanRecord
  BY TypeOKInRecords DEF WatchInv
<1>2. r \in 1..MaxRows /\ rows[r] \in Row
  BY <1>1, WatchAssumption
<1>3. rows[r].state \in RowState
  BY <1>2 DEF Row
<1>4. scan.copy[r] \in RowState \cup {NotLoaded}
  BY <1>1, <1>2 DEF ScanRecord
<1>5. rows[r].state = "approved" => r \in hist.approved
  BY DEF WatchInv, HistoryIsKept
<1>6. scan.copy[r] = "approved" => r \in hist.approved
  BY <1>2 DEF WatchInv, HistoryIsKept
<1> QED BY <1>2, <1>3, <1>4, <1>5, <1>6 DEF Loaded

LEMMA LookUpKeeps ==
    ASSUME WatchInv, LookUp
    PROVE  WatchInv'
<1> USE DEF WatchInv
<1>1. PICK r \in LiveRows(Result) :
         \E s \in Loaded(r) : scan' = [scan EXCEPT !.next = @ + 1, !.copy[r] = s]
  BY DEF LookUp
<1>2. PICK s \in Loaded(r) : scan' = [scan EXCEPT !.next = @ + 1, !.copy[r] = s]
  BY <1>1
<1>3. scan.pc = "lookup" /\ r \in DOMAIN rows
  BY <1>1 DEF LookUp, LiveRows
<1>4. /\ r \in 1..MaxRows /\ s \in RowState
      /\ s = "approved" => r \in hist.approved
  BY <1>2, <1>3, LoadedIsKept
<1>0. scan \in ScanRecord
  BY TypeOKInRecords
<1> DEFINE c == [scan.copy EXCEPT ![r] = s]
<1>5. scan' = [scan EXCEPT !.next = scan.next + 1, !.copy = c]
  BY <1>0, <1>2 DEF ScanRecord
<1>6. c \in [1..MaxRows -> RowState \cup {NotLoaded}]
  BY <1>0, <1>4 DEF ScanRecord
<1>7. \A q \in 1..MaxRows : c[q] = "approved" => q \in hist.approved
  <2>1. \A q \in 1..MaxRows : scan.copy[q] = "approved" => q \in hist.approved
    BY <1>3 DEF HistoryIsKept
  <2> QED BY <1>0, <1>4, <2>1 DEF ScanRecord
<1> HIDE DEF c
<1>8. scan' \in ScanRecord
  <2>1. scan.next + 1 \in Nat \ {0}
    BY <1>0 DEF ScanRecord
  <2> QED BY <1>0, <1>5, <1>6, <2>1 DEF ScanRecord
<1>9. scan'.pc = "lookup" /\ scan'.pin = scan.pin /\ scan'.copy = c
  BY <1>0, <1>3, <1>5 DEF ScanRecord
<1>10. announced = <<>>
  BY <1>3 DEF NothingYet
<1> QED BY <1>3, <1>7, <1>8, <1>9, <1>10, ScanMoves DEF LookUp

LEMMA ResultIsVersion ==
    ASSUME WatchInv, scan.next <= Len(scan.results)
    PROVE  Result \in Versions
<1>1. scan \in ScanRecord
  BY TypeOKInRecords DEF WatchInv
<1>2. scan.results \in Seq(Versions) /\ scan.next \in 1..Len(scan.results)
  BY <1>1, WatchAssumption DEF ScanRecord
<1> QED BY <1>2 DEF Result

LEMMA ProcessReleaseKeeps ==
    ASSUME WatchInv, ProcessRelease
    PROVE  WatchInv'
<1> DEFINE rs == NewRow(Result)
           r == Len(rows) + 1
           c == [scan.copy EXCEPT ![r] = "staged"]
<1>1. /\ rows \in Seq(Row) /\ Len(rows) < MaxRows /\ pin \in Pins
      /\ listed \in BOOLEAN /\ scan \in ScanRecord /\ scan.pc = "lookup"
      /\ scan.next <= Len(scan.results)
  BY TypeOKInRecords DEF WatchInv, ProcessRelease
<1>2. rs \in Seq(Row) /\ Len(rs) <= MaxRows
  BY <1>1, ResultIsVersion, NewRowIsTyped
<1>3. Change(pin, rs) /\ scan' = [scan EXCEPT !.next = scan.next + 1, !.copy = c]
  BY <1>1 DEF ProcessRelease, ScanRecord
<1>4. UNCHANGED <<listed, announced, queued>>
  BY DEF ProcessRelease
<1> HIDE DEF rs
<1>5. /\ pin' = pin /\ rows' = rs
      /\ hist' \in History
      /\ hist.pins \subseteq hist'.pins
      /\ hist.approved \subseteq hist'.approved
      /\ hist.downloaded \subseteq hist'.downloaded
  BY <1>1, <1>2, <1>3, ChangeGrows DEF WatchInv
<1>6. /\ pin \in hist'.pins
      /\ \A q \in DOMAIN rs :
            /\ rs[q].state = "approved" => q \in hist'.approved
            /\ rs[q].state = "downloaded" => rs[q].ver \in hist'.downloaded
  BY <1>1, <1>2, <1>3, ChangeGrows DEF WatchInv
<1>7. /\ c \in [1..MaxRows -> RowState \cup {NotLoaded}]
      /\ \A q \in 1..MaxRows : c[q] = "approved" => q \in hist'.approved
  <2>1. r \in 1..MaxRows
    BY <1>1, WatchAssumption
  <2>2. scan.copy \in [1..MaxRows -> RowState \cup {NotLoaded}]
    BY <1>1 DEF ScanRecord
  <2>3. \A q \in 1..MaxRows : scan.copy[q] = "approved" => q \in hist.approved
    BY <1>1 DEF WatchInv, HistoryIsKept
  <2> HIDE DEF r
  <2> QED BY <1>5, <2>1, <2>2, <2>3 DEF RowState
<1> HIDE DEF c
<1>8. scan' \in ScanRecord
  <2>1. scan.next + 1 \in Nat \ {0}
    BY <1>1 DEF ScanRecord
  <2> QED BY <1>1, <1>3, <1>7, <2>1 DEF ScanRecord
<1>9. scan'.pc = "lookup" /\ scan'.pin = scan.pin /\ scan'.copy = c
  BY <1>1, <1>3 DEF ScanRecord
<1>10. WatchTypeOK'
  BY <1>1, <1>2, <1>4, <1>5, <1>8, TypeOKInRecords
    DEF WatchInv, WatchTypeOK, Row, History, ScanRecord
<1>11. HistoryIsKept'
  <2>1. scan.pin \in hist'.pins
    BY <1>1, <1>5 DEF WatchInv, HistoryIsKept
  <2> QED BY <1>5, <1>6, <1>7, <1>9, <2>1 DEF HistoryIsKept
<1>12. NothingYet'
  BY <1>1, <1>4, <1>9 DEF WatchInv, NothingYet
<1>13. AnnouncedUpgrades' /\ QueuedWasApproved'
  BY <1>4, <1>5 DEF WatchInv, AnnouncedUpgrades, QueuedWasApproved
<1> QED BY <1>10, <1>11, <1>12, <1>13 DEF WatchInv

LEMMA ReadCurrentKeeps ==
    ASSUME WatchInv, ReadCurrent
    PROVE  WatchInv'
<1>1. scan \in ScanRecord /\ scan.pc = "lookup" /\ rows \in Seq(Row)
  BY TypeOKInRecords DEF WatchInv, ReadCurrent
<1>2. UNCHANGED <<listed, pin, rows, announced, queued, hist>>
  BY DEF ReadCurrent
<1>3. CASE LatestDownloaded = NoVersion
  BY <1>2, <1>3, EndOfScanKeeps DEF ReadCurrent
<1>4. CASE LatestDownloaded # NoVersion
  <2>1. PICK r \in DOMAIN rows : /\ rows[r].state = "downloaded"
                                /\ rows[r].ver = LatestDownloaded
    BY <1>1, <1>4, LatestIsDownloaded
  <2>2. LatestDownloaded \in Versions /\ LatestDownloaded \in hist.downloaded
    <3>1. rows[r] \in Row
      BY <1>1
    <3> QED BY <1>1, <2>1, <3>1 DEF Row, WatchInv, HistoryIsKept
  <2>3. scan' = [scan EXCEPT !.pc = "compare", !.current = LatestDownloaded]
    BY <1>4 DEF ReadCurrent
  <2>4. /\ scan' \in ScanRecord /\ scan'.pc = "compare" /\ scan'.pin = scan.pin
        /\ scan'.copy = scan.copy /\ scan'.current = LatestDownloaded
    BY <1>1, <2>2, <2>3 DEF ScanRecord
  <2>5. announced = <<>>
    BY <1>1 DEF WatchInv, NothingYet
  <2>6. \A q \in 1..MaxRows : scan.copy[q] = "approved" => q \in hist.approved
    BY <1>1 DEF WatchInv, HistoryIsKept
  <2> QED BY <1>1, <1>2, <2>2, <2>4, <2>5, <2>6, ScanMoves
<1> QED BY <1>3, <1>4

LEMMA AnnounceKeeps ==
    ASSUME WatchInv, Announce
    PROVE  WatchInv'
<1>1. /\ scan \in ScanRecord /\ scan.pc = "compare" /\ announced = <<>> /\ queued = {}
  BY TypeOKInRecords DEF WatchInv, Announce, NothingYet
<1>2. PICK i \in Upgrades :
         /\ announced' = Append(announced,
                             [ver |-> scan.results[i], over |-> scan.current])
         /\ \E auto \in BOOLEAN :
               scan' = IF auto THEN [scan EXCEPT !.pc = "queue", !.next = i]
                       ELSE IdleScan
  BY DEF Announce
<1>3. UNCHANGED <<listed, pin, rows, queued, hist>>
  BY DEF Announce
<1>4. /\ i \in 1..Len(scan.results) /\ scan.results[i] \in Versions
      /\ Newer(scan.results[i], scan.current) /\ PinAllows(scan.pin, scan.results[i])
  <2>1. scan.results \in Seq(Versions)
    BY <1>1, WatchAssumption DEF ScanRecord
  <2> QED BY <1>2, <2>1 DEF Upgrades
<1> DEFINE a == [ver |-> scan.results[i], over |-> scan.current]
<1>5. announced' = <<a>>
  BY <1>1, <1>2
<1>6. /\ scan' \in ScanRecord /\ scan'.pc \in {"queue", "idle"}
      /\ scan'.pc = "queue" => /\ scan'.pin = scan.pin /\ scan'.copy = scan.copy
                               /\ scan'.current = scan.current
  <2>1. CASE scan' = IdleScan
    BY <2>1, IdleIsTyped DEF IdleScan
  <2>2. CASE scan' = [scan EXCEPT !.pc = "queue", !.next = i]
    <3>1. i \in Nat \ {0}
      BY <1>4
    <3> QED BY <1>1, <2>2, <3>1 DEF ScanRecord
  <2> QED BY <1>2, <2>1, <2>2
<1>7. scan.current \in hist.downloaded /\ {pin, scan.pin} \subseteq hist.pins
  BY <1>1 DEF WatchInv, HistoryIsKept
<1>8. WatchTypeOK'
  <2>1. a \in [ver : Versions, over : Versions \cup {NoVersion}]
    BY <1>1, <1>4 DEF ScanRecord
  <2> HIDE DEF a
  <2>2. announced' \in Seq([ver : Versions, over : Versions \cup {NoVersion}])
    BY <1>5, <2>1
  <2> QED BY <1>3, <1>6, <2>2 DEF WatchInv, WatchTypeOK, ScanRecord
<1>9. HistoryIsKept'
  BY <1>1, <1>3, <1>6, <1>7 DEF WatchInv, HistoryIsKept
<1>10. NothingYet'
  BY <1>1, <1>3, <1>6 DEF NothingYet
<1>11. AnnouncedUpgrades'
  <2>1. /\ a.over \in hist.downloaded /\ Newer(a.ver, a.over)
        /\ \E p \in hist.pins : PinAllows(p, a.ver)
    BY <1>4, <1>7
  <2> HIDE DEF a
  <2>2. Len(announced') = 1 /\ DOMAIN announced' = {1} /\ announced'[1] = a
    BY <1>5
  <2> QED BY <1>3, <2>1, <2>2 DEF AnnouncedUpgrades
<1>12. QueuedWasApproved'
  BY <1>3 DEF WatchInv, QueuedWasApproved
<1> QED BY <1>8, <1>9, <1>10, <1>11, <1>12 DEF WatchInv

LEMMA AutoQueueKeeps ==
    ASSUME WatchInv, AutoQueue
    PROVE  WatchInv'
<1>1. /\ scan.pc = "queue" /\ scan' = IdleScan /\ queued' = queued \cup HandedOver
      /\ UNCHANGED <<listed, pin, rows, announced, hist>>
  BY DEF AutoQueue
<1>2. HandedOver \subseteq hist.approved /\ HandedOver \subseteq 1..MaxRows
  <2> SUFFICES ASSUME NEW r \in HandedOver
               PROVE  r \in hist.approved /\ r \in 1..MaxRows
    OBVIOUS
  <2>1. r \in DOMAIN rows /\ "approved" \in Loaded(r)
    BY DEF HandedOver, LiveRows
  <2> QED BY <1>1, <2>1, LoadedIsKept
<1>3. IdleScan.pc = "idle"
  BY DEF IdleScan
<1>4. WatchTypeOK'
  BY <1>1, <1>2, IdleIsTyped DEF WatchInv, WatchTypeOK, ScanRecord
<1>5. HistoryIsKept' /\ NothingYet'
  BY <1>1, <1>3 DEF HistoryIsKept, NothingYet
<1>6. AnnouncedUpgrades' /\ QueuedWasApproved'
  BY <1>1, <1>2 DEF WatchInv, AnnouncedUpgrades, QueuedWasApproved
<1> QED BY <1>4, <1>5, <1>6 DEF WatchInv

\* check-version changes nothing but its own reply.
LEMMA CheckVersionKeeps ==
    ASSUME WatchInv, UNCHANGED <<listed, pin, rows, scan, announced, queued, hist>>
    PROVE  WatchInv'
<1>1. WatchTypeOK'
  BY DEF WatchInv, WatchTypeOK
<1>2. HistoryIsKept' /\ NothingYet'
  BY DEF WatchInv, HistoryIsKept, NothingYet
<1>3. AnnouncedUpgrades' /\ QueuedWasApproved'
  BY DEF WatchInv, AnnouncedUpgrades, QueuedWasApproved
<1> QED BY <1>1, <1>2, <1>3 DEF WatchInv

-----------------------------------------------------------------------------

LEMMA WatchKeeps == WatchInv /\ [WatchNext]_watchVars => WatchInv'
<1> SUFFICES ASSUME WatchInv, [WatchNext]_watchVars PROVE WatchInv'
  OBVIOUS
<1>1. ASSUME NEW p \in Pins, PatchPin(p) PROVE WatchInv'
  BY <1>1, PatchPinKeeps
<1>2. CASE DeleteSoftware
  BY <1>2, DeleteSoftwareKeeps
<1>3. ASSUME NEW r \in DOMAIN rows, NEW s \in RowState, MoveRelease(r, s) PROVE WatchInv'
  BY <1>3, MoveReleaseKeeps
<1>4. ASSUME NEW v \in Versions, StoreElsewhere(v) PROVE WatchInv'
  BY <1>4, StoreElsewhereKeeps
<1>5. CASE StartScan
  BY <1>5, StartScanKeeps
<1>6. CASE GiveUp \/ LookUpRaises \/ NothingNewer \/ LeaveQueue
  BY <1>6, EndOfScanKeeps DEF GiveUp, LookUpRaises, NothingNewer, LeaveQueue
<1>7. ASSUME NEW found \in Found, SearchReleases(found) PROVE WatchInv'
  BY <1>7, SearchReleasesKeeps
<1>8. ASSUME NEW found \in Found, CheckVersion(found) PROVE WatchInv'
  BY <1>8, CheckVersionKeeps DEF CheckVersion
<1>9. CASE LookUp
  BY <1>9, LookUpKeeps
<1>10. CASE ProcessRelease
  BY <1>10, ProcessReleaseKeeps
<1>11. CASE ReadCurrent
  BY <1>11, ReadCurrentKeeps
<1>12. CASE Announce
  BY <1>12, AnnounceKeeps
<1>13. CASE AutoQueue
  BY <1>13, AutoQueueKeeps
<1>14. CASE UNCHANGED watchVars
  BY <1>14, CheckVersionKeeps DEF watchVars
<1> QED BY <1>1, <1>2, <1>3, <1>4, <1>5, <1>6, <1>7, <1>8, <1>9, <1>10, <1>11,
           <1>12, <1>13, <1>14 DEF WatchNext

(***************************************************************************)
(* The history of a scan covers what is so now and everything the scan has *)
(* copied, in every reachable state.                                       *)
(***************************************************************************)
THEOREM WatchInvariant == WatchSpec => []WatchInv
BY WatchInitially, WatchKeeps, PTL DEF WatchSpec

(***************************************************************************)
(* What a scan announces (scheduler_service.py) was newer than a version   *)
(* that was downloaded, under a pin the entry had, at moments of that scan.*)
(***************************************************************************)
THEOREM AnnouncementsJustified == WatchSpec => []AnnouncedUpgrades
<1>1. WatchInv => AnnouncedUpgrades
  BY DEF WatchInv
<1> QED BY <1>1, WatchInvariant, PTL

(***************************************************************************)
(* The scan hands no release to the download client that was not approved  *)
(* at some moment of the scan, however old the session's copies are.       *)
(***************************************************************************)
THEOREM HandedOverWasApproved == WatchSpec => []QueuedWasApproved
<1>1. WatchInv => QueuedWasApproved
  BY DEF WatchInv
<1> QED BY <1>1, WatchInvariant, PTL

-----------------------------------------------------------------------------
(***************************************************************************)
(* Definition by recursion: a start and a step determine a function on     *)
(* 0..n.  The step is a function, so that this is a statement about sets.  *)
(***************************************************************************)
StepsWithin(n, A, step) == \A i \in 1..n : \A x \in A : step[i][x] \in A

Unfolds(f, n, A, a, step) ==
    /\ f \in [0..n -> A]
    /\ f[0] = a
    /\ \A i \in 1..n : f[i] = step[i][f[i - 1]]

LEMMA RecursionExists ==
    ASSUME NEW n \in Nat, NEW A, NEW a \in A, NEW step, StepsWithin(n, A, step)
    PROVE  \E f : Unfolds(f, n, A, a, step)
<1>0. \A i \in 1..n : \A x \in A : step[i][x] \in A
  BY DEF StepsWithin
<1> DEFINE Upto(m) == \E f \in [0..m -> A] :
                         f[0] = a /\ \A i \in 1..m : f[i] = step[i][f[i - 1]]
           Bad == {m \in 0..n : ~Upto(m)}
<1>1. Upto(0)
  <2> DEFINE f == [i \in 0..0 |-> a]
  <2>1. f \in [0..0 -> A] /\ f[0] = a
    OBVIOUS
  <2>2. \A i \in 1..0 : FALSE
    OBVIOUS
  <2> QED BY <2>1, <2>2
<1>2. ASSUME NEW m \in 1..n, Upto(m - 1) PROVE Upto(m)
  <2>1. PICK f \in [0..(m - 1) -> A] :
          f[0] = a /\ \A i \in 1..(m - 1) : f[i] = step[i][f[i - 1]]
    BY <1>2
  <2>2. f[m - 1] \in A
    BY <1>2, <2>1
  <2>3. step[m][f[m - 1]] \in A
    BY <1>0, <1>2, <2>2
  <2> DEFINE b == step[m][f[m - 1]]
             g == [i \in 0..m |-> IF i = m THEN b ELSE f[i]]
  <2> HIDE DEF b
  <2>4. g \in [0..m -> A]
    BY <1>2, <2>1, <2>3 DEF b
  <2>5. g[0] = a
    BY <1>2, <2>1
  <2>6. ASSUME NEW i \in 1..m PROVE g[i] = step[i][g[i - 1]]
    <3>1. i - 1 \in 0..m /\ i - 1 # m /\ i \in 0..m
      BY <1>2
    <3>2. g[i - 1] = f[i - 1]
      BY <3>1
    <3>3. CASE i = m
      BY <3>1, <3>2, <3>3 DEF b
    <3>4. CASE i # m
      <4>1. i \in 1..(m - 1)
        BY <1>2, <3>4
      <4> QED BY <2>1, <3>1, <3>2, <3>4, <4>1
    <3> QED BY <3>3, <3>4
  <2> HIDE DEF g
  <2> QED BY <2>4, <2>5, <2>6
<1>3. Bad = {}
  <2> SUFFICES ASSUME Bad # {} PROVE FALSE
    OBVIOUS
  <2>1. PICK m \in Bad : \A k \in Bad : m <= k
    <3>1. Bad \in SUBSET Nat
      OBVIOUS
    <3> HIDE DEF Bad
    <3> QED BY <3>1, LeastExists
  <2>2. m \in 1..n /\ m - 1 \in 0..n /\ m - 1 \notin Bad
    <3> HIDE DEF Upto
    <3>1. m # 0
      BY <1>1, <2>1
    <3> QED BY <2>1, <3>1
  <2> HIDE DEF Upto
  <2> QED BY <1>2, <2>1, <2>2
<1>4. Upto(n)
  <2>1. n \in 0..n /\ n \notin Bad
    BY <1>3
  <2> HIDE DEF Upto
  <2> QED BY <2>1
<1> QED BY <1>4 DEF Unfolds

LEMMA FlattenRecursion ==
    ASSUME NEW A, NEW seqs \in Seq(Seq(A)), Len(seqs) # 0
    PROVE  \E f \in [1..Len(seqs) -> Seq(A)] :
              /\ FlattenSeq(seqs) = f[Len(seqs)]
              /\ f[1] = seqs[1]
              /\ \A i \in 2..Len(seqs) : f[i] = f[i - 1] \o seqs[i]
<1> DEFINE n == Len(seqs)
           step == [i \in 1..n |-> [x \in Seq(A) |-> x \o seqs[i]]]
           IsFlat(f) == f = [i \in 1..n |-> IF i = 1 THEN seqs[i] ELSE f[i - 1] \o seqs[i]]
<1>1. n \in Nat /\ n >= 1 /\ \A i \in 1..n : seqs[i] \in Seq(A)
  OBVIOUS
<1>2. step \in [1..n -> [Seq(A) -> Seq(A)]]
  OBVIOUS
<1>3. <<>> \in Seq(A)
  OBVIOUS
<1>4. \A x \in Seq(A), i \in 1..n : step[i][x] = x \o seqs[i]
  OBVIOUS
<1>5. PICK h \in [0..n -> Seq(A)] : h[0] = <<>> /\ \A i \in 1..n : h[i] = step[i][h[i - 1]]
  <2>1. StepsWithin(n, Seq(A), step)
    BY <1>2 DEF StepsWithin
  <2> HIDE DEF step, n
  <2>2. PICK f : Unfolds(f, n, Seq(A), <<>>, step)
    BY <1>1, <1>3, <2>1, RecursionExists
  <2> QED BY <2>2 DEF Unfolds
<1> HIDE DEF step
<1>6. \A i \in 1..n : h[i] = h[i - 1] \o seqs[i]
  <2> SUFFICES ASSUME NEW i \in 1..n PROVE h[i] = h[i - 1] \o seqs[i]
    OBVIOUS
  <2>1. i - 1 \in 0..n
    BY <1>1
  <2> QED BY <1>4, <1>5, <2>1
<1>7. h[1] = seqs[1]
  <2>1. h[1] = h[0] \o seqs[1] /\ seqs[1] \in Seq(A)
    <3>1. 1 \in 1..n /\ 1 - 1 = 0
      BY <1>1
    <3> HIDE DEF n
    <3>2. h[1] = h[1 - 1] \o seqs[1]
      BY <1>6, <3>1
    <3> QED BY <1>1, <3>1, <3>2
  <2>2. <<>> \o seqs[1] = seqs[1]
    BY <2>1
  <2> QED BY <1>5, <2>1, <2>2
<1> DEFINE g == [i \in 1..n |-> h[i]]
<1>8. IsFlat(g)
  <2>1. \A i \in 1..n : g[i] = IF i = 1 THEN seqs[i] ELSE g[i - 1] \o seqs[i]
    <3> SUFFICES ASSUME NEW i \in 1..n, i # 1 PROVE g[i] = g[i - 1] \o seqs[i]
      BY <1>7
    <3>1. i - 1 \in 1..n
      BY <1>1
    <3> QED BY <1>6, <3>1
  <2> HIDE DEF n
  <2>2. g = [i \in 1..n |-> g[i]]
    OBVIOUS
  <2> HIDE DEF g
  <2> QED BY <2>1, <2>2
<1> DEFINE c == CHOOSE f : IsFlat(f)
<1>9. IsFlat(c)
  <2> HIDE DEF IsFlat
  <2> QED BY <1>8
<1>10. FlattenSeq(seqs) = c[n]
  BY DEF FlattenSeq
<1> HIDE DEF c
<1>11. /\ c[1] = seqs[1] /\ DOMAIN c = 1..n /\ c = [i \in 1..n |-> c[i]]
       /\ \A i \in 2..n : c[i] = c[i - 1] \o seqs[i]
  <2> HIDE DEF n
  <2>1. c = [i \in 1..n |-> IF i = 1 THEN seqs[i] ELSE c[i - 1] \o seqs[i]]
    BY <1>9
  <2>2. \A i \in 1..n : c[i] = IF i = 1 THEN seqs[i] ELSE c[i - 1] \o seqs[i]
    BY <2>1
  <2>3. DOMAIN c = 1..n /\ c = [i \in 1..n |-> c[i]]
    BY <2>1
  <2>4. 1 \in 1..n /\ \A i \in 2..n : i \in 1..n /\ i # 1
    BY <1>1
  <2> QED BY <2>2, <2>3, <2>4
<1>12. \A i \in 1..n : c[i] \in Seq(A)
  <2> DEFINE Bad == {i \in 1..n : c[i] \notin Seq(A)}
  <2> SUFFICES ASSUME Bad # {} PROVE FALSE
    OBVIOUS
  <2>1. PICK i \in Bad : \A k \in Bad : i <= k
    <3>1. Bad \in SUBSET Nat
      OBVIOUS
    <3> HIDE DEF Bad
    <3> QED BY <3>1, LeastExists
  <2>2. i # 1
    BY <1>1, <1>11, <2>1
  <2>3. i - 1 \in 1..n /\ i - 1 \notin Bad /\ i \in 2..n
    BY <1>1, <2>1, <2>2
  <2>4. c[i - 1] \in Seq(A) /\ seqs[i] \in Seq(A)
    BY <1>1, <2>1, <2>3
  <2>5. c[i - 1] \o seqs[i] \in Seq(A)
    BY <2>4
  <2>6. c[i] \in Seq(A)
    BY <1>11, <2>3, <2>5
  <2> QED BY <2>1, <2>6
<1> QED BY <1>1, <1>10, <1>11, <1>12

\* One non-empty part is enough for something to be left.
LEMMA FlattenNonEmpty ==
    ASSUME NEW A, NEW seqs \in Seq(Seq(A)), Len(seqs) # 0,
           \A i \in 1..Len(seqs) : seqs[i] # <<>>
    PROVE  FlattenSeq(seqs) \in Seq(A) /\ FlattenSeq(seqs) # <<>>
<1> DEFINE n == Len(seqs)
<1>1. PICK f \in [1..n -> Seq(A)] :
         /\ FlattenSeq(seqs) = f[n]
         /\ f[1] = seqs[1]
         /\ \A i \in 2..n : f[i] = f[i - 1] \o seqs[i]
  BY FlattenRecursion
<1>2. n \in Nat /\ n >= 1 /\ \A i \in 1..n : seqs[i] \in Seq(A) /\ Len(seqs[i]) >= 1
  <2>1. \A i \in 1..n : seqs[i] \in Seq(A) /\ seqs[i] # <<>>
    OBVIOUS
  <2> QED BY <2>1
<1> HIDE DEF n
<1>3. CASE n = 1
  BY <1>1, <1>2, <1>3
<1>4. CASE n # 1
  <2>1. n \in 2..n /\ n - 1 \in 1..n /\ n \in 1..n
    BY <1>2, <1>4
  <2>2. f[n] = f[n - 1] \o seqs[n] /\ f[n - 1] \in Seq(A) /\ f[n] \in Seq(A)
    BY <1>1, <2>1
  <2>3. Len(f[n]) = Len(f[n - 1]) + Len(seqs[n])
    BY <1>2, <2>1, <2>2
  <2>4. Len(f[n - 1]) \in Nat /\ Len(seqs[n]) \in Nat /\ Len(seqs[n]) >= 1
    BY <1>2, <2>1, <2>2
  <2>5. Len(f[n]) # 0
    <3> DEFINE a == Len(f[n - 1])
               b == Len(seqs[n])
               c == Len(f[n])
    <3>1. a \in Nat /\ b \in Nat /\ b >= 1 /\ c = a + b
      BY <2>3, <2>4
    <3> HIDE DEF a, b, c
    <3>2. c # 0
      BY <3>1
    <3> QED BY <3>2 DEF c
  <2>6. f[n] # <<>>
    BY <2>5
  <2> QED BY <1>1, <2>2, <2>6
<1> QED BY <1>3, <1>4

\* What SelectInSeq takes the least index from.
LEMMA MinIsLeast ==
    ASSUME NEW S \in SUBSET Nat, S # {}
    PROVE  Min(S) \in S /\ \A y \in S : Min(S) <= y
<1>1. \E x \in S : \A y \in S : x <= y
  BY LeastExists
<1> QED BY <1>1 DEF Min

LEMMA NumbersOnly ==
    ASSUME NEW q \in Seq(Piece), \A k \in 1..Len(q) : q[k] # NotDigits
    PROVE  q \in Seq(Nat)
<1>1. \A k \in 1..Len(q) : q[k] \in Piece
  OBVIOUS
<1>2. \A k \in 1..Len(q) : q[k] \in Nat
  BY <1>1 DEF Piece
<1> QED BY <1>2

LEMMA LeadingIsNumeric ==
    ASSUME NEW pieces \in Seq(Piece)
    PROVE  /\ Leading(pieces) \in Seq(Nat)
           /\ pieces \in Seq(Nat) => Leading(pieces) = pieces
<1> DEFINE I == {i \in 1..Len(pieces) : pieces[i] = NotDigits}
           stop == IF I # {} THEN Min(I) ELSE 0
<1>1. Leading(pieces) = IF stop = 0 THEN pieces ELSE SubSeq(pieces, 1, stop - 1)
  BY DEF Leading, SelectInSeq
<1>2. I \in SUBSET Nat
  OBVIOUS
<1>3. ASSUME I = {}
      PROVE  pieces \in Seq(Nat) /\ Leading(pieces) = pieces
  <2>1. \A i \in 1..Len(pieces) : pieces[i] # NotDigits
    BY <1>3
  <2> QED BY <1>1, <1>3, <2>1, NumbersOnly
<1>4. ASSUME I # {}
      PROVE  Leading(pieces) \in Seq(Nat) /\ pieces \notin Seq(Nat)
  <2>1. stop \in I /\ \A y \in I : stop <= y
    <3> HIDE DEF I
    <3> QED BY <1>2, <1>4, MinIsLeast
  <2> HIDE DEF stop
  <2>2. Leading(pieces) = SubSeq(pieces, 1, stop - 1)
    BY <1>1, <2>1
  <2>3. \A i \in 1..(stop - 1) : pieces[i] \in Nat
    <3> SUFFICES ASSUME NEW i \in 1..(stop - 1) PROVE pieces[i] \in Nat
      OBVIOUS
    <3>1. i \in 1..Len(pieces) /\ i \notin I
      BY <2>1
    <3>2. pieces[i] \in Piece /\ pieces[i] # NotDigits
      BY <3>1
    <3> QED BY <3>2 DEF Piece
  <2>4. SubSeq(pieces, 1, stop - 1) \in Seq(Nat)
    BY <2>1, <2>3
  <2>5. pieces[stop] = NotDigits /\ stop \in 1..Len(pieces)
    BY <2>1
  <2>6. pieces \notin Seq(Nat)
    BY <2>5 DEF NotDigits
  <2> QED BY <2>2, <2>4, <2>6
<1> QED BY <1>3, <1>4

LEMMA PartsAreTyped ==
    ASSUME NEW ver \in Version
    PROVE  /\ ver.parts \in Seq(Seq(Piece)) /\ Len(ver.parts) # 0 /\ ver.v \in BOOLEAN
           /\ \A i \in 1..Len(ver.parts) : ver.parts[i] \in Seq(Piece) /\ ver.parts[i] # <<>>
<1> DEFINE P == ver.parts
           Q == Seq(Piece)
<1>1. P \in Seq(Q \ {<<>>}) /\ P # <<>> /\ ver.v \in BOOLEAN
  BY DEF Version
<1> HIDE DEF P, Q
<1>2. \A i \in 1..Len(P) : P[i] \in Q /\ P[i] # <<>>
  BY <1>1
<1>3. P \in Seq(Q) /\ Len(P) # 0
  BY <1>1, <1>2
<1> QED BY <1>1, <1>2, <1>3 DEF P, Q

\* compare_versions always compares tuples of numbers, never empty ones.
LEMMA VersionTupleTyped ==
    ASSUME NEW ver \in Version
    PROVE  VersionTuple(ver) \in Seq(Nat) /\ VersionTuple(ver) # <<>>
<1> DEFINE nums == Leading(FlattenSeq(ver.parts))
<1>1. nums \in Seq(Nat)
  BY PartsAreTyped, FlattenNonEmpty, LeadingIsNumeric
<1>2. VersionTuple(ver) = IF nums = <<>> THEN <<0>> ELSE nums
  BY DEF VersionTuple
<1> HIDE DEF nums
<1>3. <<0>> \in Seq(Nat) /\ <<0>> # <<>>
  OBVIOUS
<1> QED BY <1>1, <1>2, <1>3

\* On plain versions both readings of the string agree.
LEMMA PlainTuplesAgree ==
    ASSUME NEW ver \in Version, IsPlain(ver)
    PROVE  DottedTuple(ver) = VersionTuple(ver)
<1> DEFINE P == ver.parts
           D == [i \in 1..Len(P) |->
                   IF Len(P[i]) = 1 /\ P[i][1] # NotDigits /\ ~(ver.v /\ i = 1)
                   THEN P[i] ELSE <<>>]
<1>1. /\ P \in Seq(Seq(Piece)) /\ Len(P) # 0
      /\ \A i \in 1..Len(P) : P[i] \in Seq(Piece) /\ P[i] # <<>>
  BY PartsAreTyped
<1>2. ~ver.v /\ \A i \in 1..Len(P) : Len(P[i]) = 1 /\ P[i][1] # NotDigits
  BY DEF IsPlain
<1>3. DottedTuple(ver) = FlattenSeq(D)
  BY DEF DottedTuple
<1>4. VersionTuple(ver) = IF Leading(FlattenSeq(P)) = <<>> THEN <<0>> ELSE Leading(FlattenSeq(P))
  BY DEF VersionTuple
<1> HIDE DEF P
<1>5. D = P
  <2>1. \A i \in 1..Len(P) : D[i] = P[i]
    BY <1>2
  <2>2. D = [i \in 1..Len(P) |-> D[i]]
    OBVIOUS
  <2>3. P = [i \in 1..Len(P) |-> P[i]]
    BY <1>1
  <2> HIDE DEF D
  <2> QED BY <2>1, <2>2, <2>3
<1>6. P \in Seq(Seq(Nat))
  <2>1. ASSUME NEW i \in 1..Len(P) PROVE P[i] \in Seq(Nat)
    <3>1. P[i] \in Seq(Piece) /\ \A k \in 1..Len(P[i]) : P[i][k] # NotDigits
      BY <1>1, <1>2
    <3> QED BY <3>1, NumbersOnly
  <2>2. Len(P) \in Nat /\ P = [i \in 1..Len(P) |-> P[i]]
    BY <1>1
  <2> DEFINE S == Seq(Nat)
  <2>3. P \in [1..Len(P) -> S]
    BY <2>1, <2>2
  <2> HIDE DEF S
  <2>4. P \in Seq(S)
    BY <2>2, <2>3
  <2> QED BY <2>4 DEF S
<1>7. FlattenSeq(P) \in Seq(Nat) /\ FlattenSeq(P) # <<>>
  BY <1>1, <1>6, FlattenNonEmpty
<1>8. Leading(FlattenSeq(P)) = FlattenSeq(P)
  <2>1. FlattenSeq(P) \in Seq(Piece)
    BY <1>1, FlattenNonEmpty
  <2> QED BY <1>7, <2>1, LeadingIsNumeric
<1> HIDE DEF D
<1> QED BY <1>3, <1>4, <1>5, <1>7, <1>8

(***************************************************************************)
(* compare_versions orders all version strings: swapping its arguments     *)
(* changes the sign of its answer, newer than a newer version is newer,    *)
(* and what it calls equal are versions with the same numbers in front.    *)
(***************************************************************************)
THEOREM NewerIsOrder ==
    /\ \A a, b \in Version : CompareVersions(a, b) = -CompareVersions(b, a)
    /\ \A a, b, c \in Version : Newer(a, b) /\ Newer(b, c) => Newer(a, c)
    /\ \A a, b \in Version :
          CompareVersions(a, b) = 0 <=> VersionTuple(a) = VersionTuple(b)
<1>1. ASSUME NEW a \in Version, NEW b \in Version
      PROVE  /\ CompareVersions(a, b) = -CompareVersions(b, a)
             /\ CompareVersions(a, b) = 0 <=> VersionTuple(a) = VersionTuple(b)
  <2> DEFINE s == VersionTuple(a)
             t == VersionTuple(b)
  <2>1. s \in Seq(Nat) /\ t \in Seq(Nat)
    BY VersionTupleTyped
  <2>2. /\ CompareVersions(a, b) = IF Exceeds(s, t) THEN 1 ELSE IF Exceeds(t, s) THEN -1 ELSE 0
        /\ CompareVersions(b, a) = IF Exceeds(t, s) THEN 1 ELSE IF Exceeds(s, t) THEN -1 ELSE 0
    BY DEF CompareVersions
  <2>3. s # t <=> Exceeds(s, t) \/ Exceeds(t, s)
    <3> HIDE DEF s, t
    <3>1. s = t => ~Exceeds(s, t)
      BY <2>1, ExceedsAsymmetric
    <3> QED BY <2>1, <3>1, ExceedsTotal
  <2>4. ~(Exceeds(s, t) /\ Exceeds(t, s))
    <3> HIDE DEF s, t
    <3> QED BY <2>1, ExceedsAsymmetric
  <2> HIDE DEF s, t
  <2>5. CompareVersions(a, b) = 0 <=> s = t
    BY <2>2, <2>3, <2>4
  <2>6. CompareVersions(a, b) = -CompareVersions(b, a)
    BY <2>2, <2>4
  <2> QED BY <2>5, <2>6 DEF s, t
<1>2. ASSUME NEW a \in Version, NEW b \in Version
      PROVE  Newer(a, b) <=> Exceeds(VersionTuple(a), VersionTuple(b))
  BY DEF Newer, CompareVersions
<1>3. ASSUME NEW a \in Version, NEW b \in Version, NEW c \in Version,
             Newer(a, b), Newer(b, c)
      PROVE  Newer(a, c)
  BY <1>2, <1>3, VersionTupleTyped, ExceedsTransitive
<1> QED BY <1>1, <1>3

-----------------------------------------------------------------------------
\* Among finitely many tuples there is one that none exceeds.
LEMMA MaximalExists ==
    ASSUME NEW n \in Nat, n # 0, NEW D, \A i \in 1..n : D[i] \in Seq(Nat)
    PROVE  \E m \in 1..n : \A i \in 1..n : ~Exceeds(D[i], D[m])
<1> DEFINE Upto(k) == \E m \in 1..k : \A i \in 1..k : ~Exceeds(D[i], D[m])
           Bad == {k \in 1..n : ~Upto(k)}
<1>1. Upto(1)
  <2>1. \A i \in 1..1 : ~Exceeds(D[i], D[1])
    <3>1. D[1] \in Seq(Nat)
      OBVIOUS
    <3>2. ~Exceeds(D[1], D[1])
      BY <3>1, ExceedsAsymmetric
    <3> QED BY <3>2
  <2> QED BY <2>1
<1>2. ASSUME NEW k \in 1..n, k + 1 \in 1..n, Upto(k) PROVE Upto(k + 1)
  <2>1. PICK m \in 1..k : \A i \in 1..k : ~Exceeds(D[i], D[m])
    BY <1>2
  <2>2. /\ D[m] \in Seq(Nat) /\ D[k + 1] \in Seq(Nat) /\ m \in 1..(k + 1)
        /\ \A i \in 1..(k + 1) : i \in 1..k \/ i = k + 1
        /\ \A i \in 1..k : D[i] \in Seq(Nat)
        /\ k + 1 \in 1..(k + 1)
    BY <1>2, <2>1
  <2>3. CASE ~Exceeds(D[k + 1], D[m])
    BY <2>1, <2>2, <2>3
  <2>4. CASE Exceeds(D[k + 1], D[m])
    <3>1. \A i \in 1..k : ~Exceeds(D[i], D[k + 1])
      <4> SUFFICES ASSUME NEW i \in 1..k, Exceeds(D[i], D[k + 1]) PROVE FALSE
        OBVIOUS
      <4>1. Exceeds(D[i], D[m])
        BY <2>2, <2>4, ExceedsTransitive
      <4> QED BY <2>1, <4>1
    <3>2. ~Exceeds(D[k + 1], D[k + 1])
      BY <2>2, ExceedsAsymmetric
    <3> QED BY <2>2, <3>1, <3>2
  <2> QED BY <2>3, <2>4
<1>3. Bad = {}
  <2> SUFFICES ASSUME Bad # {} PROVE FALSE
    OBVIOUS
  <2>1. PICK k \in Bad : \A j \in Bad : k <= j
    <3>1. Bad \in SUBSET Nat
      OBVIOUS
    <3> HIDE DEF Bad
    <3> QED BY <3>1, LeastExists
  <2> HIDE DEF Upto
  <2>2. k # 1 /\ k \in 1..n
    BY <1>1, <2>1
  <2>3. k - 1 \in 1..n /\ k - 1 \notin Bad /\ (k - 1) + 1 = k
    BY <2>1, <2>2
  <2>4. Upto(k - 1)
    BY <2>3
  <2> QED BY <1>2, <2>1, <2>2, <2>3, <2>4
<1>4. Upto(n)
  <2> HIDE DEF Upto
  <2> QED BY <1>3
<1> QED BY <1>4

-----------------------------------------------------------------------------
(* check-version.                                                          *)

\* The highest of plain results: none of the others has a higher tuple.
LEMMA BestIsHighest ==
    ASSUME NEW found \in Seq(Version), found # <<>>,
           \A i \in 1..Len(found) : IsPlain(found[i])
    PROVE  \E m \in 1..Len(found) :
              /\ Best(found) = found[m]
              /\ \A i \in 1..Len(found) :
                    ~Exceeds(VersionTuple(found[i]), VersionTuple(found[m]))
<1> DEFINE n == Len(found)
           D == [i \in 1..n |-> VersionTuple(found[i])]
           I == {k \in 1..n : \A i \in DOMAIN found :
                               ~Exceeds(DottedTuple(found[i]), DottedTuple(found[k]))}
<1>1. n \in Nat /\ n # 0 /\ DOMAIN found = 1..n
  OBVIOUS
<1>2. \A i \in 1..n : found[i] \in Version
  OBVIOUS
<1>3. \A i \in 1..n : /\ DottedTuple(found[i]) = VersionTuple(found[i])
                      /\ VersionTuple(found[i]) \in Seq(Nat)
  BY <1>2, PlainTuplesAgree, VersionTupleTyped
<1>4. Best(found) = found[IF I # {} THEN Min(I) ELSE 0]
  BY DEF Best, SelectInSeq
<1> HIDE DEF n
<1>5. PICK m \in 1..n : \A i \in 1..n : ~Exceeds(VersionTuple(found[i]), VersionTuple(found[m]))
  <2>1. \A i \in 1..n : D[i] = VersionTuple(found[i])
    OBVIOUS
  <2> HIDE DEF D
  <2>2. \A i \in 1..n : D[i] \in Seq(Nat)
    BY <1>3, <2>1
  <2>3. PICK m \in 1..n : \A i \in 1..n : ~Exceeds(D[i], D[m])
    BY <1>1, <2>2, MaximalExists
  <2> QED BY <2>1, <2>3
<1>6. m \in I
  BY <1>1, <1>3, <1>5
<1>7. Min(I) \in I
  <2>1. I \in SUBSET Nat
    BY <1>1
  <2> HIDE DEF I
  <2> QED BY <1>6, <2>1, MinIsLeast
<1>8. \A k \in I : /\ k \in 1..n
                   /\ \A i \in 1..n : ~Exceeds(VersionTuple(found[i]), VersionTuple(found[k]))
  BY <1>1, <1>3
<1> HIDE DEF I
<1> QED BY <1>4, <1>6, <1>7, <1>8 DEF n

\* The last reply is what check-version says of some results and the
\* downloaded version of that moment.
CheckReply(found, current) ==
    [results |-> found, current |-> current,
     available |-> /\ found # <<>>
                   /\ Best(found) # Unknown
                   /\ current = NoVersion \/ Newer(Best(found), current)]

ReplyIsComputed ==
    \E found \in Found, current \in Versions \cup {NoVersion} : checked = CheckReply(found, current)

LEMMA LatestIsVersion ==
    ASSUME WatchInv
    PROVE  LatestDownloaded \in Versions \cup {NoVersion}
<1>1. rows \in Seq(Row)
  BY TypeOKInRecords DEF WatchInv
<1>2. ASSUME LatestDownloaded # NoVersion PROVE LatestDownloaded \in Versions
  <2>1. PICK r \in DOMAIN rows : rows[r].ver = LatestDownloaded
    BY <1>1, <1>2, LatestIsDownloaded
  <2>2. rows[r] \in Row
    BY <1>1
  <2> QED BY <2>1, <2>2 DEF Row
<1> QED BY <1>2

LEMMA NoReplyIsReply == NoReply = CheckReply(<<>>, NoVersion)
BY DEF NoReply, CheckReply

LEMMA ReplyKept ==
    ASSUME WatchInv, ReplyIsComputed, [WatchNext]_watchVars
    PROVE  ReplyIsComputed'
<1>1. ASSUME NEW found \in Found, CheckVersion(found)
      PROVE  ReplyIsComputed'
  <2>1. checked' = CheckReply(found, LatestDownloaded)
    BY <1>1 DEF CheckVersion, CheckReply
  <2> QED BY <2>1, LatestIsVersion DEF ReplyIsComputed, CheckReply
<1>2. CASE StartScan
  <2>1. checked' = CheckReply(<<>>, NoVersion)
    BY <1>2, NoReplyIsReply DEF StartScan
  <2> QED BY <2>1, WatchAssumption DEF ReplyIsComputed, CheckReply
<1>3. CASE checked' = checked
  BY <1>3 DEF ReplyIsComputed, CheckReply
<1> QED
  BY <1>1, <1>2, <1>3 DEF WatchNext, watchVars, PatchPin, DeleteSoftware, MoveRelease,
     StoreElsewhere, GiveUp, SearchReleases, LookUp, LookUpRaises, ProcessRelease,
     ReadCurrent, Announce, NothingNewer, AutoQueue, LeaveQueue

\* On plain results the reply is what comparing every result would say.
LEMMA PlainReplyAgrees ==
    ASSUME NEW found \in Found, NEW current \in Versions \cup {NoVersion},
           \A i \in DOMAIN found : IsPlain(found[i])
    PROVE  CheckReply(found, current).available <=>
              \E i \in DOMAIN found : current = NoVersion \/ Newer(found[i], current)
<1>1. /\ found \in Seq(Version) /\ DOMAIN found = 1..Len(found)
      /\ \A i \in 1..Len(found) : found[i] \in Version
  <2>1. found \in Seq(Versions)
    BY WatchAssumption
  <2>2. \A i \in 1..Len(found) : found[i] \in Versions
    BY <2>1
  <2>3. \A i \in 1..Len(found) : found[i] \in Version
    BY <2>2, WatchAssumption
  <2> QED BY <2>1, <2>3
<1>2. CheckReply(found, current).available <=>
         /\ found # <<>>
         /\ Best(found) # Unknown
         /\ current = NoVersion \/ Newer(Best(found), current)
  BY DEF CheckReply
<1>3. CASE found = <<>>
  BY <1>2, <1>3
<1>4. CASE found # <<>>
  <2>1. PICK m \in 1..Len(found) :
           /\ Best(found) = found[m]
           /\ \A i \in 1..Len(found) :
                 ~Exceeds(VersionTuple(found[i]), VersionTuple(found[m]))
    BY <1>1, <1>4, BestIsHighest
  <2>2. Best(found) # Unknown
    <3>1. IsPlain(found[m])
      BY <1>1, <2>1
    <3>2. ~IsPlain(Unknown)
      BY DEF IsPlain, Unknown
    <3> QED BY <2>1, <3>1, <3>2
  <2>3. ASSUME current # NoVersion, NEW i \in 1..Len(found), Newer(found[i], current)
        PROVE  Newer(found[m], current)
    <3>1. /\ VersionTuple(found[i]) \in Seq(Nat) /\ VersionTuple(found[m]) \in Seq(Nat)
          /\ VersionTuple(current) \in Seq(Nat)
      BY <1>1, <2>1, <2>3, VersionTupleTyped, WatchAssumption
    <3>2. Exceeds(VersionTuple(found[i]), VersionTuple(current))
      BY <2>3 DEF Newer, CompareVersions
    <3>3. \/ VersionTuple(found[m]) = VersionTuple(found[i])
          \/ Exceeds(VersionTuple(found[m]), VersionTuple(found[i]))
      BY <2>1, <3>1, ExceedsTotal
    <3>4. Exceeds(VersionTuple(found[m]), VersionTuple(current))
      BY <3>1, <3>2, <3>3, ExceedsTransitive
    <3> QED BY <3>4 DEF Newer, CompareVersions
  <2> QED BY <1>1, <1>2, <1>4, <2>1, <2>2, <2>3
<1> QED BY <1>3, <1>4

(***************************************************************************)
(* check-version (software.py) picks the highest result by an order of its *)
(* own and asks compare_versions only about that one: for any number of    *)
(* plain versions this is as good as comparing every result.               *)
(***************************************************************************)
THEOREM CheckVersionAgrees == WatchSpec => []CheckAgrees
<1>1. WatchInit => ReplyIsComputed
  BY NoReplyIsReply, WatchAssumption DEF WatchInit, ReplyIsComputed
<1>2. WatchInv /\ ReplyIsComputed /\ [WatchNext]_watchVars => ReplyIsComputed'
  BY ReplyKept
<1>3. ReplyIsComputed => CheckAgrees
  <2> SUFFICES ASSUME NEW found \in Found, NEW current \in Versions \cup {NoVersion},
                      checked = CheckReply(found, current)
               PROVE  CheckAgrees
    BY DEF ReplyIsComputed
  <2>1. checked.results = found /\ checked.current = current
    BY DEF CheckReply
  <2> QED BY <2>1, PlainReplyAgrees DEF CheckAgrees
<1> QED BY <1>1, <1>2, <1>3, WatchInvariant, PTL DEF WatchSpec

=============================================================================
