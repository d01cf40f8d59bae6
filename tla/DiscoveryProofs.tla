-------------------------- MODULE DiscoveryProofs --------------------------
(***************************************************************************)
(* Proofs about Discovery: for every number of entries, versions, scans    *)
(* and releases, no scan ever stores a version that is there already by    *)
(* its own hand.                                                           *)
(***************************************************************************)
EXTENDS Discovery, TLAPS

(***************************************************************************)
(* The initial states satisfy the invariant: nothing is stored, no scan    *)
(* runs.                                                                   *)
(***************************************************************************)
LEMMA DiscoveryInitInv == DiscoveryInit => DiscoveryInv
BY DiscoveryAssumption
   DEF DiscoveryInit, DiscoveryInv, DiscoveryTypeOK, OneRowPerScan, PendingIsNew,
       ManualIsUsed, LiveRows, Blank, NoScan, Scan, EntryState

(***************************************************************************)
(* A step that stores nothing and puts no scan in front of an insert keeps *)
(* the parts of the invariant about releases: releases only lose their     *)
(* live flag.                                                              *)
(***************************************************************************)
LEMMA NothingStored ==
    ASSUME DiscoveryInv,
           DiscoveryTypeOK',
           \A i \in Rows : /\ release'[i].sw = release[i].sw
                           /\ release'[i].ver = release[i].ver
                           /\ release'[i].by = release[i].by
                           /\ release'[i].live => release[i].live,
           \A t \in Scans : scan'[t].pc = "store" =>
              \/ scan'[t] = scan[t]
              \/ LiveRows(scan'[t].sw, scan'[t].ver) = {} /\ release' = release
                    /\ scan'[t].sw \in Software /\ scan'[t].ver \in Versions,
           \A t \in Scans : scan'[t].pc \in {"check", "process"} =>
              /\ scan'[t].sw \in Software
              /\ scan'[t].pc = "process" => scan'[t].row \in Rows
    PROVE  DiscoveryInv'
<1>1. OneRowPerScan'
  BY DEF DiscoveryInv, OneRowPerScan, LiveRows
<1>2. PendingIsNew'
  <2> SUFFICES ASSUME NEW t \in Scans
               PROVE  /\ scan'[t].pc \in {"check", "store", "process"} => scan'[t].sw \in Software
                      /\ scan'[t].pc = "store" => scan'[t].ver \in Versions
                      /\ scan'[t].pc = "process" => scan'[t].row \in Rows
                      /\ scan'[t].pc = "store" =>
                            \A i \in LiveRows(scan[t].sw, scan[t].ver)' : release'[i].by # t
    BY DEF PendingIsNew
  <2>1. CASE scan'[t] = scan[t]
    BY <2>1 DEF DiscoveryInv, PendingIsNew, LiveRows
  <2>2. CASE scan'[t] # scan[t] /\ scan'[t].pc = "store"
    BY <2>2 DEF LiveRows
  <2>3. CASE scan'[t].pc # "store"
    BY <2>3
  <2> QED BY <2>1, <2>2, <2>3
<1>3. ManualIsUsed'
  BY DEF DiscoveryInv, ManualIsUsed
<1> QED BY <1>1, <1>2, <1>3 DEF DiscoveryInv

(***************************************************************************)
(* Deleting releases changes nothing of them but their live flag.          *)
(***************************************************************************)
LEMMA DeletionOnlyKills ==
    ASSUME DiscoveryTypeOK, NEW S, DeleteRows(S)
    PROVE  /\ release' \in [Rows -> Row \cup {Blank}]
           /\ \A i \in Rows : /\ release'[i].sw = release[i].sw
                              /\ release'[i].ver = release[i].ver
                              /\ release'[i].by = release[i].by
                              /\ release'[i].live => release[i].live
<1> SUFFICES ASSUME NEW i \in Rows
             PROVE  /\ release'[i] \in Row \cup {Blank}
                    /\ release'[i].sw = release[i].sw
                    /\ release'[i].ver = release[i].ver
                    /\ release'[i].by = release[i].by
                    /\ release'[i].live => release[i].live
  BY DEF DeleteRows
<1>1. CASE ~(i \in S /\ release[i].live)
  BY <1>1 DEF DeleteRows, DiscoveryTypeOK
<1>2. CASE i \in S /\ release[i].live
  <2>1. release'[i] = [release[i] EXCEPT !.live = FALSE] BY <1>2 DEF DeleteRows
  <2>2. release[i] \in Row BY <1>2 DEF DiscoveryTypeOK, Blank
  <2> QED BY <2>1, <2>2 DEF Row
<1> QED BY <1>1, <1>2

(***************************************************************************)
(* Type correctness is preserved by every step.                            *)
(***************************************************************************)
LEMMA DiscoveryTypeStep ==
    ASSUME DiscoveryInv, [DiscoveryNext]_vars
    PROVE  DiscoveryTypeOK'
<1> USE DiscoveryAssumption DEF DiscoveryInv, DiscoveryTypeOK
<1>1. ASSUME NEW t \in Scans, ScanStep(t) PROVE DiscoveryTypeOK'
  <2> USE DEF Scan, NoScan, StartScan, NextSoftware, Watched
  <2>1. CASE CheckAllSoftware(t) BY <2>1 DEF CheckAllSoftware
  <2>2. CASE SearchAllWanted(t)
    <3>1. PICK S \in SUBSET Watched : StartScan(t, S) BY <2>2 DEF SearchAllWanted
    <3>2. S \subseteq Software OBVIOUS
    <3> HIDE DEF Watched
    <3> QED BY <3>1, <3>2
  <2>3. ASSUME NEW s \in Software, SearchReleases(t, s) PROVE DiscoveryTypeOK'
    BY <2>3 DEF SearchReleases
  <2>4. ASSUME NEW s \in Software, SearchFails(t, s) PROVE DiscoveryTypeOK'
    BY <2>4 DEF SearchFails
  <2>5. ASSUME NEW v \in Versions, GetByVersion(t, v) PROVE DiscoveryTypeOK'
    <3>1. UNCHANGED <<entry, monitored, offered, release, doomed>>
      BY <2>5 DEF GetByVersion
    <3>2. CASE scan' = [scan EXCEPT ![t].pc = "store", ![t].ver = v]
      <4> DEFINE k == [scan[t] EXCEPT !.pc = "store", !.ver = v]
      <4>1. k \in Scan OBVIOUS
      <4>2. scan' = [scan EXCEPT ![t] = k] BY <3>2
      <4> HIDE DEF k
      <4> QED BY <3>1, <4>1, <4>2
    <3>3. CASE scan' = [scan EXCEPT ![t].found = @ \ {v}]
      <4> DEFINE k == [scan[t] EXCEPT !.found = @ \ {v}]
      <4>1. k \in Scan OBVIOUS
      <4>2. scan' = [scan EXCEPT ![t] = k] BY <3>3
      <4> HIDE DEF k
      <4> QED BY <3>1, <4>1, <4>2
    <3>4. CASE NextSoftware(t) BY <3>1, <3>4
    <3> QED BY <2>5, <3>2, <3>3, <3>4 DEF GetByVersion
  <2>6. CASE StoreRelease(t)
    <3>1. PICK i \in Free : /\ Insert(i, scan[t].sw, scan[t].ver, t)
                            /\ scan' = [scan EXCEPT ![t].pc = "process", ![t].row = i]
      BY <2>6 DEF StoreRelease
    <3>2. scan[t].sw \in Software /\ scan[t].ver \in Versions /\ i \in Rows
      BY <2>6, <3>1 DEF StoreRelease, PendingIsNew, Free
    <3>3. release' \in [Rows -> Row \cup {Blank}]
      BY <3>1, <3>2 DEF Insert, Row
    <3>4. scan' \in [Scans -> Scan]
      <4>1. [scan[t] EXCEPT !.pc = "process", !.row = i] \in Scan BY <3>2
      <4>2. scan' = [scan EXCEPT ![t] = [scan[t] EXCEPT !.pc = "process", !.row = i]]
        BY <3>1
      <4> QED BY <4>1, <4>2
    <3> QED BY <2>6, <3>3, <3>4 DEF StoreRelease
  <2>7. CASE ProcessRelease(t)
    <3>1. CASE scan' = [scan EXCEPT ![t].pc = "check", ![t].found = @ \ {scan[t].ver},
                                    ![t].ver = NoVersion, ![t].row = NoRow]
      <4> DEFINE k == [scan[t] EXCEPT !.pc = "check", !.found = @ \ {scan[t].ver},
                                      !.ver = NoVersion, !.row = NoRow]
      <4>1. k \in Scan OBVIOUS
      <4>2. scan' = [scan EXCEPT ![t] = k] BY <3>1
      <4> HIDE DEF k
      <4>3. scan' \in [Scans -> Scan] BY <4>1, <4>2
      <4> QED BY <2>7, <4>3 DEF ProcessRelease
    <3>2. CASE NextSoftware(t) BY <2>7, <3>2 DEF ProcessRelease
    <3>3. CASE scan' = [scan EXCEPT ![t] = NoScan] BY <2>7, <3>3 DEF ProcessRelease
    <3> QED BY <2>7, <3>1, <3>2, <3>3 DEF ProcessRelease
  <2>8. CASE FinishSoftware(t) BY <2>8 DEF FinishSoftware
  <2>9. CASE EndScan(t) BY <2>9 DEF EndScan
  <2>10. CASE KillScan(t) BY <2>10 DEF KillScan
  <2> QED BY <1>1, <2>1, <2>2, <2>3, <2>4, <2>5, <2>6, <2>7, <2>8, <2>9, <2>10 DEF ScanStep
<1>2. CASE Surroundings
  <2> USE DEF EntryState, Row, Blank
  <2>1. ASSUME NEW s \in Software, CreateSoftware(s) PROVE DiscoveryTypeOK'
    BY <2>1 DEF CreateSoftware
  <2>2. ASSUME NEW s \in Software, UpdateSoftware(s) PROVE DiscoveryTypeOK'
    BY <2>2 DEF UpdateSoftware
  <2>3. ASSUME NEW s \in Software, BeginRemoval(s) PROVE DiscoveryTypeOK'
    BY <2>3 DEF BeginRemoval
  <2>4. ASSUME NEW s \in Software, CommitRemoval(s) PROVE DiscoveryTypeOK'
    BY <2>4, DeletionOnlyKills DEF CommitRemoval
  <2>5. ASSUME NEW s \in Software, NEW v \in Versions, OfferVersion(s, v)
        PROVE  DiscoveryTypeOK'
    BY <2>5 DEF OfferVersion
  <2>6. ASSUME NEW s \in Software, NEW v \in Versions, ProcessEndpoint(s, v)
        PROVE  DiscoveryTypeOK'
    BY <2>6 DEF ProcessEndpoint, Insert, Free
  <2>7. ASSUME NEW i \in Rows, DeleteRelease(i) PROVE DiscoveryTypeOK'
    BY <2>7, DeletionOnlyKills DEF DeleteRelease
  <2> QED BY <1>2, <2>1, <2>2, <2>3, <2>4, <2>5, <2>6, <2>7 DEF Surroundings
<1>3. CASE UNCHANGED vars BY <1>3 DEF vars
<1> QED BY <1>1, <1>2, <1>3 DEF DiscoveryNext

(***************************************************************************)
(* Every step preserves the invariant.                                     *)
(***************************************************************************)
LEMMA DiscoveryStepInv ==
    ASSUME DiscoveryInv, [DiscoveryNext]_vars
    PROVE  DiscoveryInv'
<1> USE DiscoveryAssumption
<1>t. DiscoveryTypeOK' BY DiscoveryTypeStep
<1>o. DiscoveryTypeOK /\ PendingIsNew BY DEF DiscoveryInv
<1>1. ASSUME NEW t \in Scans, ScanStep(t) PROVE DiscoveryInv'
  <2> USE DEF StartScan, NextSoftware, NoScan, DiscoveryTypeOK
  <2>1. CASE CheckAllSoftware(t)
    BY <1>t, <1>o, <2>1, NothingStored DEF CheckAllSoftware, PendingIsNew
  <2>2. CASE SearchAllWanted(t)
    BY <1>t, <1>o, <2>2, NothingStored DEF SearchAllWanted, PendingIsNew
  <2>3. ASSUME NEW s \in Software, SearchReleases(t, s) PROVE DiscoveryInv'
    BY <1>t, <1>o, <2>3, NothingStored DEF SearchReleases, PendingIsNew
  <2>4. ASSUME NEW s \in Software, SearchFails(t, s) PROVE DiscoveryInv'
    BY <1>t, <1>o, <2>4, NothingStored DEF SearchFails, PendingIsNew
  <2>5. ASSUME NEW v \in Versions, GetByVersion(t, v) PROVE DiscoveryInv'
    <3>0. scan[t].pc = "check" /\ scan[t].sw \in Software /\ UNCHANGED release
      BY <1>o, <2>5 DEF GetByVersion, PendingIsNew
    <3>1. CASE /\ scan' = [scan EXCEPT ![t].pc = "store", ![t].ver = v]
               /\ LiveRows(scan[t].sw, v) = {}
      <4>1. \A u \in Scans : scan'[u].pc = "store" =>
              \/ scan'[u] = scan[u]
              \/ LiveRows(scan'[u].sw, scan'[u].ver) = {} /\ release' = release
                    /\ scan'[u].sw \in Software /\ scan'[u].ver \in Versions
        <5>1. scan' = [scan EXCEPT ![t] = [scan[t] EXCEPT !.pc = "store", !.ver = v]]
          BY <3>1
        <5>2. /\ scan'[t].sw = scan[t].sw /\ scan'[t].ver = v
              /\ \A u \in Scans \ {t} : scan'[u] = scan[u]
          BY <5>1, <1>o DEF Scan
        <5> QED BY <3>0, <3>1, <5>2
      <4>2. \A u \in Scans : scan'[u].pc \in {"check", "process"} =>
              /\ scan'[u].sw \in Software
              /\ scan'[u].pc = "process" => scan'[u].row \in Rows
        BY <1>o, <3>0, <3>1 DEF PendingIsNew, Scan
      <4> QED BY <1>t, <3>0, <4>1, <4>2, NothingStored
    <3>2. CASE scan' = [scan EXCEPT ![t].found = @ \ {v}]
      BY <1>t, <1>o, <3>0, <3>2, NothingStored DEF PendingIsNew, Scan
    <3>3. CASE NextSoftware(t)
      BY <1>t, <1>o, <3>0, <3>3, NothingStored DEF PendingIsNew
    <3> QED BY <2>5, <3>1, <3>2, <3>3 DEF GetByVersion
  <2>6. CASE StoreRelease(t)
    <3>1. PICK i \in Free : /\ Insert(i, scan[t].sw, scan[t].ver, t)
                            /\ scan' = [scan EXCEPT ![t].pc = "process", ![t].row = i]
      BY <2>6 DEF StoreRelease
    <3>2. /\ scan[t].pc = "store" /\ scan[t].sw \in Software /\ scan[t].ver \in Versions
          /\ \A k \in LiveRows(scan[t].sw, scan[t].ver) : release[k].by # t
      BY <1>o, <2>6 DEF StoreRelease, PendingIsNew
    <3>3. OneRowPerScan'
      BY <3>1, <3>2, <1>o DEF DiscoveryInv, OneRowPerScan, LiveRows, Insert, Free
    <3>4. PendingIsNew'
      BY <3>1, <3>2, <1>o DEF PendingIsNew, LiveRows, Insert, Free, Scan
    <3>5. ManualIsUsed'
      BY <3>1, <3>2, <1>o DEF DiscoveryInv, ManualIsUsed, Insert, Free
    <3> QED BY <1>t, <3>3, <3>4, <3>5 DEF DiscoveryInv
  <2>7. CASE ProcessRelease(t)
    <3>0. scan[t].pc = "process" /\ scan[t].sw \in Software /\ UNCHANGED release
      BY <1>o, <2>7 DEF ProcessRelease, PendingIsNew
    <3>1. CASE scan' = [scan EXCEPT ![t].pc = "check", ![t].found = @ \ {scan[t].ver},
                                    ![t].ver = NoVersion, ![t].row = NoRow]
      BY <1>t, <1>o, <3>0, <3>1, NothingStored DEF PendingIsNew, Scan
    <3>2. CASE NextSoftware(t)
      BY <1>t, <1>o, <3>0, <3>2, NothingStored DEF PendingIsNew
    <3>3. CASE scan' = [scan EXCEPT ![t] = NoScan]
      BY <1>t, <1>o, <3>0, <3>3, NothingStored DEF PendingIsNew
    <3> QED BY <2>7, <3>1, <3>2, <3>3 DEF ProcessRelease
  <2>8. CASE FinishSoftware(t)
    BY <1>t, <1>o, <2>8, NothingStored DEF FinishSoftware, PendingIsNew
  <2>9. CASE EndScan(t)
    BY <1>t, <1>o, <2>9, NothingStored DEF EndScan, PendingIsNew
  <2>10. CASE KillScan(t)
    BY <1>t, <1>o, <2>10, NothingStored DEF KillScan, PendingIsNew
  <2> QED BY <1>1, <2>1, <2>2, <2>3, <2>4, <2>5, <2>6, <2>7, <2>8, <2>9, <2>10 DEF ScanStep
<1>2. CASE Surroundings
  <2>1. ASSUME NEW s \in Software, CreateSoftware(s) PROVE DiscoveryInv'
    BY <1>t, <1>o, <2>1, NothingStored DEF CreateSoftware, PendingIsNew
  <2>2. ASSUME NEW s \in Software, UpdateSoftware(s) PROVE DiscoveryInv'
    BY <1>t, <1>o, <2>2, NothingStored DEF UpdateSoftware, PendingIsNew
  <2>3. ASSUME NEW s \in Software, BeginRemoval(s) PROVE DiscoveryInv'
    BY <1>t, <1>o, <2>3, NothingStored DEF BeginRemoval, PendingIsNew
  <2>4. ASSUME NEW s \in Software, CommitRemoval(s) PROVE DiscoveryInv'
    BY <1>t, <1>o, <2>4, DeletionOnlyKills, NothingStored
       DEF CommitRemoval, PendingIsNew
  <2>5. ASSUME NEW s \in Software, NEW v \in Versions, OfferVersion(s, v)
        PROVE  DiscoveryInv'
    BY <1>t, <1>o, <2>5, NothingStored DEF OfferVersion, PendingIsNew
  <2>6. ASSUME NEW s \in Software, NEW v \in Versions, ProcessEndpoint(s, v)
        PROVE  DiscoveryInv'
    <3>1. PICK i \in Free : Insert(i, s, v, Manual)
      BY <2>6 DEF ProcessEndpoint
    <3>2. OneRowPerScan'
      BY <3>1, <1>o DEF DiscoveryInv, DiscoveryTypeOK, OneRowPerScan, LiveRows, Insert, Free
    <3>3. PendingIsNew'
      BY <2>6, <3>1, <1>o
         DEF DiscoveryTypeOK, PendingIsNew, LiveRows, Insert, Free, ProcessEndpoint
    <3>4. ManualIsUsed'
      BY <2>6 DEF ManualIsUsed, ProcessEndpoint
    <3> QED BY <1>t, <3>2, <3>3, <3>4 DEF DiscoveryInv
  <2>7. ASSUME NEW i \in Rows, DeleteRelease(i) PROVE DiscoveryInv'
    BY <1>t, <1>o, <2>7, DeletionOnlyKills, NothingStored
       DEF DeleteRelease, PendingIsNew
  <2> QED BY <1>2, <2>1, <2>2, <2>3, <2>4, <2>5, <2>6, <2>7 DEF Surroundings
<1>3. CASE UNCHANGED vars
  BY <1>t, <1>o, <1>3, NothingStored DEF vars, PendingIsNew
<1> QED BY <1>1, <1>2, <1>3 DEF DiscoveryNext

(***************************************************************************)
(* The invariant holds of every behaviour of the scans, admins and sources *)
(***************************************************************************)
THEOREM DiscoveryInvariant == DiscoverySpec => []DiscoveryInv
<1>1. DiscoveryInv /\ [DiscoveryNext]_vars => DiscoveryInv' BY DiscoveryStepInv
<1> QED BY DiscoveryInitInv, <1>1, PTL DEF DiscoverySpec

(***************************************************************************)
(* For any number of scans, no scan stores a version that it has stored    *)
(* before and that was not deleted since: a version has at most one        *)
(* release per scan (get_by_version before process_and_store_release).     *)
(***************************************************************************)
THEOREM OneReleasePerScan == DiscoverySpec => []OneRowPerScan
<1>1. DiscoveryInv => OneRowPerScan BY DEF DiscoveryInv
<1> QED BY DiscoveryInvariant, <1>1, PTL

(***************************************************************************)
(* A deployment with one worker, whose users do not call the process       *)
(* endpoint, stores every version at most once.                            *)
(***************************************************************************)
THEOREM SoleScanCorrect == DiscoverySpec => []SoleScanStoresOnce
<1>1. DiscoveryInv => SoleScanStoresOnce
  <2> SUFFICES ASSUME DiscoveryInv, ~ProcessUsed, \A t, u \in Scans : t = u,
                      NEW s \in Software, NEW v \in Versions,
                      NEW i \in LiveRows(s, v), NEW j \in LiveRows(s, v), i # j
               PROVE  FALSE
    BY DEF SoleScanStoresOnce
  <2>1. /\ i \in Rows /\ j \in Rows /\ release[i].live /\ release[j].live
        /\ release[i] \in Row \cup {Blank} /\ release[j] \in Row \cup {Blank}
    BY DEF DiscoveryInv, DiscoveryTypeOK, LiveRows
  <2>2. release[i].by \in Scans /\ release[j].by \in Scans
    BY <2>1 DEF DiscoveryInv, ManualIsUsed, Row, Blank
  <2>3. release[i].by # release[j].by
    BY <2>1, <2>2, DiscoveryAssumption DEF DiscoveryInv, OneRowPerScan
  <2> QED BY <2>2, <2>3
<1> QED BY DiscoveryInvariant, <1>1, PTL

(***************************************************************************)
(* A step of a scan leaves the entry a scan is at, or lets it go, or takes *)
(* one that is listed.                                                     *)
(***************************************************************************)
LEMMA ScansTakeListed ==
    ASSUME DiscoveryTypeOK, NEW t \in Scans, ScanStep(t), NEW u \in Scans
    PROVE  \/ scan'[u].sw \in {scan[u].sw, NoSoftware}
           \/ Listed(scan'[u].sw)
<1>1. scan \in [Scans -> Scan]
  BY DEF DiscoveryTypeOK
<1>2. ASSUME NEW new, scan' = [scan EXCEPT ![t] = new],
             \/ new.sw \in {scan[t].sw, NoSoftware}
             \/ Listed(new.sw)
      PROVE  \/ scan'[u].sw \in {scan[u].sw, NoSoftware}
             \/ Listed(scan'[u].sw)
  BY <1>1, <1>2
<1>3. NextSoftware(t) => \/ scan'[u].sw \in {scan[u].sw, NoSoftware}
                         \/ Listed(scan'[u].sw)
  BY <1>1 DEF NextSoftware, NoScan
<1>4. ASSUME NEW S, StartScan(t, S)
      PROVE  scan'[u].sw \in {scan[u].sw, NoSoftware}
  BY <1>1, <1>4 DEF StartScan, NoScan
<1>5. CASE CheckAllSoftware(t) \/ SearchAllWanted(t)
  BY <1>4, <1>5 DEF CheckAllSoftware, SearchAllWanted
<1>6. ASSUME NEW s \in Software, SearchReleases(t, s)
      PROVE  scan'[u].sw = scan[u].sw \/ Listed(scan'[u].sw)
  BY <1>1, <1>6 DEF SearchReleases, NoScan
<1>7. ASSUME NEW s \in Software, SearchFails(t, s)
      PROVE  scan'[u].sw = scan[u].sw
  BY <1>1, <1>7 DEF SearchFails, Scan
<1>8. ASSUME NEW v \in Versions, GetByVersion(t, v)
      PROVE  scan'[u].sw \in {scan[u].sw, NoSoftware} \/ Listed(scan'[u].sw)
  BY <1>1, <1>3, <1>8 DEF GetByVersion, Scan
<1>9. CASE StoreRelease(t) \/ ProcessRelease(t)
  BY <1>1, <1>3, <1>9 DEF StoreRelease, ProcessRelease, Scan, NoScan
<1>10. CASE FinishSoftware(t)
  BY <1>3, <1>10 DEF FinishSoftware
<1>11. CASE EndScan(t) \/ KillScan(t)
  BY <1>1, <1>11 DEF EndScan, KillScan, NoScan
<1> QED BY <1>5, <1>6, <1>7, <1>8, <1>9, <1>10, <1>11 DEF ScanStep

(***************************************************************************)
(* For any number of scans: once an entry is deleted and no scan is at it, *)
(* none ever gets to it (search_releases looks the entry up again).        *)
(***************************************************************************)
THEOREM DeletedIsNotFound == DiscoverySpec => NoScanFindsTheDeleted
<1> DEFINE Step == \A s \in Software :
                     (entry[s] = "deleted" /\ \A t \in Scans : scan[t].sw # s) =>
                        \A t \in Scans : scan'[t].sw # s
<1>1. DiscoveryInv /\ [DiscoveryNext]_vars => [Step]_vars
  <2> SUFFICES ASSUME DiscoveryInv, DiscoveryNext,
                      NEW s \in Software, entry[s] = "deleted",
                      \A t \in Scans : scan[t].sw # s,
                      NEW u \in Scans
               PROVE  scan'[u].sw # s
    OBVIOUS
  <2>1. ASSUME NEW t \in Scans, ScanStep(t) PROVE scan'[u].sw # s
    <3>1. scan'[u].sw \in {scan[u].sw, NoSoftware} \/ Listed(scan'[u].sw)
      BY <2>1, ScansTakeListed DEF DiscoveryInv
    <3>2. ~Listed(s)
      BY DEF Listed
    <3> QED BY <3>1, <3>2, DiscoveryAssumption
  <2>2. CASE Surroundings
    <3>1. UNCHANGED scan
      BY <2>2 DEF Surroundings, CreateSoftware, UpdateSoftware, BeginRemoval,
         CommitRemoval, OfferVersion, ProcessEndpoint, DeleteRelease
    <3> QED BY <3>1
  <2> QED BY <2>1, <2>2 DEF DiscoveryNext
<1> QED BY <1>1, DiscoveryInvariant, PTL DEF DiscoverySpec, NoScanFindsTheDeleted

=============================================================================
