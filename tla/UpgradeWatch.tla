---------------------------- MODULE UpgradeWatch ----------------------------
(***************************************************************************)
(* What the scheduler's scan makes of one software entry with a download:  *)
(* it looks the found versions up, stores the new ones, compares all of    *)
(* them with the downloaded version, announces the first newer one that    *)
(* the version pin allows and may hand its release over to the download    *)
(* client.  The check-version endpoint asks the same question.             *)
(*                                                                         *)
(* The scan works on copies: the entry as it was when the scan began, and  *)
(* the rows its session has loaded.  Meanwhile reviewers, downloads, other *)
(* scans and PATCH change both.  How a release is handed over is           *)
(* DownloadDispatch's matter, what a scan stores is Discovery's.           *)
(***************************************************************************)
EXTENDS VersionOrder

CONSTANTS
    Found,      \* version sequences a search may return
    Pins,       \* version pins, NoPin among them
    NoVersion,
    MaxRows     \* bound on the releases of the entry ever stored

Versions == UNION {ToSet(f) : f \in Found}

ASSUME WatchAssumption ==
    /\ <<>> \in Found /\ Found \subseteq Seq(Versions)
    /\ NoPin \in Pins
    /\ Versions \subseteq Version /\ NoVersion \notin Versions
    /\ MaxRows \in Nat

VARIABLES
    listed,     \* the entry is in the software table
    pin,        \* Software.version_pin
    rows,       \* its releases in the order of created_at
    scan,       \* the scan
    announced,  \* the upgrade_available notifications of the scan
    queued,     \* the rows the scan has handed over
    hist,       \* history: what was so at some moment of the scan
    checked     \* the last reply of check-version

watchVars == <<listed, pin, rows, scan, announced, queued, hist, checked>>

RowState == {"staged", "approved", "downloaded", "deleted"}
NotLoaded == "not loaded"

\* pin: the entry's pin as loaded when the scan began.  copy: the rows the
\* session has loaded, as they were then.
IdleScan == [pc |-> "idle", pin |-> NoPin, results |-> <<>>, next |-> 1,
             copy |-> [r \in 1..MaxRows |-> NotLoaded], current |-> NoVersion]

NoReply == [results |-> <<>>, current |-> NoVersion, available |-> FALSE]

LiveRows(v) == {r \in DOMAIN rows : rows[r].ver = v /\ rows[r].state # "deleted"}

\* Variant with a bug: the last release stored, downloaded or not.
LatestStored == IF rows = <<>> THEN NoVersion ELSE rows[Len(rows)].ver

\* The downloaded release that was stored last, not the one downloaded last.
LatestDownloaded ==
    LET r == SelectLastInSeq(rows, LAMBDA x : x.state = "downloaded")
    IN  IF r = 0 THEN NoVersion ELSE rows[r].ver

HistoryOf(p, rs) ==
    [pins |-> {p},
     approved |-> {r \in DOMAIN rs : rs[r].state = "approved"},
     downloaded |-> {rs[r].ver : r \in {q \in DOMAIN rs : rs[q].state = "downloaded"}}]

WatchInit ==
    /\ listed = TRUE
    /\ pin = NoPin
    /\ rows = <<>>
    /\ scan = IdleScan
    /\ announced = <<>>
    /\ queued = {}
    /\ hist = HistoryOf(NoPin, <<>>)
    /\ checked = NoReply

-----------------------------------------------------------------------------
(* The others.                                                             *)

\* The entry's pin and rows become p and rs; the history takes note of it.
Change(p, rs) ==
    LET now == HistoryOf(p, rs)
    IN  /\ pin' = p
        /\ rows' = rs
        /\ hist' = IF scan.pc = "idle" THEN hist
                   ELSE [pins |-> hist.pins \cup now.pins,
                         approved |-> hist.approved \cup now.approved,
                         downloaded |-> hist.downloaded \cup now.downloaded]

PatchPin(p) ==
    /\ listed
    /\ Change(p, rows)
    /\ UNCHANGED <<listed, scan, announced, queued, checked>>

DeleteSoftware ==
    /\ listed
    /\ listed' = FALSE
    /\ Change(pin, [r \in DOMAIN rows |-> [rows[r] EXCEPT !.state = "deleted"]])
    /\ UNCHANGED <<scan, announced, queued, checked>>

\* Reviews, overrides, downloads and deletions of releases, and what handlers
\* commit that had loaded the row before: see ReviewWorkflow.
MoveRelease(r, s) ==
    /\ rows[r].state \notin {"deleted", s}
    /\ Change(pin, [rows EXCEPT ![r].state = s])
    /\ UNCHANGED <<listed, scan, announced, queued, checked>>

NewRow(v) == Append(rows, [ver |-> v, state |-> "staged"])

\* Another scan, or POST /releases/process, stores a release.
StoreElsewhere(v) ==
    /\ listed
    /\ Len(rows) < MaxRows
    /\ Change(pin, NewRow(v))
    /\ UNCHANGED <<listed, scan, announced, queued, checked>>

-----------------------------------------------------------------------------
(* The scan.                                                               *)

StartScan ==
    /\ scan.pc = "idle"
    /\ listed
    /\ scan' = [IdleScan EXCEPT !.pc = "search", !.pin = pin]
    /\ announced' = <<>>
    /\ queued' = {}
    /\ hist' = HistoryOf(pin, rows)
    /\ checked' = NoReply
    /\ UNCHANGED <<listed, pin, rows>>

\* A scan that is done with the entry, or whose exception was counted as an
\* error, is an IdleScan again.  search_releases queries the entry again
\* only to see that it is there.
SearchReleases(found) ==
    /\ scan.pc = "search"
    /\ listed
    /\ scan' = [scan EXCEPT !.pc = "lookup", !.results = found]
    /\ UNCHANGED <<listed, pin, rows, announced, queued, hist, checked>>

\* The entry is gone, the source fails, or the process is killed.
GiveUp ==
    /\ scan.pc # "idle"
    /\ scan' = IdleScan
    /\ UNCHANGED <<listed, pin, rows, announced, queued, hist, checked>>

Result == scan.results[scan.next]

\* What the session sees of a row: its own copy as long as it holds one.
\* Which objects it still holds is up to the garbage collector.
Loaded(r) == {rows[r].state} \cup ({scan.copy[r]} \ {NotLoaded})

LookUp ==
    /\ scan.pc = "lookup"
    /\ scan.next <= Len(scan.results)
    /\ \E r \in LiveRows(Result) :
          /\ LiveRows(Result) = {r}
          /\ \E s \in Loaded(r) :
                scan' = [scan EXCEPT !.next = @ + 1, !.copy[r] = s]
    /\ UNCHANGED <<listed, pin, rows, announced, queued, hist, checked>>

\* Two rows with the version: scalar_one_or_none raises.
LookUpRaises ==
    /\ scan.pc = "lookup"
    /\ scan.next <= Len(scan.results)
    /\ \E r, q \in LiveRows(Result) : r # q
    /\ scan' = IdleScan
    /\ UNCHANGED <<listed, pin, rows, announced, queued, hist, checked>>

ProcessRelease ==
    /\ scan.pc = "lookup"
    /\ scan.next <= Len(scan.results)
    /\ LiveRows(Result) = {}
    /\ Len(rows) < MaxRows
    /\ Change(pin, NewRow(Result))
    /\ scan' = [scan EXCEPT !.next = @ + 1, !.copy[Len(rows) + 1] = "staged"]
    /\ UNCHANGED <<listed, announced, queued, checked>>

\* The column is queried, not the row: this is what the table holds.
ReadCurrent ==
    /\ scan.pc = "lookup"
    /\ scan.next > Len(scan.results)
    /\ scan' = IF LatestDownloaded = NoVersion THEN IdleScan
               ELSE [scan EXCEPT !.pc = "compare", !.current = LatestDownloaded]
    /\ UNCHANGED <<listed, pin, rows, announced, queued, hist, checked>>

\* Variant with a bug: the pin is not asked.
UpgradesUnpinned ==
    {i \in DOMAIN scan.results : Newer(scan.results[i], scan.current)}
Upgrades ==
    {i \in DOMAIN scan.results :
        /\ Newer(scan.results[i], scan.current)
        /\ PinAllows(scan.pin, scan.results[i])}

\* The first in the order of the results, and only that one.  auto: whether
\* auto_queue_upgrades is on and a download client is configured.
Announce ==
    /\ scan.pc = "compare"
    /\ \E i \in Upgrades :
          /\ \A j \in Upgrades : i <= j
          /\ announced' = Append(announced,
                              [ver |-> scan.results[i], over |-> scan.current])
          /\ \E auto \in BOOLEAN :
                scan' = IF auto THEN [scan EXCEPT !.pc = "queue", !.next = i]
                        ELSE IdleScan
    /\ UNCHANGED <<listed, pin, rows, queued, hist, checked>>

NothingNewer ==
    /\ scan.pc = "compare"
    /\ Upgrades = {}
    /\ scan' = IdleScan
    /\ UNCHANGED <<listed, pin, rows, announced, queued, hist, checked>>

\* Variant with a bug: any release of the version is handed over.
HandedOverAny == IF Cardinality(LiveRows(Result)) = 1 THEN LiveRows(Result) ELSE {}

\* Only an approved release is handed over; several rows raise.
HandedOver ==
    {r \in LiveRows(Result) : LiveRows(Result) = {r} /\ "approved" \in Loaded(r)}

AutoQueue ==
    /\ scan.pc = "queue"
    /\ queued' = queued \cup HandedOver
    /\ scan' = IdleScan
    /\ UNCHANGED <<listed, pin, rows, announced, hist, checked>>

\* The release is not approved, as far as the session can see.
LeaveQueue ==
    /\ scan.pc = "queue"
    /\ \A r \in LiveRows(Result) : LiveRows(Result) = {r} => Loaded(r) # {"approved"}
    /\ scan' = IdleScan
    /\ UNCHANGED <<listed, pin, rows, announced, queued, hist, checked>>

-----------------------------------------------------------------------------
(* check-version.  It writes nothing and reads the rows once, so a moment  *)
(* between two scans stands for every moment.                              *)

\* Variant with a bug: the first result stands for the highest.
BestFirst(found) == found[1]

\* max() with the key of software.py: the first of the highest.
Best(found) ==
    found[SelectInSeq(found,
            LAMBDA x : \A i \in DOMAIN found :
                          ~Exceeds(DottedTuple(found[i]), DottedTuple(x)))]

CheckVersion(found) ==
    /\ scan.pc = "idle"
    /\ listed
    /\ checked' = [results |-> found, current |-> LatestDownloaded,
                   available |->
                      /\ found # <<>>
                      /\ Best(found) # Unknown
                      /\ \/ LatestDownloaded = NoVersion
                         \/ Newer(Best(found), LatestDownloaded)]
    /\ UNCHANGED <<listed, pin, rows, scan, announced, queued, hist>>

-----------------------------------------------------------------------------

WatchNext ==
    \/ \E p \in Pins : PatchPin(p)
    \/ DeleteSoftware
    \/ \E r \in DOMAIN rows, s \in RowState : MoveRelease(r, s)
    \/ \E v \in Versions : StoreElsewhere(v)
    \/ StartScan \/ GiveUp
    \/ \E found \in Found : SearchReleases(found) \/ CheckVersion(found)
    \/ LookUp \/ LookUpRaises \/ ProcessRelease \/ ReadCurrent
    \/ Announce \/ NothingNewer \/ AutoQueue \/ LeaveQueue

WatchSpec == WatchInit /\ [][WatchNext]_watchVars

-----------------------------------------------------------------------------

\* A scan announces one upgrade of the entry at most, over a version that
\* was downloaded and is older, under a pin the entry had at some moment of
\* the scan: whatever PATCH, reviews and deletions do meanwhile.
AnnouncedUpgrades ==
    /\ Len(announced) <= 1
    /\ \A k \in DOMAIN announced :
          /\ announced[k].over \in hist.downloaded
          /\ Newer(announced[k].ver, announced[k].over)
          /\ \E p \in hist.pins : PinAllows(p, announced[k].ver)

\* The scan works on old copies of the rows, but never hands over a release
\* that nobody had approved at any moment of that scan.
QueuedWasApproved == queued \subseteq hist.approved

\* On plain dotted versions check-version, which picks the highest result by
\* an order of its own, says what comparing every result would say.
CheckAgrees ==
    (\A i \in DOMAIN checked.results : IsPlain(checked.results[i])) =>
        (checked.available <=>
            \E i \in DOMAIN checked.results :
                \/ checked.current = NoVersion
                \/ Newer(checked.results[i], checked.current))

-----------------------------------------------------------------------------
(* The invariant of the proofs.                                            *)

WatchTypeOK ==
    /\ listed \in BOOLEAN
    /\ pin \in Pins
    /\ rows \in Seq([ver : Versions, state : RowState]) /\ Len(rows) <= MaxRows
    /\ scan \in [pc : {"idle", "search", "lookup", "compare", "queue"}, pin : Pins,
                 results : Found, next : Nat \ {0},
                 copy : [1..MaxRows -> RowState \cup {NotLoaded}],
                 current : Versions \cup {NoVersion}]
    /\ announced \in Seq([ver : Versions, over : Versions \cup {NoVersion}])
    /\ queued \subseteq 1..MaxRows
    /\ hist \in [pins : SUBSET Pins, approved : SUBSET (1..MaxRows),
                 downloaded : SUBSET Versions]

\* While a scan is on, the history has what is so now, and all the scan has
\* copied.
HistoryIsKept ==
    scan.pc # "idle" =>
        /\ {pin, scan.pin} \subseteq hist.pins
        /\ \A r \in DOMAIN rows :
              /\ rows[r].state = "approved" => r \in hist.approved
              /\ rows[r].state = "downloaded" => rows[r].ver \in hist.downloaded
        /\ \A r \in 1..MaxRows : scan.copy[r] = "approved" => r \in hist.approved
        /\ scan.pc \in {"compare", "queue"} => scan.current \in hist.downloaded

NothingYet ==
    /\ scan.pc \in {"search", "lookup", "compare"} => announced = <<>>
    /\ scan.pc # "idle" => queued = {}

WatchInv ==
    /\ WatchTypeOK /\ HistoryIsKept /\ NothingYet
    /\ AnnouncedUpgrades /\ QueuedWasApproved

=============================================================================
