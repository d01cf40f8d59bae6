----------------------------- MODULE Discovery -----------------------------
(***************************************************************************)
(* How found versions become releases: the scheduler loops of the server   *)
(* processes, manually triggered runs, "search all wanted" and the process *)
(* endpoint, over the software and releases tables.                        *)
(*                                                                         *)
(* A scan works through software entries; for each it searches a source,   *)
(* looks every found version up and stores those it does not find.  The    *)
(* lookup and the insert are two database calls, no constraint makes       *)
(* (software_id, version) unique, and SQLite does not enforce the foreign  *)
(* key of a release.  What happens to a stored release is ReviewWorkflow's *)
(* matter.                                                                 *)
(***************************************************************************)
EXTENDS Naturals, FiniteSets

CONSTANTS
    Software,       \* software ids
    Versions,       \* version strings
    Scans,          \* scans that may be under way at once
    Rows,           \* release ids: the bound on releases ever stored
    NoSoftware, NoVersion, NoRow,
    Manual,         \* stands for POST /releases/process in Row.by
    ProcessUsed,    \* somebody calls that endpoint
    SourceFails,    \* a search may fail
    Kills           \* a scan may end early: its process is killed, or its
                    \* session is left in a failed transaction

ASSUME DiscoveryAssumption ==
    /\ NoSoftware \notin Software
    /\ NoVersion \notin Versions
    /\ NoRow \notin Rows
    /\ Manual \notin Scans
    /\ {ProcessUsed, SourceFails, Kills} \subseteq BOOLEAN

VARIABLES
    entry,      \* software rows
    monitored,  \* Software.monitored and is_active
    offered,    \* the versions the sources offer
    release,    \* releases ever stored
    doomed,     \* the releases a deletion of the entry under way has loaded
    scan        \* the scans

vars == <<entry, monitored, offered, release, doomed, scan>>

\* "removing": a deletion has loaded the entry and will commit.
EntryState == {"unborn", "listed", "removing", "deleted"}

\* by: who stored the row; live: it has not been deleted.
Row == [sw : Software, ver : Versions, by : Scans \cup {Manual}, live : BOOLEAN]
Blank == [sw |-> NoSoftware, ver |-> NoVersion, by |-> Manual, live |-> FALSE]

\* row: the release just stored, which the pipeline is at work on.
Scan == [pc : {"idle", "pick", "check", "store", "process"},
         todo : SUBSET Software,
         sw : Software \cup {NoSoftware},
         found : SUBSET Versions,
         ver : Versions \cup {NoVersion},
         row : Rows \cup {NoRow}]

NoScan == [pc |-> "idle", todo |-> {}, sw |-> NoSoftware, found |-> {},
           ver |-> NoVersion, row |-> NoRow]

DiscoveryTypeOK ==
    /\ entry \in [Software -> EntryState]
    /\ monitored \in [Software -> BOOLEAN]
    /\ offered \in [Software -> SUBSET Versions]
    /\ release \in [Rows -> Row \cup {Blank}]
    /\ doomed \in [Software -> SUBSET Rows]
    /\ scan \in [Scans -> Scan]

DiscoveryInit ==
    /\ entry \in [Software -> {"unborn", "listed"}]
    /\ monitored = [s \in Software |-> TRUE]
    /\ offered \in [Software -> SUBSET Versions]
    /\ release = [i \in Rows |-> Blank]
    /\ doomed = [s \in Software |-> {}]
    /\ scan = [t \in Scans |-> NoScan]

Listed(s) == s \in Software /\ entry[s] \in {"listed", "removing"}

Watched == {s \in Software : Listed(s) /\ monitored[s]}

LiveRows(s, v) ==
    {i \in Rows : release[i].live /\ release[i].sw = s /\ release[i].ver = v}

Free == {i \in Rows : release[i] = Blank}

\* A bound: releases are deleted only while every scan has ids left to store
\* every version again.
RoomLeft ==
    Cardinality(Free) >=
        Cardinality(Scans) * Cardinality(Software) * Cardinality(Versions)

-----------------------------------------------------------------------------
(* Scans.                                                                  *)

StartScan(t, S) ==
    /\ scan[t].pc = "idle"
    /\ S # {}
    /\ scan' = [scan EXCEPT ![t] = [NoScan EXCEPT !.pc = "pick", !.todo = S]]
    /\ UNCHANGED <<entry, monitored, offered, release, doomed>>

\* The scheduler takes every active, monitored entry.
CheckAllSoftware(t) == StartScan(t, Watched)

\* "Search all wanted" leaves out those that have a downloaded release.
SearchAllWanted(t) == \E S \in SUBSET Watched : StartScan(t, S)

NextSoftware(t) ==
    scan' = [scan EXCEPT ![t] = [NoScan EXCEPT !.pc = "pick", !.todo = scan[t].todo]]

EndScan(t) ==
    /\ scan[t].pc = "pick"
    /\ scan[t].todo = {}
    /\ scan' = [scan EXCEPT ![t] = NoScan]
    /\ UNCHANGED <<entry, monitored, offered, release, doomed>>

\* Variant with a bug: the entry is not looked up again before the search.
SearchUnchecked(t, s) ==
    /\ scan[t].pc = "pick"
    /\ s \in scan[t].todo
    /\ scan' = [scan EXCEPT ![t] = [NoScan EXCEPT
                  !.pc = "check", !.todo = scan[t].todo \ {s},
                  !.sw = s, !.found = offered[s]]]
    /\ UNCHANGED <<entry, monitored, offered, release, doomed>>

\* search_releases looks the entry up again and asks its source.  The
\* entries come in the order of their names, which the model leaves open.
SearchReleases(t, s) ==
    /\ scan[t].pc = "pick"
    /\ s \in scan[t].todo
    /\ Listed(s)
    /\ scan' = [scan EXCEPT ![t] = [NoScan EXCEPT
                  !.pc = "check", !.todo = scan[t].todo \ {s},
                  !.sw = s, !.found = offered[s]]]
    /\ UNCHANGED <<entry, monitored, offered, release, doomed>>

\* An entry that is gone, or a source that fails, is counted as an error.
SearchFails(t, s) ==
    /\ scan[t].pc = "pick"
    /\ s \in scan[t].todo
    /\ ~Listed(s) \/ SourceFails
    /\ scan' = [scan EXCEPT ![t].todo = @ \ {s}]
    /\ UNCHANGED <<entry, monitored, offered, release, doomed>>

\* Variant with a bug: the version is not looked up.
GetByVersionSkipped(t, v) ==
    /\ scan[t].pc = "check"
    /\ v \in scan[t].found
    /\ scan' = [scan EXCEPT ![t].pc = "store", ![t].ver = v]
    /\ UNCHANGED <<entry, monitored, offered, release, doomed>>

\* Variant with a bug: a version that is known ends the entry's results.
GetByVersionBreaks(t, v) ==
    /\ scan[t].pc = "check"
    /\ v \in scan[t].found
    /\ IF LiveRows(scan[t].sw, v) = {}
       THEN scan' = [scan EXCEPT ![t].pc = "store", ![t].ver = v]
       ELSE NextSoftware(t)
    /\ UNCHANGED <<entry, monitored, offered, release, doomed>>

\* get_by_version; the results come in the source's own order.  With two
\* rows of the version it raises, and the scan goes on to the next entry.
GetByVersion(t, v) ==
    LET existing == LiveRows(scan[t].sw, v) IN
    /\ scan[t].pc = "check"
    /\ v \in scan[t].found
    /\ \/ /\ existing = {}
          /\ scan' = [scan EXCEPT ![t].pc = "store", ![t].ver = v]
       \/ /\ \E i \in Rows : existing = {i}
          /\ scan' = [scan EXCEPT ![t].found = @ \ {v}]
       \/ /\ \E i, j \in existing : i # j
          /\ NextSoftware(t)
    /\ UNCHANGED <<entry, monitored, offered, release, doomed>>

Insert(i, s, v, by) ==
    release' = [release EXCEPT ![i] = [sw |-> s, ver |-> v, by |-> by, live |-> TRUE]]

\* The first commit of process_and_store_release.  Nothing checks that the
\* entry still exists.
StoreRelease(t) ==
    /\ scan[t].pc = "store"
    /\ \E i \in Free :
          /\ Insert(i, scan[t].sw, scan[t].ver, t)
          /\ scan' = [scan EXCEPT ![t].pc = "process", ![t].row = i]
    /\ UNCHANGED <<entry, monitored, offered, doomed>>

\* The rest of the pipeline, which ReviewWorkflow models.  If the row was
\* deleted meanwhile it raises: the scan goes on to the next entry when the
\* refresh fails, and ends when the update fails, which leaves the session in
\* a failed transaction.
ProcessRelease(t) ==
    /\ scan[t].pc = "process"
    /\ \/ /\ release[scan[t].row].live
          /\ scan' = [scan EXCEPT ![t].pc = "check", ![t].found = @ \ {scan[t].ver},
                                  ![t].ver = NoVersion, ![t].row = NoRow]
       \/ /\ ~release[scan[t].row].live
          /\ NextSoftware(t) \/ scan' = [scan EXCEPT ![t] = NoScan]
    /\ UNCHANGED <<entry, monitored, offered, release, doomed>>

\* All results are dealt with; last_searched_at is updated.
FinishSoftware(t) ==
    /\ scan[t].pc = "check"
    /\ scan[t].found = {}
    /\ NextSoftware(t)
    /\ UNCHANGED <<entry, monitored, offered, release, doomed>>

KillScan(t) ==
    /\ Kills
    /\ scan[t].pc # "idle"
    /\ scan' = [scan EXCEPT ![t] = NoScan]
    /\ UNCHANGED <<entry, monitored, offered, release, doomed>>

-----------------------------------------------------------------------------
(* Admins and sources.                                                     *)

\* POST /releases/process stores what it is given, without any lookup.
ProcessEndpoint(s, v) ==
    /\ ProcessUsed
    /\ entry[s] # "unborn"
    /\ \E i \in Free : Insert(i, s, v, Manual)
    /\ UNCHANGED <<entry, monitored, offered, doomed, scan>>

DeleteRows(S) ==
    release' = [i \in Rows |->
        IF i \in S /\ release[i].live THEN [release[i] EXCEPT !.live = FALSE]
                                      ELSE release[i]]

\* A release is deleted by an admin or by retention.
DeleteRelease(i) ==
    /\ release[i].live
    /\ RoomLeft
    /\ DeleteRows({i})
    /\ UNCHANGED <<entry, monitored, offered, doomed, scan>>

CreateSoftware(s) ==
    /\ entry[s] = "unborn"
    /\ entry' = [entry EXCEPT ![s] = "listed"]
    /\ UNCHANGED <<monitored, offered, release, doomed, scan>>

UpdateSoftware(s) ==
    /\ Listed(s)
    /\ monitored' = [monitored EXCEPT ![s] = ~@]
    /\ UNCHANGED <<entry, offered, release, doomed, scan>>

\* Deleting an entry loads its releases for the cascade; the commit deletes
\* the loaded ones and the entry.
BeginRemoval(s) ==
    /\ entry[s] = "listed"
    /\ entry' = [entry EXCEPT ![s] = "removing"]
    /\ doomed' = [doomed EXCEPT ![s] = {i \in Rows : release[i].live /\ release[i].sw = s}]
    /\ UNCHANGED <<monitored, offered, release, scan>>

CommitRemoval(s) ==
    /\ entry[s] = "removing"
    /\ entry' = [entry EXCEPT ![s] = "deleted"]
    /\ DeleteRows(doomed[s])
    /\ doomed' = [doomed EXCEPT ![s] = {}]
    /\ UNCHANGED <<monitored, offered, scan>>

OfferVersion(s, v) ==
    /\ v \notin offered[s]
    /\ offered' = [offered EXCEPT ![s] = @ \cup {v}]
    /\ UNCHANGED <<entry, monitored, release, doomed, scan>>

-----------------------------------------------------------------------------

ScanStep(t) ==
    \/ CheckAllSoftware(t) \/ SearchAllWanted(t)
    \/ \E s \in Software : SearchReleases(t, s) \/ SearchFails(t, s)
    \/ \E v \in Versions : GetByVersion(t, v)
    \/ StoreRelease(t) \/ ProcessRelease(t) \/ FinishSoftware(t)
    \/ EndScan(t) \/ KillScan(t)

Surroundings ==
    \/ \E s \in Software :
          \/ CreateSoftware(s) \/ UpdateSoftware(s)
          \/ BeginRemoval(s) \/ CommitRemoval(s)
          \/ \E v \in Versions : OfferVersion(s, v) \/ ProcessEndpoint(s, v)
    \/ \E i \in Rows : DeleteRelease(i)

DiscoveryNext == (\E t \in Scans : ScanStep(t)) \/ Surroundings

DiscoverySpec == DiscoveryInit /\ [][DiscoveryNext]_vars

(***************************************************************************)
(* Fairness: the scheduler loop comes round as long as its process lives,  *)
(* every call it awaits returns, a source is not down at every visit, and  *)
(* a deletion under way commits.                                           *)
(***************************************************************************)
FairDiscoverySpec ==
    /\ DiscoverySpec
    /\ \A s \in Software : WF_vars(CommitRemoval(s))
    /\ \A t \in Scans :
          /\ SF_vars(CheckAllSoftware(t))
          /\ WF_vars(StoreRelease(t) \/ ProcessRelease(t) \/ FinishSoftware(t))
          /\ WF_vars(EndScan(t) \/ \E v \in Versions : GetByVersion(t, v))
          /\ WF_vars(\E s \in Software : SearchReleases(t, s) \/ SearchFails(t, s))
          /\ \A s \in Software : SF_vars(SearchReleases(t, s))

-----------------------------------------------------------------------------
(* Properties.                                                             *)

(***************************************************************************)
(* A scan never stores a version twice: of the live releases of one        *)
(* version of one entry, no two were stored by the same scan (nor by the   *)
(* same scheduler loop on its successive runs), whatever other scans,      *)
(* deletions and kills do in between.                                      *)
(***************************************************************************)
OneRowPerScan ==
    \A s \in Software, v \in Versions : \A i, j \in LiveRows(s, v) :
        i # j => release[i].by = Manual \/ release[i].by # release[j].by

(***************************************************************************)
(* With a single scan at a time, and nobody at the process endpoint, a     *)
(* version is stored at most once.                                         *)
(***************************************************************************)
SoleScanStoresOnce ==
    (~ProcessUsed /\ \A t, u \in Scans : t = u) =>
        \A s \in Software, v \in Versions : \A i, j \in LiveRows(s, v) : i = j

(***************************************************************************)
(* The inductive invariant behind them: between its lookup and its insert  *)
(* a scan has no live release of that version to its name.                 *)
(***************************************************************************)
PendingIsNew ==
    \A t \in Scans :
        /\ scan[t].pc \in {"check", "store", "process"} => scan[t].sw \in Software
        /\ scan[t].pc = "store" => scan[t].ver \in Versions
        /\ scan[t].pc = "process" => scan[t].row \in Rows
        /\ scan[t].pc = "store" =>
              \A i \in LiveRows(scan[t].sw, scan[t].ver) : release[i].by # t

ManualIsUsed ==
    \A i \in Rows : release[i].live /\ release[i].by = Manual => ProcessUsed

DiscoveryInv == DiscoveryTypeOK /\ OneRowPerScan /\ PendingIsNew /\ ManualIsUsed

(***************************************************************************)
(* Once an entry is deleted, only a scan that had found it before, or the  *)
(* process endpoint, can still store a release of it.                      *)
(***************************************************************************)
NoScanFindsTheDeleted ==
    [][\A s \in Software :
          (entry[s] = "deleted" /\ \A t \in Scans : scan[t].sw # s) =>
             \A t \in Scans : scan'[t].sw # s]_vars

(***************************************************************************)
(* "searches for new releases, storing any that are not already in the     *)
(* database" (scheduler): a version offered for an entry that stays        *)
(* monitored is stored.                                                    *)
(***************************************************************************)
Known(s, v) == \E i \in Rows : release[i].sw = s /\ release[i].ver = v

NewVersionIsStored ==
    \A s \in Software, v \in Versions :
        (s \in Watched /\ v \in offered[s]) ~> (Known(s, v) \/ s \notin Watched)

=============================================================================
