# A TLA+ model of Softarr

Softarr watches software products, finds their releases through search
adapters, analyses them, lets admins review and approve them, and hands
approved releases to SABnzbd or qBittorrent. It is a FastAPI application over
SQLite through async SQLAlchemy; every gunicorn worker process serves requests
and runs all background loops. This directory holds TLA+ modules of its core,
TLC configurations that check them, and TLAPS proofs.

## Inventory

| Component | State | Operations | Hard behaviour | Correct when |
|---|---|---|---|---|
| Release states (`models/release.py`, `VALID_TRANSITIONS`) | none | legal moves | a table that code may bypass | every move is one of the table, or a documented bypass |
| Releases table and sessions (`core/database.py`) | rows; rows loaded into sessions | load, commit, refresh | `expire_on_commit=False`: a session keeps what it loaded, there is no version column | a commit based on a stale row does no more than the stale row allowed |
| Review workflow (`release_service.py`, `staging.py`, `releases.py`) | `workflow_state`, `trust_status`, `flag_status` | process, transition, approve, override, delete, bulk forms, retention | check and commit are separate steps of racing handlers; approval is two commits; kills | no approval without review or override; admin trust only from an admin; deletion is final |
| Download dispatch (`action_service.py`, `actions.py`, `integrations/`) | `download_client_id`, active client | send (URL, NZB, torrent), grab | external call between check and commit, timeouts after the job exists, job id guessed from recent torrents | only reviewed releases are submitted; none counts as sent that no client accepted |
| Completion (`hooks.py`, `_qbittorrent_poll_loop`) | none of its own | callback, poll tick | lost, repeated, late callbacks; one poll loop per worker on rows it loaded earlier | a queued release settles; DOWNLOADED is final (it is not) |
| Scheduler and search (`scheduler_service.py`, `adapters/`) | `last_searched_at`; the copies of a scan | search, collapse and order results, store, auto-approve, compare with the downloaded version, announce, queue | several workers run the same scan; a duplicate version makes a query raise; a scan compares and queues on what it loaded earlier; one indexer of several fails | an offered version is stored, and once; what is announced and handed over was justified at some moment of the scan; no better post is dropped |
| Software records (`software_service.py`, `api/v1/software.py`) | software rows | create, import, update, delete with cascade | uniqueness check and insert are two steps; one failed insert breaks the session of a whole import | one entry per canonical name; what an import replies is so |
| Analysis engine (`analysis/`) | analysis rows | score, flag, confidence | thresholds and weights at their boundaries | integrity failures block; a failed analysis earns nothing; the pipeline is the workflow's |
| Hash intelligence (`hash_intelligence_service.py`) | hash records, the list a process has cached | first check, recheck loop | silent sources, answers that say nothing, failed commits, restarts; verdicts of several sources | a source that knows the hash is heard in the end |
| Users (`auth/`, `api/v1/users.py`) | one account, its cookies, TOTP, password history | login, second step, disclaimer, enrol, change of password, PATCH, DELETE | guards read before they write; cookies and secrets outlive what they stand for; the history is checked before the change is committed | the second factor asked for is one the user confirmed; cookies say what is on record; a former password stays out for as long as promised |
| INI settings (`core/ini_settings.py`) | one file, parsed at every call; a lock per process | get, set | read-modify-write by several processes | every write is one application to what the file holds |
| Backups (`backup_service.py`) | archive files, named by the second | copy, list, prune | one loop per worker and requests copy, list and prune the same directory; a set is two files | a prune costs a complete set only if enough newer ones are there |
| Version comparison and release rules (`utils/version.py`, `release_rules_service.py`, `software.py`) | none | compare, find the highest, pin, reject | tuples of different lengths, suffixes, two orders for one question | a total order; both orders say the same of plain versions |
| Notifications, contributors, i18n, pages, middleware, CLI | caches, templates | fire-and-forget, rendering | outcome not read back | none that other state depends on |

Handlers (requests, callbacks, background loops) interact through the
releases table and `softarr.ini`; nothing else is shared between processes.

## Modules

| Module | Models | State and actions |
|---|---|---|
| `ReleaseStates` | the enumerations and `VALID_TRANSITIONS` | none |
| `ReleaseLifecycle` | what the transition table promises, as a specification of its own | `phase`; one action per kind of move (checked move, override, birth, deletion) |
| `ReleaseStore` | the releases table and the handlers' sessions | `wf`, `trust`, `flag` are the columns of the rows; `task[t]` is what handler `t` holds of the row it loaded; `CommitState` is the commit of `transition_state`, `Crash` a kill or a cancelled request |
| `ReviewWorkflow` | the pipeline of `process_and_store_release`, the endpoints of `staging.py` and `releases.py`, retention | one action per await: `BeginMove` loads and checks, `CommitState` writes, `CommitTrust` is the second commit of an approval, `BeginSweep`/`CommitSweep` are retention, `Discover`, `Analyse`, `DetermineTrust`, `ApplyRules` the four commits of the pipeline |
| `DownloadDispatch` | sending and grabbing, both download clients, callbacks, the poll loop | `clientId` is `download_client_id`, `job` the clients' jobs (external), `hooks` the callbacks under way, `sub` what a sender knows of its job, `accepted` (history) the releases a client has answered for without an error, with a job or without |
| `ReleaseSystem` | the two together over one table, with the fairness of the poll loop | every action of both |
| `Discovery` | scans of the scheduler and of "search all wanted", the process endpoint, creation and deletion of software entries | `scan[t]` is a scan's position; `GetByVersion` and `StoreRelease` are the two database calls that nothing makes one |
| `Assessment` | `AnalysisEngine.analyze`, the hash lookups, `TrustService`, release rules, auto-approval | `release` is the evidence, `result` is `analysis_results`, `row` the columns derived from it, `stage` what comes next; `ChangeSettings` may happen between any two stages |
| `IniConfig` | the configuration as data and what each method of `IniSettingsManager` makes of it | none |
| `SettingsRegister` | what the lock promises: an atomic register | `contents`, `todo` |
| `IniSettings` | `softarr.ini`, the lock of each process, parse, replace, failure, kill | `file`, `lock`, `view`, `todo`; `Load` takes the lock and parses, `Save` replaces the file and releases the lock, `Fail` is an exception on the way |
| `Accounts` | login, the second step, the disclaimer, TOTP enrolment, PATCH and DELETE, cookies, a new `SECRET_KEY` | `user` is the row (`flags` are the true ones of `is_active`, `totp_enabled`, `disclaimer_accepted`), `session` and `pending` the cookies of each browser, `task[t]` the UPDATE and the reply a handler has computed from the row it loaded, `overtaken` the handlers whose columns have changed since |
| `VersionOrder` | `_version_tuple`, `compare_versions`, the order of check-version, version pins | none: pure operators; a version is its dotted parts, each a sequence of pieces |
| `NewznabSearch` | the Usenet and Torznab adapters: filter, score, extraction of the version, collapse of posts per name and version, order | `asked`, `answers` of the indexers, `results`; `Answer`, `AnswerFails` per indexer |
| `SoftwareLibrary` | POST, PATCH and DELETE of entries and the import of a library | `table` of unique names, `audited`, `import`; each await of the import is an action (`Lookup`, `InsertRow`, `Refresh`, `AuditImport`), `InsertFails` and `AuditFails` what may happen instead |
| `Backups` | runs of the loops and of requests | `archive[t][f]` the files of the set stamped `t`, `runner[w]`; one action per copy, listing and unlink |
| `PasswordHistory` | changes of one user's password | `password`, `history`, `handler[h]`; reading, checking, flushing and committing are separate |
| `UpgradeWatch` | a scan of one entry with a download, and check-version, over what others do to the entry and its releases | `scan` with its copies, `rows`, `pin`; `hist` records what was so during the scan |
| `HashIntelligence` | the first check and the recheck loop over remote sources, the cached list and the ClamAV daemon | `verdicts[r][s]` on record, `knows` what the sources know, `check[c]` of each checker, `list`; `SourceAnswers` is a true answer, `SourceFails` what an error, a silence or an empty answer is taken for |
| `MCServices` | the five parts that share nothing (library, search, backups, passwords, upgrades), each explored on its own | `part` says which |
| `MC*` | instances for TLC | definitions for constants, symmetry |
| `*Proofs` | theorems | none |

How they are put together: `ReviewWorkflow` and `DownloadDispatch` extend
`ReleaseStore`; `ReleaseSystem` extends both. `ReviewWorkflow` implements
`ReleaseLifecycle` under `phase <- wf`, and `IniSettings` implements
`SettingsRegister` under `contents <- file`. `Discovery` and `Assessment`
look closely at what is one step in `ReviewWorkflow`: which versions enter the
pipeline, and what the pipeline decides about one of them. `Assessment` implements
`ReviewWorkflow` with one release and one handler, which `PipelineTask` places by
the stage of the pipeline. `UpgradeWatch`
extends `VersionOrder` and takes what `Discovery` and `DownloadDispatch` detail
(storing and handing over) as one step each. `MCServices` extends five modules
that have no variable in common: a step of one neither enables nor disturbs a
step of another, so their sum is explored instead of their product.

An operator whose comment starts with "Variant with a bug" stands next to the
definition it varies. No specification uses it; substituted for its neighbour it
shows that a property would notice that mistake.

### How the code is abstracted

- A handler owns one session, created with `expire_on_commit=False`. What it
  read of a row (`seen`, `seenTrust`) stays until its next refresh. A commit
  writes the changed columns of the row with that id, whatever they hold now.
- A commit and the refresh after it are one step of the release modules;
  `Discovery` and `Assessment` separate them where a failing refresh matters. After
  the analysis it matters to the table as well: its flag is visible before the
  reset, so `Analyse` of `ReviewWorkflow` may commit a flag and still be at it.
- The audit table is only ever written, so what is modelled is that a handler
  still owes its entry, in a commit of its own.
- Bulk endpoints are sequences of the single operations in one session.
- Which rows are old enough for retention, or beyond the count to keep, is left
  to the choice of a subset. Ids are never reused.
- `flag_reasons` are counted, never spelled out; the second commit that adds the
  reason of an automatic rejection is left out.
- `Discovery` leaves the order of entries and of search results open, treats
  `monitored` and `is_active` as one flag, and takes the pipeline after the
  insert as one step. An update of a deleted row leaves the session in a failed
  transaction, so the scan ends; a failed refresh only ends the entry.
- `IniSettings` has one key for all fields of an indexer that behave alike
  (`url`), no timestamps and no reads: the parse at the start of a write is the
  read that matters. A value with a lone per cent sign is refused, one with two
  reads back with one. Keys that an import skips are not in its bundles.
- `Accounts` has one account, because `POST /users` raises before it inserts
  (below); its guard for the last admin therefore counts no other row. SQLAlchemy
  leaves out of an UPDATE the attributes whose value did not change, so handlers
  write only the columns they changed. A wrong password or code changes nothing
  and is no step; a code can only be given for a secret a page has shown.
- `NewznabSearch` does not build strings: whether a title resembles a term, and
  which versions a pattern finds in it, belong to the post.
- `UpgradeWatch` lets the session answer with its own copy of a row or with the
  table, because which objects a session still holds is up to the garbage
  collector. `Backups` orders sets by their stamp and leaves a prune's unlinks in
  any order.
- In `PasswordHistory` a hash is the password it verifies, and every password
  meets the policy. In `HashIntelligence` the records of a release and source are
  a set of verdicts, not counted.
- In `Assessment` the findings of the pattern scanners and the answers of
  VirusTotal and NSRL are evidence; scores are in thousandths. A suspicious
  asset name always counts as unusual too (`scan_asset_names` looks for both),
  so names raise no flag, one, or two. `analyze_release` hands the engine no
  hashes, so its own hash status is always unknown.

## Runs

`tlc -config X.cfg M` in this directory; each run takes from seconds to a few
minutes.

| Run (`cfg`) | Instance | Shows |
|---|---|---|
| `review_race` (`MCReviewRace`) | one release, two handlers, every target state, two flags, auto-approval on | racing, stale and killed handlers do not approve without review or override (`ExplicitReview`), do not invent an admin's verdict (`AdminTrustIsEarned`), move along the table of now or of what they loaded (`StepsFollowTable`), do not revive a row (`DeletedIsFinal`); while no handler relies on a stale row every step is a step of the lifecycle (`FreshStepsFollowLifecycle`); `StoreInv` is the invariant of the proofs |
| `system_qbt` (`MCSystemQbt`) | one release, one handler at a time that may be killed, one poll loop, two jobs, both clients, all faults | no way around the review (`ExplicitReview`, `OnlyReviewedSubmitted`), no release counts as queued, downloaded or failed that no client accepted (`SentWasAccepted`), and the invariant `SystemInv` |
| `system_live` (`MCSystemLive`) | one release, one job, qBittorrent only, a poll loop that is killed again and again | a queued release settles (`QueuedSettles`) |
| `system_terminal` (`MCSystemTerminal`) | one release, one job, a handler against the poll loop | finding: an approval that loaded a queued release moves it out of DOWNLOADED |
| `discovery_race` (`MCDiscoveryRace`) | one entry, one version, two scans, four release ids, failures and kills | `OneRowPerScan`, `NoScanFindsTheDeleted`, the invariant `DiscoveryInv` |
| `discovery_live` (`MCDiscoveryLive`) | one entry, two versions, one scan | every offered version is stored (`NewVersionIsStored`), once (`SoleScanStoresOnce`) |
| `ini_threads` (`MCIniThreads`) | two threads of one process, two keys, two indexers, refused and odd values, failed writes, kills | `ImplementsRegister`, the invariant `IniInv` |
| `assessment` (`MCAssessment`) | the combinations of findings that decide differently, all settings at every step | `IntegrityFailuresBlock`, `StricterIsNoLaxer`, `FailedAnalysisEarnsNothing`, the invariant `AssessInv`; the pipeline implements the workflow (`ImplementsWorkflow`) |
| `assessment_auto` (`MCAssessmentAuto`) | releases without signatures and hashes | finding: nothing is ever approved automatically |
| `accounts` (`MCAccounts`) | two handlers, one browser, two secrets; kills, lost replies, new keys | `EnabledIsConfirmed`, `EnrolledUntilDisabled`, `AcceptanceIsRecorded`, the invariant `AccountInv` |
| `services` (`MCServices`) | five instances side by side, see the bounds | what an import's reply is worth (`ImportAccounts`), that collapsing loses no better post whatever fails (`BestPostPerKey`), what a prune may cost (`ArchivesKept`), how early a password may return (`NoEarlyReuse`), what a scan announces and hands over (`AnnouncedUpgrades`, `QueuedWasApproved`), that check-version agrees with a comparison of every result on plain versions (`CheckAgrees`); `ServicesInv` is the types with the invariants of the proofs |
| `hash_live` (`MCHashLive`) | two releases, the list and a remote source; silences, empty answers, one failed commit or restart, deletions | after an inconclusive check every source but the list that knows the hash is heard, or the release is gone, although mistaken good verdicts get on record meanwhile (`VerdictArrives`) |

### Bounds

One release is enough where handlers interact through one row; what crosses
releases (callbacks that match by name, poll loops over several rows, sweeps of
sets) is covered by the proofs, which are about any set of releases. Two
handlers give every pair of racing operations. Two jobs give a second send after
a timeout, a removal or a repeated grab, and an answer of a client that takes no
job (`ignored`) leaves the release queued without one. With two versions one can stand behind
the other in a result list, and with four release ids a version can be stored,
deleted and stored again by both scans; `RoomLeft` keeps ids for the scans
whenever something is deleted, so no scan stops for want of an id. `MaxCount` bounds the result counters of
indexers. The bounds on names, keys and values of `MCIniThreads` allow a rename
to a taken name and a bundle that stops at its second key. `MCAssessment` leaves
out GitHub without the author flag, unknown sources and entries without an
expected publisher, which score like the kept ones or between them, and version
pins, which only reject. Two secrets let a second page overwrite the secret of
the first, and two handlers give every pair of racing requests of `Accounts`.
In `services`, two names and three ids let an import meet a name stored since its
lookup; two indexers with lists of up to two of six posts give ties, worse and
better repeats in both orders, an odd size and a failure of either; two runners,
three seconds and counts to keep of 0 and 2 give two prunes and a copy that
overlap; three passwords, two changes at once and a history of one let a password
return as early as it may, and earlier when changes overlap; three result lists
(orders by number and text, a suffix, a tag), two pins and two rows give an
upgrade, one the pin rejects, a duplicate version and a copy that has aged; pins to
an exact version are left to the proofs, which are about any pins. In `hash_live`
the list knows one release from the start and the remote source comes to know the
other later; a third source, asked like the remote one, multiplies the states and
adds no step.
Deadlock is not checked where ids run out; the
configurations say so.

### Fairness

`FairSystemSpec` assumes that a poll loop comes round while its process lives
(`main.py` restarts the body in a `while True`), that a tick gets past the
client's answer and its commit infinitely often if it can infinitely often
(strong fairness, because it may be killed at any point), and that jobs end.
Nothing is assumed of admins, senders or callbacks: a callback may be lost for
ever. `QueuedSettles` is checked without the faults `no_id`, `ignored` and `error` and
without kills of senders: with them a release may stay queued with no job id,
and the poll loop skips it for ever.

`FairDiscoverySpec` assumes that the scheduler comes round, that every call it
awaits returns, that a source is not down at every single visit, and that a
deletion under way commits. The loop in `scheduler_service.py` sleeps and starts
again whatever the previous round raised.

`HashFairness` assumes that time passes, that the recheck loop comes round and its
calls return, and that a source that is asked about a release again and again is
at last reached (strong fairness, because each call may find it silent). Nothing is
assumed of first checks, which a request may never make, and the list is left
out of the promise: what a process missed when it fetched the list it never sees.
A good verdict taken from an empty answer does not end the rechecks as long as
an inconclusive one is on record; without one the release is not promised anything.

## Proofs

`tlapm M.tla` checks each of the eight proof modules. TLC checks each inductive
invariant as an invariant of a run.

- `ReviewProofs`: `StoreInv` is inductive for any releases and handlers. Types
  and `ExplicitReview` alone are not: a handler may hold a row that has changed
  since. `Sound` says what such a handler may still do: the state it saw, if
  beyond review, belongs to a release that was reviewed, and its target is one
  the table allowed from there. From it follow `ExplicitReview`,
  `AdminTrustIsEarned` and the action properties `StepsFollowTable` and
  `DeletedIsFinal`.
- In `ReviewProofs` as well: every step of the workflow maps to a step of the lifecycle
  or a stutter while `ViewsFresh` holds (`FreshReviewIsLifecycle`), and with one
  handler at a time it always holds (`SerialReviewIsLifecycle`).
- `ReleaseSystemProofs`: `SystemInv` adds that a handler past its submission, and
  one that saw a sent state, is about a release a client has accepted. Hence
  `ExplicitReview`, `OnlyReviewedSubmitted` and `SentWasAccepted` for any number of
  releases, handlers, poll loops and jobs, with any faults and kills. That the
  client has a job for it is not claimed: see below.
  `SentWasAccepted` has the premise that admins do not set sent states by hand
  through `POST /staging/transition`, which takes any target that the table
  allows. The properties of the review hold of the whole system as well
  (`SystemFollowsTable`, `SystemDeletedIsFinal`, `SystemAdminTrust`), and every
  step that no stale row is behind is a step of the lifecycle
  (`FreshSystemIsLifecycle`). While handlers and poll loops take turns
  (`TakesTurns`), what the one at work holds of its row is what the row is
  (`ViewsHeld`), so the system with its clients implements the lifecycle
  (`SystemInTurnsIsLifecycle`), for any number of handlers, poll loops, releases
  and jobs. Without that premise a stale row breaks it, see below.
- `DiscoveryProofs`: `PendingIsNew` (between lookup and insert a scan has no live
  row of that version) makes `OneRowPerScan` inductive; one scan at a time and
  no use of the process endpoint give `SoleScanStoresOnce`. A scan changes the
  entry it is at only for a listed one (`ScansTakeListed`), hence
  `NoScanFindsTheDeleted`.
- `IniProofs`: in one process the parsed configuration of the lock's holder is
  still the file (`ViewIsCurrent`), so every replacement is one application of
  the register (`SoleProcessIsRegister`). `SoleProcess` is the premise; the
  deployment with two workers does not meet it. What remains there is
  `FileIsComposed`: a change may be undone, but the file always holds what some calls,
  made one after the other, make of the file as created.
- `AssessmentProofs`: `AssessInv` ties the flag to what was found at every stage,
  which the properties about the end of the pipeline need because settings
  change and the later lookups overwrite parts of the result.
- `AssessmentProofs`, the pipeline: every step of `Assessment` is a step of the
  handler of `ReviewWorkflow` that `PipelineTask` says it is, or changes nothing the
  release table shows (`PipelineIsWorkflow`). The lookups are such stutters; the
  threshold is one too, because the table refuses what it asks for. What is proved
  of the workflow about approval and admin trust therefore needs no assumption on
  what the analysis finds.
- `AccountProofs`: a handler that nobody overtook still fits the row
  (`EnrolmentFits`), and what it replies fits whatever happened
  (`RepliesFit`), because an acceptance is never taken back. `EnabledIsConfirmed`
  has the premise that no overtaken handler has committed an enrolment (`relied`):
  without it it is false, see below. `EnrolledUntilDisabled` has no such premise:
  it names the two steps that may take the secret of an enrolled account, a
  disabling and an overtaken visit of the enrolment page that generated a secret.

- `ServiceProofs`, backups: `ArchivesKept` is not inductive: a runner that has listed holds
  files that it will delete whatever happens meanwhile. `BackupsInv` adds that
  behind each of them stand enough newer sets (`Enough`), and that the first file
  of a set under way is still there or replaced by newer sets (`Safe`). Both last:
  a newer set that goes had itself enough sets behind it, which are newer still.
  For any runners, seconds and counts to keep.
- `ServiceProofs`, imports: `LibraryInv` says that the row an import has at hand was
  created and has no audit entry yet (`AtHand`), and that created and skipped
  elements add up to the elements passed, each created one with its audit entry;
  a fit element whose name was never seen stored broke the session, and none
  passed since had a name (`Counted`). At the reply this is `ImportAccounts`, for any body, any
  failures and any other admins.
- `ServiceProofs`, passwords: `PasswordInv` says that the history is what the changes
  left (`HistoryIsTrail`) and that a change on a current row recorded the password
  it replaced, later than all changes before it (`AloneIsInOrder`). The newer rows
  of such a row are then those of later changes, so the last `Count` rows reach
  far enough back, and what a handler checked holds until somebody commits
  (`ChecksHold`): `NoEarlyReuse`, for any handlers and counts.
- `UpgradeProofs`: Python's order of tuples is asymmetric, total and transitive
  (`TuplesAreOrdered`), by least differing positions. `WatchInv` says that the
  history of a scan has what is so now and everything the scan has copied
  (`HistoryIsKept`), so what the scan concludes from old copies was so at some
  moment of it: `AnnouncedUpgrades` and `QueuedWasApproved` for any versions, pins,
  result lists and number of rows.
- `UpgradeProofs`, the order of versions: what a split string leaves is a non-empty
  sequence of pieces, whose numbers in front are a non-empty tuple
  (`VersionTupleTyped`), so that `compare_versions` orders all version strings
  (`NewerIsOrder`). On plain versions the two ways to read one give the same
  tuple (`PlainTuplesAgree`); the highest of finitely many exists
  (`MaximalExists`), is what check-version takes (`BestIsHighest`), and exceeds the
  current version exactly if some result does: `CheckVersionAgrees`, for lists of
  any length.
- `ServiceProofs`, search: the map of best posts has each key once and stands for
  every hit so far (`KeepBestKeeps`, `CollapseKeeps`); sorting places each hit behind
  those it does not outrank and loses none (`PlaceKeeps`, `RankedKeeps`). An answer
  adds at most one place to the places of a key (`KeyPlacesGrow`), and `SearchInv`
  adds to `BestPostPerKey` that results are hits, which have a size and reach the
  threshold (`HitIsTyped`). For any indexers, posts and lists of any length.
- `ServiceProofs`, at the end: the sum of parts that TLC explores keeps each part to
  its own specification (`PartsAsSpecified`), hence `ServicesInv`.

What a recursive definition computes is proved without induction over data: the
functions it unfolds into are shown to exist (`RecursionExists`, `FlattenRecursion`),
and that all of their values are good by the least index at which one is not
(`LeastExists`, `InductionUpTo`).

Assumptions are the named `ASSUME`s of the modules, about the shape of the
constants only. Model-checked only, because the prover does not treat liveness
under fairness: `QueuedSettles`, `NewVersionIsStored`, `VerdictArrives`. The refuted
claims are counterexamples of TLC. Every other property of a run is stated by a
theorem.

## Where code and documentation disagree

Two claims are refuted by a run:

1. `system_terminal`: `transition_state` checks its target against the row its
   session loaded (`release_service.py:311`). An approval that loaded the release
   while it was queued commits after the poll loop has committed DOWNLOADED, and the
   release is APPROVED again, against `test_downloaded_is_terminal`.
2. `assessment_auto`: auto-approval attempts DISCOVERED to APPROVED, which the
   table refuses; the exception is logged (`scheduler_service.py:123-139`).

Seen while modelling, without a run of their own:

- Two scans may store a version twice, after which `get_by_version`
  (`release_service.py:665`, `scalar_one_or_none`) raises for it at every later scan
  and the versions behind it are not stored.
- The `threading.Lock` (`ini_settings.py:633`) does not cover the second gunicorn
  worker of `entrypoint.sh`: one process undoes the other's change.
- Approval is two commits (`release_service.py:330`), though `staging.py:105`
  says "atomically": a kill between them leaves an approved release that is not
  admin verified. `AdminTrustIsEarned` is the direction that holds.
- `_get_hash_after_add` (`qbittorrent.py:296`) guesses the hash from the recent
  torrents; of two concurrent sends one may store the other's.
- Nobody reads the body of qBittorrent's answer to an added torrent
  (`qbittorrent.py:214-220`): after a refusal in it, a URL that is never fetched, or
  a torrent the client has from elsewhere (`:307-308`), the release is queued with no
  job of its own.
- Of SABnzbd's answer to a URL `action_service.py:162` looks for `ids`, while the
  answer in `test_phase0_features.py:400` has `nzo_ids`: with that one the job id is
  never stored.
- A callback for an earlier job settles a release that was sent again meanwhile
  (`hooks.py:349` looks at the state only).
- Two sends of one approved release may both submit it (`action_service.py:131`).
- A release rejected while it is being sent is submitted all the same.
- A release cannot be rejected once queued, downloaded or failed.
- The automatic rejection writes no audit entry (README of the repository: audit
  logs capture all state changes).
- A scan that found an entry before its deletion still stores releases for it
  (`release_service.py:133`).
- The rule "unsigned" rejects invalid signatures only
  (`release_rules_service.py:148`), though its message says "missing or invalid".
- After hash lookups the flag is computed from the number of reasons alone
  (`analysis_service.py:229-242`): at high sensitivity a RESTRICTED release may
  become WARNING by a lookup that found nothing.
- "developer verified" has a third ground that the list of `trust_service.py:46-49`
  does not name: a clear flag and a match quality above 0.8.
- A match of NSRL overwrites the hash status of a verdict of VirusTotal; the
  release stays BLOCKED but is "developer verified" (`trust_service.py:57`).
- "valid signature with matching publisher" (`trust_service.py:46`) is checked
  as valid signature and any publisher.
- `analyze_release` passes the engine no `name`, so the piracy scan that
  `engine.py:12-13` describes for the release name looks at the version instead.
- `h_count > warning_thresh` (`engine.py:121`) with the thresholds of its
  docstring never gives WARNING: the count above the limit is already RESTRICTED.
- `POST /users` and the password reset construct `PasswordPolicyService` with one
  argument instead of two (`users.py:68`, `:175`), so both always fail.
- `update_user` has no guard: a PATCH may demote or deactivate the last admin.
- A PATCH between the guard and the commit of `deactivate_user` makes it
  deactivate the last admin after all (no property: without the race it would
  only restate the guard).
- Two visits of the enrolment page, or a confirmation and a disabling of 2FA, that
  loaded the same row may leave TOTP enabled with a secret that no code has
  confirmed, or with none (`routes.py:248` says the confirmed secret is not
  overwritten).
- A viewer who has not accepted the disclaimer cannot: the page and the handler
  require an admin (`routes.py:376`), and the gate of `main.py` lets nobody else
  past.
- `require_auth` exempts `/api/` from the forced password change, so the 403 its
  docstring promises is never sent.
- An import drops the fields that `create_software` does not take (monitored, tags,
  profile, version pin). When an insert's commit fails, the error is counted and
  the loop goes on with a session in a failed transaction: the next lookup raises
  and the request ends with a 500 after entries were stored.
- `get_latest_downloaded_version` orders by `created_at`, though its docstring says
  "most recently downloaded". `find_upgrades` has no callers.
- A scan announces the first newer result, that is the best match, not the highest
  version.
- A major pin rejects versions with a leading "v"; check-version drops the part
  "v7" or "1-beta" from the tuple it orders by.
- Unknown verdicts are rechecked, and every recheck adds records; those that
  are committed after the release was deleted are rechecked for ever. A release for which every remote source was silent
  at its first check has no record and is never rechecked.
- An empty answer of clamd (`clamav.py:146-148`), a VirusTotal report without counts
  (`virustotal.py:60-71`) and an empty report of CIRCL are recorded as a known good
  hash. Such a verdict is not rechecked on its own account.
- A failed fetch of the MISP lists is cached as an empty list until the process
  ends.
- With two workers and one set to keep, a prune may delete a set while the only
  newer one is incomplete. The live SQLite file is copied while it may be written
  (`backup_service.py:88`).
- Two password changes at once store the same former password twice, so the history
  reaches less far back.
- The current password is not in the history: it may be chosen again, though the
  reply speaks of the last n passwords (`auth_routes.py:69`).

## Not modelled

| Part | Why |
|---|---|
| Language preference, forced password change, password reset | read by rendering only; nothing ever sets the second; the third always raises |
| The GitHub adapter | keeps no state: one page of a repository's releases, each mapped to a result |
| The patterns of release rules | evidence of `Assessment` |
| `find_upgrades`, library export, statistics | no callers; views |
| Which posts a pattern matches, text similarity | data of `NewznabSearch` |
| Pattern lists of the scanners, signature cryptography, XML parsing | data whose outcome is evidence of the models here |
| Notifications, statistics, queues, manifest export | nothing reads their outcome back |
| Pages, translations, contributors, middleware | rendering and response headers |
| Command line, migrations, seeds | one-shot scripts |
| AI assistant, push notifications, metrics (`api/v1/ai.py`, `push.py`, `metrics.py`) | requests to outside services, a table of browser subscriptions, counts; nothing modelled depends on them |
| Search filters (`search_filter_service.py`) | a pure choice among the results one request returns |
| The recheck a completion callback starts (`hooks.py:405-413`) | one more round of the recheck loop, but on the session of the request, which may be closed before it ends |

## Plan

What is left: the settings register for imports of several keys; which handlers of
`Accounts` can be overtaken at all.
