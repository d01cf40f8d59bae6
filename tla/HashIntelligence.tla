-------------------------- MODULE HashIntelligence --------------------------
(***************************************************************************)
(* The verdicts of the hash sources on releases.  A check asks every       *)
(* enabled source in turn and commits what they said in one transaction;   *)
(* the analysis of a release starts the first check, and a loop repeats    *)
(* the check of every release that has an "unknown" verdict due for one.   *)
(*                                                                         *)
(* Most sources are asked over the network, and no answer leaves no        *)
(* record; the ClamAV daemon's silence is recorded as "unknown"; an answer *)
(* that does not say what was asked may be taken for a good verdict; the   *)
(* MISP list is fetched once per process and then asked in memory, and a   *)
(* fetch that fails leaves an empty list there.  A recheck adds records    *)
(* and changes none: the old "unknown" stays due.                          *)
(***************************************************************************)
EXTENDS Naturals, Sequences, FiniteSets

CONSTANTS
    Releases,
    NoRelease,
    Sources,    \* the enabled sources in the order they are asked, each by
                \* its kind: "remote", "list" or "daemon"
    Known,      \* pairs <<release, source>> the source knows from the start
    Learnable,  \* pairs it may come to know
    Unfetched,  \* the list has not been fetched yet
    MaxFaults   \* bound on restarts and failed commits

ASSUME HashAssumption ==
    /\ NoRelease \notin Releases
    /\ Sources \in Seq({"remote", "list", "daemon"})
    /\ Known \cup Learnable \subseteq Releases \X DOMAIN Sources
    /\ MaxFaults \in Nat
    \* Only the MISP warning lists are fetched.
    /\ \A s, t \in DOMAIN Sources :
          Sources[s] = "list" /\ Sources[t] = "list" => s = t

VARIABLES
    present,    \* releases in the table
    knows,      \* what the sources know
    list,       \* the MISP list of the process, or Unfetched
    verdicts,   \* the verdicts on record of each release and source
    check,      \* the checks under way: the loop's and a first one
    faults

hashVars == <<present, knows, list, verdicts, check, faults>>

Checkers == {"loop", "first"}
Asked == DOMAIN Sources

\* said: what the sources asked so far have said.  todo: the releases whose
\* records the loop has loaded.
NoCheck == [release |-> NoRelease, next |-> 1,
            said |-> [s \in Asked |-> "none"], todo |-> {}]

HashInit ==
    /\ present = Releases
    /\ knows = Known
    /\ list = Unfetched
    /\ verdicts = [r \in Releases |-> [s \in Asked |-> {}]]
    /\ check = [c \in Checkers |-> NoCheck]
    /\ faults = 0

-----------------------------------------------------------------------------
(* The sources and the releases.                                         *)

Learn(r, s) ==
    /\ <<r, s>> \in Learnable \ knows
    /\ knows' = knows \cup {<<r, s>>}
    /\ UNCHANGED <<present, list, verdicts, check, faults>>

\* The release's records go with it.
DeleteRelease(r) ==
    /\ r \in present
    /\ present' = present \ {r}
    /\ verdicts' = [verdicts EXCEPT ![r] = [s \in Asked |-> {}]]
    /\ UNCHANGED <<knows, list, check, faults>>

Restart ==
    /\ faults < MaxFaults
    /\ faults' = faults + 1
    /\ list' = Unfetched
    /\ check' = [c \in Checkers |-> NoCheck]
    /\ UNCHANGED <<present, knows, verdicts>>

-----------------------------------------------------------------------------
(* Checks.                                                                 *)

\* The analysis of a release, in a task of its own.
FirstCheck(r) ==
    /\ check["first"].release = NoRelease
    /\ r \in present
    /\ \A s \in Asked : verdicts[r][s] = {}
    /\ check' = [check EXCEPT !["first"].release = r]
    /\ UNCHANGED <<present, knows, list, verdicts, faults>>

\* Variant with a bug: the releases that have a verdict are left out.
UnknownWithoutVerdict ==
    {r \in Releases : /\ \E s \in Asked : "unknown" \in verdicts[r][s]
                      /\ \A s \in Asked : "known" \notin verdicts[r][s]}
Unknown == {r \in Releases : \E s \in Asked : "unknown" \in verdicts[r][s]}

Idle(c) == check[c].release = NoRelease

\* The records whose hash_recheck_interval_hours have gone by: any of those
\* that say "unknown".
BeginRound ==
    /\ Idle("loop")
    /\ check["loop"].todo = {}
    /\ \E due \in SUBSET Unknown \ {{}} :
          check' = [check EXCEPT !["loop"].todo = due]
    /\ UNCHANGED <<present, knows, list, verdicts, faults>>

NextRecord(r) ==
    /\ Idle("loop")
    /\ r \in check["loop"].todo
    /\ check' = [check EXCEPT !["loop"].release = r, !["loop"].todo = @ \ {r}]
    /\ UNCHANGED <<present, knows, list, verdicts, faults>>

Asking(c, s) == ~Idle(c) /\ check[c].next = s /\ s \in Asked

Said(c, s, verdict) ==
    check' = [check EXCEPT ![c].next = s + 1, ![c].said[s] = verdict]

VerdictOf(known) == IF known THEN "known" ELSE "unknown"

\* A remote source or the daemon answers.
SourceAnswers(c, s) ==
    /\ Asking(c, s)
    /\ Sources[s] # "list"
    /\ Said(c, s, VerdictOf(<<check[c].release, s>> \in knows))
    /\ UNCHANGED <<present, knows, list, verdicts, faults>>

\* What is made of no connection, a timeout, another status, or an answer that
\* does not say what was asked: nothing or "unknown", but a VirusTotal report
\* without counts, an empty one of CIRCL and a connection that clamd closes
\* without a word all pass for a hash that is known to be good.
Misheard(s) ==
    {"unknown", "mistaken"} \cup (IF Sources[s] = "daemon" THEN {} ELSE {"none"})

SourceFails(c, s) ==
    /\ Asking(c, s)
    /\ Sources[s] # "list"
    /\ \E verdict \in Misheard(s) : Said(c, s, verdict)
    /\ UNCHANGED <<present, knows, list, verdicts, faults>>

\* The list is fetched, or the fetch fails and stands for an empty list.
FetchList(c, s) ==
    /\ Asking(c, s)
    /\ Sources[s] = "list"
    /\ list = Unfetched
    /\ list' \in {{}, {r \in Releases : <<r, s>> \in knows}}
    /\ UNCHANGED <<present, knows, verdicts, check, faults>>

ListAnswers(c, s) ==
    /\ Asking(c, s)
    /\ Sources[s] = "list"
    /\ list # Unfetched
    /\ Said(c, s, VerdictOf(check[c].release \in list))
    /\ UNCHANGED <<present, knows, list, verdicts, faults>>

Finished(c) == check[c].next > Len(Sources)

\* A commit fails only so often; it ends the loop's round.
CommitFails(c) ==
    /\ ~Idle(c) /\ Finished(c)
    /\ faults < MaxFaults
    /\ faults' = faults + 1
    /\ check' = [check EXCEPT ![c] = NoCheck]
    /\ UNCHANGED <<present, knows, list, verdicts>>

\* Every answer becomes a record of its own, whatever is on record already.
Recorded(r, said) == [s \in Asked |-> verdicts[r][s] \cup ({said[s]} \ {"none"})]

\* Whether or not the release still is.
CommitRecords(c) ==
    LET r == check[c].release
    IN  /\ ~Idle(c) /\ Finished(c)
        /\ verdicts' = [verdicts EXCEPT ![r] = Recorded(r, check[c].said)]
        /\ check' = [check EXCEPT ![c] = [NoCheck EXCEPT !.todo = check[c].todo]]
        /\ UNCHANGED <<present, knows, list, faults>>

AskNext(c) ==
    \E s \in Asked : SourceAnswers(c, s) \/ SourceFails(c, s)
                     \/ FetchList(c, s) \/ ListAnswers(c, s)

HashNext ==
    \/ \E r \in Releases, s \in Asked : Learn(r, s)
    \/ \E r \in Releases : DeleteRelease(r) \/ FirstCheck(r) \/ NextRecord(r)
    \/ Restart \/ BeginRound
    \/ \E c \in Checkers : AskNext(c) \/ CommitFails(c) \/ CommitRecords(c)

HashSpec == HashInit /\ [][HashNext]_hashVars

\* The loop runs, time passes for every record, requests end, and a source
\* that is asked about a release again and again is at last reached.
HashFairness ==
    /\ WF_hashVars(AskNext("loop")) /\ WF_hashVars(CommitRecords("loop"))
    /\ \A r \in Releases :
          /\ WF_hashVars(NextRecord(r))
          /\ SF_hashVars(BeginRound /\ r \in check'["loop"].todo)
          /\ \A s \in {q \in Asked : Sources[q] # "list"} :
                SF_hashVars(check["loop"].release = r /\ SourceAnswers("loop", s))

-----------------------------------------------------------------------------

HashTypeOK ==
    /\ present \subseteq Releases /\ knows \subseteq Releases \X Asked
    /\ list \in {Unfetched} \cup SUBSET Releases
    /\ verdicts \in [Releases -> [Asked -> SUBSET {"known", "mistaken", "unknown"}]]
    /\ check \in [Checkers -> [release : Releases \cup {NoRelease}, next : Nat,
                     said : [Asked -> {"known", "mistaken", "unknown", "none"}],
                     todo : SUBSET Releases]]
    /\ faults \in 0..MaxFaults

\* A release with an inconclusive verdict of any source gets, sooner or later,
\* the verdict of every source that knows its hash, unless it is deleted:
\* neither silent sources and wrong answers, nor verdicts of other sources, nor
\* failed commits and restarts take it off the list.  The list source is left
\* out: what its process missed when it fetched the list, it never sees.
VerdictArrives ==
    \A k \in {p \in Known \cup Learnable : Sources[p[2]] # "list"} :
        (k \in knows /\ \E s \in Asked : "unknown" \in verdicts[k[1]][s])
            ~> ("known" \in verdicts[k[1]][k[2]] \/ k[1] \notin present)

=============================================================================
