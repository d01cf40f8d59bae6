------------------------------ MODULE Assessment ------------------------------
(***************************************************************************)
(* How the pipeline judges a found release: AnalysisEngine, the hash       *)
(* lookups of AnalysisService, TrustService, the rules of the software     *)
(* entry and the auto-approval threshold of the scheduler, while admins    *)
(* may change the settings between any two steps.                          *)
(*                                                                         *)
(* Scores are in thousandths.  What the pattern scanners and the services  *)
(* outside find in a release is part of its evidence.                      *)
(***************************************************************************)
EXTENDS ReleaseStates, Naturals

CONSTANT Cases      \* the releases considered

Score == 0..1000

Sensitivity == {"low", "medium", "high"}

\* publisher: against the expected one ("unchecked": none is expected).
\* assets: what verifying the signature assets returns ("none": there are
\* no such assets).
\* names: flags the asset names raise, 1 for unusual files, 2 for suspicious
\* patterns, whose files always count as unusual too.
\* sha256: a hash is given or found on the vendor's page; malicious, known:
\* what VirusTotal and NSRL have on it.
\* barred: the version pin, the type filter or a name rule is against it.
Evidence ==
    [source : {"github_admin", "github", "usenet", "other"},
     publisher : {"expected", "different", "unchecked", "none"},
     version : BOOLEAN, origin : BOOLEAN,
     assets : {"none", "valid", "invalid", "no_signature", "key_not_found"},
     names : 0..2, piracy : BOOLEAN,
     sha256 : BOOLEAN, malicious : BOOLEAN, known : BOOLEAN,
     barred : BOOLEAN, rules : SUBSET {"unsigned", "wrong_publisher"},
     threshold : Score]

ASSUME CasesAssumption == Cases \subseteq Evidence

VARIABLES
    release,    \* the evidence of the release at hand
    settings,   \* the part of softarr.ini that the analysis reads
    stage,      \* what the pipeline does next
    result,     \* analysis_results
    row         \* the columns of the release that depend on them

vars == <<release, settings, stage, result, row>>

Settings == [sensitivity : Sensitivity, antipiracy : BOOLEAN,
             virustotal : BOOLEAN, nsrl : BOOLEAN]

Signature == {"valid", "invalid", "not_signed", "no_signature", "key_not_found", "none"}

\* piracy, malicious: the corresponding texts are in flag_reasons.
Result == [sig : Signature, hash : {"unknown", "match", "mismatch"},
           piracy : BOOLEAN, malicious : BOOLEAN,
           flag : FlagStatus, quality : Score]

\* An empty analysis_results.
NoResult == [sig |-> "none", hash |-> "unknown", piracy |-> FALSE,
             malicious |-> FALSE, flag |-> "none", quality |-> 0]

\* "unborn": the row is not inserted yet.
Row == [state : WorkflowState \cup {"unborn"}, trust : TrustStatus,
        flag : FlagStatus, confidence : Score]

Stage == {"discover", "analyse", "virustotal", "nsrl", "refresh", "trust",
          "rules", "reject", "auto", "done"}

AssessTypeOK ==
    /\ release \in Cases
    /\ settings \in Settings
    /\ stage \in Stage
    /\ result \in Result
    /\ row \in Row

AssessInit ==
    /\ release \in Cases
    /\ settings \in Settings
    /\ stage = "discover"
    /\ result = NoResult
    /\ row = [state |-> "unborn", trust |-> "unverified", flag |-> "none",
              confidence |-> 0]

\* The pipeline inserts the row before anything is known of it.
Discover ==
    /\ stage = "discover"
    /\ row' = [row EXCEPT !.state = "discovered"]
    /\ stage' = "analyse"
    /\ UNCHANGED <<release, settings, result>>

-----------------------------------------------------------------------------
(* The analysis engine.                                                    *)

Count(b) == IF b THEN 1 ELSE 0

AtMost(n, limit) == IF n > limit THEN limit ELSE n

CheckSignature(e) ==
    IF e.assets # "none" /\ e.origin THEN e.assets
    ELSE IF e.publisher = "expected" THEN "valid" ELSE "not_signed"

SourceTrust(e) ==
    CASE e.source = "github_admin" -> 900
      [] e.source = "github" -> 800
      [] e.source = "usenet" -> 300
      [] e.source = "other" -> 500

MatchQuality(e) ==
    AtMost(500 + (IF e.publisher = "expected" THEN 300 ELSE 0)
               + 100 * Count(e.version) + 100 * Count(e.origin), 1000)

Confidence(e, quality) == (SourceTrust(e) + quality) \div 2

RestrictedAt(s) == CASE s = "low" -> 3 [] s = "medium" -> 2 [] s = "high" -> 1
WarningAbove(s) == CASE s = "low" -> 2 [] s = "medium" -> 1 [] s = "high" -> 0

\* Variant with a bug: the thresholds of low and high are mixed up.
FlagStatusSwapped(e, sig, piracy, s) ==
    LET count == e.names + Count(piracy)
        limit == CASE s = "low" -> 1 [] s = "medium" -> 2 [] s = "high" -> 3
    IN  IF piracy \/ sig = "invalid" THEN "blocked"
        ELSE IF count >= limit THEN "restricted" ELSE "none"

\* Flags of the signature do not count towards the thresholds.
FlagStatusOf(e, sig, piracy, s) ==
    LET count == e.names + Count(piracy)
    IN  IF piracy \/ sig = "invalid" THEN "blocked"
        ELSE IF count >= RestrictedAt(s) THEN "restricted"
        ELSE IF count > WarningAbove(s) THEN "warning"
        ELSE "none"

Rated(r, flag, confidence) == [r EXCEPT !.flag = flag, !.confidence = confidence]

\* Variant with a bug: the flag is stored as it was before this step.
StoreAnalysisEarly(r) ==
    row' = Rated(row, result.flag, Confidence(release, r.quality))

\* The row takes over flag and confidence when the analysis commits.
StoreAnalysis(r) == row' = Rated(row, r.flag, Confidence(release, r.quality))

\* AnalysisEngine.analyze; the service hands it no hashes to compare.
Analyse ==
    LET sig == CheckSignature(release)
        piracy == settings.antipiracy /\ release.piracy
        found == [sig |-> sig, hash |-> "unknown", piracy |-> piracy, malicious |-> FALSE,
                  flag |-> FlagStatusOf(release, sig, piracy, settings.sensitivity),
                  quality |-> MatchQuality(release)]
    IN  /\ stage = "analyse"
        /\ result' = found
        /\ IF release.sha256
           THEN stage' = "virustotal" /\ UNCHANGED row
           ELSE stage' = "refresh" /\ StoreAnalysis(found)
        /\ UNCHANGED <<release, settings>>

-----------------------------------------------------------------------------
(* The hash lookups.                                                       *)

\* A lookup that fails, or knows nothing, is inconclusive.
VirusTotal ==
    /\ stage = "virustotal"
    /\ \E answered \in BOOLEAN :
          result' = IF settings.virustotal /\ answered /\ release.malicious
                    THEN [result EXCEPT !.malicious = TRUE, !.hash = "mismatch",
                                        !.flag = "blocked"]
                    ELSE result
    /\ stage' = "nsrl"
    /\ UNCHANGED <<release, settings, row>>

Reasons(r) ==
    release.names + Count(r.piracy) + Count(r.sig = "invalid") + Count(r.malicious)

\* Variant with a bug: the flag is computed anew whatever it was.
ReflagAlways(r) ==
    CASE r.hash = "mismatch" \/ r.sig = "invalid" -> "blocked"
      [] ~(r.hash = "mismatch" \/ r.sig = "invalid") ->
            IF Reasons(r) >= 2 THEN "restricted"
            ELSE IF Reasons(r) = 1 THEN "warning" ELSE "none"

\* The flag after the lookups: it goes by the number of reasons, whatever the
\* sensitivity, unless the release is blocked already.
Reflag(r) ==
    IF r.flag = "blocked" \/ r.hash = "mismatch" \/ r.sig = "invalid" THEN "blocked"
    ELSE IF Reasons(r) >= 2 THEN "restricted"
    ELSE IF Reasons(r) = 1 THEN "warning"
    ELSE "none"

\* NSRL only knows good files.
Nsrl ==
    /\ stage = "nsrl"
    /\ \E answered \in BOOLEAN :
          LET boosted == IF settings.nsrl /\ answered /\ release.known
                         THEN [result EXCEPT !.hash = "match",
                                             !.quality = AtMost(@ + 200, 1000)]
                         ELSE result
              final == [boosted EXCEPT !.flag = Reflag(boosted)]
          IN  result' = final /\ StoreAnalysis(final)
    /\ stage' = "refresh"
    /\ UNCHANGED <<release, settings>>

\* The analysis reads the row it has committed back.
Refresh ==
    /\ stage = "refresh"
    /\ stage' = "trust"
    /\ UNCHANGED <<release, settings, result, row>>

\* Variant with a bug: what was stored before the failure stays.
AnalysisFailsKept ==
    /\ stage \in {"analyse", "virustotal", "nsrl", "refresh"}
    /\ result' = NoResult
    /\ stage' = "trust"
    /\ UNCHANGED <<release, settings, row>>

\* An exception anywhere in the analysis, the refresh after its commit
\* included: the pipeline resets the row and goes on.
AnalysisFails ==
    /\ stage \in {"analyse", "virustotal", "nsrl", "refresh"}
    /\ result' = NoResult
    /\ row' = Rated(row, "none", 0)
    /\ stage' = "trust"
    /\ UNCHANGED <<release, settings>>

-----------------------------------------------------------------------------
(* What follows from the analysis.                                         *)

TrustStatusOf(e, r, flag) ==
    IF \/ r.sig = "valid" /\ e.publisher # "none"
       \/ r.hash = "match"
       \/ flag = "none" /\ r.quality > 800 /\ r.sig # "invalid"
    THEN "developer_verified" ELSE "unverified"

DetermineTrust ==
    /\ stage = "trust"
    /\ row' = [row EXCEPT !.trust = TrustStatusOf(release, result, row.flag)]
    /\ stage' = "rules"
    /\ UNCHANGED <<release, settings, result>>

\* "unsigned" looks for invalid signatures only.
RejectedByRules(e, sig) ==
    \/ e.barred
    \/ "unsigned" \in e.rules /\ sig = "invalid"
    \/ "wrong_publisher" \in e.rules /\ e.publisher = "different"

\* The rules are asked; what they reject goes to transition_state.
ApplyRules ==
    /\ stage = "rules"
    /\ stage' = IF RejectedByRules(release, result.sig) THEN "reject" ELSE "auto"
    /\ UNCHANGED <<release, settings, result, row>>

\* A refusal would only be logged.
Reject ==
    /\ stage = "reject"
    /\ row' = IF "rejected" \in ValidTransitions[row.state]
              THEN [row EXCEPT !.state = "rejected"] ELSE row
    /\ stage' = "auto"
    /\ UNCHANGED <<release, settings, result>>

\* Variant with a bug: approve_release does not ask the transition table.
AutoApproveUnchecked ==
    /\ stage = "auto"
    /\ row' = IF release.threshold > 0 /\ row.confidence >= release.threshold
              THEN [row EXCEPT !.state = "approved", !.trust = "admin_verified"]
              ELSE row
    /\ stage' = "done"
    /\ UNCHANGED <<release, settings, result>>

\* The scheduler approves what reaches the threshold of the entry's profile,
\* as far as approve_release lets it.
AutoApprove ==
    /\ stage = "auto"
    /\ row' = IF /\ release.threshold > 0
                 /\ row.confidence >= release.threshold
                 /\ "approved" \in ValidTransitions[row.state]
              THEN [row EXCEPT !.state = "approved", !.trust = "admin_verified"]
              ELSE row
    /\ stage' = "done"
    /\ UNCHANGED <<release, settings, result>>

ChangeSettings ==
    /\ settings' \in Settings
    /\ UNCHANGED <<release, stage, result, row>>

AssessNext ==
    \/ Discover \/ Analyse \/ VirusTotal \/ Nsrl \/ Refresh \/ AnalysisFails
    \/ DetermineTrust \/ ApplyRules \/ Reject \/ AutoApprove
    \/ ChangeSettings

AssessSpec == AssessInit /\ [][AssessNext]_vars

-----------------------------------------------------------------------------
(* Properties.                                                             *)

Judged == stage \in {"refresh", "trust", "rules", "reject", "auto", "done"}

(***************************************************************************)
(* "Hash mismatches and invalid signatures always produce BLOCKED          *)
(* regardless of sensitivity" (engine.py), and so do piracy keywords and a *)
(* verdict of VirusTotal: whatever the lookups that follow find, and       *)
(* whatever settings change meanwhile, the stored flag is BLOCKED.         *)
(***************************************************************************)
IntegrityFailure == result.sig = "invalid" \/ result.piracy \/ result.malicious

IntegrityFailuresBlock == Judged /\ IntegrityFailure => row.flag = "blocked"

(***************************************************************************)
(* A higher sensitivity never makes the engine judge a release less        *)
(* severely.                                                               *)
(***************************************************************************)
Severity(flag) ==
    CASE flag = "none" -> 0 [] flag = "warning" -> 1
      [] flag = "restricted" -> 2 [] flag = "blocked" -> 3

Stricter(s, t) == s = "low" \/ s = t \/ t = "high"

StricterIsNoLaxer ==
    \A s, t \in Sensitivity :
        LET sig == CheckSignature(release)
            piracy == settings.antipiracy /\ release.piracy
        IN  Stricter(s, t) =>
               Severity(FlagStatusOf(release, sig, piracy, s))
                   <= Severity(FlagStatusOf(release, sig, piracy, t))

(***************************************************************************)
(* An analysis that failed, half way or after its commit, leaves nothing   *)
(* of what it had found: no score, no flag, no trust and no approval by    *)
(* the scheduler.                                                          *)
(***************************************************************************)
FailedAnalysisEarnsNothing ==
    Judged /\ result.sig = "none" =>
        /\ row.confidence = 0 /\ row.flag = "none"
        /\ row.trust = "unverified" /\ row.state # "approved"

(***************************************************************************)
(* The inductive invariant: what the engine and the lookups have found so  *)
(* far determines the flag, and the row has taken it over.                 *)
(***************************************************************************)
AssessInv ==
    /\ AssessTypeOK
    /\ stage \in {"virustotal", "nsrl"} \/ Judged =>
          (IntegrityFailure => result.flag = "blocked")
    /\ stage \in {"virustotal", "nsrl"} => result.sig # "none"
    /\ Judged => row.flag = result.flag
    /\ result.sig = "none" => result = NoResult /\ row.confidence = 0
    /\ stage \in {"discover", "analyse", "virustotal", "nsrl", "refresh", "trust"} =>
          row.trust = "unverified"
    /\ row.state = "unborn" <=> stage = "discover"
    /\ row.state = "rejected" => stage \in {"auto", "done"}
    /\ row.state \in {"unborn", "discovered", "rejected"}
    /\ FailedAnalysisEarnsNothing

-----------------------------------------------------------------------------
(* The pipeline of ReviewWorkflow.                                         *)

\* The handler of ReviewWorkflow that the pipeline is, with one row to see to.
TaskAt(pc, target) ==
    [op |-> "process", pc |-> pc, rel |-> "release", target |-> target,
     seen |-> "discovered", seenTrust |-> "unverified", todo |-> {}]

NoTask ==
    [op |-> "none", pc |-> "idle", rel |-> "none", target |-> "discovered",
     seen |-> "discovered", seenTrust |-> "unverified", todo |-> {}]

PipelineTask ==
    CASE stage \in {"analyse", "virustotal", "nsrl", "refresh"} -> TaskAt("analyse", "discovered")
      [] stage = "trust" -> TaskAt("verdict", "rejected")
      [] stage = "rules" -> TaskAt("rules", "rejected")
      [] stage = "reject" -> TaskAt("commit", "rejected")
      [] stage \in {"discover", "auto", "done"} -> NoTask

(***************************************************************************)
(* What the pipeline does to a release, seen from the release table, is    *)
(* what ReviewWorkflow says it may: its commits come in that order, the    *)
(* trust goes by a row just loaded, a rejection by the table, and nothing  *)
(* it finds, no failure and no threshold makes it do more.                 *)
(***************************************************************************)
Workflow == INSTANCE ReviewWorkflow WITH
    Releases <- {"release"}, Handlers <- {"pipeline"}, Pollers <- {},
    NoRelease <- "none", ManualTargets <- {}, AnalysisFlags <- FlagStatus,
    AutoApprove <- TRUE,
    wf <- [r \in {"release"} |-> row.state],
    trust <- [r \in {"release"} |-> row.trust],
    flag <- [r \in {"release"} |-> row.flag],
    cleared <- {},
    task <- [t \in {"pipeline"} |-> PipelineTask]

ImplementsWorkflow == Workflow!ReviewSpec

-----------------------------------------------------------------------------
(* A claim of the documentation that the code does not keep.               *)

(***************************************************************************)
(* "releases whose confidence_score meets or exceeds that threshold are    *)
(* automatically approved after processing" (scheduler_service.py), those  *)
(* that the rules reject aside.                                            *)
(***************************************************************************)
ConfidentIsApproved ==
    (/\ stage = "done"
     /\ release.threshold > 0
     /\ row.confidence >= release.threshold
     /\ row.state # "rejected") => row.state = "approved"

=============================================================================
