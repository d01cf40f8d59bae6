-------------------------- MODULE AssessmentProofs --------------------------
(***************************************************************************)
(* Proofs about Assessment, for any set of releases whatever their         *)
(* evidence, and for settings that change at any time.                     *)
(***************************************************************************)
EXTENDS Assessment, TLAPS

-----------------------------------------------------------------------------
(* The operators of the engine.                                            *)

(***************************************************************************)
(* What the signature check returns, never the mark of a failed analysis.  *)
(***************************************************************************)
LEMMA SignatureChecked ==
    ASSUME NEW e \in Evidence
    PROVE  CheckSignature(e) \in Signature \ {"none"}
BY DEF CheckSignature, Signature, Evidence

(***************************************************************************)
(* The flag of the engine is a flag, and an invalid signature or a piracy  *)
(* keyword blocks at every sensitivity.                                    *)
(***************************************************************************)
LEMMA FlagOfEngine ==
    ASSUME NEW e \in Evidence, NEW sig, NEW piracy \in BOOLEAN,
           NEW s \in Sensitivity
    PROVE  /\ FlagStatusOf(e, sig, piracy, s) \in FlagStatus
           /\ piracy \/ sig = "invalid" =>
                 FlagStatusOf(e, sig, piracy, s) = "blocked"
BY DEF FlagStatusOf, FlagStatus

(***************************************************************************)
(* A limited sum is within its limit.                                      *)
(***************************************************************************)
LEMMA AtMostBounds ==
    ASSUME NEW n \in Nat
    PROVE  AtMost(n, 1000) \in Score
BY DEF AtMost, Score

LEMMA QualityBounds ==
    ASSUME NEW e \in Evidence
    PROVE  MatchQuality(e) \in Score
<1>1. Count(e.version) \in Nat /\ Count(e.origin) \in Nat
  BY DEF Count
<1>2. 500 + (IF e.publisher = "expected" THEN 300 ELSE 0)
          + 100 * Count(e.version) + 100 * Count(e.origin) \in Nat
  BY <1>1
<1> QED
  BY <1>2, AtMostBounds DEF MatchQuality

LEMMA ConfidenceBounds ==
    ASSUME NEW e \in Evidence, NEW q \in Score
    PROVE  Confidence(e, q) \in Score
<1>1. e.source \in {"github_admin", "github", "usenet", "other"}
  BY DEF Evidence
<1>2. Confidence(e, q) \in {(300 + q) \div 2, (500 + q) \div 2,
                            (800 + q) \div 2, (900 + q) \div 2}
  BY <1>1 DEF Confidence, SourceTrust
<1>3. q \in 0..1000
  BY DEF Score
<1>4. /\ (300 + q) \div 2 \in 0..1000 /\ (500 + q) \div 2 \in 0..1000
      /\ (800 + q) \div 2 \in 0..1000 /\ (900 + q) \div 2 \in 0..1000
  BY <1>3
<1> QED
  BY <1>2, <1>4 DEF Score

(***************************************************************************)
(* Storing the flag and the confidence leaves the rest of the row alone.   *)
(***************************************************************************)
LEMMA RatedRow ==
    ASSUME NEW r \in Row, NEW f \in FlagStatus, NEW c \in Score
    PROVE  /\ Rated(r, f, c) \in Row
           /\ Rated(r, f, c).flag = f /\ Rated(r, f, c).confidence = c
           /\ Rated(r, f, c).trust = r.trust /\ Rated(r, f, c).state = r.state
<1> DEFINE flagged == [r EXCEPT !.flag = f]
<1>1. flagged \in Row
  BY DEF Row
<1>2. flagged.flag = f /\ flagged.trust = r.trust /\ flagged.state = r.state
  BY DEF Row
<1>3. Rated(r, f, c) = [flagged EXCEPT !.confidence = c]
  BY DEF Rated
<1> HIDE DEF flagged
<1>4. Rated(r, f, c) \in Row
  BY <1>1, <1>3 DEF Row
<1>5. /\ Rated(r, f, c).flag = flagged.flag /\ Rated(r, f, c).confidence = c
      /\ Rated(r, f, c).trust = flagged.trust
      /\ Rated(r, f, c).state = flagged.state
  BY <1>1, <1>3 DEF Row
<1> QED
  BY <1>2, <1>4, <1>5

(***************************************************************************)
(* Computing the flag anew after the lookups keeps a block.                *)
(***************************************************************************)
LEMMA ReflagKeepsBlock ==
    ASSUME NEW r \in Result
    PROVE  /\ Reflag(r) \in FlagStatus
           /\ r.flag = "blocked" \/ r.sig = "invalid" => Reflag(r) = "blocked"
BY DEF Reflag, FlagStatus

-----------------------------------------------------------------------------
(* The invariant.                                                          *)

LEMMA AssessInitInv == AssessInit => AssessInv
<1> SUFFICES ASSUME AssessInit PROVE AssessInv
  OBVIOUS
<1> USE DEF AssessInit
<1>1. NoResult \in Result
  BY DEF NoResult, Result, Signature, FlagStatus, Score
<1>2. row \in Row
  BY DEF Row, WorkflowState, TrustStatus, FlagStatus, Score
<1>3. AssessTypeOK
  BY <1>1, <1>2 DEF AssessTypeOK, Stage
<1> QED
  BY <1>3 DEF AssessInv, Judged, IntegrityFailure, NoResult,
     FailedAnalysisEarnsNothing

LEMMA DiscoverInv == AssessInv /\ Discover => AssessInv'
<1> SUFFICES ASSUME AssessInv, Discover PROVE AssessInv'
  OBVIOUS
<1>1. AssessTypeOK /\ stage = "discover" /\ stage' = "analyse" /\ result' = result
      /\ row' = [row EXCEPT !.state = "discovered"]
      /\ release' = release /\ settings' = settings
  BY DEF AssessInv, Discover
<1>2. /\ row' \in Row /\ row'.state = "discovered" /\ row'.trust = row.trust
      /\ row'.flag = row.flag /\ row'.confidence = row.confidence
  BY <1>1 DEF AssessTypeOK, Row, WorkflowState
<1>3. AssessTypeOK'
  BY <1>1, <1>2 DEF AssessTypeOK, Stage
<1> QED
  BY <1>1, <1>2, <1>3 DEF AssessInv, Judged, IntegrityFailure,
     FailedAnalysisEarnsNothing

LEMMA AnalyseInv == AssessInv /\ Analyse => AssessInv'
<1> SUFFICES ASSUME AssessInv, Analyse PROVE AssessInv'
  OBVIOUS
<1> DEFINE sig == CheckSignature(release)
           piracy == settings.antipiracy /\ release.piracy
           flag == FlagStatusOf(release, sig, piracy, settings.sensitivity)
           quality == MatchQuality(release)
           found == [sig |-> sig, hash |-> "unknown", piracy |-> piracy,
                     malicious |-> FALSE, flag |-> flag, quality |-> quality]
<1>1. AssessTypeOK /\ release \in Evidence
  BY CasesAssumption DEF AssessInv, AssessTypeOK
<1>2. sig \in Signature /\ sig # "none"
  BY <1>1, SignatureChecked
<1>3. piracy \in BOOLEAN /\ settings.sensitivity \in Sensitivity
  BY <1>1 DEF AssessTypeOK, Settings, Evidence
<1>4. flag \in FlagStatus /\ (piracy \/ sig = "invalid" => flag = "blocked")
  <2> HIDE DEF sig, piracy
  <2> QED BY <1>1, <1>3, FlagOfEngine
<1>5. quality \in Score /\ Confidence(release, quality) \in Score
  <2>1. quality \in Score
    BY <1>1, QualityBounds
  <2> HIDE DEF quality
  <2> QED
    BY <1>1, <2>1, ConfidenceBounds
<1>6. /\ stage = "analyse" /\ result' = found
      /\ \/ release.sha256 /\ stage' = "virustotal" /\ row' = row
         \/ /\ stage' = "refresh"
            /\ row' = Rated(row, flag, Confidence(release, quality))
      /\ release' = release /\ settings' = settings
  BY DEF Analyse, StoreAnalysis
<1> HIDE DEF sig, piracy, flag, quality
<1>7. found \in Result
  BY <1>2, <1>3, <1>4, <1>5 DEF Result
<1>8. row \in Row /\ row.trust = "unverified" /\ row.state = "discovered"
  BY <1>1, <1>6 DEF AssessInv, AssessTypeOK
<1>9. /\ row' \in Row /\ row'.trust = "unverified"
      /\ row'.state = "discovered"
      /\ stage' = "refresh" => row'.flag = flag
  <2>1. CASE stage' = "virustotal" /\ row' = row
    BY <1>8, <2>1
  <2>2. CASE row' = Rated(row, flag, Confidence(release, quality))
    BY <1>4, <1>5, <1>8, <2>2, RatedRow
  <2> QED
    BY <1>6, <2>1, <2>2
<1>10. AssessTypeOK'
  BY <1>1, <1>6, <1>7, <1>9 DEF AssessTypeOK, Stage
<1>11. IntegrityFailure' => result'.flag = "blocked"
  BY <1>4, <1>6 DEF IntegrityFailure
<1> QED
  BY <1>2, <1>6, <1>9, <1>10, <1>11 DEF AssessInv, Judged,
     FailedAnalysisEarnsNothing

LEMMA VirusTotalInv == AssessInv /\ VirusTotal => AssessInv'
<1> SUFFICES ASSUME AssessInv, VirusTotal PROVE AssessInv'
  OBVIOUS
<1>1. AssessTypeOK /\ stage = "virustotal" /\ stage' = "nsrl"
      /\ release' = release /\ settings' = settings /\ row' = row
  BY DEF AssessInv, VirusTotal
<1>2. \/ result' = result
      \/ result' = [result EXCEPT !.malicious = TRUE, !.hash = "mismatch",
                                  !.flag = "blocked"]
  BY DEF VirusTotal
<1>3. result' \in Result /\ result'.sig = result.sig
  <2>1. result \in Result
    BY <1>1 DEF AssessTypeOK
  <2>2. CASE result' = result
    BY <2>1, <2>2
  <2>3. CASE result' = [result EXCEPT !.malicious = TRUE, !.hash = "mismatch",
                                      !.flag = "blocked"]
    <3> DEFINE m == [result EXCEPT !.malicious = TRUE]
               h == [m EXCEPT !.hash = "mismatch"]
    <3>1. m \in Result /\ m.sig = result.sig
      BY <2>1 DEF Result
    <3>2. result' = [h EXCEPT !.flag = "blocked"]
      BY <2>3
    <3> HIDE DEF m
    <3>3. h \in Result /\ h.sig = m.sig
      BY <3>1 DEF Result
    <3> HIDE DEF h
    <3>4. "blocked" \in FlagStatus
      BY DEF FlagStatus
    <3>5. result' \in Result
      BY <3>2, <3>3, <3>4 DEF Result
    <3>6. result'.sig = h.sig
      BY <3>2, <3>3 DEF Result
    <3> QED
      BY <3>1, <3>3, <3>5, <3>6
  <2> QED
    BY <1>2, <2>2, <2>3
<1>4. IntegrityFailure' => result'.flag = "blocked"
  BY <1>1, <1>2 DEF AssessInv, AssessTypeOK, Result, IntegrityFailure
<1>5. AssessTypeOK'
  BY <1>1, <1>3 DEF AssessTypeOK, Stage
<1> QED
  BY <1>1, <1>3, <1>4, <1>5 DEF AssessInv, Judged,
     FailedAnalysisEarnsNothing

LEMMA NsrlInv == AssessInv /\ Nsrl => AssessInv'
<1> SUFFICES ASSUME AssessInv, Nsrl PROVE AssessInv'
  OBVIOUS
<1>1. AssessTypeOK /\ stage = "nsrl" /\ stage' = "refresh"
      /\ release' = release /\ settings' = settings
  BY DEF AssessInv, Nsrl
<1>2. PICK answered \in BOOLEAN :
        LET b == IF settings.nsrl /\ answered /\ release.known
                 THEN [result EXCEPT !.hash = "match",
                                     !.quality = AtMost(@ + 200, 1000)]
                 ELSE result
            final == [b EXCEPT !.flag = Reflag(b)]
        IN  result' = final /\ StoreAnalysis(final)
  BY DEF Nsrl
<1> DEFINE quality == AtMost(result.quality + 200, 1000)
           boosted == IF settings.nsrl /\ answered /\ release.known
                      THEN [result EXCEPT !.hash = "match", !.quality = quality]
                      ELSE result
           flag == Reflag(boosted)
<1>3. /\ result \in Result /\ row \in Row /\ release \in Evidence
      /\ quality \in Score
  <2>1. result \in Result /\ row \in Row /\ release \in Evidence
    BY <1>1, CasesAssumption DEF AssessTypeOK
  <2>2. result.quality + 200 \in Nat
    BY <2>1 DEF Result, Score
  <2> QED
    BY <2>1, <2>2, AtMostBounds
<1>4. /\ boosted \in Result
      /\ boosted.sig = result.sig /\ boosted.flag = result.flag
      /\ boosted.piracy = result.piracy /\ boosted.malicious = result.malicious
  <2> HIDE DEF quality
  <2> DEFINE h == [result EXCEPT !.hash = "match"]
             q == [h EXCEPT !.quality = quality]
  <2>1. /\ h \in Result /\ h.sig = result.sig /\ h.flag = result.flag
        /\ h.piracy = result.piracy /\ h.malicious = result.malicious
    BY <1>3 DEF Result
  <2>2. boosted = q \/ boosted = result
    OBVIOUS
  <2> HIDE DEF h
  <2>3. q \in Result
    BY <1>3, <2>1 DEF Result
  <2>4. /\ q.sig = h.sig /\ q.flag = h.flag
        /\ q.piracy = h.piracy /\ q.malicious = h.malicious
    BY <2>1 DEF Result
  <2> HIDE DEF q, boosted
  <2> QED
    BY <1>3, <2>1, <2>2, <2>3, <2>4
<1> HIDE DEF boosted
<1>5. Reflag(boosted) \in FlagStatus
      /\ (boosted.flag = "blocked" \/ boosted.sig = "invalid" =>
             Reflag(boosted) = "blocked")
  BY <1>4, ReflagKeepsBlock
<1>6. /\ result' = [boosted EXCEPT !.flag = flag]
      /\ row' = Rated(row, result'.flag, Confidence(release, result'.quality))
  BY <1>2 DEF StoreAnalysis, boosted
<1> HIDE DEF flag
<1>7. /\ result' \in Result /\ result'.sig = result.sig
      /\ result'.piracy = result.piracy /\ result'.malicious = result.malicious
      /\ result'.flag = flag
  <2>1. flag \in FlagStatus
    BY <1>5 DEF flag
  <2>2. result' \in Result /\ result'.flag = flag
    BY <1>4, <1>6, <2>1 DEF Result
  <2>3. result'.sig = boosted.sig /\ result'.piracy = boosted.piracy
        /\ result'.malicious = boosted.malicious
    BY <1>4, <1>6 DEF Result
  <2> QED
    BY <1>4, <2>2, <2>3
<1>8. /\ row' \in Row /\ row'.flag = result'.flag
      /\ row'.trust = row.trust /\ row'.state = row.state
  <2>1. result'.quality \in Score /\ result'.flag \in FlagStatus
    BY <1>7 DEF Result
  <2>2. Confidence(release, result'.quality) \in Score
    BY <1>3, <2>1, ConfidenceBounds
  <2> QED
    BY <1>3, <1>6, <2>1, <2>2, RatedRow
<1>9. IntegrityFailure' => result'.flag = "blocked"
  BY <1>1, <1>4, <1>5, <1>7 DEF AssessInv, IntegrityFailure, flag
<1>10. AssessTypeOK'
  BY <1>1, <1>7, <1>8 DEF AssessTypeOK, Stage
<1>11. result'.sig # "none" /\ row'.trust = "unverified"
  BY <1>1, <1>7, <1>8 DEF AssessInv
<1> QED
  BY <1>1, <1>8, <1>9, <1>10, <1>11 DEF AssessInv, Judged,
     FailedAnalysisEarnsNothing

LEMMA RefreshInv == AssessInv /\ Refresh => AssessInv'
BY DEF AssessInv, AssessTypeOK, Stage, Refresh, Judged, IntegrityFailure,
   FailedAnalysisEarnsNothing

LEMMA AnalysisFailsInv == AssessInv /\ AnalysisFails => AssessInv'
<1> SUFFICES ASSUME AssessInv, AnalysisFails PROVE AssessInv'
  OBVIOUS
<1>1. AssessTypeOK /\ stage \in {"analyse", "virustotal", "nsrl", "refresh"}
      /\ stage' = "trust" /\ result' = NoResult
      /\ row' = Rated(row, "none", 0)
      /\ release' = release /\ settings' = settings
  BY DEF AssessInv, AnalysisFails
<1>2. NoResult \in Result
  BY DEF NoResult, Result, Signature, FlagStatus, Score
<1>3. /\ row' \in Row /\ row'.flag = "none" /\ row'.confidence = 0
      /\ row'.trust = row.trust /\ row'.state = row.state
  <2>1. row \in Row /\ "none" \in FlagStatus /\ 0 \in Score
    BY <1>1 DEF AssessTypeOK, FlagStatus, Score
  <2> QED
    BY <1>1, <2>1, RatedRow
<1>4. row.trust = "unverified" /\ row.state = "discovered"
  BY <1>1 DEF AssessInv
<1>5. AssessTypeOK'
  BY <1>1, <1>2, <1>3 DEF AssessTypeOK, Stage
<1> QED
  BY <1>1, <1>3, <1>4, <1>5 DEF AssessInv, NoResult, Judged, IntegrityFailure,
     FailedAnalysisEarnsNothing

LEMMA DetermineTrustInv == AssessInv /\ DetermineTrust => AssessInv'
<1> SUFFICES ASSUME AssessInv, DetermineTrust PROVE AssessInv'
  OBVIOUS
<1> DEFINE trust == TrustStatusOf(release, result, row.flag)
<1>1. AssessTypeOK /\ stage = "trust" /\ stage' = "rules" /\ result' = result
      /\ row' = [row EXCEPT !.trust = trust]
      /\ release' = release /\ settings' = settings
  BY DEF AssessInv, DetermineTrust
<1>2. trust \in TrustStatus
  BY DEF TrustStatusOf, TrustStatus
<1>3. result = NoResult => trust = "unverified"
  BY DEF TrustStatusOf, NoResult
<1> HIDE DEF trust
<1>4. /\ row' \in Row /\ row'.trust = trust /\ row'.flag = row.flag
      /\ row'.state = row.state /\ row'.confidence = row.confidence
  BY <1>1, <1>2 DEF AssessTypeOK, Row
<1>5. AssessTypeOK'
  BY <1>1, <1>4 DEF AssessTypeOK, Stage
<1> QED
  BY <1>1, <1>3, <1>4, <1>5 DEF AssessInv, Judged, IntegrityFailure,
     FailedAnalysisEarnsNothing

LEMMA ApplyRulesInv == AssessInv /\ ApplyRules => AssessInv'
<1> SUFFICES ASSUME AssessInv, ApplyRules PROVE AssessInv'
  OBVIOUS
<1>1. /\ stage = "rules" /\ stage' \in {"reject", "auto"}
      /\ UNCHANGED <<release, settings, result, row>>
  BY DEF ApplyRules
<1>2. AssessTypeOK'
  BY <1>1 DEF AssessInv, AssessTypeOK, Stage
<1> QED
  BY <1>1, <1>2 DEF AssessInv, Judged, IntegrityFailure,
     FailedAnalysisEarnsNothing

LEMMA RejectInv == AssessInv /\ Reject => AssessInv'
<1> SUFFICES ASSUME AssessInv, Reject PROVE AssessInv'
  OBVIOUS
<1>1. AssessTypeOK /\ stage = "reject" /\ stage' = "auto" /\ result' = result
      /\ release' = release /\ settings' = settings
  BY DEF AssessInv, Reject
<1>2. row.state = "discovered"
  BY <1>1 DEF AssessInv
<1>3. row' = row \/ row' = [row EXCEPT !.state = "rejected"]
  BY DEF Reject
<1>4. /\ row' \in Row /\ row'.trust = row.trust /\ row'.flag = row.flag
      /\ row'.confidence = row.confidence
      /\ row'.state \in {"discovered", "rejected"}
  BY <1>1, <1>2, <1>3 DEF AssessTypeOK, Row, WorkflowState
<1>5. AssessTypeOK'
  BY <1>1, <1>4 DEF AssessTypeOK, Stage
<1> QED
  BY <1>1, <1>4, <1>5 DEF AssessInv, Judged, IntegrityFailure,
     FailedAnalysisEarnsNothing

LEMMA AutoApproveInv == AssessInv /\ AutoApprove => AssessInv'
<1> SUFFICES ASSUME AssessInv, AutoApprove PROVE AssessInv'
  OBVIOUS
<1>1. AssessTypeOK /\ stage = "auto" /\ stage' = "done" /\ result' = result
      /\ release' = release /\ settings' = settings
  BY DEF AssessInv, AutoApprove
<1>2. row.state \in {"discovered", "rejected"}
  BY <1>1 DEF AssessInv
<1>3. "approved" \notin ValidTransitions[row.state]
  BY <1>2 DEF ValidTransitions, WorkflowState
<1>4. row' = row
  BY <1>3 DEF AutoApprove
<1>5. AssessTypeOK'
  BY <1>1, <1>4 DEF AssessTypeOK, Stage
<1> QED
  BY <1>1, <1>4, <1>5 DEF AssessInv, Judged, IntegrityFailure,
     FailedAnalysisEarnsNothing

LEMMA ChangeSettingsInv == AssessInv /\ ChangeSettings => AssessInv'
BY DEF AssessInv, AssessTypeOK, ChangeSettings, Judged, IntegrityFailure,
   FailedAnalysisEarnsNothing

LEMMA AssessStutters == AssessInv /\ UNCHANGED vars => AssessInv'
BY DEF AssessInv, AssessTypeOK, vars, Judged, IntegrityFailure,
   FailedAnalysisEarnsNothing

(***************************************************************************)
(* The findings determine the flag at every stage, and the row follows.    *)
(***************************************************************************)
THEOREM AssessInvariant == AssessSpec => []AssessInv
<1>1. AssessInv /\ [AssessNext]_vars => AssessInv'
  BY DiscoverInv, AnalyseInv, VirusTotalInv, NsrlInv, RefreshInv, AnalysisFailsInv,
     DetermineTrustInv, ApplyRulesInv, RejectInv, AutoApproveInv, ChangeSettingsInv, AssessStutters
  DEF AssessNext
<1> QED
  BY <1>1, AssessInitInv, PTL DEF AssessSpec

-----------------------------------------------------------------------------
(* The properties.                                                         *)

(***************************************************************************)
(* An invalid signature, a piracy keyword or a verdict of VirusTotal       *)
(* blocks the release, whatever the settings and the lookups that follow.  *)
(***************************************************************************)
THEOREM IntegrityBlocks == AssessSpec => []IntegrityFailuresBlock
<1>1. AssessInv => IntegrityFailuresBlock
  BY DEF AssessInv, IntegrityFailuresBlock
<1> QED
  BY <1>1, AssessInvariant, PTL

(***************************************************************************)
(* At no evidence does a higher sensitivity give a milder flag.            *)
(***************************************************************************)
THEOREM SensitivityIsMonotone == AssessSpec => []StricterIsNoLaxer
<1>1. AssessTypeOK => StricterIsNoLaxer
  <2> SUFFICES ASSUME AssessTypeOK, NEW s \in Sensitivity, NEW t \in Sensitivity,
                      NEW sig, NEW piracy, Stricter(s, t)
               PROVE  Severity(FlagStatusOf(release, sig, piracy, s))
                         <= Severity(FlagStatusOf(release, sig, piracy, t))
    BY DEF StricterIsNoLaxer
  <2> DEFINE count == release.names + Count(piracy)
  <2>1. count \in Nat
    BY CasesAssumption DEF AssessTypeOK, Evidence, Count
  <2>2. /\ RestrictedAt("low") = 3 /\ WarningAbove("low") = 2
        /\ RestrictedAt("medium") = 2 /\ WarningAbove("medium") = 1
        /\ RestrictedAt("high") = 1 /\ WarningAbove("high") = 0
    BY DEF RestrictedAt, WarningAbove
  <2>3. /\ Severity("none") = 0 /\ Severity("warning") = 1
        /\ Severity("restricted") = 2 /\ Severity("blocked") = 3
    BY DEF Severity
  <2>4. RestrictedAt(t) <= RestrictedAt(s) /\ WarningAbove(t) <= WarningAbove(s)
    BY <2>2 DEF Stricter, Sensitivity
  <2>5. /\ RestrictedAt(s) \in Nat /\ RestrictedAt(t) \in Nat
        /\ WarningAbove(s) \in Nat /\ WarningAbove(t) \in Nat
    BY <2>2 DEF Sensitivity
  <2> HIDE DEF count
  <2>6. CASE piracy \/ sig = "invalid"
    BY <2>3, <2>6 DEF FlagStatusOf
  <2>7. CASE ~(piracy \/ sig = "invalid")
    <3>1. FlagStatusOf(release, sig, piracy, s) =
            IF count >= RestrictedAt(s) THEN "restricted"
            ELSE IF count > WarningAbove(s) THEN "warning" ELSE "none"
      BY <2>7 DEF FlagStatusOf, count
    <3>2. FlagStatusOf(release, sig, piracy, t) =
            IF count >= RestrictedAt(t) THEN "restricted"
            ELSE IF count > WarningAbove(t) THEN "warning" ELSE "none"
      BY <2>7 DEF FlagStatusOf, count
    <3>3. count >= RestrictedAt(s) => count >= RestrictedAt(t)
      BY <2>1, <2>4, <2>5
    <3>4. count > WarningAbove(s) => count > WarningAbove(t)
      BY <2>1, <2>4, <2>5
    <3> QED
      BY <2>3, <3>1, <3>2, <3>3, <3>4
  <2> QED
    BY <2>6, <2>7
<1> QED
  BY <1>1, AssessInvariant, PTL DEF AssessInv

(***************************************************************************)
(* Whenever the analysis fails, nothing it had found or stored remains.    *)
(***************************************************************************)
THEOREM FailureEarnsNothing == AssessSpec => []FailedAnalysisEarnsNothing
<1>1. AssessInv => FailedAnalysisEarnsNothing
  BY DEF AssessInv
<1> QED
  BY <1>1, AssessInvariant, PTL

(***************************************************************************)
(* The types of the evidence, the findings and the row, for every set of   *)
(* evidence.                                                               *)
(***************************************************************************)
THEOREM AssessTypeCorrect == AssessSpec => []AssessTypeOK
<1>1. AssessInv => AssessTypeOK
  BY DEF AssessInv
<1> QED
  BY <1>1, AssessInvariant, PTL

-----------------------------------------------------------------------------
(* The pipeline of ReviewWorkflow.                                         *)

\* Where the workflow's handler is at each stage.
LEMMA HandlerStages ==
    /\ stage \in {"analyse", "virustotal", "nsrl", "refresh"} =>
          PipelineTask = TaskAt("analyse", "discovered")
    /\ stage = "trust" => PipelineTask = TaskAt("verdict", "rejected")
    /\ stage = "rules" => PipelineTask = TaskAt("rules", "rejected")
    /\ stage = "reject" => PipelineTask = TaskAt("commit", "rejected")
    /\ stage \in {"discover", "auto", "done"} => PipelineTask = NoTask
BY DEF PipelineTask

\* A function on one point.
LEMMA OnePoint ==
    ASSUME NEW x, NEW k, NEW l
    PROVE  [[y \in {x} |-> k] EXCEPT ![x] = l] = [y \in {x} |-> l]
OBVIOUS

\* The handlers of the workflow as records of the same shape.
LEMMA HandlersAgree ==
    /\ Workflow!Idle = NoTask
    /\ [Workflow!Idle EXCEPT !.op = "process", !.pc = "analyse", !.rel = "release"]
          = TaskAt("analyse", "discovered")
    /\ row.state = "discovered" /\ row.trust = "unverified" =>
          Workflow!Loaded("pipeline", "process", "release", "verdict", "rejected")
             = TaskAt("verdict", "rejected")
<1>1. Workflow!Idle = NoTask
  BY DEF Workflow!Idle, NoTask
<1> DEFINE a == [NoTask EXCEPT !.op = "process"]
<1>3. a = [op |-> "process", pc |-> "idle", rel |-> "none", target |-> "discovered",
           seen |-> "discovered", seenTrust |-> "unverified", todo |-> {}]
  BY DEF NoTask
<1> HIDE DEF a
<1>4. ASSUME NEW pc
      PROVE  [a EXCEPT !.pc = pc] =
         [op |-> "process", pc |-> pc, rel |-> "none", target |-> "discovered",
          seen |-> "discovered", seenTrust |-> "unverified", todo |-> {}]
  BY <1>3
<1>5. ASSUME NEW pc
      PROVE  [[a EXCEPT !.pc = pc] EXCEPT !.rel = "release"] = TaskAt(pc, "discovered")
  <2> DEFINE b == [op |-> "process", pc |-> pc, rel |-> "none", target |-> "discovered",
                   seen |-> "discovered", seenTrust |-> "unverified", todo |-> {}]
  <2>1. [a EXCEPT !.pc = pc] = b
    BY <1>4
  <2>2. [b EXCEPT !.rel = "release"] = TaskAt(pc, "discovered")
    BY DEF TaskAt
  <2> HIDE DEF b
  <2> QED BY <2>1, <2>2
<1>6. ASSUME NEW pc, NEW target
      PROVE  [TaskAt(pc, "discovered") EXCEPT !.target = target] = TaskAt(pc, target)
  BY DEF TaskAt
<1>7. ASSUME NEW pc, NEW target
      PROVE  [TaskAt(pc, target) EXCEPT !.seen = "discovered"] = TaskAt(pc, target)
  BY DEF TaskAt
<1>8. ASSUME NEW pc, NEW target
      PROVE  [TaskAt(pc, target) EXCEPT !.seenTrust = "unverified"] = TaskAt(pc, target)
  BY DEF TaskAt
<1>9. ASSUME row.state = "discovered", row.trust = "unverified"
      PROVE  Workflow!Loaded("pipeline", "process", "release", "verdict", "rejected")
               = TaskAt("verdict", "rejected")
  <2>1. Workflow!Loaded("pipeline", "process", "release", "verdict", "rejected")
          = [[[[[a EXCEPT !.pc = "verdict"] EXCEPT !.rel = "release"]
                  EXCEPT !.target = "rejected"] EXCEPT !.seen = "discovered"]
                  EXCEPT !.seenTrust = "unverified"]
    BY <1>1, <1>9 DEF Workflow!Loaded, a
  <2>2. [[[a EXCEPT !.pc = "verdict"] EXCEPT !.rel = "release"] EXCEPT !.target = "rejected"]
          = TaskAt("verdict", "rejected")
    BY <1>5, <1>6, Zenon
  <2>3. Workflow!Loaded("pipeline", "process", "release", "verdict", "rejected")
          = [[TaskAt("verdict", "rejected") EXCEPT !.seen = "discovered"]
                EXCEPT !.seenTrust = "unverified"]
    BY <2>1, <2>2, Zenon
  <2> QED BY <2>3, <1>7, <1>8, Zenon
<1> QED BY <1>1, <1>5, <1>9 DEF a

\* Going on in the pipeline, and leaving it.
LEMMA PipelineGoes ==
    ASSUME NEW pc, NEW target, NEW next, PipelineTask = TaskAt(pc, target)
    PROVE  /\ PipelineTask' = TaskAt(next, target) => Workflow!Goto("pipeline", next)
           /\ PipelineTask' = NoTask => Workflow!Finish("pipeline")
<1>1. [TaskAt(pc, target) EXCEPT !.pc = next] = TaskAt(next, target)
  BY DEF TaskAt
<1>2. ASSUME PipelineTask' = TaskAt(next, target) PROVE Workflow!Goto("pipeline", next)
  BY <1>1, <1>2, OnePoint DEF Workflow!Goto
<1>3. ASSUME PipelineTask' = NoTask PROVE Workflow!Finish("pipeline")
  BY <1>3, OnePoint, HandlersAgree DEF Workflow!Finish
<1> QED BY <1>2, <1>3

LEMMA RatedKeeps ==
    ASSUME row \in Row, NEW f, NEW c, row' = Rated(row, f, c)
    PROVE  row'.state = row.state /\ row'.trust = row.trust
<1> DEFINE flagged == [row EXCEPT !.flag = f]
<1>1. DOMAIN flagged = {"state", "trust", "flag", "confidence"}
  BY DEF Row
<1>2. flagged.state = row.state /\ flagged.trust = row.trust
  BY DEF Row
<1>3. row' = [flagged EXCEPT !.confidence = c]
  BY DEF Rated
<1> HIDE DEF flagged
<1> QED BY <1>1, <1>2, <1>3

LEMMA StepOfWorkflow ==
    ASSUME Workflow!Review("pipeline") \/ Workflow!StoreStep("pipeline")
    PROVE  Workflow!ReviewNext
BY DEF Workflow!ReviewNext

LEMMA AnalyseMaps ==
    ASSUME AssessInv, AssessInv',
           stage \in {"analyse", "virustotal", "nsrl", "refresh"},
           stage' \in {"refresh", "trust"},
           row'.state = row.state, row'.trust = row.trust
    PROVE  Workflow!Analyse("pipeline")
<1>1. /\ row.state = "discovered" /\ row.trust = "unverified"
      /\ row'.flag \in FlagStatus
  BY DEF AssessInv, AssessTypeOK, Row
<1>2. PipelineTask = TaskAt("analyse", "discovered")
  BY HandlerStages
<1>3. PipelineTask' = TaskAt("analyse", "discovered")
        \/ PipelineTask' = TaskAt("verdict", "rejected")
  BY DEF PipelineTask
<1>4. Workflow!Present("release")
  BY <1>1 DEF Workflow!Present, Workflow!WorkflowState, WorkflowState
<1> DEFINE T == [t \in {"pipeline"} |-> PipelineTask]
<1>5. \/ T' = [T EXCEPT !["pipeline"] =
                  Workflow!Loaded("pipeline", "process", "release", "verdict", "rejected")]
      \/ UNCHANGED T
  BY <1>1, <1>2, <1>3, OnePoint, HandlersAgree
<1>6. [r \in {"release"} |-> row.flag]' =
         [[r \in {"release"} |-> row.flag] EXCEPT !["release"] = row'.flag]
  BY OnePoint
<1>7. /\ T["pipeline"].pc = "analyse" /\ T["pipeline"].rel = "release"
  BY <1>2 DEF TaskAt
<1>8. UNCHANGED <<[r \in {"release"} |-> row.state], [r \in {"release"} |-> row.trust], {}>>
  OBVIOUS
<1> QED
  BY <1>1, <1>4, <1>5, <1>6, <1>7, <1>8 DEF Workflow!Analyse

(***************************************************************************)
(* Whatever a release's evidence, the settings, the lookups and a failure  *)
(* of the analysis lead to, every step of the pipeline is a step of the    *)
(* workflow's handler, or none that the release table shows.               *)
(***************************************************************************)
THEOREM PipelineIsWorkflow == AssessSpec => ImplementsWorkflow
<1>1. AssessInit => Workflow!StoreInit
  BY DEF AssessInit, Workflow!StoreInit, PipelineTask, Workflow!Idle, NoTask, Workflow!Tasks
<1>2. AssessInv /\ AssessInv' /\ [AssessNext]_vars
        => [Workflow!ReviewNext]_(Workflow!storeVars)
  <2> SUFFICES ASSUME AssessInv, AssessInv', [AssessNext]_vars
               PROVE  Workflow!ReviewNext \/ UNCHANGED (Workflow!storeVars)
    OBVIOUS
  <2>1. row \in Row /\ row' \in Row
    BY DEF AssessInv, AssessTypeOK
  <2>2. CASE row' = row /\ PipelineTask' = PipelineTask
    BY <2>2 DEF Workflow!storeVars
  <2>3. CASE Discover
    <3>1. /\ row.state = "unborn" /\ row'.state = "discovered"
          /\ row'.trust = row.trust /\ row'.flag = row.flag
      BY <2>1, <2>3 DEF Discover, AssessInv, Row
    <3>2. PipelineTask = NoTask /\ PipelineTask' = TaskAt("analyse", "discovered")
      BY <2>3 DEF Discover, PipelineTask
    <3>3. Workflow!Discover("pipeline", "release")
      BY <3>1, <3>2, HandlersAgree DEF Workflow!Discover, NoTask
    <3> QED BY <3>3, StepOfWorkflow DEF Workflow!Review
  <2>4. ASSUME stage \in {"analyse", "virustotal", "nsrl", "refresh"},
               stage' \in {"refresh", "trust"},
               row'.state = row.state, row'.trust = row.trust
        PROVE  Workflow!ReviewNext
    BY <2>4, AnalyseMaps, StepOfWorkflow DEF Workflow!Review
  <2>5. CASE Analyse
    <3>1. CASE release.sha256
      BY <2>2, <2>5, <3>1 DEF Analyse, PipelineTask
    <3>2. CASE ~release.sha256
      <4>1. \E f, c : row' = Rated(row, f, c)
        BY <2>5, <3>2 DEF Analyse, StoreAnalysis
      <4>2. row'.state = row.state /\ row'.trust = row.trust
        BY <2>1, <4>1, RatedKeeps
      <4> QED BY <2>4, <2>5, <3>2, <4>2 DEF Analyse
    <3> QED BY <3>1, <3>2
  <2>6. CASE VirusTotal
    BY <2>2, <2>6 DEF VirusTotal, PipelineTask
  <2>7. CASE Nsrl
    <3>1. \E f, c : row' = Rated(row, f, c)
      BY <2>7 DEF Nsrl, StoreAnalysis
    <3>2. row'.state = row.state /\ row'.trust = row.trust
      BY <2>1, <3>1, RatedKeeps
    <3> QED BY <2>4, <2>7, <3>2 DEF Nsrl
  <2>8. CASE Refresh
    BY <2>4, <2>8 DEF Refresh
  <2>9. CASE AnalysisFails
    <3>1. row'.state = row.state /\ row'.trust = row.trust
      BY <2>1, <2>9, RatedKeeps DEF AnalysisFails
    <3> QED BY <2>4, <2>9, <3>1 DEF AnalysisFails
  <2>10. CASE DetermineTrust
    <3>1. /\ row.state = "discovered" /\ row.trust = "unverified"
          /\ row'.state = row.state /\ row'.flag = row.flag
          /\ row'.trust \in {"unverified", "developer_verified"}
      BY <2>1, <2>10 DEF DetermineTrust, AssessInv, Row, TrustStatusOf
    <3>2. /\ PipelineTask = TaskAt("verdict", "rejected")
          /\ PipelineTask' = TaskAt("rules", "rejected")
      BY <2>10 DEF DetermineTrust, PipelineTask
    <3>3. Workflow!Present("release")
      BY <3>1 DEF Workflow!Present, Workflow!WorkflowState, WorkflowState
    <3>4. Workflow!Goto("pipeline", "rules")
      BY <3>2, PipelineGoes
    <3>5. [r \in {"release"} |-> row.trust]' =
             [[r \in {"release"} |-> row.trust] EXCEPT !["release"] = row'.trust]
      BY OnePoint
    <3>6. Workflow!DetermineTrust("pipeline")
      BY <3>1, <3>2, <3>3, <3>4, <3>5 DEF Workflow!DetermineTrust, TaskAt
    <3> QED BY <3>6, StepOfWorkflow DEF Workflow!Review
  <2>11. CASE ApplyRules
    <3>1. PipelineTask = TaskAt("rules", "rejected") /\ row' = row
      BY <2>11 DEF ApplyRules, PipelineTask
    <3>2. PipelineTask' = TaskAt("commit", "rejected") \/ PipelineTask' = NoTask
      BY <2>11 DEF ApplyRules, PipelineTask
    <3>3. "rejected" \in Workflow!ValidTransitions["discovered"]
      BY DEF Workflow!ValidTransitions, Workflow!WorkflowState
    <3>4. Workflow!Goto("pipeline", "commit") \/ Workflow!Finish("pipeline")
      BY <3>1, <3>2, PipelineGoes
    <3>5. Workflow!ApplyRules("pipeline")
      BY <3>1, <3>3, <3>4 DEF Workflow!ApplyRules, TaskAt
    <3> QED BY <3>5, StepOfWorkflow DEF Workflow!Review
  <2>12. CASE Reject
    <3>1. /\ row.state = "discovered" /\ row'.state = "rejected"
          /\ row'.trust = row.trust /\ row'.flag = row.flag
      BY <2>1, <2>12 DEF Reject, AssessInv, Row, ValidTransitions, WorkflowState
    <3>2. PipelineTask = TaskAt("commit", "rejected") /\ PipelineTask' = NoTask
      BY <2>12 DEF Reject, PipelineTask
    <3>3. Workflow!Present("release")
      BY <3>1 DEF Workflow!Present, Workflow!WorkflowState, WorkflowState
    <3>4. Workflow!CommitState("pipeline")
      BY <3>1, <3>2, <3>3, HandlersAgree DEF Workflow!CommitState, Workflow!Finish, TaskAt
    <3> QED BY <3>4, StepOfWorkflow DEF Workflow!StoreStep
  <2>13. CASE AutoApprove
    <3>1. "approved" \notin ValidTransitions[row.state]
      BY <2>13 DEF AutoApprove, AssessInv, ValidTransitions, WorkflowState
    <3> QED BY <2>2, <2>13, <3>1 DEF AutoApprove, PipelineTask
  <2>14. CASE ChangeSettings
    BY <2>2, <2>14 DEF ChangeSettings, PipelineTask
  <2>15. CASE UNCHANGED vars
    BY <2>2, <2>15 DEF vars, PipelineTask
  <2> QED
    BY <2>3, <2>5, <2>6, <2>7, <2>8, <2>9, <2>10, <2>11, <2>12, <2>13, <2>14, <2>15
       DEF AssessNext
<1> QED
  BY <1>1, <1>2, AssessInvariant, PTL DEF AssessSpec, ImplementsWorkflow, Workflow!ReviewSpec

=============================================================================
