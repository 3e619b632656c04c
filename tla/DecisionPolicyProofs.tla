------------------------ MODULE DecisionPolicyProofs ------------------------
(***************************************************************************)
(* Proofs about DecisionPolicy: for all facts, not only for those at the   *)
(* thresholds.                                                             *)
(***************************************************************************)
EXTENDS DecisionPolicy, FiniteSetTheorems, TLAPS

\* The facts are those of the current evidence, the outcome that of the facts.
Inv == evidence \in Raw /\ facts = FactsOf(evidence) /\ outcome = Decide(facts)

LEMMA OutcomeOfFacts == Spec => []Inv
<1>1. Init => Inv
  BY PolicyAssumption DEF Init, Inv
<1>2. Inv /\ [Next]_vars => Inv'
  BY DEF Inv, Next, Improve, vars
<1> QED BY <1>1, <1>2, PTL DEF Spec

\* Among the failing gates there is a first one, which gives the reason.
LEMMA FirstGate ==
  ASSUME NEW S \in SUBSET (1..14), S # {}
  PROVE  \E i \in S : \A j \in S : i <= j
<1> SUFFICES ASSUME \A i \in S : \E j \in S : ~(i <= j) PROVE FALSE
  OBVIOUS
<1>1. 1 \notin S OBVIOUS
<1>2. 2 \notin S BY <1>1
<1>3. 3 \notin S BY <1>1, <1>2
<1>4. 4 \notin S BY <1>1, <1>2, <1>3
<1>5. 5 \notin S BY <1>1, <1>2, <1>3, <1>4
<1>6. 6 \notin S BY <1>1, <1>2, <1>3, <1>4, <1>5
<1>7. 7 \notin S BY <1>1, <1>2, <1>3, <1>4, <1>5, <1>6
<1>8. \A i \in 1..7 : i \notin S BY <1>1, <1>2, <1>3, <1>4, <1>5, <1>6, <1>7
<1>9. 8 \notin S BY <1>8
<1>10. 9 \notin S BY <1>8, <1>9
<1>11. 10 \notin S BY <1>8, <1>9, <1>10
<1>12. 11 \notin S BY <1>8, <1>9, <1>10, <1>11
<1>13. 12 \notin S BY <1>8, <1>9, <1>10, <1>11, <1>12
<1>14. 13 \notin S BY <1>8, <1>9, <1>10, <1>11, <1>12, <1>13
<1>15. 14 \notin S BY <1>8, <1>9, <1>10, <1>11, <1>12, <1>13, <1>14
<1>16. \A i \in 1..14 : i \in 1..7 \/ i \in {8, 9, 10, 11, 12, 13, 14}
  OBVIOUS
<1>17. \A i \in 1..14 : i \notin S
  BY <1>8, <1>9, <1>10, <1>11, <1>12, <1>13, <1>14, <1>15, <1>16
<1> QED BY <1>17

\* A failed video session is among the failed gates.
LEMMA FailedVideo ==
  ASSUME NEW f, f.vcip = "failed"
  PROVE  FailedGates(f) # {}
<1>1. HardFails(f)[2]
  BY DEF HardFails
<1>2. Len(ReasonCodes) = 14
  BY DEF ReasonCodes
<1>3. 2 \in 1..Len(ReasonCodes)
  BY <1>2
<1>4. 2 \in FailedGates(f)
  BY <1>1, <1>3 DEF FailedGates
<1> QED BY <1>4

LEMMA VideoGate == Inv => VideoGateHolds
<1> SUFFICES ASSUME Inv PROVE VideoGateHolds
  OBVIOUS
<1>1. facts.vcip = "failed" => FailedGates(facts) # {}
  BY FailedVideo
<1>2. outcome = Decide(facts)
  BY DEF Inv
<1>3. CASE FailedGates(facts) # {}
  <2>1. \E reason : outcome = Rejected(reason)
    BY <1>2, <1>3 DEF Decide
  <2> QED BY <2>1 DEF Rejected, VideoGateHolds
<1>4. CASE FailedGates(facts) = {} /\ outcome.decision = "review"
  <2>1. \E flags : outcome = Reviewed(facts, flags)
    BY <1>2, <1>4 DEF Decide, Rejected, Approved
  <2>2. outcome.decision = "review" /\ outcome.blocked = DisbursalBlocked(facts)
    BY <2>1 DEF Reviewed
  <2>3. DisbursalBlocked(facts) => "vcip_pending" \in outcome.flags
    BY <2>1 DEF Reviewed, Pending
  <2>4. facts.vcip # "failed"
    BY <1>1, <1>4
  <2> QED BY <2>2, <2>3, <2>4 DEF VideoGateHolds
<1>5. CASE FailedGates(facts) = {} /\ outcome.decision # "review"
  <2>1. (outcome = Approved /\ ~DisbursalBlocked(facts)) \/ outcome = Rejected("low_ensemble_score")
    BY <1>2, <1>5 DEF Decide, Reviewed
  <2> QED BY <1>1, <1>5, <2>1 DEF Approved, Rejected, VideoGateHolds
<1> QED BY <1>3, <1>4, <1>5

\* Whatever the facts are, a loan above the ceiling is approved only after a
\* completed video session, is held exactly until then, and a failed session
\* rejects it (RiskDecisionProcessor.decide).
THEOREM VideoGateAlways == Spec => []VideoGateHolds
  BY OutcomeOfFacts, VideoGate, PTL

LEMMA Explained == Inv => OutcomeIsExplained
<1> SUFFICES ASSUME Inv PROVE OutcomeIsExplained
  OBVIOUS
<1>1. outcome = Decide(facts)
  BY DEF Inv
<1>2. CASE FailedGates(facts) # {}
  <2> DEFINE first == CHOOSE i \in FailedGates(facts) : \A j \in FailedGates(facts) : i <= j
  <2>1. FailedGates(facts) \in SUBSET (1..14)
    BY DEF FailedGates, ReasonCodes
  <2>2. \E i \in FailedGates(facts) : \A j \in FailedGates(facts) : i <= j
    BY <1>2, <2>1, FirstGate
  <2>3. first \in FailedGates(facts) /\ \A j \in FailedGates(facts) : first <= j
    BY <2>2
  <2>4. outcome = Rejected(ReasonCodes[first])
    BY <1>1, <1>2 DEF Decide
  <2> HIDE DEF first
  <2> QED BY <2>3, <2>4 DEF Rejected, OutcomeIsExplained
<1>3. CASE FailedGates(facts) = {} /\ ReviewTriggers(facts) # {}
  <2>1. outcome = Reviewed(facts, ReviewTriggers(facts))
    BY <1>1, <1>3 DEF Decide
  <2> QED BY <1>3, <2>1 DEF Reviewed, OutcomeIsExplained
<1>4. CASE FailedGates(facts) = {} /\ ReviewTriggers(facts) = {} /\ facts.score >= 40
  BY <1>1, <1>4 DEF Decide, Reviewed, Approved, Pending, OutcomeIsExplained
<1>5. CASE FailedGates(facts) = {} /\ ReviewTriggers(facts) = {} /\ ~(facts.score >= 40)
  <2>1. facts.score \in 0..100
    BY DEF Inv, FactsOf, Raw
  <2>2. facts.score < 40 /\ ~(facts.score >= 70)
    BY <1>5, <2>1
  <2>3. outcome = Rejected("low_ensemble_score")
    BY <1>1, <1>5, <2>2 DEF Decide
  <2> QED BY <1>5, <2>2, <2>3 DEF Rejected, OutcomeIsExplained
<1> QED BY <1>2, <1>3, <1>4, <1>5

\* Every rejection names the first gate that fails, every review a reason to
\* look, for all facts (RiskDecisionProcessor.decide).
THEOREM AlwaysExplained == Spec => []OutcomeIsExplained
  BY OutcomeOfFacts, Explained, PTL
-----------------------------------------------------------------------------
(* The identity signals                                                    *)

\* The failed checks and the flags are finitely many and have no name in
\* common, so the signals are as many as both together.
LEMMA SignalCount ==
  ASSUME NEW e
  PROVE  /\ IsFiniteSet(TamperFlags(e)) /\ IsFiniteSet(FailedChecks(e))
         /\ Cardinality(TamperFlags(e)) \in Nat /\ Cardinality(FailedChecks(e)) \in Nat
         /\ Cardinality(Signals(e)) = Cardinality(TamperFlags(e)) + Cardinality(FailedChecks(e))
<1> DEFINE flag == {"pan_format_invalid", "pan_nsdl_inactive", "aadhaar_format_invalid",
                    "aadhaar_otp_failed", "spoof_detected", "face_mismatch", "name_mismatch",
                    "dob_mismatch", "metadata_anomaly", "qr_signature_invalid",
                    "qr_data_mismatch", "qr_tampered"}
           check == {"pan", "aadhaar", "face"}
<1>1. TamperFlags(e) \subseteq flag
  BY DEF TamperFlags
<1>2. FailedChecks(e) \subseteq check
  BY DEF FailedChecks
<1>3. IsFiniteSet({})
  BY FS_EmptySet
<1>4. IsFiniteSet(check)
  <2>1. IsFiniteSet({} \cup {"pan"}) BY <1>3, FS_AddElement
  <2>2. IsFiniteSet(({} \cup {"pan"}) \cup {"aadhaar"}) BY <2>1, FS_AddElement
  <2>3. IsFiniteSet((({} \cup {"pan"}) \cup {"aadhaar"}) \cup {"face"}) BY <2>2, FS_AddElement
  <2>4. check = (({} \cup {"pan"}) \cup {"aadhaar"}) \cup {"face"} OBVIOUS
  <2> QED BY <2>3, <2>4
<1>5. IsFiniteSet(flag)
  <2> DEFINE f1 == {} \cup {"pan_format_invalid"}
             f2 == f1 \cup {"pan_nsdl_inactive"}
             f3 == f2 \cup {"aadhaar_format_invalid"}
             f4 == f3 \cup {"aadhaar_otp_failed"}
             f5 == f4 \cup {"spoof_detected"}
             f6 == f5 \cup {"face_mismatch"}
             f7 == f6 \cup {"name_mismatch"}
             f8 == f7 \cup {"dob_mismatch"}
             f9 == f8 \cup {"metadata_anomaly"}
             f10 == f9 \cup {"qr_signature_invalid"}
             f11 == f10 \cup {"qr_data_mismatch"}
             f12 == f11 \cup {"qr_tampered"}
  <2>1. IsFiniteSet(f3) BY <1>3, FS_AddElement
  <2>2. IsFiniteSet(f6) BY <2>1, FS_AddElement
  <2>3. IsFiniteSet(f9) BY <2>2, FS_AddElement
  <2>4. IsFiniteSet(f12) BY <2>3, FS_AddElement
  <2>5. flag = f12 OBVIOUS
  <2> QED BY <2>4, <2>5
<1>6. flag \cap check = {}
  OBVIOUS
<1> HIDE DEF flag, check
<1>7. IsFiniteSet(TamperFlags(e)) /\ IsFiniteSet(FailedChecks(e))
  BY <1>1, <1>2, <1>4, <1>5, FS_Subset
<1>8. TamperFlags(e) \cap FailedChecks(e) = {}
  BY <1>1, <1>2, <1>6
<1>9. /\ Cardinality(TamperFlags(e)) \in Nat /\ Cardinality(FailedChecks(e)) \in Nat
      /\ Cardinality({}) = 0
  BY <1>7, FS_CardinalityType, FS_EmptySet
<1>10. Cardinality(Signals(e)) = Cardinality(TamperFlags(e)) + Cardinality(FailedChecks(e))
                                 - Cardinality({})
  BY <1>7, <1>8, FS_Union DEF Signals
<1> QED BY <1>7, <1>9, <1>10

\* What the QR codes cost is at most a quarter of the confidence.
LEMMA LossBounds ==
  ASSUME NEW e \in Raw
  PROVE  TrustLoss(e) \in 0..100 /\ IsFiniteSet(e.qrWrong) /\ Cardinality(e.qrWrong) \in Nat
<1>1. IsFiniteSet(QrField)
  <2> DEFINE f2 == ({} \cup {"name"}) \cup {"dob"}
             f5 == ((f2 \cup {"address"}) \cup {"uid"}) \cup {"pan"}
  <2>1. IsFiniteSet(f2) BY FS_EmptySet, FS_AddElement
  <2>2. IsFiniteSet(f5) BY <2>1, FS_AddElement
  <2>3. QrField = f5 BY DEF QrField
  <2> QED BY <2>2, <2>3
<1>2. IsFiniteSet(e.qrWrong) /\ Cardinality(e.qrWrong) \in Nat
  <2>1. e.qrWrong \in SUBSET QrField
    BY DEF Raw
  <2> QED BY <1>1, <2>1, FS_Subset, FS_CardinalityType
<1> QED BY <1>2 DEF TrustLoss, Percent

\* No trigger is on, so no condition of one holds.
LEMMA Untriggered ==
  ASSUME NEW f, ReviewTriggers(f) = {}
  PROVE  ~(f.confidence < 280) /\ ~(f.foir > 50) /\ ~f.affordabilityAnomaly
         /\ ~f.incomeAnomaly /\ ~f.noSalaryCredit
<1> DEFINE holds == [identity_moderate_confidence |-> f.confidence < 280,
                     document_metadata_anomaly    |-> "metadata_anomaly" \in f.flags,
                     foir_marginal                |-> f.foir > 50,
                     income_anomalies             |-> f.noSalaryCredit \/ f.incomeAnomaly,
                     affordability_anomalies      |-> f.affordabilityAnomaly,
                     cibil_marginal               |-> f.cibil < 700,
                     multiple_active_loans        |-> f.activeLoans > 3,
                     employment_tier_high_risk    |-> f.tier >= 4]
<1>1. \A t \in DOMAIN holds : ~holds[t]
  BY DEF ReviewTriggers
<1>2. DOMAIN holds = {"identity_moderate_confidence", "document_metadata_anomaly", "foir_marginal",
                      "income_anomalies", "affordability_anomalies", "cibil_marginal",
                      "multiple_active_loans", "employment_tier_high_risk"}
  OBVIOUS
<1>3. ~holds.identity_moderate_confidence /\ ~holds.foir_marginal /\ ~holds.affordability_anomalies
      /\ ~holds.income_anomalies
  BY <1>1, <1>2
<1> QED BY <1>3

\* An approval fails no gate and triggers no review.
LEMMA Approval ==
  ASSUME Inv, outcome.decision = "approve"
  PROVE  FailedGates(facts) = {} /\ ReviewTriggers(facts) = {}
  BY Explained DEF OutcomeIsExplained

\* The reason of a rejection for its identity is the third gate.
LEMMA LowConfidence ==
  ASSUME Inv, outcome.reason = "identity_low_confidence"
  PROVE  facts.confidence < 120
<1>1. outcome.decision = "reject"
  BY DEF Inv, Decide, Rejected, Reviewed, Approved
<1>2. PICK i \in FailedGates(facts) : outcome.reason = ReasonCodes[i]
  BY <1>1, Explained DEF OutcomeIsExplained
<1>3. i \in 1..14 /\ HardFails(facts)[i]
  BY <1>2 DEF FailedGates, ReasonCodes
<1>4. i = 3
  BY <1>2, <1>3 DEF ReasonCodes
<1>5. HardFails(facts)[3]
  BY <1>3, <1>4
<1>6. HardFails(facts)[3] <=> facts.confidence < 120
  BY DEF HardFails
<1> QED BY <1>5, <1>6

LEMMA Signalled == Inv => SignalsAddUp
<1> SUFFICES ASSUME Inv PROVE SignalsAddUp
  OBVIOUS
<1> DEFINE flags == Cardinality(TamperFlags(evidence))
           checks == Cardinality(FailedChecks(evidence))
           loss == TrustLoss(evidence)
           left == 400 - 120 * checks - 80 * flags - loss
<1>1. flags \in Nat /\ checks \in Nat /\ loss \in 0..100
  BY SignalCount, LossBounds DEF Inv
<1>2. Cardinality(Signals(evidence)) = flags + checks
  BY SignalCount
<1>3. facts.confidence = IF left < 0 THEN 0 ELSE IF left = 120 THEN 119 ELSE left
  BY DEF Inv, FactsOf, Confidence
<1> HIDE DEF flags, checks, loss
<1>4. ASSUME outcome.decision = "approve" PROVE flags + checks <= 1
  <2>1. ~(facts.confidence < 280)
    BY <1>4, Approval, Untriggered
  <2>2. left >= 280
    BY <1>1, <1>3, <2>1
  <2> QED BY <1>1, <2>2
<1>5. ASSUME outcome.reason = "identity_low_confidence" PROVE flags + checks >= 2
  <2>1. facts.confidence < 120
    BY <1>5, LowConfidence
  <2>2. left <= 120
    BY <1>1, <1>3, <2>1
  <2> QED BY <1>1, <2>2
<1> QED BY <1>2, <1>4, <1>5 DEF SignalsAddUp

\* For any evidence: two signals of forgery are never approved unseen, and one
\* alone never rejects for a low confidence (IdentityTrustProcessor's formula
\* against the thresholds of decide).
THEOREM SignalsAlwaysAddUp == Spec => []SignalsAddUp
  BY OutcomeOfFacts, Signalled, PTL
-----------------------------------------------------------------------------
(* The income behind an approval                                           *)

\* A weighted average of amounts is no more than the largest of them.
LEMMA AverageBelowLargest ==
  ASSUME NEW e \in Raw, NEW s \in IncomeSource, \A t \in IncomeSource : e[t] <= e[s]
  PROVE  /\ TotalWeight(e) \in Nat /\ WeightedSum(e) \in Nat /\ e[s] \in Nat
         /\ WeightedSum(e) <= e[s] * TotalWeight(e)
<1> DEFINE w == Weight(e)
<1>1. \A t \in IncomeSource : e[t] \in Nat
  BY DEF IncomeSource, Raw
<1>2. \A t \in IncomeSource : w[t] \in Nat
  BY DEF IncomeSource, Weight, Percent
<1> HIDE DEF w
<1>3. \A x, y, z \in Nat : x <= y => z * x <= z * y /\ z * x \in Nat /\ z * y \in Nat
  OBVIOUS
<1>4. \A t \in IncomeSource : w[t] * e[t] <= w[t] * e[s] /\ w[t] * e[t] \in Nat /\ w[t] * e[s] \in Nat
  BY <1>1, <1>2, <1>3
<1>5. WeightedSum(e) = w.slip * e.slip + w.itr * e.itr + w.itrBefore * e.itrBefore
                       + w.gst * e.gst + w.bank * e.bank
  BY DEF WeightedSum, Total, IncomeSource, w
<1>6. TotalWeight(e) = w.slip + w.itr + w.itrBefore + w.gst + w.bank
  BY DEF TotalWeight, Total, w
<1>7. WeightedSum(e) \in Nat /\
      WeightedSum(e) <= w.slip * e[s] + w.itr * e[s] + w.itrBefore * e[s] + w.gst * e[s] + w.bank * e[s]
  BY <1>4, <1>5 DEF IncomeSource
<1>8. \A a, b, c, d, f, x \in Nat : a * x + b * x + c * x + d * x + f * x = x * (a + b + c + d + f)
  OBVIOUS
<1>9. w.slip \in Nat /\ w.itr \in Nat /\ w.itrBefore \in Nat /\ w.gst \in Nat /\ w.bank \in Nat
  BY <1>2 DEF IncomeSource
<1> QED BY <1>1, <1>6, <1>7, <1>8, <1>9

\* Some source shows the most.
LEMMA LargestSource ==
  ASSUME NEW e \in Raw
  PROVE  \E s \in IncomeSource : \A t \in IncomeSource : e[t] <= e[s]
<1>1. e.slip \in Nat /\ e.itr \in Nat /\ e.itrBefore \in Nat /\ e.gst \in Nat /\ e.bank \in Nat
  BY DEF Raw
<1> QED BY <1>1 DEF IncomeSource

LEMMA Multiples ==
  ASSUME NEW m \in Nat, NEW x \in Nat, NEW W \in Nat, W > 0, m * W <= x * W
  PROVE  m <= x
  OBVIOUS

LEMMA Backed == Inv => IncomeBacksApproval
<1> SUFFICES ASSUME Inv, outcome.decision = "approve"
             PROVE  /\ \E s \in IncomeSource :
                         /\ evidence[s] >= 12 * evidence.minimum
                         /\ evidence[s] >= 24 * evidence.emi
                         /\ evidence[s] >= 12 * (evidence.emi + MonthlyExpenses)
                    /\ evidence.salaried /\ evidence.statement => evidence.bank > 0
                    /\ evidence.slip > 0 /\ evidence.bank > 0 =>
                         ~Apart(evidence.slip, evidence.bank, 30)
  BY DEF IncomeBacksApproval
<1> DEFINE W == TotalWeight(evidence)
           A == WeightedSum(evidence)
<1>1. evidence \in Raw /\ facts = FactsOf(evidence)
  BY DEF Inv
<1>2. FailedGates(facts) = {} /\ ReviewTriggers(facts) = {}
  BY Approval
<1>3. /\ ~(Foir(evidence) > 50) /\ ~VerifiedBelow(evidence, evidence.emi + MonthlyExpenses)
      /\ ~IncomeAnomaly(evidence) /\ ~(evidence.salaried /\ evidence.statement /\ evidence.bank = 0)
  <2>1. ~(facts.foir > 50) /\ ~facts.affordabilityAnomaly /\ ~facts.incomeAnomaly
        /\ ~facts.noSalaryCredit
    BY <1>2, Untriggered
  <2>2. facts.foir = Foir(evidence)
    BY <1>1 DEF FactsOf
  <2>3. facts.affordabilityAnomaly
          = (Foir(evidence) > 50 \/ VerifiedBelow(evidence, evidence.emi + MonthlyExpenses))
    BY <1>1 DEF FactsOf
  <2>4. facts.incomeAnomaly = IncomeAnomaly(evidence)
    BY <1>1 DEF FactsOf
  <2>5. facts.noSalaryCredit = (evidence.salaried /\ evidence.statement /\ evidence.bank = 0)
    BY <1>1 DEF FactsOf
  <2> QED BY <2>1, <2>2, <2>3, <2>4, <2>5
<1>4. ~VerifiedBelow(evidence, evidence.minimum)
  <2>1. ~HardFails(facts)[14]
    BY <1>2 DEF FailedGates, ReasonCodes
  <2> QED BY <1>1, <2>1 DEF HardFails, FactsOf
<1>5. evidence.emi \in Nat /\ evidence.minimum \in Nat /\ evidence.bank \in Nat
  BY <1>1 DEF Raw
<1>6. PICK s \in IncomeSource : \A t \in IncomeSource : evidence[t] <= evidence[s]
  BY <1>1, LargestSource
<1>7. W \in Nat /\ A \in Nat /\ evidence[s] \in Nat /\ A <= evidence[s] * W
  BY <1>1, <1>6, AverageBelowLargest
<1>8. W # 0 /\ ~(A < 12 * (evidence.emi + 15) * W)
  BY <1>3, <1>5 DEF VerifiedBelow, MonthlyExpenses
<1>9. ~(A < 12 * evidence.minimum * W)
  BY <1>4, <1>8 DEF VerifiedBelow
<1>10. 24 * evidence.emi * W <= A
  BY <1>3, <1>5, <1>7, <1>8 DEF Foir
<1> HIDE DEF W, A
<1>11. evidence[s] >= 12 * (evidence.emi + MonthlyExpenses)
  <2>1. 12 * (evidence.emi + 15) \in Nat /\ 12 * (evidence.emi + 15) * W \in Nat
    BY <1>5, <1>7
  <2>2. (12 * (evidence.emi + 15)) * W <= evidence[s] * W
    BY <1>7, <1>8, <2>1
  <2> QED BY <1>7, <1>8, <2>1, <2>2, Multiples DEF MonthlyExpenses
<1>12. evidence[s] >= 12 * evidence.minimum
  <2>1. 12 * evidence.minimum \in Nat /\ 12 * evidence.minimum * W \in Nat
    BY <1>5, <1>7
  <2>2. (12 * evidence.minimum) * W <= evidence[s] * W
    BY <1>7, <1>9, <2>1
  <2> QED BY <1>7, <1>8, <2>1, <2>2, Multiples
<1>13. evidence[s] >= 24 * evidence.emi
  <2>1. 24 * evidence.emi \in Nat /\ 24 * evidence.emi * W \in Nat /\ evidence[s] * W \in Nat
    BY <1>5, <1>7
  <2>2. (24 * evidence.emi) * W <= evidence[s] * W
    BY <1>7, <1>10, <2>1
  <2> QED BY <1>7, <1>8, <2>1, <2>2, Multiples
<1>14. evidence.salaried /\ evidence.statement => evidence.bank > 0
  BY <1>3, <1>5
<1>15. evidence.slip > 0 /\ evidence.bank > 0 => ~Apart(evidence.slip, evidence.bank, 30)
  BY <1>3 DEF IncomeAnomaly
<1> QED BY <1>11, <1>12, <1>13, <1>14, <1>15

\* For any evidence: an approval rests on at least one document that shows the
\* minimum income, twice the instalment, and the expenses on top of it, however
\* many sources are averaged (IncomeIntelligenceProcessor, AffordabilityProcessor).
THEOREM ApprovalsAreBacked == Spec => []IncomeBacksApproval
  BY OutcomeOfFacts, Backed, PTL
-----------------------------------------------------------------------------
(* Improvements.  A piece of better evidence makes one field of the        *)
(* evidence better and leaves the others; an application that fails no     *)
(* gate then fails none and triggers no further review.                    *)

LesserField == {"ring", "graph", "emi", "minimum", "overdue", "activeLoans", "tier"}
FaultField == {"wrongName", "wrongDob", "edited", "qrMissing", "qrUnreadable", "ela", "exif",
               "mrzInvalid", "slipFault", "dpd90", "highValue"}
SettledField == IncomeSource \cup {"declared", "statement", "salaried"}

\* d is no worse than e in any field.
NoWorse(e, d) ==
  /\ \A f \in LesserField : d[f] <= e[f]
  /\ \A f \in FaultField : d[f] => e[f]
  /\ \A f \in SettledField : d[f] = e[f]
  /\ d.cibil >= e.cibil /\ d.score >= e.score
  /\ e.panMatch => d.panMatch
  /\ d.qrWrong \subseteq e.qrWrong
  /\ d.pan = e.pan \/ e.pan = "format_invalid" \/ (e.pan = "inactive" /\ d.pan = "active")
  /\ d.aadhaar = e.aadhaar \/ (e.aadhaar = "invalid" /\ d.aadhaar = "valid")
  /\ d.otp = e.otp \/ (e.otp = "failed" /\ d.otp = "matched")
  /\ d.liveness = e.liveness \/ e.liveness = "spoof" \/ d.liveness = "live"
  /\ d.liveness = "no_selfie" <=> e.liveness = "no_selfie"
  /\ d.face = e.face \/ d.face = "matched" \/ (e.face = "mismatch" /\ d.face = "not_compared")
  /\ d.signature = e.signature \/ e.signature = "invalid" \/ d.signature = "valid"
  /\ d.vcip = e.vcip \/ e.vcip = "failed" \/ d.vcip = "completed"

LEMMA BetterIsNoWorse ==
  ASSUME NEW e \in Raw, NEW g, NEW v, Better(g, e[g], v),
         NEW d \in Raw, d = [e EXCEPT ![g] = v]
  PROVE  NoWorse(e, d)
<1>1. \A f \in LesserField \cup FaultField \cup SettledField \cup
        {"cibil", "score", "panMatch", "qrWrong", "pan", "aadhaar", "otp", "liveness", "face",
         "signature", "vcip"} : d[f] = IF f = g THEN v ELSE e[f]
  BY DEF Raw, LesserField, FaultField, SettledField, IncomeSource
<1>2. \A f \in LesserField : d[f] <= e[f]
  <2> SUFFICES ASSUME NEW f \in LesserField PROVE d[f] <= e[f]
    OBVIOUS
  <2>1. e[f] \in Int /\ d[f] \in Int
    BY DEF Raw, LesserField
  <2>2. f = g => v < e[f]
    BY DEF Better, LesserField
  <2> QED BY <1>1, <2>1, <2>2
<1>3. \A f \in FaultField : d[f] => e[f]
  <2> SUFFICES ASSUME NEW f \in FaultField, d[f] PROVE e[f]
    OBVIOUS
  <2>1. f = g => ~v
    BY DEF Better, FaultField
  <2>2. f # g
    BY <1>1, <2>1
  <2>3. d[f] = e[f]
    BY <1>1, <2>2
  <2> QED BY <2>3
<1>4. \A f \in SettledField : d[f] = e[f]
  <2> SUFFICES ASSUME NEW f \in SettledField PROVE d[f] = e[f]
    OBVIOUS
  <2>1. f # g
    BY DEF Better, SettledField, IncomeSource
  <2> QED BY <1>1, <2>1
<1>5. d.cibil >= e.cibil /\ d.score >= e.score
  <2>1. e.cibil \in Int /\ d.cibil \in Int /\ e.score \in Int /\ d.score \in Int
    BY DEF Raw
  <2>2. (g = "cibil" => v > e.cibil) /\ (g = "score" => v > e.score)
    BY DEF Better
  <2> QED BY <1>1, <2>1, <2>2
<1>6. e.panMatch => d.panMatch
  <2>1. g = "panMatch" => v
    BY DEF Better
  <2> QED BY <1>1, <2>1
<1>7. d.qrWrong \subseteq e.qrWrong
  <2>1. g = "qrWrong" => v \subseteq e.qrWrong
    BY DEF Better
  <2> QED BY <1>1, <2>1
<1>8. d.pan = e.pan \/ e.pan = "format_invalid" \/ (e.pan = "inactive" /\ d.pan = "active")
  <2>1. g = "pan" => e.pan = "format_invalid" \/ (e.pan = "inactive" /\ v = "active")
    BY DEF Better
  <2> QED BY <1>1, <2>1
<1>9. d.aadhaar = e.aadhaar \/ (e.aadhaar = "invalid" /\ d.aadhaar = "valid")
  <2>1. g = "aadhaar" => e.aadhaar = "invalid" /\ v = "valid"
    BY DEF Better
  <2> QED BY <1>1, <2>1
<1>10. d.otp = e.otp \/ (e.otp = "failed" /\ d.otp = "matched")
  <2>1. g = "otp" => e.otp = "failed" /\ v = "matched"
    BY DEF Better
  <2> QED BY <1>1, <2>1
<1>11. g = "liveness" => \/ e.liveness = "spoof" /\ v \in {"borderline", "live"}
                         \/ e.liveness = "borderline" /\ v = "live"
  BY DEF Better
<1>12. g = "face" => \/ e.face = "mismatch" /\ v \in {"not_compared", "matched"}
                     \/ e.face = "not_compared" /\ v = "matched"
  BY DEF Better
<1>13. g = "signature" => \/ e.signature = "invalid" /\ v \in {"missing", "valid"}
                          \/ e.signature = "missing" /\ v = "valid"
  BY DEF Better
<1>14. g = "vcip" => v = "completed" \/ e.vcip = "failed"
  BY DEF Better
<1>15. /\ d.liveness = e.liveness \/ e.liveness = "spoof" \/ d.liveness = "live"
       /\ d.liveness = "no_selfie" <=> e.liveness = "no_selfie"
  BY <1>1, <1>11
<1>16. d.face = e.face \/ d.face = "matched" \/ (e.face = "mismatch" /\ d.face = "not_compared")
  BY <1>1, <1>12
<1>17. d.signature = e.signature \/ e.signature = "invalid" \/ d.signature = "valid"
  BY <1>1, <1>13
<1>18. d.vcip = e.vcip \/ e.vcip = "failed" \/ d.vcip = "completed"
  BY <1>1, <1>14
<1> QED BY <1>2, <1>3, <1>4, <1>5, <1>6, <1>7, <1>8, <1>9, <1>10, <1>15, <1>16, <1>17, <1>18
         DEF NoWorse

\* No gate fails, so no condition of one holds.
LEMMA Ungated ==
  ASSUME NEW f, FailedGates(f) = {}
  PROVE  \A i \in 1..14 : ~HardFails(f)[i]
<1>1. Len(ReasonCodes) = 14
  BY DEF ReasonCodes
<1> QED BY <1>1, Zenon DEF FailedGates

\* Of an application without a failing gate: what the gates rule out.
LEMMA NotGated ==
  ASSUME NEW e \in Raw, FailedGates(FactsOf(e)) = {}
  PROVE  /\ ~(FraudScore(e) > 80) /\ e.vcip # "failed" /\ ~(Confidence(e) < 120)
         /\ e.pan # "format_invalid" /\ e.aadhaar # "invalid" /\ e.otp # "failed"
         /\ "pan_nsdl_inactive" \notin TamperFlags(e) /\ "aadhaar_otp_failed" \notin TamperFlags(e)
         /\ "pan_format_invalid" \notin TamperFlags(e) /\ "aadhaar_format_invalid" \notin TamperFlags(e)
         /\ "name_mismatch" \notin TamperFlags(e) /\ "dob_mismatch" \notin TamperFlags(e)
         /\ ~(e.cibil < 650) /\ ~e.dpd90 /\ ~(e.overdue > 0)
         /\ ~(e.salaried /\ e.statement /\ e.bank = 0)
         /\ ~(Foir(e) > 60) /\ ~VerifiedBelow(e, e.minimum)
<1> DEFINE f == FactsOf(e)
           h == HardFails(f)
<1>1. /\ ~h[1] /\ ~h[2] /\ ~h[3] /\ ~h[4] /\ ~h[5] /\ ~h[6] /\ ~h[7]
      /\ ~h[8] /\ ~h[9] /\ ~h[10] /\ ~h[11] /\ ~h[12] /\ ~h[13] /\ ~h[14]
  BY Ungated
<1>2. /\ (h[1] <=> f.fraud > 80) /\ (h[2] <=> f.vcip = "failed") /\ (h[3] <=> f.confidence < 120)
      /\ (h[4] <=> "pan_nsdl_inactive" \in f.flags) /\ (h[5] <=> "aadhaar_otp_failed" \in f.flags)
      /\ (h[6] <=> f.flags \cap {"pan_format_invalid", "aadhaar_format_invalid"} # {})
      /\ (h[7] <=> "name_mismatch" \in f.flags) /\ (h[8] <=> "dob_mismatch" \in f.flags)
      /\ (h[9] <=> f.cibil < 650) /\ (h[10] <=> f.dpd90) /\ (h[11] <=> f.overdue > 0)
      /\ (h[12] <=> f.salaried /\ f.noSalaryCredit) /\ (h[13] <=> f.foir > 60) /\ (h[14] <=> f.incomeShort)
  BY DEF HardFails
<1> HIDE DEF h
<1>3. /\ ~(f.fraud > 80) /\ f.vcip # "failed" /\ ~(f.confidence < 120)
      /\ "pan_nsdl_inactive" \notin f.flags /\ "aadhaar_otp_failed" \notin f.flags
      /\ f.flags \cap {"pan_format_invalid", "aadhaar_format_invalid"} = {}
      /\ "name_mismatch" \notin f.flags /\ "dob_mismatch" \notin f.flags
      /\ ~(f.cibil < 650) /\ ~f.dpd90 /\ ~(f.overdue > 0)
      /\ ~(f.salaried /\ f.noSalaryCredit) /\ ~(f.foir > 60) /\ ~f.incomeShort
  BY <1>1, <1>2, Zenon
<1>4. /\ f.fraud = FraudScore(e) /\ f.vcip = e.vcip /\ f.confidence = Confidence(e)
      /\ f.flags = TamperFlags(e) /\ f.cibil = e.cibil /\ f.dpd90 = e.dpd90
      /\ f.overdue = e.overdue /\ f.salaried = e.salaried
      /\ f.noSalaryCredit = (e.salaried /\ e.statement /\ e.bank = 0)
      /\ f.foir = Foir(e) /\ f.incomeShort = VerifiedBelow(e, e.minimum)
  BY DEF FactsOf
<1> HIDE DEF f
<1>5. e.pan # "format_invalid" /\ e.aadhaar # "invalid" /\ e.otp # "failed"
  BY <1>3, <1>4 DEF TamperFlags
<1> QED BY <1>3, <1>4, <1>5

\* Which flags and checks are in the sets, one by one.
LEMMA FlagOf ==
  ASSUME NEW e \in Raw
  PROVE  /\ "pan_format_invalid" \in TamperFlags(e) <=> e.pan = "format_invalid"
         /\ "pan_nsdl_inactive" \in TamperFlags(e) <=> e.pan \in {"active", "inactive"} /\ ~e.panMatch
         /\ "aadhaar_format_invalid" \in TamperFlags(e) <=> e.aadhaar = "invalid"
         /\ "aadhaar_otp_failed" \in TamperFlags(e) <=> e.otp = "failed"
         /\ "spoof_detected" \in TamperFlags(e) <=> e.liveness \in {"borderline", "spoof"}
         /\ "face_mismatch" \in TamperFlags(e) <=> e.face = "mismatch"
         /\ "name_mismatch" \in TamperFlags(e) <=> e.wrongName
         /\ "dob_mismatch" \in TamperFlags(e) <=> e.wrongDob
         /\ "metadata_anomaly" \in TamperFlags(e) <=> e.edited
         /\ "qr_signature_invalid" \in TamperFlags(e) <=> e.signature = "invalid"
         /\ "qr_data_mismatch" \in TamperFlags(e) <=> e.qrWrong \cap QrFlagged(e) # {}
         /\ "qr_tampered" \in TamperFlags(e) <=> e.ela /\ e.exif
         /\ TamperFlags(e) \subseteq {"pan_format_invalid", "pan_nsdl_inactive", "aadhaar_format_invalid",
                                     "aadhaar_otp_failed", "spoof_detected", "face_mismatch",
                                     "name_mismatch", "dob_mismatch", "metadata_anomaly",
                                     "qr_signature_invalid", "qr_data_mismatch", "qr_tampered"}
<1> DEFINE holds == [pan_format_invalid     |-> e.pan = "format_invalid",
                     pan_nsdl_inactive      |-> e.pan \in {"active", "inactive"} /\ ~e.panMatch,
                     aadhaar_format_invalid |-> e.aadhaar = "invalid",
                     aadhaar_otp_failed     |-> e.otp = "failed",
                     spoof_detected         |-> e.liveness \in {"borderline", "spoof"},
                     face_mismatch          |-> e.face = "mismatch",
                     name_mismatch          |-> e.wrongName,
                     dob_mismatch           |-> e.wrongDob,
                     metadata_anomaly       |-> e.edited,
                     qr_signature_invalid   |-> e.signature = "invalid",
                     qr_data_mismatch       |-> e.qrWrong \cap QrFlagged(e) # {},
                     qr_tampered            |-> e.ela /\ e.exif]
<1>1. TamperFlags(e) = {y \in DOMAIN holds : holds[y]}
  BY DEF TamperFlags
<1>2. DOMAIN holds = {"pan_format_invalid", "pan_nsdl_inactive", "aadhaar_format_invalid",
                      "aadhaar_otp_failed", "spoof_detected", "face_mismatch",
                      "name_mismatch", "dob_mismatch", "metadata_anomaly",
                      "qr_signature_invalid", "qr_data_mismatch", "qr_tampered"}
  OBVIOUS
<1>3. /\ holds.pan_format_invalid = (e.pan = "format_invalid")
      /\ holds.pan_nsdl_inactive = (e.pan \in {"active", "inactive"} /\ ~e.panMatch)
      /\ holds.aadhaar_format_invalid = (e.aadhaar = "invalid")
      /\ holds.aadhaar_otp_failed = (e.otp = "failed")
      /\ holds.spoof_detected = (e.liveness \in {"borderline", "spoof"})
      /\ holds.face_mismatch = (e.face = "mismatch")
      /\ holds.name_mismatch = (e.wrongName)
      /\ holds.dob_mismatch = (e.wrongDob)
      /\ holds.metadata_anomaly = (e.edited)
      /\ holds.qr_signature_invalid = (e.signature = "invalid")
      /\ holds.qr_data_mismatch = (e.qrWrong \cap QrFlagged(e) # {})
      /\ holds.qr_tampered = (e.ela /\ e.exif)
  OBVIOUS
<1> HIDE DEF holds
<1>4. \A x : x \in TamperFlags(e) <=> x \in DOMAIN holds /\ holds[x]
  BY <1>1
<1> QED BY <1>2, <1>3, <1>4, Zenon

LEMMA CheckOf ==
  ASSUME NEW e \in Raw
  PROVE  /\ "pan" \in FailedChecks(e) <=> e.pan \notin {"unread", "incomplete"} /\ ~PanMatched(e)
         /\ "aadhaar" \in FailedChecks(e) <=> e.otp = "failed"
         /\ "face" \in FailedChecks(e) <=> e.liveness # "no_selfie" /\ e.face # "matched"
         /\ FailedChecks(e) \subseteq {"pan", "aadhaar", "face"}
<1> DEFINE holds == [pan     |-> e.pan \notin {"unread", "incomplete"} /\ ~PanMatched(e),
                     aadhaar |-> e.otp = "failed",
                     face    |-> e.liveness # "no_selfie" /\ e.face # "matched"]
<1>1. FailedChecks(e) = {y \in DOMAIN holds : holds[y]}
  BY DEF FailedChecks
<1>2. DOMAIN holds = {"pan", "aadhaar", "face"}
  OBVIOUS
<1>3. /\ holds.pan = (e.pan \notin {"unread", "incomplete"} /\ ~PanMatched(e))
      /\ holds.aadhaar = (e.otp = "failed")
      /\ holds.face = (e.liveness # "no_selfie" /\ e.face # "matched")
  OBVIOUS
<1> HIDE DEF holds
<1>4. \A x : x \in FailedChecks(e) <=> x \in DOMAIN holds /\ holds[x]
  BY <1>1
<1> QED BY <1>2, <1>3, <1>4, Zenon

\* Nothing becomes suspicious; a PAN of invalid format, which a gate rejects,
\* is the exception: in its place NSDL may deny the next one.
LEMMA FewerSignals ==
  ASSUME NEW e \in Raw, NEW d \in Raw, NoWorse(e, d), e.pan # "format_invalid"
  PROVE  TamperFlags(d) \subseteq TamperFlags(e) /\ FailedChecks(d) \subseteq FailedChecks(e)
<1>1. /\ (d.wrongName => e.wrongName) /\ (d.wrongDob => e.wrongDob) /\ (d.edited => e.edited)
      /\ (d.ela => e.ela) /\ (d.exif => e.exif)
  BY DEF NoWorse, FaultField
<1>2. /\ d.pan = e.pan \/ (e.pan = "inactive" /\ d.pan = "active")
      /\ e.panMatch => d.panMatch
      /\ d.aadhaar = "invalid" => e.aadhaar = "invalid"
      /\ d.aadhaar = "unread" <=> e.aadhaar = "unread"
      /\ d.otp = "failed" => e.otp = "failed"
      /\ d.liveness \in {"borderline", "spoof"} => e.liveness \in {"borderline", "spoof"}
      /\ d.liveness = "no_selfie" <=> e.liveness = "no_selfie"
      /\ d.face = "mismatch" => e.face = "mismatch"
      /\ e.face = "matched" => d.face = "matched"
      /\ d.signature = "invalid" => e.signature = "invalid"
      /\ d.qrWrong \subseteq e.qrWrong
  BY DEF NoWorse, Raw
<1>3. QrFlagged(d) = QrFlagged(e)
  BY <1>2 DEF QrFlagged
<1>4. d.qrWrong \cap QrFlagged(d) # {} => e.qrWrong \cap QrFlagged(e) # {}
  BY <1>2, <1>3
<1>5. TamperFlags(d) \subseteq TamperFlags(e)
  BY <1>1, <1>2, <1>4, FlagOf
<1>6. FailedChecks(d) \subseteq FailedChecks(e)
  BY <1>2, CheckOf DEF PanMatched
<1> QED BY <1>5, <1>6

LEMMA PercentMonotone ==
  ASSUME NEW b \in BOOLEAN, NEW c \in BOOLEAN, b => c, NEW p \in Nat
  PROVE  Percent(b, p) <= Percent(c, p)
BY DEF Percent

LEMMA LessLoss ==
  ASSUME NEW e \in Raw, NEW d \in Raw, NoWorse(e, d)
  PROVE  TrustLoss(d) <= TrustLoss(e)
<1> DEFINE m == Cardinality(e.qrWrong)
           n == Cardinality(d.qrWrong)
<1>1. d.qrWrong \subseteq e.qrWrong
  BY DEF NoWorse
<1>2. m \in Nat /\ n \in Nat /\ n <= m
  BY <1>1, LossBounds, FS_Subset
<1> HIDE DEF m, n
<1>3. /\ (d.qrMissing => e.qrMissing) /\ (d.qrUnreadable => e.qrUnreadable)
      /\ (d.ela => e.ela) /\ (d.exif => e.exif)
  BY DEF NoWorse, FaultField
<1>4. d.signature = e.signature \/ e.signature = "invalid" \/ d.signature = "valid"
  BY DEF NoWorse
<1>5. /\ Percent(d.qrMissing, 20) <= Percent(e.qrMissing, 20)
      /\ Percent(d.qrUnreadable, 20) <= Percent(e.qrUnreadable, 20)
      /\ Percent(d.signature = "invalid", 35) + Percent(d.signature = "missing", 10)
           <= Percent(e.signature = "invalid", 35) + Percent(e.signature = "missing", 10)
      /\ (IF d.ela /\ d.exif THEN 30 ELSE Percent(d.ela \/ d.exif, 10))
           <= (IF e.ela /\ e.exif THEN 30 ELSE Percent(e.ela \/ e.exif, 10))
  <2>1. /\ e.qrMissing \in BOOLEAN /\ d.qrMissing \in BOOLEAN
        /\ e.qrUnreadable \in BOOLEAN /\ d.qrUnreadable \in BOOLEAN
        /\ e.ela \in BOOLEAN /\ d.ela \in BOOLEAN /\ e.exif \in BOOLEAN /\ d.exif \in BOOLEAN
    BY DEF Raw
  <2>2. /\ Percent(d.qrMissing, 20) <= Percent(e.qrMissing, 20)
        /\ Percent(d.qrUnreadable, 20) <= Percent(e.qrUnreadable, 20)
        /\ Percent(d.ela \/ d.exif, 10) <= Percent(e.ela \/ e.exif, 10)
    <3>1. 20 \in Nat /\ 10 \in Nat
      OBVIOUS
    <3>2. /\ (d.ela \/ d.exif) \in BOOLEAN /\ (e.ela \/ e.exif) \in BOOLEAN
          /\ d.ela \/ d.exif => e.ela \/ e.exif
      BY <1>3, <2>1
    <3> QED BY <1>3, <2>1, <3>1, <3>2, PercentMonotone, Zenon
  <2>3. Percent(d.signature = "invalid", 35) + Percent(d.signature = "missing", 10)
          <= Percent(e.signature = "invalid", 35) + Percent(e.signature = "missing", 10)
    BY <1>4 DEF Percent
  <2>4. Percent(d.ela \/ d.exif, 10) \in {0, 10} /\ Percent(e.ela \/ e.exif, 10) \in {0, 10}
    BY DEF Percent
  <2>5. d.ela /\ d.exif => e.ela /\ e.exif
    BY <1>3
  <2>6. (IF d.ela /\ d.exif THEN 30 ELSE Percent(d.ela \/ d.exif, 10))
           <= (IF e.ela /\ e.exif THEN 30 ELSE Percent(e.ela \/ e.exif, 10))
    <3>1. CASE e.ela /\ e.exif
      BY <2>4, <3>1
    <3>2. CASE ~(e.ela /\ e.exif)
      BY <2>2, <2>5, <3>2
    <3> QED BY <3>1, <3>2
  <2> QED BY <2>2, <2>3, <2>6
<1> DEFINE le == Percent(e.qrMissing, 20) + Percent(e.qrUnreadable, 20)
              + Percent(e.signature = "invalid", 35) + Percent(e.signature = "missing", 10)
              + 10 * m + (IF e.ela /\ e.exif THEN 30 ELSE Percent(e.ela \/ e.exif, 10))
           ld == Percent(d.qrMissing, 20) + Percent(d.qrUnreadable, 20)
              + Percent(d.signature = "invalid", 35) + Percent(d.signature = "missing", 10)
              + 10 * n + (IF d.ela /\ d.exif THEN 30 ELSE Percent(d.ela \/ d.exif, 10))
<1>6. \A c, p : Percent(c, p) \in {0, p}
  BY DEF Percent
<1>7. le \in Int /\ ld \in Int /\ ld <= le
  BY <1>2, <1>5, <1>6
<1>8. TrustLoss(e) = (IF le > 100 THEN 100 ELSE le) /\ TrustLoss(d) = (IF ld > 100 THEN 100 ELSE ld)
  BY DEF TrustLoss, m, n
<1> HIDE DEF le, ld
<1> QED BY <1>7, <1>8

LEMMA MoreConfidence ==
  ASSUME NEW e \in Raw, NEW d \in Raw, NoWorse(e, d), e.pan # "format_invalid"
  PROVE  Confidence(d) >= Confidence(e) /\ Confidence(d) \in 0..400 /\ Confidence(e) \in 0..400
<1> DEFINE le == 400 - 120 * Cardinality(FailedChecks(e)) - 80 * Cardinality(TamperFlags(e)) - TrustLoss(e)
           ld == 400 - 120 * Cardinality(FailedChecks(d)) - 80 * Cardinality(TamperFlags(d)) - TrustLoss(d)
<1>1. /\ Cardinality(FailedChecks(d)) <= Cardinality(FailedChecks(e))
      /\ Cardinality(TamperFlags(d)) <= Cardinality(TamperFlags(e))
  BY FewerSignals, SignalCount, FS_Subset
<1>2. le \in Int /\ ld \in Int /\ le <= ld /\ ld <= 400
  BY <1>1, LessLoss, LossBounds, SignalCount
<1>3. /\ Confidence(e) = IF le < 0 THEN 0 ELSE IF le = 120 THEN 119 ELSE le
      /\ Confidence(d) = IF ld < 0 THEN 0 ELSE IF ld = 120 THEN 119 ELSE ld
  BY DEF Confidence
<1> HIDE DEF le, ld
<1> QED BY <1>2, <1>3

\* The fraud score is the greatest severity, and none gets worse.
LEMMA FraudIsLargest ==
  ASSUME NEW e \in Raw
  PROVE  /\ FraudScore(e) \in Severities(e) /\ FraudScore(e) \in 0..100
         /\ \A s \in Severities(e) : s \in 0..100 /\ s <= FraudScore(e)
<1> DEFINE a == IF e.liveness = "spoof" THEN 90 ELSE Percent(e.liveness = "borderline", 55)
           b == Percent(e.mrzInvalid, 90)
           c == e.ring
           g == Percent(e.graph > 80, e.graph)
<1>1. Severities(e) = {a, b, c, g}
  BY DEF Severities
<1>2. a \in 0..100 /\ b \in 0..100 /\ c \in 0..100 /\ g \in 0..100
  BY DEF Percent, Raw
<1> HIDE DEF a, b, c, g
<1>3. \E s \in Severities(e) : \A t \in Severities(e) : s >= t
  BY <1>1, <1>2
<1>4. FraudScore(e) \in Severities(e) /\ \A t \in Severities(e) : FraudScore(e) >= t
  BY <1>3 DEF FraudScore
<1> QED BY <1>1, <1>2, <1>4

LEMMA LessFraud ==
  ASSUME NEW e \in Raw, NEW d \in Raw, NoWorse(e, d)
  PROVE  FraudScore(d) <= FraudScore(e)
<1>1. /\ d.ring <= e.ring /\ d.graph <= e.graph /\ (d.mrzInvalid => e.mrzInvalid)
      /\ d.liveness = e.liveness \/ e.liveness = "spoof" \/ d.liveness = "live"
  BY DEF NoWorse, LesserField, FaultField
<1>2. e.mrzInvalid \in BOOLEAN /\ d.mrzInvalid \in BOOLEAN /\ 90 \in Nat
      /\ e.ring \in 0..100 /\ e.graph \in 0..100 /\ d.ring \in 0..100 /\ d.graph \in 0..100
  BY DEF Raw
<1> DEFINE a(r) == IF r.liveness = "spoof" THEN 90 ELSE Percent(r.liveness = "borderline", 55)
           g(r) == Percent(r.graph > 80, r.graph)
<1>3. a(d) <= a(e)
  BY <1>1 DEF Percent
<1>4. Percent(d.mrzInvalid, 90) <= Percent(e.mrzInvalid, 90)
  BY <1>1, <1>2, PercentMonotone
<1>5. g(d) <= g(e)
  BY <1>1, <1>2 DEF Percent
<1>6. /\ Severities(e) = {a(e), Percent(e.mrzInvalid, 90), e.ring, g(e)}
      /\ Severities(d) = {a(d), Percent(d.mrzInvalid, 90), d.ring, g(d)}
  BY DEF Severities
<1> HIDE DEF a, g
<1>7. \E s \in Severities(e) : FraudScore(d) <= s
  BY <1>1, <1>3, <1>4, <1>5, <1>6, FraudIsLargest
<1> QED BY <1>7, FraudIsLargest

\* The income is the same, and what it is held against no more.
LEMMA SameIncome ==
  ASSUME NEW e \in Raw, NEW d \in Raw, NoWorse(e, d)
  PROVE  TotalWeight(d) = TotalWeight(e) /\ WeightedSum(d) = WeightedSum(e)
<1>1. \A s \in IncomeSource : d[s] = e[s]
  BY DEF NoWorse, SettledField
<1>2. d.salaried = e.salaried
  BY DEF NoWorse, SettledField
<1>3. Weight(d) = Weight(e)
  BY <1>1, <1>2 DEF Weight
<1>4. [s \in IncomeSource |-> Weight(d)[s] * d[s]] = [s \in IncomeSource |-> Weight(e)[s] * e[s]]
  BY <1>1, <1>3
<1> QED BY <1>3, <1>4 DEF TotalWeight, WeightedSum

LEMMA SumsAreNat ==
  ASSUME NEW e \in Raw
  PROVE  TotalWeight(e) \in Nat /\ WeightedSum(e) \in Nat
  BY LargestSource, AverageBelowLargest

LEMMA LessShort ==
  ASSUME NEW e \in Raw, NEW d \in Raw, NoWorse(e, d), NEW m \in Nat, NEW n \in Nat, n <= m,
         VerifiedBelow(d, n)
  PROVE  VerifiedBelow(e, m)
<1> DEFINE W == TotalWeight(e)
<1>1. W \in Nat /\ WeightedSum(e) \in Nat
  BY SumsAreNat
<1>2. TotalWeight(d) = W /\ WeightedSum(d) = WeightedSum(e)
  BY SameIncome
<1> HIDE DEF W
<1>3. CASE W = 0
  BY <1>2, <1>3 DEF VerifiedBelow, W
<1>4. CASE W # 0
  <2>1. WeightedSum(e) < 12 * n * W
    BY <1>2, <1>4 DEF VerifiedBelow
  <2>2. 12 * n * W <= 12 * m * W
    <3>1. \A x, y, z \in Nat : x <= y => x * z <= y * z
      OBVIOUS
    <3>2. 12 * n \in Nat /\ 12 * m \in Nat /\ 12 * n <= 12 * m
      OBVIOUS
    <3> QED BY <1>1, <3>1, <3>2
  <2>3. 12 * n * W \in Nat /\ 12 * m * W \in Nat
    BY <1>1
  <2>4. WeightedSum(e) < 12 * m * W
    BY <1>1, <2>1, <2>2, <2>3
  <2> QED BY <1>4, <2>4 DEF VerifiedBelow, W
<1> QED BY <1>3, <1>4

\* Rounding up keeps the order, and what is below a whole number of percents
\* stays at most that number.
LEMMA CeilingMonotone ==
  ASSUME NEW o \in Nat, NEW p \in Nat, NEW W \in Nat, W > 0, p <= o
  PROVE  (p + W - 1) \div W <= (o + W - 1) \div W
<1> DEFINE q == (p + W - 1) \div W
           r == (o + W - 1) \div W
<1>1. q \in Nat /\ W * q <= p + W - 1
  OBVIOUS
<1>2. r \in Nat /\ o + W - 1 < W * r + W
  OBVIOUS
<1> HIDE DEF q, r
<1>3. W * q \in Nat /\ W * r \in Nat /\ W * q < W * r + W
  BY <1>1, <1>2
<1>4. W * q < W * (r + 1)
  BY <1>2, <1>3
<1>5. q < r + 1
  BY <1>1, <1>2, <1>4
<1> QED BY <1>1, <1>2, <1>5 DEF q, r

LEMMA CeilingBelow ==
  ASSUME NEW o \in Nat, NEW W \in Nat, W > 0, o < 100 * W
  PROVE  (o + W - 1) \div W \in 0..100
<1> DEFINE q == (o + W - 1) \div W
<1>1. q \in Nat /\ W * q <= o + W - 1
  OBVIOUS
<1> HIDE DEF q
<1>2. W * q \in Nat /\ W * q < 101 * W
  BY <1>1
<1>3. q < 101
  BY <1>1, <1>2
<1> QED BY <1>1, <1>3 DEF q

LEMMA FoirType ==
  ASSUME NEW e \in Raw
  PROVE  Foir(e) \in 0..100
<1>1. TotalWeight(e) \in Nat /\ WeightedSum(e) \in Nat /\ e.emi \in Nat
  BY SumsAreNat DEF Raw
<1> DEFINE o == 1200 * e.emi * TotalWeight(e)
           A == WeightedSum(e)
<1>2. o \in Nat
  BY <1>1
<1>3. Foir(e) = IF TotalWeight(e) = 0 THEN 0
                ELSE IF o >= 100 * A THEN 100 ELSE (o + A - 1) \div A
  BY DEF Foir
<1> HIDE DEF o, A
<1>4. ASSUME ~(o >= 100 * A) PROVE (o + A - 1) \div A \in 0..100
  <2>1. A \in Nat /\ A > 0 /\ o < 100 * A
    BY <1>1, <1>2, <1>4 DEF A
  <2> QED BY <1>2, <2>1, CeilingBelow
<1> QED BY <1>3, <1>4

LEMMA LessFoir ==
  ASSUME NEW e \in Raw, NEW d \in Raw, NoWorse(e, d)
  PROVE  Foir(d) <= Foir(e)
<1>1. /\ TotalWeight(e) \in Nat /\ WeightedSum(e) \in Nat /\ e.emi \in Nat /\ d.emi \in Nat
      /\ d.emi <= e.emi
  BY SumsAreNat DEF Raw, NoWorse, LesserField
<1> DEFINE W == TotalWeight(e)
           A == WeightedSum(e)
           o == 1200 * e.emi * W
           p == 1200 * d.emi * W
<1>2. o \in Nat /\ p \in Nat /\ p <= o
  <2>1. \A x, y, z \in Nat : x <= y => x * z <= y * z /\ x * z \in Nat /\ y * z \in Nat
    OBVIOUS
  <2>2. 1200 * d.emi \in Nat /\ 1200 * e.emi \in Nat /\ 1200 * d.emi <= 1200 * e.emi
    BY <1>1
  <2> QED BY <1>1, <2>1, <2>2
<1>3. Foir(e) = IF W = 0 THEN 0 ELSE IF o >= 100 * A THEN 100 ELSE (o + A - 1) \div A
  BY DEF Foir
<1>4. Foir(d) = IF W = 0 THEN 0 ELSE IF p >= 100 * A THEN 100 ELSE (p + A - 1) \div A
  BY SameIncome DEF Foir
<1>5. Foir(d) \in 0..100 /\ Foir(e) \in 0..100
  BY FoirType
<1> HIDE DEF o, p, A, W
<1>6. CASE W = 0 \/ o >= 100 * A
  BY <1>3, <1>4, <1>5, <1>6
<1>7. CASE W # 0 /\ ~(o >= 100 * A)
  <2>1. A \in Nat /\ A > 0 /\ ~(p >= 100 * A)
    BY <1>1, <1>2, <1>7 DEF A
  <2>2. (p + A - 1) \div A <= (o + A - 1) \div A
    BY <1>2, <2>1, CeilingMonotone
  <2> QED BY <1>3, <1>4, <1>7, <2>1, <2>2
<1> QED BY <1>6, <1>7

\* Which triggers are on, one by one.
LEMMA TriggerOf ==
  ASSUME NEW f
  PROVE  /\ "identity_moderate_confidence" \in ReviewTriggers(f) <=> f.confidence < 280
         /\ "document_metadata_anomaly" \in ReviewTriggers(f) <=> "metadata_anomaly" \in f.flags
         /\ "foir_marginal" \in ReviewTriggers(f) <=> f.foir > 50
         /\ "income_anomalies" \in ReviewTriggers(f) <=> f.noSalaryCredit \/ f.incomeAnomaly
         /\ "affordability_anomalies" \in ReviewTriggers(f) <=> f.affordabilityAnomaly
         /\ "cibil_marginal" \in ReviewTriggers(f) <=> f.cibil < 700
         /\ "multiple_active_loans" \in ReviewTriggers(f) <=> f.activeLoans > 3
         /\ "employment_tier_high_risk" \in ReviewTriggers(f) <=> f.tier >= 4
         /\ ReviewTriggers(f) \subseteq
              {"identity_moderate_confidence", "document_metadata_anomaly", "foir_marginal",
               "income_anomalies", "affordability_anomalies", "cibil_marginal",
               "multiple_active_loans", "employment_tier_high_risk"}
<1> DEFINE holds == [identity_moderate_confidence |-> f.confidence < 280,
                     document_metadata_anomaly    |-> "metadata_anomaly" \in f.flags,
                     foir_marginal                |-> f.foir > 50,
                     income_anomalies             |-> f.noSalaryCredit \/ f.incomeAnomaly,
                     affordability_anomalies      |-> f.affordabilityAnomaly,
                     cibil_marginal               |-> f.cibil < 700,
                     multiple_active_loans        |-> f.activeLoans > 3,
                     employment_tier_high_risk    |-> f.tier >= 4]
<1>1. ReviewTriggers(f) = {t \in DOMAIN holds : holds[t]}
  BY DEF ReviewTriggers
<1>2. DOMAIN holds = {"identity_moderate_confidence", "document_metadata_anomaly", "foir_marginal",
                      "income_anomalies", "affordability_anomalies", "cibil_marginal",
                      "multiple_active_loans", "employment_tier_high_risk"}
  OBVIOUS
<1>3. /\ (holds.identity_moderate_confidence <=> f.confidence < 280)
      /\ (holds.document_metadata_anomaly <=> "metadata_anomaly" \in f.flags)
      /\ (holds.foir_marginal <=> f.foir > 50)
      /\ (holds.income_anomalies <=> f.noSalaryCredit \/ f.incomeAnomaly)
      /\ (holds.affordability_anomalies <=> f.affordabilityAnomaly)
      /\ (holds.cibil_marginal <=> f.cibil < 700)
      /\ (holds.multiple_active_loans <=> f.activeLoans > 3)
      /\ (holds.employment_tier_high_risk <=> f.tier >= 4)
  OBVIOUS
<1> HIDE DEF holds
<1>4. /\ "identity_moderate_confidence" \in ReviewTriggers(f) <=> holds.identity_moderate_confidence
      /\ "document_metadata_anomaly" \in ReviewTriggers(f) <=> holds.document_metadata_anomaly
      /\ "foir_marginal" \in ReviewTriggers(f) <=> holds.foir_marginal
      /\ "income_anomalies" \in ReviewTriggers(f) <=> holds.income_anomalies
      /\ "affordability_anomalies" \in ReviewTriggers(f) <=> holds.affordability_anomalies
      /\ "cibil_marginal" \in ReviewTriggers(f) <=> holds.cibil_marginal
      /\ "multiple_active_loans" \in ReviewTriggers(f) <=> holds.multiple_active_loans
      /\ "employment_tier_high_risk" \in ReviewTriggers(f) <=> holds.employment_tier_high_risk
  BY <1>1, <1>2
<1>5. ReviewTriggers(f) \subseteq DOMAIN holds
  BY <1>1
<1> QED BY <1>2, <1>3, <1>4, <1>5

\* Of an application that fails no gate, a better one fails none either ...
LEMMA NoNewGate ==
  ASSUME NEW e \in Raw, NEW d \in Raw, NoWorse(e, d), FailedGates(FactsOf(e)) = {}
  PROVE  FailedGates(FactsOf(d)) = {}
<1>1. e.pan # "format_invalid" /\ e.vcip # "failed" /\ ~VerifiedBelow(e, e.minimum)
  BY NotGated
<1>2. FraudScore(d) <= 80
  <2>1. ~(FraudScore(e) > 80)
    BY NotGated
  <2> QED BY <2>1, LessFraud, FraudIsLargest
<1>3. d.vcip # "failed"
  BY <1>1 DEF NoWorse
<1>4. Confidence(d) >= 120
  <2>1. ~(Confidence(e) < 120)
    BY NotGated
  <2>2. Confidence(d) >= Confidence(e) /\ Confidence(d) \in Int /\ Confidence(e) \in Int
    BY <1>1, MoreConfidence
  <2> QED BY <2>1, <2>2
<1>5. TamperFlags(d) \subseteq TamperFlags(e)
  BY <1>1, FewerSignals
<1>6. d.cibil >= 650 /\ d.overdue = 0 /\ ~d.dpd90
  <2>1. d.cibil >= e.cibil /\ d.overdue <= e.overdue /\ (d.dpd90 => e.dpd90)
    BY DEF NoWorse, LesserField, FaultField
  <2>2. ~(e.cibil < 650) /\ ~(e.overdue > 0) /\ ~e.dpd90
    BY NotGated
  <2>3. e.cibil \in Int /\ d.cibil \in Int /\ e.overdue \in Nat /\ d.overdue \in Nat
    BY DEF Raw
  <2> QED BY <2>1, <2>2, <2>3
<1>7. ~(d.salaried /\ d.statement /\ d.bank = 0)
  <2>1. d.salaried = e.salaried /\ d.statement = e.statement /\ d.bank = e.bank
    BY DEF NoWorse, SettledField, IncomeSource
  <2> QED BY <2>1, NotGated
<1>8. Foir(d) <= 60
  BY NotGated, LessFoir, FoirType
<1>9. ~VerifiedBelow(d, d.minimum)
  <2>1. d.minimum <= e.minimum /\ d.minimum \in Nat /\ e.minimum \in Nat
    BY DEF NoWorse, LesserField, Raw
  <2> QED BY <1>1, <2>1, LessShort
<1> DEFINE f == FactsOf(d)
           h == HardFails(f)
<1>10. /\ f.fraud = FraudScore(d) /\ f.vcip = d.vcip /\ f.confidence = Confidence(d)
       /\ f.flags = TamperFlags(d) /\ f.cibil = d.cibil /\ (f.dpd90 <=> d.dpd90)
       /\ f.overdue = d.overdue
       /\ (f.noSalaryCredit <=> (d.salaried /\ d.statement /\ d.bank = 0))
       /\ f.foir = Foir(d) /\ (f.incomeShort <=> VerifiedBelow(d, d.minimum))
  BY DEF FactsOf
<1>11. /\ (h[1] <=> f.fraud > 80) /\ (h[2] <=> f.vcip = "failed") /\ (h[3] <=> f.confidence < 120)
       /\ (h[4] <=> "pan_nsdl_inactive" \in f.flags) /\ (h[5] <=> "aadhaar_otp_failed" \in f.flags)
       /\ (h[6] <=> f.flags \cap {"pan_format_invalid", "aadhaar_format_invalid"} # {})
       /\ (h[7] <=> "name_mismatch" \in f.flags) /\ (h[8] <=> "dob_mismatch" \in f.flags)
       /\ (h[9] <=> f.cibil < 650) /\ (h[10] <=> f.dpd90) /\ (h[11] <=> f.overdue > 0)
       /\ (h[12] => f.noSalaryCredit) /\ (h[13] <=> f.foir > 60) /\ (h[14] <=> f.incomeShort)
  BY DEF HardFails
<1> HIDE DEF h, f
<1>12. /\ FraudScore(d) \in Int /\ Confidence(d) \in Int /\ d.cibil \in Int /\ Foir(d) \in Int
  BY <1>1, FraudIsLargest, MoreConfidence, FoirType DEF Raw
<1>13. /\ ~(f.fraud > 80) /\ ~(f.confidence < 120) /\ ~(f.cibil < 650) /\ ~(f.overdue > 0)
       /\ ~(f.foir > 60)
  BY <1>2, <1>4, <1>6, <1>8, <1>10, <1>12
<1>14. /\ "pan_nsdl_inactive" \notin f.flags /\ "aadhaar_otp_failed" \notin f.flags
       /\ f.flags \cap {"pan_format_invalid", "aadhaar_format_invalid"} = {}
       /\ "name_mismatch" \notin f.flags /\ "dob_mismatch" \notin f.flags
  BY <1>5, <1>10, NotGated
<1>15. f.vcip # "failed" /\ ~f.dpd90 /\ ~f.noSalaryCredit /\ ~f.incomeShort
  BY <1>3, <1>6, <1>7, <1>9, <1>10, Zenon
<1>16. /\ ~h[1] /\ ~h[2] /\ ~h[3] /\ ~h[4] /\ ~h[5] /\ ~h[6] /\ ~h[7]
       /\ ~h[8] /\ ~h[9] /\ ~h[10] /\ ~h[11] /\ ~h[12] /\ ~h[13] /\ ~h[14]
  BY <1>11, <1>13, <1>14, <1>15, Zenon
<1>17. \A i \in 1..14 : ~h[i]
  <2>1. \A i \in 1..14 : i \in {1, 2, 3, 4, 5, 6, 7, 8, 9, 10, 11, 12, 13, 14}
    OBVIOUS
  <2> QED BY <1>16, <2>1, Zenon
<1>18. Len(ReasonCodes) = 14
  BY DEF ReasonCodes
<1> QED BY <1>17, <1>18, Zenon DEF FailedGates, h, f

\* ... and has nothing new to review.
LEMMA NoNewTrigger ==
  ASSUME NEW e \in Raw, NEW d \in Raw, NoWorse(e, d), FailedGates(FactsOf(e)) = {}
  PROVE  ReviewTriggers(FactsOf(d)) \subseteq ReviewTriggers(FactsOf(e))
<1> DEFINE f == FactsOf(d)
           g == FactsOf(e)
<1>1. e.pan # "format_invalid"
  BY NotGated
<1>2. /\ f.confidence = Confidence(d) /\ f.flags = TamperFlags(d) /\ f.cibil = d.cibil
      /\ f.activeLoans = d.activeLoans /\ f.tier = d.tier /\ f.foir = Foir(d)
      /\ f.noSalaryCredit = (d.salaried /\ d.statement /\ d.bank = 0)
      /\ f.incomeAnomaly = IncomeAnomaly(d)
      /\ f.affordabilityAnomaly = (Foir(d) > 50 \/ VerifiedBelow(d, d.emi + MonthlyExpenses))
  BY DEF FactsOf
<1>3. /\ g.confidence = Confidence(e) /\ g.flags = TamperFlags(e) /\ g.cibil = e.cibil
      /\ g.activeLoans = e.activeLoans /\ g.tier = e.tier /\ g.foir = Foir(e)
      /\ g.noSalaryCredit = (e.salaried /\ e.statement /\ e.bank = 0)
      /\ g.incomeAnomaly = IncomeAnomaly(e)
      /\ g.affordabilityAnomaly = (Foir(e) > 50 \/ VerifiedBelow(e, e.emi + MonthlyExpenses))
  BY DEF FactsOf
<1> HIDE DEF f, g
<1>4. f.confidence < 280 => g.confidence < 280
  <2>1. Confidence(d) >= Confidence(e) /\ Confidence(d) \in Int /\ Confidence(e) \in Int
    BY <1>1, MoreConfidence
  <2>2. f.confidence = Confidence(d) /\ g.confidence = Confidence(e)
    BY <1>2, <1>3
  <2> QED BY <2>1, <2>2
<1>5. "metadata_anomaly" \in f.flags => "metadata_anomaly" \in g.flags
  BY <1>1, <1>2, <1>3, FewerSignals
<1>6. Foir(d) > 50 => Foir(e) > 50
  BY LessFoir, FoirType
<1>7. f.foir > 50 => g.foir > 50
  BY <1>2, <1>3, <1>6
<1>8. f.noSalaryCredit => g.noSalaryCredit
  <2>1. d.salaried = e.salaried /\ d.statement = e.statement /\ d.bank = e.bank
    BY DEF NoWorse, SettledField, IncomeSource
  <2> QED BY <1>2, <1>3, <2>1
<1>9. f.incomeAnomaly => g.incomeAnomaly
  <2>1. d.slip = e.slip /\ d.bank = e.bank /\ d.declared = e.declared /\ (d.slipFault => e.slipFault)
    BY DEF NoWorse, SettledField, IncomeSource, FaultField
  <2>2. TotalWeight(d) = TotalWeight(e) /\ WeightedSum(d) = WeightedSum(e)
    BY SameIncome
  <2>3. VerifiedBelow(d, 20) => VerifiedBelow(e, 20)
    BY LessShort
  <2>4. IncomeAnomaly(d) => IncomeAnomaly(e)
    BY <2>1, <2>2, <2>3 DEF IncomeAnomaly
  <2> QED BY <1>2, <1>3, <2>4
<1>10. f.affordabilityAnomaly => g.affordabilityAnomaly
  <2>1. d.emi <= e.emi /\ d.emi \in Nat /\ e.emi \in Nat
    BY DEF NoWorse, LesserField, Raw
  <2>2. /\ d.emi + MonthlyExpenses \in Nat /\ e.emi + MonthlyExpenses \in Nat
        /\ d.emi + MonthlyExpenses <= e.emi + MonthlyExpenses
    BY <2>1 DEF MonthlyExpenses
  <2>3. VerifiedBelow(d, d.emi + MonthlyExpenses) => VerifiedBelow(e, e.emi + MonthlyExpenses)
    BY <2>2, LessShort
  <2> QED BY <1>2, <1>3, <1>6, <2>3
<1>11. /\ f.cibil < 700 => g.cibil < 700
       /\ f.activeLoans > 3 => g.activeLoans > 3
       /\ f.tier >= 4 => g.tier >= 4
  <2>1. d.cibil >= e.cibil /\ d.activeLoans <= e.activeLoans /\ d.tier <= e.tier
    BY DEF NoWorse, LesserField
  <2>2. /\ d.cibil \in Int /\ e.cibil \in Int /\ d.activeLoans \in Int /\ e.activeLoans \in Int
        /\ d.tier \in Int /\ e.tier \in Int
    BY DEF Raw
  <2> QED BY <1>2, <1>3, <2>1, <2>2
<1>12. ReviewTriggers(f) \subseteq ReviewTriggers(g)
  <2>1. "identity_moderate_confidence" \in ReviewTriggers(f) =>
         "identity_moderate_confidence" \in ReviewTriggers(g)
    BY <1>4, TriggerOf
  <2>2. "document_metadata_anomaly" \in ReviewTriggers(f) =>
         "document_metadata_anomaly" \in ReviewTriggers(g)
    BY <1>5, TriggerOf, Zenon
  <2>3. "foir_marginal" \in ReviewTriggers(f) => "foir_marginal" \in ReviewTriggers(g)
    BY <1>7, TriggerOf, Zenon
  <2>4. "income_anomalies" \in ReviewTriggers(f) => "income_anomalies" \in ReviewTriggers(g)
    BY <1>8, <1>9, TriggerOf, Zenon
  <2>5. "affordability_anomalies" \in ReviewTriggers(f) =>
         "affordability_anomalies" \in ReviewTriggers(g)
    BY <1>10, TriggerOf, Zenon
  <2>6. "cibil_marginal" \in ReviewTriggers(f) => "cibil_marginal" \in ReviewTriggers(g)
    BY <1>11, TriggerOf
  <2>7. "multiple_active_loans" \in ReviewTriggers(f) => "multiple_active_loans" \in ReviewTriggers(g)
    BY <1>11, TriggerOf
  <2>8. "employment_tier_high_risk" \in ReviewTriggers(f) =>
         "employment_tier_high_risk" \in ReviewTriggers(g)
    BY <1>11, TriggerOf
  <2>9. ReviewTriggers(f) \subseteq
          {"identity_moderate_confidence", "document_metadata_anomaly", "foir_marginal",
           "income_anomalies", "affordability_anomalies", "cibil_marginal",
           "multiple_active_loans", "employment_tier_high_risk"}
    BY TriggerOf, Zenon
  <2> QED BY <2>1, <2>2, <2>3, <2>4, <2>5, <2>6, <2>7, <2>8, <2>9
<1> QED BY <1>12 DEF f, g

LEMMA BetterDecision ==
  ASSUME NEW e \in Raw, NEW d \in Raw, NoWorse(e, d), e.score >= 40
  PROVE  Rank(Decide(FactsOf(d))) >= Rank(Decide(FactsOf(e)))
<1> DEFINE f == FactsOf(d)
           g == FactsOf(e)
<1>1. /\ f.score = d.score /\ g.score = e.score /\ f.highValue = d.highValue
      /\ g.highValue = e.highValue /\ f.vcip = d.vcip /\ g.vcip = e.vcip
  BY DEF FactsOf
<1>2. FailedGates(g) = {} => FailedGates(f) = {} /\ ReviewTriggers(f) \subseteq ReviewTriggers(g)
  BY NoNewGate, NoNewTrigger
<1>3. FailedGates(g) = {} => (DisbursalBlocked(f) => DisbursalBlocked(g))
  <2>1. FailedGates(g) = {} => e.vcip # "failed"
    BY NotGated
  <2>2. (d.highValue => e.highValue) /\ (d.vcip = e.vcip \/ e.vcip = "failed" \/ d.vcip = "completed")
    BY DEF NoWorse, FaultField
  <2> QED BY <1>1, <2>1, <2>2 DEF DisbursalBlocked
<1>4. g.score \in 0..100 /\ f.score \in 0..100 /\ g.score >= 40 /\ f.score >= g.score
  BY <1>1 DEF Raw, NoWorse
<1> HIDE DEF f, g
<1>5. /\ \A reason : Rank(Rejected(reason)) = 0
      /\ \A h, flags : Rank(Reviewed(h, flags)) = 1
      /\ Rank(Approved) = 2
  BY DEF Rank, Rejected, Reviewed, Approved
<1>6. Rank(Decide(f)) \in {0, 1, 2} /\ Rank(Decide(g)) \in {0, 1, 2}
  BY <1>5 DEF Decide
<1>7. CASE FailedGates(g) # {}
  <2>1. Rank(Decide(g)) = 0
    BY <1>5, <1>7 DEF Decide
  <2> QED BY <1>6, <2>1 DEF f, g
<1>8. CASE FailedGates(g) = {} /\ ReviewTriggers(f) # {}
  <2>1. Rank(Decide(g)) = 1 /\ Rank(Decide(f)) = 1
    BY <1>2, <1>5, <1>8 DEF Decide
  <2> QED BY <2>1 DEF f, g
<1>9. CASE FailedGates(g) = {} /\ ReviewTriggers(f) = {}
  <2>1. Rank(Decide(f)) = IF f.score >= 70 /\ ~DisbursalBlocked(f) THEN 2 ELSE 1
    BY <1>2, <1>4, <1>5, <1>9 DEF Decide
  <2>2. Rank(Decide(g)) = 2 => g.score >= 70 /\ ~DisbursalBlocked(g)
    BY <1>5, <1>9 DEF Decide
  <2>3. Rank(Decide(g)) = 2 => Rank(Decide(f)) = 2
    BY <1>3, <1>4, <1>9, <2>1, <2>2
  <2>4. Rank(Decide(f)) >= Rank(Decide(g))
    BY <1>6, <2>1, <2>3
  <2> QED BY <2>4 DEF f, g
<1> QED BY <1>7, <1>8, <1>9

\* For any evidence, amounts and scores from 40 up: whatever piece of evidence
\* gets better, the decision does not get worse, through the signals and the
\* confidence, the severities, the FOIR, all gates and all triggers at once.
THEOREM ImprovingNeverHurts == Spec => ImprovementNeverHurts
<1>1. Inv /\ [Next]_vars => [facts.score >= 40 => Rank(outcome') >= Rank(outcome)]_vars
  <2> SUFFICES ASSUME Inv, Next, facts.score >= 40
               PROVE  Rank(outcome') >= Rank(outcome)
    OBVIOUS
  <2>1. PICK change \in Improvements :
          /\ Better(change[1], evidence[change[1]], change[2])
          /\ evidence' = [evidence EXCEPT ![change[1]] = change[2]]
          /\ evidence' \in Raw /\ outcome' = Decide(FactsOf(evidence'))
    BY DEF Next, Improve
  <2>2. NoWorse(evidence, evidence')
    BY <2>1, BetterIsNoWorse DEF Inv
  <2>3. outcome = Decide(FactsOf(evidence)) /\ evidence \in Raw /\ evidence.score >= 40
    BY DEF Inv, FactsOf
  <2> QED BY <2>1, <2>2, <2>3, BetterDecision
<1> QED BY <1>1, OutcomeOfFacts, PTL DEF Spec, ImprovementNeverHurts
-----------------------------------------------------------------------------
(* Types                                                                   *)

LEMMA FactsType ==
  ASSUME NEW e \in Raw
  PROVE  FactsOf(e) \in Facts
<1>1. FraudScore(e) \in 0..100 /\ Foir(e) \in 0..100
  BY FraudIsLargest, FoirType
<1>2. Confidence(e) \in 0..400
  <2> DEFINE left == 400 - 120 * Cardinality(FailedChecks(e))
                      - 80 * Cardinality(TamperFlags(e)) - TrustLoss(e)
  <2>1. left \in Int /\ left <= 400
    BY SignalCount, LossBounds
  <2>2. Confidence(e) = IF left < 0 THEN 0 ELSE IF left = 120 THEN 119 ELSE left
    BY DEF Confidence
  <2> HIDE DEF left
  <2> QED BY <2>1, <2>2
<1>3. TamperFlags(e) \in SUBSET IdentityFlag
  BY DEF TamperFlags, IdentityFlag
<1>4. \A m : VerifiedBelow(e, m) \in BOOLEAN
  <2> TAKE m
  <2>1. VerifiedBelow(e, m) = TRUE \/ VerifiedBelow(e, m) = FALSE
    BY DEF VerifiedBelow
  <2> QED BY <2>1
<1>7. IncomeAnomaly(e) \in BOOLEAN
  BY Zenon DEF IncomeAnomaly
<1>5. (Foir(e) > 50 \/ VerifiedBelow(e, e.emi + MonthlyExpenses)) \in BOOLEAN
  BY <1>4
<1>6. (e.salaried /\ e.statement /\ e.bank = 0) \in BOOLEAN
  BY DEF Raw
<1> QED BY <1>1, <1>2, <1>3, <1>4, <1>5, <1>6, <1>7 DEF FactsOf, Facts, Raw

LEMMA OutcomeType ==
  ASSUME NEW f \in Facts
  PROVE  Decide(f) \in Outcome
<1>1. Len(ReasonCodes) = 14
  BY DEF ReasonCodes
<1>2. ASSUME FailedGates(f) # {}
      PROVE  Decide(f) \in Outcome
  <2> DEFINE first == CHOOSE i \in FailedGates(f) : \A j \in FailedGates(f) : i <= j
  <2>1. FailedGates(f) \in SUBSET (1..14)
    BY <1>1 DEF FailedGates
  <2>2. \E i \in FailedGates(f) : \A j \in FailedGates(f) : i <= j
    BY <1>2, <2>1, FirstGate
  <2>3. first \in 1..Len(ReasonCodes)
    BY <1>1, <2>1, <2>2
  <2>4. Decide(f) = Rejected(ReasonCodes[first])
    BY <1>2 DEF Decide
  <2> HIDE DEF first
  <2>5. ReasonCodes[first] \in {ReasonCodes[i] : i \in 1..Len(ReasonCodes)}
    BY <2>3
  <2> QED BY <2>4, <2>5 DEF Rejected, Outcome, Decision
<1>3. DisbursalBlocked(f) \in BOOLEAN
  BY DEF DisbursalBlocked, Facts
<1>4. ReviewTriggers(f) \cup Pending(f) \in SUBSET ReviewFlag
  BY TriggerOf DEF Pending, ReviewFlag
<1>5. Reviewed(f, ReviewTriggers(f)) \in Outcome
  BY <1>3, <1>4 DEF Reviewed, Outcome, Decision
<1>6. Reviewed(f, {}) \in Outcome /\ Reviewed(f, {"borderline_score"}) \in Outcome
  BY <1>3 DEF Reviewed, Pending, ReviewFlag, Outcome, Decision
<1>7. Approved \in Outcome /\ Rejected("low_ensemble_score") \in Outcome
  BY DEF Approved, Rejected, Outcome, Decision
<1> QED BY <1>2, <1>5, <1>6, <1>7 DEF Decide

\* The facts keep their ranges whatever the evidence is, the FOIR and the
\* confidence among them, and every outcome is one the API can answer.
THEOREM TypeCorrect == Spec => []TypeOK
<1>1. Inv => TypeOK
  BY FactsType, OutcomeType DEF Inv, TypeOK
<1> QED BY <1>1, OutcomeOfFacts, PTL
=============================================================================
