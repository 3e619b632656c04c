---------------------------- MODULE RiskDecision ----------------------------
(***************************************************************************)
(* The decision an application gets: RiskDecisionProcessor.decide as an    *)
(* operator on the facts the earlier stages established.  Ratios and       *)
(* scores are percentages; the identity confidence is in 400ths, the unit  *)
(* in which all its deductions are whole (0.30 is 120, 0.70 is 280).  The  *)
(* score of the ensemble model is one of the facts.                        *)
(***************************************************************************)
EXTENDS Integers, Sequences

IdentityFlag == {"pan_format_invalid", "pan_nsdl_inactive", "aadhaar_format_invalid",
                 "aadhaar_otp_failed", "name_mismatch", "dob_mismatch", "metadata_anomaly",
                 "spoof_detected", "face_mismatch", "qr_signature_invalid",
                 "qr_data_mismatch", "qr_tampered"}

Facts ==
  [highValue : BOOLEAN,            \* VCIPProcessor.is_required(loan_amount)
   vcip : {"none", "open", "completed", "failed"},  \* open: neither verdict yet
   fraud : 0..100,
   confidence : 0..400, flags : SUBSET IdentityFlag,
   cibil : 300..900, dpd90 : BOOLEAN, overdue : Nat, activeLoans : Nat,
   salaried : BOOLEAN, noSalaryCredit : BOOLEAN, incomeAnomaly : BOOLEAN,
   incomeShort : BOOLEAN,          \* verified income below the minimum
   foir : 0..100, affordabilityAnomaly : BOOLEAN,
   tier : 1..5, score : 0..100]

\* is_required and the test for a completed session: the V-CIP block.
DisbursalBlocked(f) == f.highValue /\ f.vcip # "completed"

Decision == {"approve", "review", "reject"}

ReviewFlag == {"identity_moderate_confidence", "document_metadata_anomaly", "foir_marginal",
               "income_anomalies", "affordability_anomalies", "cibil_marginal",
               "multiple_active_loans", "employment_tier_high_risk",
               "vcip_pending", "borderline_score"}

\* The hard gates in the order decide tries them, each with its reason code.
ReasonCodes ==
  <<"high_fraud_risk", "vcip_failed", "identity_low_confidence",
    "pan_inactive_or_invalid", "aadhaar_verification_failed",
    "kyc_document_invalid", "identity_mismatch_name", "identity_mismatch_dob",
    "cibil_score_below_minimum", "dpd_90_plus_in_24_months",
    "overdue_accounts_in_bureau", "bank_credit_not_found", "foir_exceeded",
    "income_below_minimum">>

HardFails(f) ==
  <<f.fraud > 80, f.vcip = "failed", f.confidence < 120,
    "pan_nsdl_inactive" \in f.flags, "aadhaar_otp_failed" \in f.flags,
    f.flags \cap {"pan_format_invalid", "aadhaar_format_invalid"} # {}, "name_mismatch" \in f.flags,
    "dob_mismatch" \in f.flags, f.cibil < 650, f.dpd90, f.overdue > 0,
    f.salaried /\ f.noSalaryCredit, f.foir > 60, f.incomeShort>>

FailedGates(f) == {i \in 1..Len(ReasonCodes) : HardFails(f)[i]}

Outcome == [decision : Decision,
            reason : {ReasonCodes[i] : i \in 1..Len(ReasonCodes)} \cup {"none", "low_ensemble_score"},
            flags : SUBSET ReviewFlag, blocked : BOOLEAN]

\* The soft conditions that send an application to a reviewer.
ReviewTriggers(f) ==
  LET holds == [identity_moderate_confidence |-> f.confidence < 280,
                document_metadata_anomaly    |-> "metadata_anomaly" \in f.flags,
                foir_marginal                |-> f.foir > 50,
                income_anomalies             |-> f.noSalaryCredit \/ f.incomeAnomaly,
                affordability_anomalies      |-> f.affordabilityAnomaly,
                cibil_marginal               |-> f.cibil < 700,
                multiple_active_loans        |-> f.activeLoans > 3,
                employment_tier_high_risk    |-> f.tier >= 4]
  IN  {t \in DOMAIN holds : holds[t]}

Pending(f) == IF DisbursalBlocked(f) THEN {"vcip_pending"} ELSE {}

\* The three results decide builds; only a review carries the V-CIP block.
Rejected(reason)    == [decision |-> "reject", reason |-> reason, flags |-> {}, blocked |-> FALSE]
Reviewed(f, flags)  == [decision |-> "review", reason |-> "none",
                        flags |-> flags \cup Pending(f), blocked |-> DisbursalBlocked(f)]
Approved            == [decision |-> "approve", reason |-> "none", flags |-> {}, blocked |-> FALSE]

\* Fault: the V-CIP block is applied where flags are reported but not where the
\* application is approved.
Decide_ApprovesBlocked(f) ==
  IF FailedGates(f) # {}
    THEN Rejected(ReasonCodes[CHOOSE i \in FailedGates(f) : \A j \in FailedGates(f) : i <= j])
  ELSE IF ReviewTriggers(f) # {} THEN Reviewed(f, ReviewTriggers(f))
  ELSE IF f.score >= 70 THEN Approved
  ELSE IF f.score >= 40 THEN Reviewed(f, {"borderline_score"})
  ELSE Rejected("low_ensemble_score")

\* Fault: the review triggers are looked at before the hard gates.
Decide_TriggersFirst(f) ==
  IF ReviewTriggers(f) # {} THEN Reviewed(f, ReviewTriggers(f))
  ELSE IF FailedGates(f) # {}
    THEN Rejected(ReasonCodes[CHOOSE i \in FailedGates(f) : \A j \in FailedGates(f) : i <= j])
  ELSE IF f.score >= 70 /\ ~DisbursalBlocked(f) THEN Approved
  ELSE IF f.score >= 70 THEN Reviewed(f, {})
  ELSE IF f.score >= 40 THEN Reviewed(f, {"borderline_score"})
  ELSE Rejected("low_ensemble_score")

\* Fault: the last failing gate gives the reason, as when every gate is
\* evaluated and overwrites the code of the one before.
Decide_LastReason(f) ==
  IF FailedGates(f) # {}
    THEN Rejected(ReasonCodes[CHOOSE i \in FailedGates(f) : \A j \in FailedGates(f) : i >= j])
  ELSE IF ReviewTriggers(f) # {} THEN Reviewed(f, ReviewTriggers(f))
  ELSE IF f.score >= 70 /\ ~DisbursalBlocked(f) THEN Approved
  ELSE IF f.score >= 70 THEN Reviewed(f, {})
  ELSE IF f.score >= 40 THEN Reviewed(f, {"borderline_score"})
  ELSE Rejected("low_ensemble_score")

\* The first failing gate rejects; a review trigger comes before the score is
\* even computed; the score decides the rest, a blocked approval is a review.
Decide(f) ==
  IF FailedGates(f) # {}
    THEN Rejected(ReasonCodes[CHOOSE i \in FailedGates(f) : \A j \in FailedGates(f) : i <= j])
  ELSE IF ReviewTriggers(f) # {} THEN Reviewed(f, ReviewTriggers(f))
  ELSE IF f.score >= 70 /\ ~DisbursalBlocked(f) THEN Approved
  ELSE IF f.score >= 70 THEN Reviewed(f, {})
  ELSE IF f.score >= 40 THEN Reviewed(f, {"borderline_score"})
  ELSE Rejected("low_ensemble_score")

\* Decisions from the worst for the applicant to the best.
Rank(outcome) == CASE outcome.decision = "reject"  -> 0
                   [] outcome.decision = "review"  -> 1
                   [] outcome.decision = "approve" -> 2
=============================================================================
