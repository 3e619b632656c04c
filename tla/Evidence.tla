------------------------------ MODULE Evidence ------------------------------
(***************************************************************************)
(* From what the documents, the verification services and the models       *)
(* report about an application to the facts that decide works on: the      *)
(* identity flags and confidence with the trust score of the QR codes, the *)
(* fraud score, the reconciled income, and the affordability of the loan.  *)
(* This is the pipeline with real models; the mocks report clean evidence. *)
(*                                                                         *)
(* Amounts are in thousands of rupees: incomes a year, the instalment, the *)
(* lender's minimum and the flat expenses a month.  Ratios are exact; the  *)
(* code's are floats, which may fall on either side of an exact tie.       *)
(***************************************************************************)
EXTENDS RiskDecision, FiniteSets

IncomeSource == {"slip", "itr", "itrBefore", "gst", "bank"}
QrField == {"name", "dob", "address", "uid", "pan"}

Raw ==
  [pan : {"unread", "incomplete", "format_invalid", "active", "inactive"},
                          \* incomplete: no name or date of birth to ask NSDL with;
                          \* active, inactive: the status NSDL answers
   panMatch : BOOLEAN,    \* NSDL's name_match
   aadhaar : {"unread", "valid", "invalid"},   \* the checksum of the number read
   otp : {"none", "matched", "failed"},
   liveness : {"no_selfie", "live", "borderline", "spoof"},   \* from 0.50, 0.25, below
   face : {"not_compared", "matched", "mismatch"},
   wrongName : BOOLEAN, wrongDob : BOOLEAN,    \* documents and form disagree
   edited : BOOLEAN,                           \* document metadata names an editor
   qrMissing : BOOLEAN, qrUnreadable : BOOLEAN,   \* on some Aadhaar or PAN document
   signature : {"valid", "missing", "invalid"},   \* of the Aadhaar QR code
   qrWrong : SUBSET QrField,                   \* fields the QR code contradicts
   ela : BOOLEAN, exif : BOOLEAN,              \* signs of tampering with the image
   mrzInvalid : BOOLEAN, ring : 0..100, graph : 0..100,   \* severities; ring 0: none
   slip : Nat, itr : Nat, itrBefore : Nat, gst : Nat, bank : Nat,   \* 0: not shown
   statement : BOOLEAN,                        \* is there a bank statement?
   slipFault : BOOLEAN,                        \* unreadable pay, or another employer
   declared : Nat, minimum : Nat, emi : Nat,
   salaried : BOOLEAN, highValue : BOOLEAN, vcip : {"none", "open", "completed", "failed"},
   cibil : 300..900, dpd90 : BOOLEAN, overdue : Nat, activeLoans : Nat,
   tier : 1..5, score : 0..100]

\* An OTP needs an Aadhaar number, a comparison of faces a selfie, and a
\* credit a statement to stand in.
Coherent(e) ==
  /\ e.otp # "none" => e.aadhaar # "unread"
  /\ e.face # "not_compared" => e.liveness # "no_selfie"
  /\ e.bank > 0 => e.statement

-----------------------------------------------------------------------------
(* Identity: IdentityTrustProcessor.verify_identity                        *)

\* The client passes NSDL's name_match on as "matched", next to its status.
PanMatched(e) == e.pan \in {"active", "inactive"} /\ e.panMatch

\* QR fields whose contradiction is a flag: an id number only when OCR read one.
QrFlagged(e) ==
  {"name", "dob"} \cup {f \in {"uid"} : e.aadhaar # "unread"}
                  \cup {f \in {"pan"} : e.pan # "unread"}

TamperFlags(e) ==
  LET holds == [pan_format_invalid     |-> e.pan = "format_invalid",
                pan_nsdl_inactive      |-> e.pan \in {"active", "inactive"} /\ ~e.panMatch,
                aadhaar_format_invalid |-> e.aadhaar = "invalid",
                aadhaar_otp_failed     |-> e.otp = "failed",
                spoof_detected         |-> e.liveness \in {"borderline", "spoof"},
                face_mismatch          |-> e.face = "mismatch",
                name_mismatch          |-> e.wrongName,
                dob_mismatch           |-> e.wrongDob,
                metadata_anomaly       |-> e.edited,
                qr_signature_invalid   |-> e.signature = "invalid",
                qr_data_mismatch       |-> e.qrWrong \cap QrFlagged(e) # {},
                qr_tampered            |-> e.ela /\ e.exif]
  IN  {flag \in DOMAIN holds : holds[flag]}

\* What was asked and not confirmed; a selfie without a face to compare it
\* with counts as well.
FailedChecks(e) ==
  LET holds == [pan     |-> e.pan \notin {"unread", "incomplete"} /\ ~PanMatched(e),
                aadhaar |-> e.otp = "failed",
                face    |-> e.liveness # "no_selfie" /\ e.face # "matched"]
  IN  {check \in DOMAIN holds : holds[check]}

Percent(condition, points) == IF condition THEN points ELSE 0

\* QRTrustProcessor._compute_trust_score, as the percentage lost.
TrustLoss(e) ==
  LET loss == Percent(e.qrMissing, 20) + Percent(e.qrUnreadable, 20)
              + Percent(e.signature = "invalid", 35) + Percent(e.signature = "missing", 10)
              + 10 * Cardinality(e.qrWrong)
              + IF e.ela /\ e.exif THEN 30 ELSE Percent(e.ela \/ e.exif, 10)
  IN  IF loss > 100 THEN 100 ELSE loss

\* Fault: the flags cost 0.20 together instead of 0.20 each.
Confidence_FlatPenalty(e) ==
  LET left == 400 - 120 * Cardinality(FailedChecks(e))
                  - Percent(TamperFlags(e) # {}, 80) - TrustLoss(e)
  IN  IF left < 0 THEN 0 ELSE IF left = 120 THEN 119 ELSE left

\* 0.30 for each failed check, 0.20 for each flag, a quarter of the lost trust.
\* The float sums that should be 0.30 all come out just below it, those that
\* should be 0.70 do not.
Confidence(e) ==
  LET left == 400 - 120 * Cardinality(FailedChecks(e))
                  - 80 * Cardinality(TamperFlags(e)) - TrustLoss(e)
  IN  IF left < 0 THEN 0 ELSE IF left = 120 THEN 119 ELSE left

-----------------------------------------------------------------------------
(* Fraud: FraudIntelligenceProcessor.process_fraud                         *)

Severities(e) ==
  {IF e.liveness = "spoof" THEN 90 ELSE Percent(e.liveness = "borderline", 55),
   Percent(e.mrzInvalid, 90), e.ring, Percent(e.graph > 80, e.graph)}

FraudScore(e) == CHOOSE s \in Severities(e) : \A t \in Severities(e) : s >= t

-----------------------------------------------------------------------------
(* Income and affordability: process_income, process_affordability         *)

Total(of) == of.slip + of.itr + of.itrBefore + of.gst + of.bank

\* Trust weights in hundredths; a source that shows nothing has none.
Weight(e) ==
  LET trust == [slip |-> 65, itr |-> IF e.salaried THEN 85 ELSE 90, itrBefore |-> 80,
                gst |-> 75, bank |-> IF e.salaried THEN 75 ELSE 65]
  IN  [s \in IncomeSource |-> Percent(e[s] > 0, trust[s])]

\* Fault: the weighted amounts are added up but not averaged.
TotalWeight_Largest(e) ==
  CHOOSE w \in {Weight(e)[s] : s \in IncomeSource} : \A s \in IncomeSource : Weight(e)[s] <= w

\* The verified income a year is WeightedSum over TotalWeight, 0 without a source.
TotalWeight(e) == Total(Weight(e))
WeightedSum(e) == Total([s \in IncomeSource |-> Weight(e)[s] * e[s]])

\* Is the verified income below that much a month?
VerifiedBelow(e, monthly) ==
  IF TotalWeight(e) = 0 THEN monthly > 0
  ELSE WeightedSum(e) < 12 * monthly * TotalWeight(e)

\* Do the two differ by more than that percentage of the larger one?
Apart(a, b, percentage) ==
  LET larger == IF a > b THEN a ELSE b
  IN  100 * (IF a > b THEN a - b ELSE b - a) > percentage * larger

\* The income flags but for the missing salary credit.
IncomeAnomaly(e) ==
  \/ e.slipFault
  \/ e.slip > 0 /\ e.bank > 0 /\ Apart(e.slip, e.bank, 30)
  \/ TotalWeight(e) > 0 /\ VerifiedBelow(e, 20)
  \/ TotalWeight(e) > 0 /\ e.declared > 0
     /\ Apart(e.declared * TotalWeight(e), WeightedSum(e), 10)

\* The instalment over the verified income, rounded up to a whole percentage
\* (which keeps both comparisons) and capped; 0 without an income.
Foir(e) ==
  LET obligations == 1200 * e.emi * TotalWeight(e)
  IN  IF TotalWeight(e) = 0 THEN 0
      ELSE IF obligations >= 100 * WeightedSum(e) THEN 100
      ELSE (obligations + WeightedSum(e) - 1) \div WeightedSum(e)

MonthlyExpenses == 15

-----------------------------------------------------------------------------

FactsOf(e) ==
  [highValue |-> e.highValue, vcip |-> e.vcip, fraud |-> FraudScore(e),
   confidence |-> Confidence(e), flags |-> TamperFlags(e),
   cibil |-> e.cibil, dpd90 |-> e.dpd90, overdue |-> e.overdue, activeLoans |-> e.activeLoans,
   salaried |-> e.salaried, noSalaryCredit |-> e.salaried /\ e.statement /\ e.bank = 0,
   incomeAnomaly |-> IncomeAnomaly(e), incomeShort |-> VerifiedBelow(e, e.minimum),
   foir |-> Foir(e),
   affordabilityAnomaly |-> Foir(e) > 50 \/ VerifiedBelow(e, e.emi + MonthlyExpenses),
   tier |-> e.tier, score |-> e.score]
=============================================================================
