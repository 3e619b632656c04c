--------------------------- MODULE DecisionPolicy ---------------------------
(***************************************************************************)
(* What the assessment promises from end to end: the evidence about an     *)
(* application is turned into facts (Evidence) and decided (RiskDecision), *)
(* and again each time a piece of the evidence has improved.  The score of *)
(* the ensemble model is part of the evidence and stays what it is.        *)
(***************************************************************************)
EXTENDS Evidence

CONSTANTS
  Applicants,   \* the evidence an application may start from
  Improvements  \* pairs <<field, better value>>

ASSUME PolicyAssumption == Applicants \subseteq Raw /\ \A e \in Applicants : Coherent(e)

VARIABLES
  evidence,  \* what has been reported
  facts,     \* what the stages make of it
  outcome    \* the decision

vars == <<evidence, facts, outcome>>

TypeOK == evidence \in Raw /\ facts \in Facts /\ outcome \in Outcome

Init == evidence \in Applicants /\ facts = FactsOf(evidence) /\ outcome = Decide(facts)

\* Is the second value of a field better for the applicant than the first?
\* Amounts of income are not among them: more of one source can contradict
\* another one.
Better(field, old, new) ==
  CASE field \in {"ring", "graph", "emi", "minimum", "overdue", "activeLoans", "tier"} -> new < old
    [] field \in {"cibil", "score"} -> new > old
    [] field \in {"wrongName", "wrongDob", "edited", "qrMissing", "qrUnreadable", "ela", "exif",
                  "mrzInvalid", "slipFault", "dpd90", "highValue"} -> old /\ ~new
    [] field = "panMatch" -> ~old /\ new
    [] field = "qrWrong" -> new \subseteq old /\ new # old
    [] field = "pan" -> <<old, new>> \in ({"format_invalid"} \X {"incomplete", "active"})
                                       \cup {<<"inactive", "active">>}
    [] field = "aadhaar" -> <<old, new>> = <<"invalid", "valid">>
    [] field = "otp" -> <<old, new>> = <<"failed", "matched">>
    [] field = "liveness" -> <<old, new>> \in ({"spoof"} \X {"borderline", "live"})
                                            \cup {<<"borderline", "live">>}
    [] field = "face" -> <<old, new>> \in ({"mismatch"} \X {"not_compared", "matched"})
                                        \cup {<<"not_compared", "matched">>}
    [] field = "signature" -> <<old, new>> \in ({"invalid"} \X {"missing", "valid"})
                                             \cup {<<"missing", "valid">>}
    [] field = "vcip" -> <<old, new>> \in ({"none", "open", "failed"} \X {"completed"})
                                        \cup {<<"failed", "open">>}
    [] OTHER -> FALSE

Improve ==
  \E change \in Improvements :
    /\ Better(change[1], evidence[change[1]], change[2])
    /\ evidence' = [evidence EXCEPT ![change[1]] = change[2]]
    /\ evidence' \in Raw /\ Coherent(evidence')
    /\ facts' = FactsOf(evidence')
    /\ outcome' = Decide(facts')

Next == Improve

Spec == Init /\ [][Next]_vars

-----------------------------------------------------------------------------
\* The V-CIP gate of decide, on every path: without a completed session a loan
\* above the ceiling is never approved, and whatever sends it to review says
\* that the session is pending; a failed session is a rejection; and a loan
\* that needs no session, or has one, is never held for it.
VideoGateHolds ==
  /\ DisbursalBlocked(facts) => outcome.decision # "approve"
  /\ outcome.decision = "review" =>
       (DisbursalBlocked(facts) <=> outcome.blocked /\ "vcip_pending" \in outcome.flags)
  /\ facts.vcip = "failed" => outcome.decision = "reject"
  /\ outcome.blocked => outcome.decision = "review"

\* Every outcome can be explained by a fact: the reason of a rejection is a gate
\* the application fails, and none that comes before it fails; a review names
\* something for the reviewer to look at.
OutcomeIsExplained ==
  /\ outcome.decision = "reject" =>
       \/ \E i \in FailedGates(facts) :
            outcome.reason = ReasonCodes[i] /\ \A j \in FailedGates(facts) : i <= j
       \/ outcome.reason = "low_ensemble_score" /\ FailedGates(facts) = {} /\ facts.score < 40
  /\ outcome.decision = "review" => outcome.flags # {}
  /\ outcome.decision = "approve" => FailedGates(facts) = {} /\ ReviewTriggers(facts) = {}

Signals(e) == TamperFlags(e) \cup FailedChecks(e)

\* Signals of forgery add up through the confidence formula although most have
\* no gate of their own: an application with two of them is never approved
\* unseen, and the confidence alone never rejects one with a single signal.
SignalsAddUp ==
  /\ outcome.decision = "approve" => Cardinality(Signals(evidence)) <= 1
  /\ outcome.reason = "identity_low_confidence" => Cardinality(Signals(evidence)) >= 2

\* What is approved is backed by a document: some single source shows, on its
\* own, the lender's minimum, twice the instalment, and what is left after the
\* instalment and the expenses; averaging the sources cannot conjure it up.
\* And a salaried applicant's statement shows a salary, near that of the slip.
IncomeBacksApproval ==
  outcome.decision = "approve" =>
    /\ \E s \in IncomeSource :
         /\ evidence[s] >= 12 * evidence.minimum
         /\ evidence[s] >= 24 * evidence.emi
         /\ evidence[s] >= 12 * (evidence.emi + MonthlyExpenses)
    /\ evidence.salaried /\ evidence.statement => evidence.bank > 0
    /\ evidence.slip > 0 /\ evidence.bank > 0 => ~Apart(evidence.slip, evidence.bank, 30)

\* Better evidence never gets an applicant a worse decision, as long as the
\* ensemble score is not in its rejecting range.  (Below 40 it does: clearing
\* the last review trigger turns the review into a rejection, because decide
\* looks at the score only when there is nothing to review.)
ImprovementNeverHurts ==
  [][facts.score >= 40 => Rank(outcome') >= Rank(outcome)]_vars

\* Claim of the build plan, "pan_nsdl_inactive: NSDL returns status # active"
\* and "NSDL returns inactive PAN -> REJECT pan_inactive_or_invalid".
InactivePanIsRejected ==
  evidence.pan = "inactive" => outcome.decision = "reject"
=============================================================================
