------------------------ MODULE MCOnboardingPipeline ------------------------
(* Instances of OnboardingPipeline for TLC.                                *)
EXTENDS OnboardingPipeline

CONSTANTS p1, p2, a1

TwoSubmissions == {p1, p2}
OneCaller      == {a1}
IdOfForm(p)    == <<"demo", p>>

CleanFacts == [highValue |-> FALSE, vcip |-> "none", fraud |-> 5, confidence |-> 360,
               flags |-> {}, cibil |-> 750, dpd90 |-> FALSE, overdue |-> 0,
               activeLoans |-> 2, salaried |-> TRUE, noSalaryCredit |-> FALSE,
               incomeAnomaly |-> FALSE, incomeShort |-> FALSE, foir |-> 40,
               affordabilityAnomaly |-> FALSE, tier |-> 3, score |-> 85]

\* Approvable; approvable but for video KYC; rejected; to review and, for the
\* form's rule, to reject.
FourProfiles == {CleanFacts, [CleanFacts EXCEPT !.highValue = TRUE],
                 [CleanFacts EXCEPT !.cibil = 640],
                 [CleanFacts EXCEPT !.foir = 55, !.fraud = 70]}
=============================================================================
