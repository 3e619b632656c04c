-------------------------- MODULE MCDocumentReader --------------------------
(* Instances of DocumentReader for TLC.                                    *)
EXTENDS DocumentReader

CONSTANTS s1, s2, i1, i2

Two == {s1, s2}
OneForm == {s1}
Both == {i1, i2}

\* The form brings two pages, another submission one.
PlacesApart == [s \in Two |-> IF s = s1 THEN {1, 2} ELSE {1}]
\* The other submission brings the form's second page once more.
OwnPages == [s \in Two |-> IF s = s1 THEN <<i1, i2>> ELSE <<i2>>]

Classes == {"aadhaar", "bank_statement", "salary_slip"}
FieldNames == {"aadhaar_number", "net_pay", "salary_credits"}
Kinds   == [i \in Both |-> IF i = i1 THEN "aadhaar" ELSE "salary_slip"]
Guesses == [i \in Both |-> "salary_slip"]
SureOf  == {i2}
Confs   == [i \in Both |-> IF i = i1 THEN 80 ELSE 10]
NumberOn == {i1}
\* Only the raw text makes anything of the Aadhaar card.
Found   == [i \in Both |-> IF i = i1 THEN {} ELSE {"net_pay"}]
CannedFields == [c \in Classes |-> CASE c = "aadhaar" -> {"aadhaar_number"}
                                      [] c = "salary_slip" -> {"net_pay"}
                                      [] OTHER -> {}]
FoundByDonut == [i \in Both |-> {}]
=============================================================================
