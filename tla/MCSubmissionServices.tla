------------------------ MODULE MCSubmissionServices ------------------------
\* Instances of SubmissionServices for TLC: an applicant who comes back under a
\* fresh id, or two people on one device.
EXTENDS SubmissionServices

CONSTANTS s1, s2, a1, a2, old

MCSubmissions == {s1, s2}
FreshIds(p) == IF p = s1 THEN a1 ELSE a2

\* Two people on one phone, device and address; either may come twice.
Person(n) == [pan |-> n, aadhaar |-> n, phone |-> "t", email |-> None, device |-> "d", address |-> "h"]
TwoPeople == {Person("x"), Person("y")}

\* Two pages of one class; a name is read on one application only, whoever
\* applies gives an OTP.
TwoSlips(p) == IF p = s1 THEN <<"pan", "aadhaar", "salary_slip", "salary_slip">>
                         ELSE <<"aadhaar", "pan">>
First(p) == p = s1
Both(p) == TRUE
Mixed(p) == "real"
LeftBehind == {[app |-> old, field |-> "address", value |-> "h"],
               [app |-> old, field |-> "phone", value |-> "t"],
               [app |-> old, field |-> "pan", value |-> "z"]}
=============================================================================
