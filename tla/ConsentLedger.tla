---------------------------- MODULE ConsentLedger ----------------------------
(***************************************************************************)
(* What a consent is to the rest of the program: per subject (an           *)
(* application and a purpose) it was never given, is in force or is        *)
(* withdrawn.  Compliance implements it with lists of records; VideoKyc    *)
(* consults it before it opens a session.                                  *)
(***************************************************************************)
CONSTANT Subjects

VARIABLE consent   \* consent[k]: "none", "active" or "withdrawn"

TypeOK == consent \in [Subjects -> {"none", "active", "withdrawn"}]

Init == consent = [k \in Subjects |-> "none"]

\* Consent can be given at any time, also again after a withdrawal.
Give(k) == consent' = [consent EXCEPT ![k] = "active"]

\* Only a consent in force can be withdrawn, and none of it stays in force.
Withdraw(k) ==
  /\ consent[k] = "active"
  /\ consent' = [consent EXCEPT ![k] = "withdrawn"]

Next == \E k \in Subjects : Give(k) \/ Withdraw(k)

Spec == Init /\ [][Next]_consent
=============================================================================
