---------------------------- MODULE MCCompliance ----------------------------
(* Instances of Compliance for TLC.                                        *)
EXTENDS Compliance

CONSTANTS a1, a2

OneApplication == {a1}
TwoApplications == {a1, a2}
OnePurpose == {"video_kyc"}
TwoPurposes == {"video_kyc", "credit_bureau_pull"}
=============================================================================
