-------------------------- MODULE MCReviewConsole --------------------------
(* Instances of ReviewConsole for TLC.                                     *)
EXTENDS ReviewConsole, TLC

CONSTANTS demo1, demo2, r1

OneScenario  == <<demo1>>
TwoScenarios == <<demo1, demo2>>
DemoOnly     == {demo1}
TwoDemos     == {demo1, demo2}
OneReviewer  == {r1}
=============================================================================
