---------------------------- MODULE ReviewLedger ----------------------------
(***************************************************************************)
(* What the durable side of the human-review workflow promises, with no    *)
(* process, no memory and no failures: every registered application has a  *)
(* review status, every reviewer verdict that reaches the store is kept    *)
(* for good, and a status other than "pending" is always the status of a   *)
(* verdict recorded in the same step.  ReviewConsole implements it.        *)
(***************************************************************************)
EXTENDS Naturals

CONSTANT Applications

VARIABLES
  status,     \* status[a]: the review status of application a, or "none"
  verdicts    \* verdicts[a]: the reviewer verdicts recorded for a

vars == <<status, verdicts>>

Verdict == {"approve", "reject", "escalate"}

\* An escalation hands the case on; any other verdict closes it.
StatusOf(v) == IF v = "escalate" THEN "escalated" ELSE "completed"

TypeOK ==
  /\ status \in [Applications -> {"none", "pending", "completed", "escalated"}]
  /\ verdicts \in [Applications -> SUBSET Verdict]

Init ==
  /\ status = [a \in Applications |-> "none"]
  /\ verdicts = [a \in Applications |-> {}]

\* An application is (re)registered for review; its verdicts stay on record.
Register(a) ==
  /\ status' = [status EXCEPT ![a] = "pending"]
  /\ UNCHANGED verdicts

\* A verdict and the status that follows from it are recorded together.
\* An application that was never registered keeps only the verdict.
Record(a, v) ==
  /\ verdicts' = [verdicts EXCEPT ![a] = @ \cup {v}]
  /\ status' = IF status[a] = "none"
                 THEN status
                 ELSE [status EXCEPT ![a] = StatusOf(v)]

Next == \E a \in Applications :
          \/ Register(a)
          \/ \E v \in Verdict : Record(a, v)

Spec == Init /\ [][Next]_vars
=============================================================================
