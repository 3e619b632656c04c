------------------------- MODULE OnboardingPipeline -------------------------
(***************************************************************************)
(* Submissions going through OnboardingPipeline.execute, from the two      *)
(* routes that start it: POST /onboard, whose caller names the             *)
(* application, and the customer form POST /apply/submit, which draws a    *)
(* fresh id.  All run on one event loop; execute is suspended while the    *)
(* documents are read and at every event it publishes, so submissions      *)
(* interleave there and share the review queue, the explanations of the    *)
(* audit route and the consent ledger.  The facts the stages establish are *)
(* given with the submission; RiskDecision decides on them.                *)
(*                                                                         *)
(* Left out: what is published (best effort, read by nobody in the         *)
(* program), the stored documents, and the identity graph behind the fraud *)
(* score.                                                                  *)
(***************************************************************************)
EXTENDS RiskDecision

CONSTANTS
  Submissions,    \* requests
  CallerIds,      \* application ids the callers of /onboard use
  FormId(_),      \* the id /apply/submit draws for a submission
  Nobody,         \* no submission
  Profiles,       \* the facts the stages may establish
  RealModels,     \* does /apply read the documents with real models?
  StagesMayFail   \* may a stage raise (a client, a model, the store)?

Applications == CallerIds \cup {FormId(p) : p \in Submissions}

ASSUME PipelineAssumption ==
  /\ \A p, q \in Submissions : FormId(p) = FormId(q) => p = q
  /\ \A p \in Submissions : FormId(p) \notin CallerIds
  /\ Nobody \notin Submissions
  /\ Profiles \subseteq Facts
  /\ \A f \in Profiles : f.vcip = "none"   \* no route passes a V-CIP result
  /\ RealModels \in BOOLEAN /\ StagesMayFail \in BOOLEAN

VARIABLES
  stage,      \* stage[p]: how far submission p has come
  route,      \* route[p]: "onboard" or "apply"
  app,        \* app[p]: its application id
  facts,      \* facts[p]: what the stages find
  decision,   \* decision[p]: decision.decision as the handler holds it
  queue,      \* ReviewProcessor._cases, oldest first
  explained,  \* explained[a]: the submission whose explanation audit serves
  consent     \* the applications with an active credit_bureau_pull consent

vars == <<stage, route, app, facts, decision, queue, explained, consent>>

Stage == {"idle", "reading", "pulled", "decided", "queued", "answered", "failed"}

ReviewCase == [app : Applications, from : Submissions, system : Decision]

TypeOK ==
  /\ stage \in [Submissions -> Stage]
  /\ route \in [Submissions -> {"onboard", "apply"}]
  /\ app \in [Submissions -> Applications]
  /\ facts \in [Submissions -> Profiles]
  /\ decision \in [Submissions -> Decision \cup {"none"}]
  /\ queue \in Seq(ReviewCase)
  /\ explained \in [Applications -> Submissions \cup {Nobody}]
  /\ consent \in SUBSET Applications

Range(s) == {s[i] : i \in 1..Len(s)}
QueuedFor(a) == {c \in Range(queue) : c.app = a}

\* The request of an idle submission is not known yet; its values there are
\* placeholders that Submit replaces.
Init ==
  /\ stage = [p \in Submissions |-> "idle"]
  /\ route = [p \in Submissions |-> "apply"]
  /\ app = [p \in Submissions |-> FormId(p)]
  /\ facts \in [Submissions -> Profiles]
  /\ decision = [p \in Submissions |-> "none"]
  /\ queue = <<>>
  /\ explained = [a \in Applications |-> Nobody]
  /\ consent = {}

-----------------------------------------------------------------------------
(* The consent ledger, which no stage of the pipeline reads.                *)

RecordConsent(a) ==
  /\ consent' = consent \cup {a}
  /\ UNCHANGED <<stage, route, app, facts, decision, queue, explained>>

WithdrawConsent(a) ==
  /\ a \in consent
  /\ consent' = consent \ {a}
  /\ UNCHANGED <<stage, route, app, facts, decision, queue, explained>>

-----------------------------------------------------------------------------
(* The stages of execute                                                   *)

Advance(p, from, to) ==
  /\ stage[p] = from
  /\ stage' = [stage EXCEPT ![p] = to]

SubmitToOnboard(p, a) ==
  /\ Advance(p, "idle", "reading")
  /\ route' = [route EXCEPT ![p] = "onboard"]
  /\ app' = [app EXCEPT ![p] = a]
  /\ UNCHANGED <<facts, decision, queue, explained, consent>>

SubmitForm(p) ==
  /\ Advance(p, "idle", "reading")
  /\ UNCHANGED <<route, app, facts, decision, queue, explained, consent>>

\* Documents, identity, income and affordability are done; the bureau report
\* is fetched with consent_verified=True.
PullBureau(p) ==
  /\ Advance(p, "reading", "pulled")
  /\ UNCHANGED <<route, app, facts, decision, queue, explained, consent>>

\* Fault: an explanation is only made for the applications that are declined.
DecideOn_ExplainsRejects(p) ==
  /\ Advance(p, "pulled", "decided")
  /\ decision' = [decision EXCEPT ![p] = Decide(facts[p]).decision]
  /\ explained' = IF Decide(facts[p]).decision = "reject"
                    THEN [explained EXCEPT ![app[p]] = p] ELSE explained
  /\ UNCHANGED <<route, app, facts, queue, consent>>

\* Fraud, decision and explanation; the explanation is stored for the audit
\* route before the decision is published.
DecideOn(p) ==
  /\ Advance(p, "pulled", "decided")
  /\ decision' = [decision EXCEPT ![p] = Decide(facts[p]).decision]
  /\ explained' = [explained EXCEPT ![app[p]] = p]
  /\ UNCHANGED <<route, app, facts, queue, consent>>

NewCase(p, verdict) == [app |-> app[p], from |-> p, system |-> verdict]

\* create_review_case for everything but an approval, then REVIEW_ASSIGNED.
Enqueue(p) ==
  /\ Advance(p, "decided", "queued")
  /\ queue' = IF decision[p] \in {"review", "reject"}
                THEN Append(queue, NewCase(p, decision[p])) ELSE queue
  /\ UNCHANGED <<route, app, facts, decision, explained, consent>>

\* /onboard returns the decision as it is.
AnswerOnboard(p) ==
  /\ route[p] = "onboard"
  /\ Advance(p, "queued", "answered")
  /\ UNCHANGED <<route, app, facts, decision, queue, explained, consent>>

\* With real models the form overwrites the decision: a tamper flag or a high
\* fraud score rejects, anything else awaits a human (a missing class and a
\* mismatch with the typed values only change the flags and the label).
FormDecision(p, tampered) ==
  IF ~RealModels THEN decision[p]
  ELSE IF tampered \/ facts[p].fraud > 60 THEN "reject" ELSE "review"

\* Fault: the form relies on the pipeline to have queued the case.
AnswerForm_NoEnqueue(p, tampered) ==
  /\ route[p] = "apply"
  /\ Advance(p, "queued", "answered")
  /\ decision' = [decision EXCEPT ![p] = FormDecision(p, tampered)]
  /\ UNCHANGED <<route, app, facts, queue, explained, consent>>

\* Fault: a case is queued again although the pipeline has queued it.
AnswerForm_Requeues(p, tampered) ==
  /\ route[p] = "apply"
  /\ Advance(p, "queued", "answered")
  /\ LET final == FormDecision(p, tampered) IN
       /\ decision' = [decision EXCEPT ![p] = final]
       /\ queue' = IF final \in {"review", "reject"}
                     THEN Append(queue, NewCase(p, final)) ELSE queue
  /\ UNCHANGED <<route, app, facts, explained, consent>>

\* /apply/submit after execute has returned, without a suspension: overwrite
\* the decision, make sure that a case exists, write the record and answer.
AnswerForm(p, tampered) ==
  /\ route[p] = "apply"
  /\ Advance(p, "queued", "answered")
  /\ LET final == FormDecision(p, tampered) IN
       /\ decision' = [decision EXCEPT ![p] = final]
       /\ queue' = IF final \in {"review", "reject"} /\ QueuedFor(app[p]) = {}
                     THEN Append(queue, NewCase(p, final)) ELSE queue
  /\ UNCHANGED <<route, app, facts, explained, consent>>

\* A stage raises and the route answers 500; what was queued stays.
Fail(p) ==
  /\ StagesMayFail
  /\ stage[p] \in {"reading", "pulled", "decided", "queued"}
  /\ stage' = [stage EXCEPT ![p] = "failed"]
  /\ UNCHANGED <<route, app, facts, decision, queue, explained, consent>>

Step(p) ==
  \/ PullBureau(p) \/ DecideOn(p) \/ Enqueue(p)
  \/ AnswerOnboard(p) \/ \E tampered \in BOOLEAN : AnswerForm(p, tampered)

Next ==
  \/ \E a \in Applications : RecordConsent(a) \/ WithdrawConsent(a)
  \/ \E p \in Submissions, a \in CallerIds : SubmitToOnboard(p, a)
  \/ \E p \in Submissions : SubmitForm(p) \/ Step(p) \/ Fail(p)

Spec == Init /\ [][Next]_vars

-----------------------------------------------------------------------------
(* Properties                                                              *)

\* Whoever is told "review" or "reject" is in the reviewers' queue, also when
\* it was the form that overruled an approval after the pipeline had finished
\* without a case (demo.py: "Make sure the case is in the admin queue").
HeldIsQueued ==
  \A p \in Submissions :
    stage[p] = "answered" /\ decision[p] \in {"review", "reject"} =>
      QueuedFor(app[p]) # {}

\* A reviewer opening a case finds an explanation: of this application, by a
\* submission that was decided (audit.py serves 404 otherwise).
CaseIsExplained ==
  \A c \in Range(queue) :
    /\ explained[c.app] # Nobody
    /\ app[explained[c.app]] = c.app
    /\ decision[explained[c.app]] # "none"

\* An approval is never queued, and never reaches anyone whose loan is above
\* the V-CIP ceiling or who fails a gate, whichever route was taken.
ApprovalIsEarned ==
  \A p \in Submissions : stage[p] = "answered" /\ decision[p] = "approve" =>
    /\ ~facts[p].highValue
    /\ FailedGates(facts[p]) = {} /\ ReviewTriggers(facts[p]) = {}
    /\ \A c \in Range(queue) : c.from # p

\* One submission, one case: the pipeline and the form do not both queue it.
OneCaseEach ==
  \A i, j \in 1..Len(queue) : queue[i].from = queue[j].from => i = j
=============================================================================
