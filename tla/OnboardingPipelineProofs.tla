---------------------- MODULE OnboardingPipelineProofs ----------------------
(***************************************************************************)
(* Proofs about OnboardingPipeline: any number of submissions, callers and *)
(* applications, with and without real models and failing stages.          *)
(***************************************************************************)
EXTENDS OnboardingPipeline, TLAPS

-----------------------------------------------------------------------------
(* Lemmas about the operators                                              *)

\* Appending adds one element and keeps the others.
LEMMA RangeOfAppend ==
  ASSUME NEW S, NEW s \in Seq(S), NEW x \in S
  PROVE  /\ Append(s, x) \in Seq(S)
         /\ Range(Append(s, x)) = Range(s) \cup {x}
<1>1. Append(s, x) \in Seq(S) /\ Len(Append(s, x)) = Len(s) + 1 /\ Len(s) \in Nat
  OBVIOUS
<1>2. \A i \in 1..Len(s) : Append(s, x)[i] = s[i]
  OBVIOUS
<1>3. Append(s, x)[Len(s) + 1] = x
  OBVIOUS
<1>4. Range(s) \cup {x} \subseteq Range(Append(s, x))
  BY <1>1, <1>2, <1>3 DEF Range
<1>5. Range(Append(s, x)) \subseteq Range(s) \cup {x}
  <2> SUFFICES ASSUME NEW i \in 1..(Len(s) + 1) PROVE Append(s, x)[i] \in Range(s) \cup {x}
    BY <1>1 DEF Range
  <2>1. i \in 1..Len(s) \/ i = Len(s) + 1
    BY <1>1
  <2> QED BY <2>1, <1>2, <1>3 DEF Range
<1> QED BY <1>1, <1>4, <1>5

\* decide answers approve, review or reject; an approval passes every gate,
\* triggers no review and is not blocked.
LEMMA Decisions ==
  ASSUME NEW f
  PROVE  /\ Decide(f).decision \in Decision
         /\ Decide(f).decision = "approve" =>
              FailedGates(f) = {} /\ ReviewTriggers(f) = {} /\ ~DisbursalBlocked(f)
<1>1. CASE FailedGates(f) # {}
  <2>1. \E reason : Decide(f) = Rejected(reason)
    BY <1>1 DEF Decide
  <2> QED BY <2>1 DEF Rejected, Decision
<1>2. CASE FailedGates(f) = {} /\ ReviewTriggers(f) # {}
  <2>1. \E flags : Decide(f) = Reviewed(f, flags)
    BY <1>2 DEF Decide
  <2> QED BY <2>1 DEF Reviewed, Decision
<1>3. CASE FailedGates(f) = {} /\ ReviewTriggers(f) = {}
  <2>1. \/ Decide(f) = Approved /\ ~DisbursalBlocked(f)
        \/ \E flags : Decide(f) = Reviewed(f, flags)
        \/ Decide(f) = Rejected("low_ensemble_score")
    BY <1>3 DEF Decide
  <2> QED BY <1>3, <2>1 DEF Approved, Reviewed, Rejected, Decision
<1> QED BY <1>1, <1>2, <1>3

\* What the form answers is a decision, and a held application stays held.
LEMMA FormDecisions ==
  ASSUME TypeOK, NEW p \in Submissions, NEW tampered \in BOOLEAN, decision[p] # "none"
  PROVE  /\ FormDecision(p, tampered) \in Decision
         /\ FormDecision(p, tampered) = "approve" => decision[p] = "approve"
<1>1. decision[p] \in Decision
  BY DEF TypeOK
<1> QED BY <1>1 DEF FormDecision, Decision

\* The cases in the queue are cases.
LEMMA QueuedCases ==
  ASSUME TypeOK, NEW c \in Range(queue)
  PROVE  c \in ReviewCase /\ c.from \in Submissions /\ c.app \in Applications
<1>1. queue \in Seq(ReviewCase)
  BY DEF TypeOK
<1>2. \A i \in 1..Len(queue) : queue[i] \in ReviewCase
  BY <1>1
<1>3. c \in ReviewCase
  BY <1>2 DEF Range
<1> QED BY <1>3 DEF ReviewCase

LEMMA FreshCase ==
  ASSUME TypeOK, NEW p \in Submissions, NEW verdict \in Decision
  PROVE  /\ NewCase(p, verdict) \in ReviewCase
         /\ NewCase(p, verdict).app = app[p]
         /\ NewCase(p, verdict).from = p
  BY DEF TypeOK, NewCase, ReviewCase

-----------------------------------------------------------------------------
(* The inductive invariant                                                 *)

Decided == {"decided", "queued", "answered", "failed"}

\* A served explanation is that of a submission of this application which has
\* been decided, and what is being decided or queued has one.
Explanations ==
  /\ \A a \in Applications : explained[a] # Nobody =>
       /\ app[explained[a]] = a
       /\ stage[explained[a]] \in Decided
       /\ decision[explained[a]] # "none"
  /\ \A p \in Submissions : stage[p] \in {"decided", "queued", "answered"} =>
       explained[app[p]] # Nobody /\ decision[p] # "none"

\* A case is of a submission that got as far as queueing it, carries its
\* application, can be explained, and is not of an approved one.
Cases ==
  \A c \in Range(queue) :
    /\ c.app = app[c.from]
    /\ stage[c.from] \in {"queued", "answered", "failed"}
    /\ decision[c.from] \in {"review", "reject"}
    /\ explained[c.app] # Nobody

\* What is held is queued as soon as the pipeline has had its turn.
Held ==
  \A p \in Submissions :
    stage[p] \in {"queued", "answered"} /\ decision[p] \in {"review", "reject"} =>
      QueuedFor(app[p]) # {}

\* An approval is decide's own.
Earned ==
  \A p \in Submissions : decision[p] = "approve" =>
    Decide(facts[p]).decision = "approve"

IInv == TypeOK /\ Explanations /\ Cases /\ Held /\ Earned /\ OneCaseEach

LEMMA InitIInv == Init => IInv
<1> SUFFICES ASSUME Init PROVE IInv
  OBVIOUS
<1>1. queue = <<>> /\ Range(queue) = {}
  BY DEF Init, Range
<1>2. TypeOK
  <2>1. app \in [Submissions -> Applications]
    BY DEF Init, Applications
  <2> QED BY <1>1, <2>1 DEF Init, TypeOK, Stage
<1>3. Explanations /\ Cases /\ Held /\ Earned /\ OneCaseEach
  BY <1>1 DEF Init, Explanations, Cases, Held, Earned, OneCaseEach, Decided
<1> QED BY <1>2, <1>3 DEF IInv

\* A step that neither queues, decides nor explains: it advances one
\* submission, which may get its application id.
LEMMA QuietSteps ==
  ASSUME IInv, NEW p \in Submissions, NEW to \in Stage, NEW a \in Applications,
         NEW r \in {"onboard", "apply"},
         stage' = [stage EXCEPT ![p] = to],
         route' = [route EXCEPT ![p] = r],
         app' = [app EXCEPT ![p] = a],
         stage[p] # "idle" => a = app[p],
         stage[p] \in Decided => to \in Decided,
         to \in {"queued", "answered"} => stage[p] \in {"queued", "answered"},
         to = "decided" => stage[p] = "decided",
         stage[p] \in {"queued", "answered", "failed"} => to \in {"queued", "answered", "failed"},
         UNCHANGED <<facts, decision, queue, explained>>,
         consent' \in SUBSET Applications
  PROVE  IInv'
<1>1. TypeOK /\ Explanations /\ Cases /\ Held /\ Earned /\ OneCaseEach
  BY DEF IInv
<1>2. /\ stage \in [Submissions -> Stage] /\ stage' \in [Submissions -> Stage]
      /\ app \in [Submissions -> Applications] /\ app' \in [Submissions -> Applications]
      /\ queue \in Seq(ReviewCase) /\ queue' = queue
      /\ explained \in [Applications -> Submissions \cup {Nobody}]
  BY <1>1 DEF TypeOK
<1>3. TypeOK'
  BY <1>1, <1>2 DEF TypeOK
<1>4. \A q \in Submissions : q # p => stage'[q] = stage[q] /\ app'[q] = app[q]
  BY <1>2
<1>5. stage'[p] = to /\ app'[p] = a
  BY <1>2
<1>6. Explanations'
  <2>1. ASSUME NEW b \in Applications, explained'[b] # Nobody
        PROVE  /\ app'[explained'[b]] = b
               /\ stage'[explained'[b]] \in Decided
               /\ decision'[explained'[b]] # "none"
    <3>1. explained[b] \in Submissions
      BY <1>2, <2>1
    <3>2. app[explained[b]] = b /\ stage[explained[b]] \in Decided /\ decision[explained[b]] # "none"
      BY <1>1, <2>1 DEF Explanations
    <3>3. stage[explained[b]] # "idle"
      BY <3>2 DEF Decided
    <3> QED BY <1>4, <1>5, <3>1, <3>2, <3>3
  <2>2. ASSUME NEW q \in Submissions, stage'[q] \in {"decided", "queued", "answered"}
        PROVE  explained'[app'[q]] # Nobody /\ decision'[q] # "none"
    <3>1. stage[q] \in {"decided", "queued", "answered"}
      BY <1>4, <1>5, <2>2
    <3>2. app'[q] = app[q]
      BY <1>4, <1>5, <3>1
    <3> QED BY <1>1, <3>1, <3>2 DEF Explanations
  <2> QED BY <2>1, <2>2 DEF Explanations
<1>7. \A c \in Range(queue) : c \in ReviewCase /\ c.from \in Submissions
  BY <1>1, QueuedCases
<1>8. Cases'
  <2> SUFFICES ASSUME NEW c \in Range(queue)
               PROVE  /\ c.app = app'[c.from]
                      /\ stage'[c.from] \in {"queued", "answered", "failed"}
                      /\ decision[c.from] \in {"review", "reject"}
                      /\ explained[c.app] # Nobody
    BY <1>2 DEF Cases, Range
  <2>1. /\ c.app = app[c.from]
        /\ stage[c.from] \in {"queued", "answered", "failed"}
        /\ decision[c.from] \in {"review", "reject"}
        /\ explained[c.app] # Nobody
    BY <1>1 DEF Cases
  <2> QED BY <1>4, <1>5, <1>7, <2>1
<1>9. Held'
  <2> SUFFICES ASSUME NEW q \in Submissions, stage'[q] \in {"queued", "answered"},
                      decision[q] \in {"review", "reject"}
               PROVE  QueuedFor(app'[q]) # {}
    BY <1>2 DEF Held, QueuedFor, Range
  <2>1. stage[q] \in {"queued", "answered"} /\ app'[q] = app[q]
    BY <1>4, <1>5
  <2> QED BY <1>1, <2>1 DEF Held
<1>10. Earned' /\ OneCaseEach'
  BY <1>1 DEF Earned, OneCaseEach
<1> QED BY <1>3, <1>6, <1>8, <1>9, <1>10 DEF IInv

\* The pipeline's decision and its explanation.
LEMMA DecideOnKeeps ==
  ASSUME IInv, NEW p \in Submissions, DecideOn(p)
  PROVE  IInv'
<1> DEFINE d == Decide(facts[p]).decision
<1>1. TypeOK /\ Explanations /\ Cases /\ Held /\ Earned /\ OneCaseEach
  BY DEF IInv
<1>2. d \in Decision
  BY Decisions
<1>3. /\ stage[p] = "pulled" /\ stage' = [stage EXCEPT ![p] = "decided"]
      /\ decision' = [decision EXCEPT ![p] = d]
      /\ explained' = [explained EXCEPT ![app[p]] = p]
      /\ UNCHANGED <<route, app, facts, queue, consent>>
  BY DEF DecideOn, Advance
<1> HIDE DEF d
<1>4. /\ stage \in [Submissions -> Stage] /\ app \in [Submissions -> Applications]
      /\ decision \in [Submissions -> Decision \cup {"none"}]
      /\ queue \in Seq(ReviewCase)
      /\ explained \in [Applications -> Submissions \cup {Nobody}]
  BY <1>1 DEF TypeOK
<1>5. /\ stage' \in [Submissions -> Stage]
      /\ decision' \in [Submissions -> Decision \cup {"none"}]
      /\ explained' \in [Applications -> Submissions \cup {Nobody}]
  BY <1>2, <1>3, <1>4 DEF Stage
<1>6. TypeOK'
  BY <1>1, <1>3, <1>5 DEF TypeOK
<1>7. d # "none" /\ p # Nobody
  BY <1>2, PipelineAssumption DEF Decision
<1>8. /\ stage'[p] = "decided" /\ decision'[p] = d /\ explained'[app[p]] = p
      /\ \A q \in Submissions : q # p => stage'[q] = stage[q] /\ decision'[q] = decision[q]
      /\ \A b \in Applications : b # app[p] => explained'[b] = explained[b]
  BY <1>3, <1>4
<1>9. Explanations'
  <2>1. ASSUME NEW b \in Applications, explained'[b] # Nobody
        PROVE  /\ app'[explained'[b]] = b
               /\ stage'[explained'[b]] \in Decided
               /\ decision'[explained'[b]] # "none"
    <3>1. CASE b = app[p]
      BY <1>3, <1>7, <1>8, <3>1 DEF Decided
    <3>2. CASE b # app[p]
      <4>1. explained'[b] = explained[b] /\ explained[b] \in Submissions
        BY <1>4, <1>8, <2>1, <3>2
      <4>2. app[explained[b]] = b /\ stage[explained[b]] \in Decided /\ decision[explained[b]] # "none"
        BY <1>1, <2>1, <4>1 DEF Explanations
      <4>3. explained[b] # p
        BY <3>2, <4>2
      <4> QED BY <1>3, <1>8, <4>1, <4>2, <4>3
    <3> QED BY <3>1, <3>2
  <2>2. ASSUME NEW q \in Submissions, stage'[q] \in {"decided", "queued", "answered"}
        PROVE  explained'[app'[q]] # Nobody /\ decision'[q] # "none"
    <3>1. CASE q = p
      BY <1>3, <1>7, <1>8, <3>1
    <3>2. CASE q # p
      <4>1. explained[app[q]] # Nobody /\ decision[q] # "none" /\ decision'[q] = decision[q]
        BY <1>1, <1>8, <2>2, <3>2 DEF Explanations
      <4>2. app[q] \in Applications /\ app'[q] = app[q]
        BY <1>3, <1>4
      <4> QED BY <1>7, <1>8, <4>1, <4>2
    <3> QED BY <3>1, <3>2
  <2> QED BY <2>1, <2>2 DEF Explanations
<1>10. Cases'
  <2> SUFFICES ASSUME NEW c \in Range(queue)
               PROVE  /\ c.app = app[c.from]
                      /\ stage'[c.from] \in {"queued", "answered", "failed"}
                      /\ decision'[c.from] \in {"review", "reject"}
                      /\ explained'[c.app] # Nobody
    BY <1>3 DEF Cases, Range
  <2>1. /\ c.app = app[c.from]
        /\ stage[c.from] \in {"queued", "answered", "failed"}
        /\ decision[c.from] \in {"review", "reject"}
        /\ explained[c.app] # Nobody
    BY <1>1 DEF Cases
  <2>2. c.from \in Submissions /\ c.app \in Applications
    BY <1>1, QueuedCases
  <2>3. c.from # p
    BY <1>3, <2>1
  <2>4. explained'[c.app] # Nobody
    BY <1>7, <1>8, <2>1, <2>2
  <2> QED BY <1>8, <2>1, <2>2, <2>3, <2>4
<1>11. Held'
  <2> SUFFICES ASSUME NEW q \in Submissions, stage'[q] \in {"queued", "answered"},
                      decision'[q] \in {"review", "reject"}
               PROVE  QueuedFor(app[q]) # {}
    BY <1>3 DEF Held, QueuedFor, Range
  <2>1. q # p /\ stage[q] \in {"queued", "answered"} /\ decision[q] \in {"review", "reject"}
    BY <1>8
  <2> QED BY <1>1, <2>1 DEF Held
<1>12. Earned'
  BY <1>1, <1>3, <1>8 DEF Earned, d
<1>13. OneCaseEach'
  BY <1>1, <1>3 DEF OneCaseEach
<1> QED BY <1>6, <1>9, <1>10, <1>11, <1>12, <1>13 DEF IInv

\* The step that settles a submission: the pipeline's own (decided to queued)
\* or the form's (queued to answered).  The decision may turn from an approval
\* into a held one, and then there must be a case, an old one or a new one.
LEMMA SettlingSteps ==
  ASSUME IInv, NEW p \in Submissions, NEW v \in Decision,
         stage[p] \in {"decided", "queued"},
         NEW to \in {"queued", "answered"},
         stage' = [stage EXCEPT ![p] = to],
         decision' = [decision EXCEPT ![p] = v],
         v = "approve" => decision[p] = "approve",
         \/ /\ queue' = queue
            /\ v = "approve" \/ QueuedFor(app[p]) # {}
         \/ /\ queue' = Append(queue, NewCase(p, v))
            /\ v \in {"review", "reject"}
            /\ \A c \in Range(queue) : c.from # p,
         UNCHANGED <<route, app, facts, explained, consent>>
  PROVE  IInv'
<1>1. TypeOK /\ Explanations /\ Cases /\ Held /\ Earned /\ OneCaseEach
  BY DEF IInv
<1>2. /\ stage \in [Submissions -> Stage] /\ app \in [Submissions -> Applications]
      /\ decision \in [Submissions -> Decision \cup {"none"}]
      /\ queue \in Seq(ReviewCase)
  BY <1>1 DEF TypeOK
<1> DEFINE new == NewCase(p, v)
<1>3. new \in ReviewCase /\ new.app = app[p] /\ new.from = p
  BY <1>1, FreshCase
<1> HIDE DEF new
<1>4. Append(queue, new) \in Seq(ReviewCase) /\ Range(Append(queue, new)) = Range(queue) \cup {new}
  BY <1>2, <1>3, RangeOfAppend
<1>5. /\ queue' \in Seq(ReviewCase) /\ Range(queue) \subseteq Range(queue')
      /\ \A c \in Range(queue') : c \in Range(queue) \/ (c = new /\ v \in {"review", "reject"})
  BY <1>2, <1>4 DEF new
<1>6. /\ stage' \in [Submissions -> Stage]
      /\ decision' \in [Submissions -> Decision \cup {"none"}]
  BY <1>2 DEF Stage
<1>7. TypeOK'
  BY <1>1, <1>5, <1>6 DEF TypeOK
<1>8. /\ stage'[p] = to /\ decision'[p] = v
      /\ \A q \in Submissions : q # p => stage'[q] = stage[q] /\ decision'[q] = decision[q]
  BY <1>2
<1>9. v # "none" /\ explained[app[p]] # Nobody
  BY <1>1 DEF Decision, Explanations
<1>10. Explanations'
  <2>1. ASSUME NEW b \in Applications, explained[b] # Nobody
        PROVE  /\ app[explained[b]] = b
               /\ stage'[explained[b]] \in Decided
               /\ decision'[explained[b]] # "none"
    <3>1. /\ explained[b] \in Submissions /\ app[explained[b]] = b
          /\ stage[explained[b]] \in Decided /\ decision[explained[b]] # "none"
      BY <1>1, <2>1 DEF TypeOK, Explanations
    <3> QED BY <1>8, <1>9, <3>1 DEF Decided
  <2>2. ASSUME NEW q \in Submissions, stage'[q] \in {"decided", "queued", "answered"}
        PROVE  explained[app[q]] # Nobody /\ decision'[q] # "none"
    BY <1>1, <1>8, <1>9, <2>2 DEF Explanations
  <2> QED BY <2>1, <2>2 DEF Explanations
<1>11. Cases'
  <2> SUFFICES ASSUME NEW c \in Range(queue')
               PROVE  /\ c.app = app[c.from]
                      /\ stage'[c.from] \in {"queued", "answered", "failed"}
                      /\ decision'[c.from] \in {"review", "reject"}
                      /\ explained[c.app] # Nobody
    BY DEF Cases, Range
  <2>1. CASE c = new /\ v \in {"review", "reject"}
    BY <1>3, <1>8, <1>9, <2>1
  <2>2. CASE c \in Range(queue)
    <3>1. /\ c.app = app[c.from]
          /\ stage[c.from] \in {"queued", "answered", "failed"}
          /\ decision[c.from] \in {"review", "reject"}
          /\ explained[c.app] # Nobody
      BY <1>1, <2>2 DEF Cases
    <3>2. c.from \in Submissions
      BY <1>1, <2>2, QueuedCases
    <3>3. v \in {"review", "reject"} \/ v = "approve"
      BY DEF Decision
    <3> QED BY <1>8, <3>1, <3>2, <3>3
  <2> QED BY <1>5, <2>1, <2>2
<1>12. Held'
  <2>1. \A a \in Applications : QueuedFor(a) # {} => QueuedFor(a)' # {}
    BY <1>5 DEF QueuedFor, Range
  <2>2. v = "approve" \/ QueuedFor(app[p])' # {}
    <3>1. CASE queue' = queue /\ (v = "approve" \/ QueuedFor(app[p]) # {})
      BY <1>2, <2>1, <3>1 DEF QueuedFor, Range
    <3>2. CASE queue' = Append(queue, new)
      <4>1. new \in Range(queue')
        BY <1>4, <3>2
      <4> QED BY <1>3, <4>1 DEF QueuedFor, Range
    <3> QED BY <3>1, <3>2 DEF new
  <2> SUFFICES ASSUME NEW q \in Submissions, stage'[q] \in {"queued", "answered"},
                      decision'[q] \in {"review", "reject"}
               PROVE  QueuedFor(app[q])' # {}
    BY DEF Held, QueuedFor, Range
  <2>3. CASE q = p
    BY <1>8, <2>2, <2>3
  <2>4. CASE q # p
    <3>1. QueuedFor(app[q]) # {} /\ app[q] \in Applications
      BY <1>1, <1>2, <1>8, <2>4 DEF Held
    <3> QED BY <2>1, <3>1
  <2> QED BY <2>3, <2>4
<1>13. Earned'
  BY <1>1, <1>8 DEF Earned
<1>14. OneCaseEach'
  <2>1. CASE queue' = queue
    BY <1>1, <2>1 DEF OneCaseEach
  <2>2. CASE queue' = Append(queue, new) /\ \A c \in Range(queue) : c.from # p
    <3>1. /\ Len(queue) \in Nat /\ Len(queue') = Len(queue) + 1
          /\ queue'[Len(queue) + 1] = new
          /\ \A i \in 1..Len(queue) : queue'[i] = queue[i]
      BY <1>2, <1>3, <2>2
    <3>2. \A i \in 1..Len(queue) : queue[i].from # p
      BY <2>2 DEF Range
    <3> SUFFICES ASSUME NEW i \in 1..Len(queue'), NEW j \in 1..Len(queue'),
                        queue'[i].from = queue'[j].from
                 PROVE  i = j
      BY DEF OneCaseEach
    <3>3. (i \in 1..Len(queue) \/ i = Len(queue) + 1) /\ (j \in 1..Len(queue) \/ j = Len(queue) + 1)
      BY <3>1
    <3> QED BY <1>1, <1>3, <3>1, <3>2, <3>3 DEF OneCaseEach
  <2> QED BY <2>1, <2>2 DEF new
<1> QED BY <1>7, <1>10, <1>11, <1>12, <1>13, <1>14 DEF IInv

LEMMA EnqueueKeeps ==
  ASSUME IInv, NEW p \in Submissions, Enqueue(p)
  PROVE  IInv'
<1>1. TypeOK /\ Explanations /\ Cases
  BY DEF IInv
<1>2. /\ stage[p] = "decided" /\ stage' = [stage EXCEPT ![p] = "queued"]
      /\ UNCHANGED <<route, app, facts, decision, explained, consent>>
      /\ queue' = IF decision[p] \in {"review", "reject"}
                    THEN Append(queue, NewCase(p, decision[p])) ELSE queue
  BY DEF Enqueue, Advance
<1>3. decision \in [Submissions -> Decision \cup {"none"}] /\ decision[p] # "none"
  BY <1>1, <1>2 DEF TypeOK, Explanations
<1>4. decision[p] \in Decision /\ decision' = [decision EXCEPT ![p] = decision[p]]
  BY <1>2, <1>3
<1>5. \A c \in Range(queue) : c.from # p
  BY <1>1, <1>2 DEF Cases
<1>6. \/ queue' = queue /\ decision[p] = "approve"
      \/ /\ queue' = Append(queue, NewCase(p, decision[p]))
         /\ decision[p] \in {"review", "reject"}
  BY <1>2, <1>4 DEF Decision
<1> QED BY <1>2, <1>4, <1>5, <1>6, SettlingSteps

LEMMA AnswerFormKeeps ==
  ASSUME IInv, NEW p \in Submissions, NEW tampered \in BOOLEAN, AnswerForm(p, tampered)
  PROVE  IInv'
<1> DEFINE final == FormDecision(p, tampered)
<1>1. TypeOK /\ Explanations /\ Cases
  BY DEF IInv
<1>2. /\ stage[p] = "queued" /\ stage' = [stage EXCEPT ![p] = "answered"]
      /\ decision' = [decision EXCEPT ![p] = final]
      /\ UNCHANGED <<route, app, facts, explained, consent>>
      /\ queue' = IF final \in {"review", "reject"} /\ QueuedFor(app[p]) = {}
                    THEN Append(queue, NewCase(p, final)) ELSE queue
  BY DEF AnswerForm, Advance
<1>3. decision[p] # "none"
  BY <1>1, <1>2 DEF Explanations
<1>4. final \in Decision /\ (final = "approve" => decision[p] = "approve")
  BY <1>1, <1>3, FormDecisions
<1> HIDE DEF final
<1>5. QueuedFor(app[p]) = {} => \A c \in Range(queue) : c.from # p
  BY <1>1 DEF Cases, QueuedFor
<1>6. \/ queue' = queue /\ (final = "approve" \/ QueuedFor(app[p]) # {})
      \/ /\ queue' = Append(queue, NewCase(p, final))
         /\ final \in {"review", "reject"}
         /\ \A c \in Range(queue) : c.from # p
  BY <1>2, <1>4, <1>5 DEF Decision
<1> QED BY <1>2, <1>4, <1>6, SettlingSteps

LEMMA NextKeeps == IInv /\ [Next]_vars => IInv'
<1> SUFFICES ASSUME IInv, [Next]_vars PROVE IInv'
  OBVIOUS
<1>1. TypeOK
  BY DEF IInv
<1>2. /\ stage \in [Submissions -> Stage] /\ app \in [Submissions -> Applications]
      /\ route \in [Submissions -> {"onboard", "apply"}] /\ consent \in SUBSET Applications
  BY <1>1 DEF TypeOK
<1>3. CASE UNCHANGED vars
  BY <1>3 DEF vars, IInv, TypeOK, Explanations, Cases, Held, Earned, OneCaseEach, QueuedFor, Range
<1>4. ASSUME NEW a \in Applications, RecordConsent(a) \/ WithdrawConsent(a)
      PROVE  IInv'
  <2>1. consent' \in SUBSET Applications /\ UNCHANGED <<stage, route, app, facts, decision, queue, explained>>
    BY <1>2, <1>4 DEF RecordConsent, WithdrawConsent
  <2> QED BY <2>1 DEF IInv, TypeOK, Explanations, Cases, Held, Earned, OneCaseEach, QueuedFor, Range
<1>5. ASSUME NEW p \in Submissions, NEW a \in CallerIds, SubmitToOnboard(p, a)
      PROVE  IInv'
  <2>1. /\ stage[p] = "idle" /\ stage' = [stage EXCEPT ![p] = "reading"]
        /\ route' = [route EXCEPT ![p] = "onboard"] /\ app' = [app EXCEPT ![p] = a]
        /\ UNCHANGED <<facts, decision, queue, explained, consent>>
    BY <1>5 DEF SubmitToOnboard, Advance
  <2>2. a \in Applications /\ "reading" \in Stage /\ "onboard" \in {"onboard", "apply"}
    BY DEF Applications, Stage
  <2>3. /\ stage[p] # "idle" => a = app[p]
        /\ stage[p] \notin Decided /\ stage[p] \notin {"queued", "answered", "failed"}
    BY <2>1 DEF Decided
  <2>4. consent' \in SUBSET Applications
    BY <1>2, <2>1
  <2>5. "reading" \notin {"queued", "answered"} /\ "reading" # "decided"
    OBVIOUS
  <2> QED BY <2>1, <2>2, <2>3, <2>4, <2>5, QuietSteps
<1>6. ASSUME NEW p \in Submissions, NEW to \in Stage,
             stage' = [stage EXCEPT ![p] = to],
             UNCHANGED <<route, app, facts, decision, queue, explained, consent>>,
             \/ stage[p] = "idle" /\ to = "reading"
             \/ stage[p] = "reading" /\ to = "pulled"
             \/ stage[p] = "queued" /\ to = "answered"
             \/ stage[p] \in {"reading", "pulled", "decided", "queued"} /\ to = "failed"
      PROVE  IInv'
  <2>1. /\ app' = [app EXCEPT ![p] = app[p]] /\ app[p] \in Applications
        /\ route' = [route EXCEPT ![p] = route[p]] /\ route[p] \in {"onboard", "apply"}
    BY <1>2, <1>6
  <2>2. /\ stage[p] \in Decided => to \in Decided
        /\ to \in {"queued", "answered"} => stage[p] \in {"queued", "answered"}
        /\ to = "decided" => stage[p] = "decided"
        /\ stage[p] \in {"queued", "answered", "failed"} => to \in {"queued", "answered", "failed"}
    BY <1>6 DEF Decided
  <2>3. consent' \in SUBSET Applications /\ UNCHANGED <<facts, decision, queue, explained>>
    BY <1>2, <1>6
  <2>4. stage' = [stage EXCEPT ![p] = to] /\ p \in Submissions /\ to \in Stage
    BY <1>6
  <2>5. stage[p] # "idle" => app[p] = app[p]
    OBVIOUS
  <2> QED BY <2>1, <2>2, <2>3, <2>4, <2>5, QuietSteps
<1>7. ASSUME NEW p \in Submissions, SubmitForm(p) \/ PullBureau(p) \/ AnswerOnboard(p) \/ Fail(p)
      PROVE  IInv'
  BY <1>6, <1>7 DEF SubmitForm, PullBureau, AnswerOnboard, Fail, Advance, Stage
<1>8. ASSUME NEW p \in Submissions, Step(p)
      PROVE  IInv'
  BY <1>7, <1>8, DecideOnKeeps, EnqueueKeeps, AnswerFormKeeps DEF Step
<1> QED BY <1>3, <1>4, <1>5, <1>7, <1>8 DEF Next

LEMMA IInvHolds == Spec => []IInv
  BY InitIInv, NextKeeps, PTL DEF Spec

-----------------------------------------------------------------------------
(* The theorems                                                            *)

\* The variables have their types.
THEOREM TypeCorrect == Spec => []TypeOK
<1>1. IInv => TypeOK
  BY DEF IInv
<1> QED BY <1>1, IInvHolds, PTL

\* However the submissions interleave and wherever a stage raises: an applicant
\* who is told "review" or "reject" has a case in the reviewers' queue.
THEOREM HeldHaveCases == Spec => []HeldIsQueued
<1>1. IInv => HeldIsQueued
  BY DEF IInv, Held, HeldIsQueued
<1> QED BY <1>1, IInvHolds, PTL

\* Every case in the queue has an explanation of a decision on its application,
\* also when several submissions use one application id.
THEOREM CasesExplained == Spec => []CaseIsExplained
<1>1. IInv => CaseIsExplained
  <2> SUFFICES ASSUME IInv, NEW c \in Range(queue)
               PROVE  /\ explained[c.app] # Nobody
                      /\ app[explained[c.app]] = c.app
                      /\ decision[explained[c.app]] # "none"
    BY DEF CaseIsExplained
  <2>1. c.app \in Applications
    BY QueuedCases DEF IInv
  <2> QED BY <2>1 DEF IInv, Cases, Explanations
<1> QED BY <1>1, IInvHolds, PTL

\* No route lets an approval through that fails a gate, triggers a review or is
\* above the video-KYC ceiling, and an approved submission has no case.
THEOREM ApprovalsAreEarned == Spec => []ApprovalIsEarned
<1>1. IInv => ApprovalIsEarned
  <2> SUFFICES ASSUME IInv, NEW p \in Submissions, stage[p] = "answered", decision[p] = "approve"
               PROVE  /\ ~facts[p].highValue
                      /\ FailedGates(facts[p]) = {} /\ ReviewTriggers(facts[p]) = {}
                      /\ \A c \in Range(queue) : c.from # p
    BY DEF ApprovalIsEarned
  <2>1. Decide(facts[p]).decision = "approve"
    BY DEF IInv, Earned
  <2>2. FailedGates(facts[p]) = {} /\ ReviewTriggers(facts[p]) = {} /\ ~DisbursalBlocked(facts[p])
    BY <2>1, Decisions
  <2>3. facts[p] \in Profiles
    BY DEF IInv, TypeOK
  <2>4. facts[p].vcip = "none"
    BY <2>3, PipelineAssumption
  <2>5. facts[p] \in Facts
    BY <2>3, PipelineAssumption
  <2>6. facts[p].highValue \in BOOLEAN
    BY <2>5 DEF Facts
  <2>7. ~facts[p].highValue
    BY <2>2, <2>4, <2>6 DEF DisbursalBlocked
  <2>8. \A c \in Range(queue) : c.from # p
    BY DEF IInv, Cases
  <2> QED BY <2>2, <2>7, <2>8
<1> QED BY <1>1, IInvHolds, PTL

\* A submission is queued at most once, by the pipeline or by the form.
THEOREM QueuedOnce == Spec => []OneCaseEach
<1>1. IInv => OneCaseEach
  BY DEF IInv
<1> QED BY <1>1, IInvHolds, PTL
=============================================================================
