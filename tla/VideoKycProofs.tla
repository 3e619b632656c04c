--------------------------- MODULE VideoKycProofs ---------------------------
(***************************************************************************)
(* Proofs about VideoKyc, for every set of applications and sessions and   *)
(* any number of questions and uploads.                                    *)
(***************************************************************************)
EXTENDS VideoKyc, TLAPS

-----------------------------------------------------------------------------
(* What an evidence handler does to the session it is called for, and that *)
(* it leaves every other session alone.                                    *)

LEMMA CaptureEffect ==
  ASSUME TypeOK, NEW s \in Sessions, NEW e \in Evidence, Capture(s, e)
  PROVE  /\ session' \in [Sessions -> VCIPSession]
         /\ session'[s] = [session[s] EXCEPT !.status = EnsureInProgress(@),
                                             !.evidence = e]
         /\ \A t \in Sessions \ {s} : session'[t] = session[t]
         /\ consent' = consent /\ late' = late
<1>1. session[s] \in VCIPSession
  BY DEF TypeOK
<1>2. EnsureInProgress(session[s].status) \in VCIPStatus \cup {"absent"}
  BY <1>1 DEF EnsureInProgress, VCIPSession, VCIPStatus
<1>3. session' = [session EXCEPT ![s] = [session[s] EXCEPT
                    !.status = EnsureInProgress(@), !.evidence = e]]
  BY DEF Capture
<1>4. [session[s] EXCEPT !.status = EnsureInProgress(@), !.evidence = e] \in VCIPSession
  BY <1>1, <1>2 DEF VCIPSession
<1> QED
  BY <1>3, <1>4 DEF TypeOK, Capture

\* The evidence each handler writes is well typed and only grows: what is on
\* record stays on record.
Grows(e, f) ==
  /\ e.geotag # "none" => f.geotag # "none"
  /\ e.ovd => f.ovd
  /\ e.recorded => f.recorded
  /\ e.live # "none" /\ MockMode => f.live # "none"
  /\ e.face # "none" /\ MockMode => f.face # "none"
  /\ \A q \in Questions : e.answer[q] # "open" => f.answer[q] # "open"

\* In mock mode a presented document has both scores.
Scored(e) == MockMode /\ e.ovd => e.live # "none" /\ e.face # "none"

Evidenced(s, e) == e \in Evidence /\ Grows(session[s].evidence, e) /\
                   (Scored(session[s].evidence) => Scored(e))

\* A step that captures evidence for s, keeping what is on record.
Captures(s) == \E e \in Evidence : Capture(s, e) /\ Evidenced(s, e)

LEMMA HandlersCapture ==
  ASSUME TypeOK, NEW s \in Sessions
  PROVE  /\ \A place \in {"india", "abroad"} : CaptureGeotag(s, place) => Captures(s)
         /\ \A live, face \in Score : PresentOvd(s, live, face) => Captures(s)
         /\ \A q \in Questions, v \in {"right", "wrong"} : AnswerQuestion(s, q, v) => Captures(s)
         /\ AnswerOutOfRange(s) => Captures(s)
         /\ FinishUpload(s) => Captures(s)
<1> DEFINE e == session[s].evidence
<1>0. /\ e \in Evidence
      /\ e.geotag \in {"none", "india", "abroad"} /\ e.ovd \in BOOLEAN
      /\ e.live \in Score /\ e.face \in Score /\ e.recorded \in BOOLEAN
      /\ e.answer \in [Questions -> {"open", "right", "wrong"}]
  BY DEF TypeOK, VCIPSession, Evidence
<1> HIDE DEF e
<1>1. ASSUME NEW place \in {"india", "abroad"}, CaptureGeotag(s, place) PROVE Captures(s)
  <2> DEFINE f == [e EXCEPT !.geotag = place]
  <2>1. Evidenced(s, f)
    BY <1>0 DEF e, Evidenced, Evidence, Grows, Scored
  <2> QED BY <1>1, <2>1 DEF CaptureGeotag, Captures, Evidenced, e
<1>2. ASSUME NEW live \in Score, NEW face \in Score, PresentOvd(s, live, face) PROVE Captures(s)
  <2> DEFINE scored(x) == IF MockMode /\ x = "none" THEN "pass" ELSE x
             f == [e EXCEPT !.ovd = TRUE, !.live = scored(live), !.face = scored(face)]
  <2>1. /\ scored(live) \in Score /\ scored(face) \in Score
        /\ MockMode => scored(live) # "none" /\ scored(face) # "none"
    BY DEF Score
  <2>2. Capture(s, f)
    BY <1>2 DEF PresentOvd, e
  <2>3. Evidenced(s, f)
    <3> HIDE DEF scored
    <3> QED BY <1>0, <2>1 DEF e, Evidenced, Evidence, Grows, Scored
  <2> QED BY <2>2, <2>3 DEF Captures, Evidenced
<1>3. ASSUME NEW q \in Questions, NEW v \in {"right", "wrong"}, AnswerQuestion(s, q, v)
      PROVE  Captures(s)
  <2> DEFINE g == [e.answer EXCEPT ![q] = v]
             f == [e EXCEPT !.answer = g]
  <2>1. /\ g \in [Questions -> {"open", "right", "wrong"}]
        /\ \A p \in Questions : e.answer[p] # "open" => g[p] # "open"
    BY <1>0
  <2>2. Capture(s, f)
    BY <1>3 DEF AnswerQuestion, e
  <2>3. Evidenced(s, f)
    <3> HIDE DEF g
    <3> QED BY <1>0, <2>1 DEF e, Evidenced, Evidence, Grows, Scored
  <2> QED BY <2>2, <2>3 DEF Captures, Evidenced
<1>4. ASSUME AnswerOutOfRange(s) PROVE Captures(s)
  <2>1. Evidenced(s, e)
    BY <1>0 DEF e, Evidenced, Grows
  <2> QED BY <1>4, <2>1 DEF AnswerOutOfRange, Captures, Evidenced, e
<1>5. ASSUME FinishUpload(s) PROVE Captures(s)
  <2> DEFINE f == [e EXCEPT !.recorded = TRUE]
  <2>1. Evidenced(s, f)
    BY <1>0 DEF e, Evidenced, Evidence, Grows, Scored
  <2> QED BY <1>5, <2>1 DEF FinishUpload, Captures, Evidenced, e
<1> QED BY <1>1, <1>2, <1>3, <1>4, <1>5

-----------------------------------------------------------------------------
(* The inductive invariant: besides the properties themselves, every       *)
(* session was opened under a given consent, and a presented document is   *)
(* scored in mock mode, whatever the session's status.                     *)

Opened(r) == r.consented /\ r.app \in Applications /\ consent[r.app] # "none"

\* The evidence a pass rests on is on record.
OnRecord(e) ==
  /\ e.geotag # "none" /\ e.ovd /\ e.recorded
  /\ \A q \in Questions : e.answer[q] # "open"

SessionOK(r) ==
  /\ r.status # "absent" => Opened(r)
  /\ Scored(r.evidence)
  /\ r.status = "completed" => OnRecord(r.evidence)
  /\ r.status = "failed" => r.flags # {}
  /\ r.status \notin {"failed", "cancelled"} => r.flags = {}
  /\ r.status \in {"absent", "initiated"} => r.evidence = NoEvidence

IInv == TypeOK /\ \A s \in Sessions : SessionOK(session[s])

LEMMA InitIInv == Init => IInv
<1> SUFFICES ASSUME Init PROVE IInv
  OBVIOUS
<1>1. NoEvidence \in Evidence
  BY DEF NoEvidence, Evidence, Score
<1>2. Absent \in VCIPSession
  <2> HIDE DEF NoEvidence
  <2> QED BY <1>1 DEF Absent, VCIPSession
<1>3. TypeOK
  BY <1>2, KycAssumption DEF Init, TypeOK
<1>4. Scored(NoEvidence)
  BY DEF Scored, NoEvidence
<1>5. SessionOK(Absent)
  BY <1>4 DEF SessionOK, Absent
<1> QED BY <1>3, <1>5 DEF Init, IInv

\* A step that leaves consent as it is, or lets it change without un-giving it,
\* and changes one session to one that is well typed and as it should be.
LEMMA OneSession ==
  ASSUME IInv, NEW s \in Sessions,
         consent' = consent, late' \in SUBSET Sessions, uploads' \in [Sessions -> 0..MaxUploads],
         session' \in [Sessions -> VCIPSession],
         \A t \in Sessions \ {s} : session'[t] = session[t],
         SessionOK(session'[s])
  PROVE  IInv'
<1>1. TypeOK'
  BY DEF IInv, TypeOK
<1>2. \A r : Opened(r)' <=> (r.consented' /\ r.app' \in Applications /\ consent[r.app'] # "none")
  BY DEF Opened
<1>3. ASSUME NEW t \in Sessions PROVE SessionOK(session[t])'
  <2>1. CASE t = s
    BY <2>1 DEF SessionOK, Opened, Scored, OnRecord, NoEvidence
  <2>2. CASE t # s
    BY <2>2 DEF IInv, SessionOK, Opened, Scored, OnRecord, NoEvidence
  <2> QED BY <2>1, <2>2
<1> QED BY <1>1, <1>3 DEF IInv

LEMMA NextIInv == IInv /\ [Next]_vars => IInv'
<1> SUFFICES ASSUME IInv, [Next]_vars PROVE IInv'
  OBVIOUS
<1>t. TypeOK
  BY DEF IInv
<1>1. ASSUME NEW s \in Sessions, Captures(s), uploads' \in [Sessions -> 0..MaxUploads]
      PROVE  IInv'
  <2>1. PICK e \in Evidence : Capture(s, e) /\ Evidenced(s, e)
    BY <1>1 DEF Captures
  <2>2. /\ session' \in [Sessions -> VCIPSession]
        /\ session'[s] = [session[s] EXCEPT !.status = EnsureInProgress(@), !.evidence = e]
        /\ \A t \in Sessions \ {s} : session'[t] = session[t]
        /\ consent' = consent /\ late' = late
    BY <1>t, <2>1, CaptureEffect
  <2>3. session[s] \in VCIPSession /\ SessionOK(session[s]) /\ session[s].status # "absent"
    BY <2>1 DEF IInv, TypeOK, Capture, Known
  <2>4. /\ session'[s].status = EnsureInProgress(session[s].status)
        /\ session'[s].evidence = e
        /\ session'[s].flags = session[s].flags
        /\ session'[s].app = session[s].app
        /\ session'[s].consented = session[s].consented
    BY <2>2, <2>3 DEF VCIPSession
  <2>5. Scored(e)
    BY <2>1, <2>3 DEF Evidenced, SessionOK
  <2>6. OnRecord(session[s].evidence) => OnRecord(e)
    BY <2>1 DEF Evidenced, Grows, OnRecord
  <2>7. SessionOK(session'[s])
    BY <2>3, <2>4, <2>5, <2>6 DEF SessionOK, Opened, EnsureInProgress
  <2> QED
    BY <1>1, <1>t, <2>2, <2>7, OneSession DEF TypeOK
<1>2. ASSUME NEW a \in Applications, RecordConsent(a) \/ WithdrawConsent(a) PROVE IInv'
  <2>1. /\ consent' \in [Applications -> {"none", "active", "withdrawn"}]
        /\ \A b \in Applications : consent[b] # "none" => consent'[b] # "none"
        /\ UNCHANGED <<session, late, uploads>>
    BY <1>2, <1>t DEF RecordConsent, WithdrawConsent, Consents!Give, Consents!Withdraw, TypeOK
  <2>2. TypeOK'
    BY <1>t, <2>1 DEF TypeOK
  <2>3. ASSUME NEW s \in Sessions PROVE SessionOK(session[s])'
    BY <2>1 DEF IInv, SessionOK, Opened, Scored, OnRecord, NoEvidence
  <2> QED BY <2>2, <2>3 DEF IInv
<1>3. ASSUME NEW s \in Sessions, NEW a \in Applications, Initiate(s, a) PROVE IInv'
  <2> DEFINE r == [Absent EXCEPT !.app = a, !.status = "initiated", !.consented = VerifyConsent(a)]
  <2>1. NoEvidence \in Evidence
    BY DEF NoEvidence, Evidence, Score
  <2>2. /\ r.app = a /\ r.status = "initiated" /\ r.consented = TRUE
        /\ r.evidence = NoEvidence /\ r.flags = {} /\ r \in VCIPSession
    <3> HIDE DEF NoEvidence
    <3>1. VerifyConsent(a) = TRUE
      BY <1>3 DEF Initiate, VerifyConsent
    <3> QED BY <2>1, <3>1 DEF Absent, VCIPSession, VCIPStatus
  <2>3. session' = [session EXCEPT ![s] = r] /\ UNCHANGED <<consent, late, uploads>>
    BY <1>3 DEF Initiate
  <2>4. Scored(NoEvidence)
    BY DEF Scored, NoEvidence
  <2>5. consent[a] # "none"
    BY <1>3 DEF Initiate, VerifyConsent
  <2> HIDE DEF r
  <2>6. SessionOK(session'[s]) /\ session' \in [Sessions -> VCIPSession]
    BY <1>t, <2>2, <2>3, <2>4, <2>5 DEF SessionOK, Opened, TypeOK
  <2> QED BY <1>t, <2>3, <2>6, OneSession DEF TypeOK
<1>4. ASSUME NEW s \in Sessions, BeginUpload(s) PROVE IInv'
  <2>1. uploads' \in [Sessions -> 0..MaxUploads]
    BY <1>4, <1>t, KycAssumption DEF BeginUpload, TypeOK
  <2> QED BY <1>4, <1>t, <2>1, OneSession DEF BeginUpload, IInv, TypeOK
<1>5. ASSUME NEW s \in Sessions, Complete(s) PROVE IInv'
  <2> DEFINE flags == ExpiryFlags(s) \cup GateFlags(session[s])
             status == IF flags = {} THEN "completed" ELSE "failed"
  <2>1. session' = [session EXCEPT ![s] = [session[s] EXCEPT !.flags = flags, !.status = status]]
        /\ UNCHANGED <<consent, late, uploads>>
    BY <1>5 DEF Complete
  <2>2. session[s] \in VCIPSession /\ SessionOK(session[s]) /\ session[s].status # "absent"
    BY <1>5 DEF IInv, TypeOK, Complete, Known
  <2>3. flags \in SUBSET VCIPFlag
    BY DEF ExpiryFlags, GateFlags, VCIPFlag
  <2>4. flags = {} => OnRecord(session[s].evidence)
    <3> SUFFICES ASSUME flags = {} PROVE OnRecord(session[s].evidence)
      OBVIOUS
    <3> DEFINE e == session[s].evidence
               fails == [consent_missing      |-> ~session[s].consented,
                         geotag_missing       |-> e.geotag = "none",
                         geotag_outside_india |-> e.geotag = "abroad",
                         ovd_not_presented    |-> ~e.ovd,
                         liveness_failed      |-> e.ovd /\ e.live = "fail",
                         face_mismatch        |-> e.ovd /\ e.face = "fail",
                         questions_failed     |-> Questions = {} \/ \E q \in Questions : e.answer[q] # "right",
                         recording_not_stored |-> ~e.recorded]
    <3>1. GateFlags(session[s]) = {f \in VCIPFlag \ {"session_expired"} : fails[f]}
      BY DEF GateFlags
    <3>2. ~fails["geotag_missing"] /\ ~fails["ovd_not_presented"] /\
          ~fails["questions_failed"] /\ ~fails["recording_not_stored"]
      <4> HIDE DEF fails
      <4> QED BY <3>1 DEF VCIPFlag
    <3>3. e.geotag # "none" /\ e.ovd /\ e.recorded
          /\ \A q \in Questions : e.answer[q] = "right"
      BY <3>2
    <3> QED BY <3>3 DEF OnRecord
  <2> HIDE DEF flags
  <2>5. /\ session' \in [Sessions -> VCIPSession]
        /\ session'[s].status = status /\ session'[s].flags = flags
        /\ session'[s].app = session[s].app
        /\ session'[s].consented = session[s].consented
        /\ session'[s].evidence = session[s].evidence
        /\ \A t \in Sessions \ {s} : session'[t] = session[t]
    <3>1. [session[s] EXCEPT !.flags = flags, !.status = status] \in VCIPSession
      BY <2>2, <2>3 DEF VCIPSession, VCIPStatus
    <3> QED BY <1>t, <2>1, <2>2, <3>1 DEF TypeOK, VCIPSession
  <2>6. SessionOK(session'[s])
    BY <2>2, <2>4, <2>5 DEF SessionOK, Opened
  <2> QED BY <1>t, <2>1, <2>5, <2>6, OneSession DEF TypeOK
<1>6. ASSUME NEW s \in Sessions, Cancel(s) PROVE IInv'
  <2>1. session' = [session EXCEPT ![s] = [session[s] EXCEPT !.status = "cancelled"]]
        /\ UNCHANGED <<consent, late, uploads>>
    BY <1>6 DEF Cancel
  <2>2. session[s] \in VCIPSession /\ SessionOK(session[s]) /\ session[s].status # "absent"
    BY <1>6 DEF IInv, TypeOK, Cancel, Known
  <2>3. [session[s] EXCEPT !.status = "cancelled"] \in VCIPSession
    BY <2>2 DEF VCIPSession, VCIPStatus
  <2>4. SessionOK(session'[s]) /\ session' \in [Sessions -> VCIPSession]
    BY <1>t, <2>1, <2>2, <2>3 DEF SessionOK, Opened, TypeOK, VCIPSession
  <2> QED BY <1>t, <2>1, <2>4, OneSession DEF TypeOK
<1>7. ASSUME NEW s \in Sessions, PassExpiry(s) PROVE IInv'
  BY <1>7, <1>t, OneSession DEF PassExpiry, IInv, TypeOK
<1>8. CASE UNCHANGED vars
  <2>1. TypeOK'
    BY <1>8, <1>t DEF vars, TypeOK
  <2> QED BY <1>8, <2>1 DEF IInv, vars, SessionOK, Opened, Scored, OnRecord, NoEvidence
<1>9. ASSUME NEW s \in Sessions, FinishUpload(s) PROVE uploads' \in [Sessions -> 0..MaxUploads]
  BY <1>9, <1>t, KycAssumption DEF FinishUpload, TypeOK
<1>10. ASSUME NEW s \in Sessions, NEW place \in {"india", "abroad"}, CaptureGeotag(s, place)
       PROVE  IInv'
  BY <1>1, <1>10, <1>t, HandlersCapture DEF CaptureGeotag, TypeOK
<1>11. ASSUME NEW s \in Sessions, NEW live \in Score, NEW face \in Score, PresentOvd(s, live, face)
       PROVE  IInv'
  BY <1>1, <1>11, <1>t, HandlersCapture DEF PresentOvd, TypeOK
<1>12. ASSUME NEW s \in Sessions, NEW q \in Questions, NEW v \in {"right", "wrong"},
              AnswerQuestion(s, q, v)
       PROVE  IInv'
  BY <1>1, <1>12, <1>t, HandlersCapture DEF AnswerQuestion, TypeOK
<1>13. ASSUME NEW s \in Sessions, AnswerOutOfRange(s) \/ FinishUpload(s) PROVE IInv'
  BY <1>1, <1>9, <1>13, <1>t, HandlersCapture DEF AnswerOutOfRange, TypeOK
<1> QED
  BY <1>2, <1>3, <1>4, <1>5, <1>6, <1>7, <1>8, <1>10, <1>11, <1>12, <1>13 DEF Next

-----------------------------------------------------------------------------
(* Theorems                                                                *)

THEOREM IInvHolds == Spec => []IInv
  BY InitIInv, NextIInv, PTL DEF Spec

\* The state stays well typed: in particular an answer to a question that was
\* not asked never becomes part of a session (VCIPProcessor.answer_question).
THEOREM TypeCorrect == Spec => []TypeOK
<1>1. IInv => TypeOK
  BY DEF IInv
<1> QED BY <1>1, IInvHolds, PTL

\* However the handlers interleave and whatever they do to a session after its
\* verdict, a completed session was opened under a consent that was given and
\* has every piece of evidence on record (VCIPProcessor.complete_session).
THEOREM PassIsBacked == Spec => []CompletedHasEvidence
<1>1. IInv => CompletedHasEvidence
  BY DEF IInv, SessionOK, Opened, Scored, OnRecord, CompletedHasEvidence
<1> QED BY <1>1, IInvHolds, PTL

\* The flags of a session are those of its current verdict.
THEOREM FlagsAreCurrent == Spec => []FlagsExplainVerdict
<1>1. IInv => FlagsExplainVerdict
  BY DEF IInv, SessionOK, FlagsExplainVerdict
<1> QED BY <1>1, IInvHolds, PTL

\* A session that has not started has captured nothing.
THEOREM NothingBeforeStart == Spec => []InitiatedIsBlank
<1>1. IInv => InitiatedIsBlank
  BY DEF IInv, SessionOK, InitiatedIsBlank
<1> QED BY <1>1, IInvHolds, PTL
=============================================================================
