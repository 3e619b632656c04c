------------------------------ MODULE VideoKyc ------------------------------
(***************************************************************************)
(* Video KYC: the session state machine of VCIPProcessor driven by the     *)
(* /vcip routes, together with the video_kyc consent of the compliance     *)
(* routes it is opened under.  Every handler is synchronous except the     *)
(* recording upload, which looks the session up, awaits the file, and only *)
(* then stores the recording: other handlers run in between.               *)
(***************************************************************************)
EXTENDS Naturals

CONSTANTS
  Applications,
  Sessions,     \* session ids
  NoApp,        \* the application of a session that was never initiated
  MockMode,     \* VCIPProcessor.mock_mode; the routes set it
  NumQuestions, \* NUM_RANDOM_QUESTIONS: questions asked in a session
  MaxUploads    \* bound: uploads of one session suspended at the same time

ASSUME KycAssumption ==
  /\ NoApp \notin Applications
  /\ MockMode \in BOOLEAN
  /\ {NumQuestions, MaxUploads} \subseteq Nat

VARIABLES
  consent,   \* consent[a]: "none", "active" or "withdrawn" for video_kyc
  session,   \* session[s]: the VCIPSession, status "absent" before initiate
  late,      \* the sessions whose expires_at has passed
  uploads    \* uploads[s]: recording requests awaiting their file

vars == <<consent, session, late, uploads>>

Questions == 0..NumQuestions - 1

VCIPFlag == {"consent_missing", "geotag_missing", "geotag_outside_india",
             "ovd_not_presented", "liveness_failed", "face_mismatch",
             "questions_failed", "recording_not_stored", "session_expired"}

VCIPStatus == {"initiated", "in_progress", "completed", "failed", "cancelled"}

\* A score against its threshold; "none" is a score never supplied.
Score == {"none", "pass", "fail"}

Evidence == [geotag : {"none", "india", "abroad"}, ovd : BOOLEAN,
             live : Score, face : Score,
             answer : [Questions -> {"open", "right", "wrong"}],
             recorded : BOOLEAN]

NoEvidence == [geotag |-> "none", ovd |-> FALSE, live |-> "none", face |-> "none",
               answer |-> [q \in Questions |-> "open"], recorded |-> FALSE]

VCIPSession == [app : Applications \cup {NoApp}, status : VCIPStatus \cup {"absent"},
                consented : BOOLEAN, evidence : Evidence, flags : SUBSET VCIPFlag]

Absent == [app |-> NoApp, status |-> "absent", consented |-> FALSE,
           evidence |-> NoEvidence, flags |-> {}]

TypeOK ==
  /\ consent \in [Applications -> {"none", "active", "withdrawn"}]
  /\ session \in [Sessions -> VCIPSession]
  /\ late \in SUBSET Sessions
  /\ uploads \in [Sessions -> 0..MaxUploads]

Init ==
  /\ consent = [a \in Applications |-> "none"]
  /\ session = [s \in Sessions |-> Absent]
  /\ late = {}
  /\ uploads = [s \in Sessions |-> 0]

Known(s) == session[s].status # "absent"

-----------------------------------------------------------------------------
(* Consent (POST /compliance/consent, .../withdraw)                        *)

\* The records of video_kyc consent, as the ledger that Compliance implements.
Consents == INSTANCE ConsentLedger WITH Subjects <- Applications

VerifyConsent(a) == consent[a] = "active"

RecordConsent(a) ==
  /\ Consents!Give(a)
  /\ UNCHANGED <<session, late, uploads>>

WithdrawConsent(a) ==
  /\ Consents!Withdraw(a)
  /\ UNCHANGED <<session, late, uploads>>

-----------------------------------------------------------------------------
(* The life of a session                                                   *)

Initiate(s, a) ==
  /\ ~Known(s)
  /\ VerifyConsent(a)
  /\ session' = [session EXCEPT ![s] = [Absent EXCEPT !.app = a, !.status = "initiated",
                                                      !.consented = VerifyConsent(a)]]
  /\ UNCHANGED <<consent, late, uploads>>

EnsureInProgress(status) == IF status = "initiated" THEN "in_progress" ELSE status

\* Every evidence handler: find the session (404 otherwise), start it if it has
\* not started, and replace one part of its evidence, whatever its status is.
Capture(s, evidence) ==
  /\ Known(s)
  /\ session' = [session EXCEPT ![s].status = EnsureInProgress(@),
                                ![s].evidence = evidence]
  /\ UNCHANGED <<consent, late>>

CaptureGeotag(s, place) ==
  /\ Capture(s, [session[s].evidence EXCEPT !.geotag = place])
  /\ UNCHANGED uploads

\* Fault: a score that was not supplied stays absent in mock mode too, and an
\* absent score passes its gate.
PresentOvd_NoDefault(s, live, face) ==
  /\ Capture(s, [session[s].evidence EXCEPT !.ovd = TRUE, !.live = live, !.face = face])
  /\ UNCHANGED uploads

\* In mock mode a score that was not supplied is a passing one.
PresentOvd(s, live, face) ==
  /\ LET scored(x) == IF MockMode /\ x = "none" THEN "pass" ELSE x IN
       Capture(s, [session[s].evidence EXCEPT !.ovd = TRUE, !.live = scored(live),
                                              !.face = scored(face)])
  /\ UNCHANGED uploads

AnswerQuestion(s, q, verdict) ==
  /\ Capture(s, [session[s].evidence EXCEPT !.answer[q] = verdict])
  /\ UNCHANGED uploads

\* An index out of range is refused, but only after the session was started.
AnswerOutOfRange(s) ==
  /\ Capture(s, session[s].evidence)
  /\ UNCHANGED uploads

\* POST /recording up to `await file.read()`.
BeginUpload(s) ==
  /\ Known(s)
  /\ uploads[s] < MaxUploads
  /\ uploads' = [uploads EXCEPT ![s] = @ + 1]
  /\ UNCHANGED <<consent, session, late>>

\* The file has arrived: store_recording.
FinishUpload(s) ==
  /\ uploads[s] > 0
  /\ uploads' = [uploads EXCEPT ![s] = @ - 1]
  /\ Capture(s, [session[s].evidence EXCEPT !.recorded = TRUE])

\* The gates complete_session evaluates on the session, as they would flag it.
\* Liveness and face are looked at only once a document was presented.
GateFlags(r) ==
  LET e == r.evidence
      fails == [consent_missing      |-> ~r.consented,
                geotag_missing       |-> e.geotag = "none",
                geotag_outside_india |-> e.geotag = "abroad",
                ovd_not_presented    |-> ~e.ovd,
                liveness_failed      |-> e.ovd /\ e.live = "fail",
                face_mismatch        |-> e.ovd /\ e.face = "fail",
                questions_failed     |-> Questions = {} \/ \E q \in Questions : e.answer[q] # "right",
                recording_not_stored |-> ~e.recorded]
  IN  {f \in VCIPFlag \ {"session_expired"} : fails[f]}

\* Expiry counts against a session only until its first verdict.
ExpiryFlags(s) ==
  IF s \in late /\ session[s].status \notin {"completed", "failed"}
    THEN {"session_expired"} ELSE {}

\* Fault: the flags of an earlier verdict are kept and only added to.
Complete_KeepsFlags(s) ==
  /\ Known(s)
  /\ LET flags == ExpiryFlags(s) \cup GateFlags(session[s])
     IN  session' = [session EXCEPT ![s].flags = @ \cup flags,
                       ![s].status = IF flags = {} THEN "completed" ELSE "failed"]
  /\ UNCHANGED <<consent, late, uploads>>

\* complete_session replaces the flags and rules again, from any status.
Complete(s) ==
  /\ Known(s)
  /\ LET flags == ExpiryFlags(s) \cup GateFlags(session[s])
     IN  session' = [session EXCEPT ![s].flags = flags,
                       ![s].status = IF flags = {} THEN "completed" ELSE "failed"]
  /\ UNCHANGED <<consent, late, uploads>>

Cancel(s) ==
  /\ Known(s)
  /\ session' = [session EXCEPT ![s].status = "cancelled"]
  /\ UNCHANGED <<consent, late, uploads>>

\* The clock passes expires_at; no code runs.
PassExpiry(s) ==
  /\ Known(s) /\ s \notin late
  /\ late' = late \cup {s}
  /\ UNCHANGED <<consent, session, uploads>>

Next ==
  \/ \E a \in Applications : RecordConsent(a) \/ WithdrawConsent(a)
  \/ \E s \in Sessions, a \in Applications : Initiate(s, a)
  \/ \E s \in Sessions, place \in {"india", "abroad"} : CaptureGeotag(s, place)
  \/ \E s \in Sessions, live, face \in Score : PresentOvd(s, live, face)
  \/ \E s \in Sessions, q \in Questions, verdict \in {"right", "wrong"} :
       AnswerQuestion(s, q, verdict)
  \/ \E s \in Sessions : \/ AnswerOutOfRange(s) \/ BeginUpload(s) \/ FinishUpload(s)
                         \/ Complete(s) \/ Cancel(s) \/ PassExpiry(s)

Spec == Init /\ [][Next]_vars

-----------------------------------------------------------------------------
(* Properties                                                              *)

\* Everything a pass rests on, once captured, stays: however the evidence of a
\* completed session is changed afterwards (all evidence handlers accept a
\* completed session), it was opened under a consent that the application
\* really gave, and its location, document with both scores, recording and
\* every answer are on record.
CompletedHasEvidence ==
  \A s \in Sessions : session[s].status = "completed" =>
    LET r == session[s] IN
      /\ r.consented /\ consent[r.app] # "none"
      /\ r.evidence.geotag # "none"
      /\ r.evidence.ovd
      /\ MockMode => r.evidence.live # "none" /\ r.evidence.face # "none"
      /\ r.evidence.recorded
      /\ \A q \in Questions : r.evidence.answer[q] # "open"

\* The flags are those of the current verdict and of nothing else: a completed
\* session carries none although it may have failed before, a failed one
\* carries at least one, and a session never ruled on carries none.
FlagsExplainVerdict ==
  \A s \in Sessions :
    /\ session[s].status = "failed" => session[s].flags # {}
    /\ session[s].status \notin {"failed", "cancelled"} => session[s].flags = {}

\* A session that is still "initiated" holds no evidence and has no verdict:
\* whatever handler captures something first also starts it, the upload that
\* was suspended across other handlers included.
InitiatedIsBlank ==
  \A s \in Sessions : session[s].status \in {"absent", "initiated"} =>
    session[s].evidence = NoEvidence
=============================================================================
