---------------------------- MODULE ReviewConsole ----------------------------
(***************************************************************************)
(* The bank-side review console: the in-memory queue of ReviewProcessor,   *)
(* the Postgres tables behind it, the two override endpoints, and the      *)
(* start-up code that rebuilds the queue.  One asyncio event loop runs all *)
(* handlers: a handler is atomic up to its first await, and the override   *)
(* handlers await exactly one thing, the database save, so that save is a  *)
(* step of its own which may commit, fail, or be lost in a crash while     *)
(* other handlers run.                                                     *)
(***************************************************************************)
EXTENDS Naturals, Sequences, FiniteSets

CONSTANTS
  Applications,   \* application ids
  Scenarios,      \* DEMO_SCENARIOS: a sequence of distinct application ids
  Reviewers,      \* reviewer ids
  NoOne,          \* assigned_to = None
  LoadMayFail,    \* may the database be unreachable while the queue is loaded?
  SaveMayFail,    \* may the database refuse a save?
  SeedMayAbort,   \* may the pipeline raise while a demo scenario is seeded?
  MaxCases,       \* bound: cases of one application in one process lifetime
  MaxOverrides,   \* bound: overrides of one application in one lifetime
  MaxCrashes      \* bound: crashes

ASSUME ConsoleAssumption ==
  /\ Scenarios \in Seq(Applications)
  /\ \A i, j \in 1..Len(Scenarios) : Scenarios[i] = Scenarios[j] => i = j
  /\ NoOne \notin Reviewers
  /\ {LoadMayFail, SaveMayFail, SeedMayAbort} \subseteq BOOLEAN
  /\ {MaxCases, MaxOverrides, MaxCrashes} \subseteq Nat

VARIABLES
  phase,        \* "down", "seeding" or "serving": where the process is
  seeded,       \* scenarios already handled by seed_demo_cases
  cases,        \* cases[a]: ReviewProcessor._cases of a, oldest first
  overrides,    \* overrides[a]: ReviewProcessor._overrides of a, oldest first
  saving,       \* the override handlers suspended in persistence.save_override
  row,          \* row[a]: ApplicationRecord.status in Postgres, or "none"
  dbOverrides,  \* dbOverrides[a]: verdicts of a in the review_overrides table
  crashes

memory  == <<cases, overrides, saving>>
durable == <<row, dbOverrides>>
vars    == <<phase, seeded, memory, durable, crashes>>

ReviewStatus     == {"pending", "in_progress", "completed", "escalated"}
OverrideDecision == {"approve", "reject", "escalate"}
ReviewCase       == [status : ReviewStatus, assigned_to : Reviewers \cup {NoOne}]
OverrideRecord   == [case : Nat, decision : OverrideDecision]
SaveRequest      == [app : Applications, index : 1..MaxOverrides,
                     decision : OverrideDecision, status : ReviewStatus]

TypeOK ==
  /\ phase \in {"down", "seeding", "serving"}
  /\ seeded \in 0..Len(Scenarios)
  /\ cases \in [Applications -> Seq(ReviewCase)]
  /\ overrides \in [Applications -> Seq(OverrideRecord)]
  /\ saving \in SUBSET SaveRequest
  /\ row \in [Applications -> {"none"} \cup ReviewStatus]
  /\ dbOverrides \in [Applications -> SUBSET OverrideDecision]
  /\ crashes \in Nat

NewCase == [status |-> "pending", assigned_to |-> NoOne]

Init ==
  /\ phase = "down"
  /\ seeded = 0
  /\ cases = [a \in Applications |-> <<>>]
  /\ overrides = [a \in Applications |-> <<>>]
  /\ saving = {}
  /\ row = [a \in Applications |-> "none"]
  /\ dbOverrides = [a \in Applications |-> {}]
  /\ crashes = 0

-----------------------------------------------------------------------------
(* Start-up: bootstrap_review_console runs before any request is served.   *)

Registered == {a \in Applications : row[a] # "none"}

\* _to_review_status: an unknown value reads as pending.
ToReviewStatus(value) == IF value \in ReviewStatus THEN value ELSE "pending"

\* Fault: only the cases that still need a reviewer are loaded.
Rehydrate_PendingOnly ==
  /\ phase = "down"
  /\ Registered # {}
  /\ cases' = [a \in Applications |-> IF row[a] = "pending" THEN <<NewCase>> ELSE <<>>]
  /\ phase' = "serving"
  /\ UNCHANGED <<seeded, overrides, saving, durable, crashes>>

\* The database answers and has rows: one fresh case per row, with the stored
\* status; overrides and assignments are not read back.
Rehydrate ==
  /\ phase = "down"
  /\ Registered # {}
  /\ cases' = [a \in Applications |->
                 IF a \in Registered
                   THEN <<[NewCase EXCEPT !.status = ToReviewStatus(row[a])]>>
                   ELSE <<>>]
  /\ phase' = "serving"
  /\ UNCHANGED <<seeded, overrides, saving, durable, crashes>>

\* Fault: seeding no longer depends on what was restored.
BeginSeeding_Always ==
  /\ phase = "down"
  /\ phase' = "seeding"
  /\ seeded' = 0
  /\ UNCHANGED <<memory, durable, crashes>>

\* The database is empty, or loading it raised: fall through to seeding.
BeginSeeding ==
  /\ phase = "down"
  /\ Registered = {} \/ LoadMayFail
  /\ phase' = "seeding"
  /\ seeded' = 0
  /\ UNCHANGED <<memory, durable, crashes>>

\* save_decision: one transaction deletes the application's row, evidence and
\* consent and writes them anew, with the status given (seeding gives pending).
SaveDecision(a) == row' = [row EXCEPT ![a] = "pending"]

\* One iteration of seed_demo_cases: the case is queued, then saved; a save
\* that raises is only logged.
SeedScenario ==
  /\ phase = "seeding"
  /\ seeded < Len(Scenarios)
  /\ LET a == Scenarios[seeded + 1] IN
       /\ cases' = [cases EXCEPT ![a] = Append(@, NewCase)]
       /\ \/ SaveDecision(a)
          \/ SaveMayFail /\ UNCHANGED row
  /\ seeded' = seeded + 1
  /\ UNCHANGED <<phase, overrides, saving, dbOverrides, crashes>>

\* seed_demo_cases returns; or pipeline.execute raises inside it, and the
\* lifespan hook logs the failure and serves what is there.
FinishSeeding ==
  /\ phase = "seeding"
  /\ seeded = Len(Scenarios) \/ SeedMayAbort
  /\ phase' = "serving"
  /\ seeded' = 0
  /\ UNCHANGED <<memory, durable, crashes>>

-----------------------------------------------------------------------------
(* Requests                                                                *)

\* A review or reject decision of /onboard or /apply/submit queues a new case;
\* the application id is the client's, so it may repeat.  Nothing is saved.
CreateReviewCase(a) ==
  /\ phase = "serving"
  /\ Len(cases[a]) < MaxCases
  /\ cases' = [cases EXCEPT ![a] = Append(@, NewCase)]
  /\ UNCHANGED <<phase, seeded, overrides, saving, durable, crashes>>

AssignCase(a, i, r) ==
  /\ phase = "serving"
  /\ cases' = [cases EXCEPT ![a][i] = [status |-> "in_progress",
                                       assigned_to |-> r]]
  /\ UNCHANGED <<phase, seeded, overrides, saving, durable, crashes>>

StatusOf(d) == IF d = "escalate" THEN "escalated" ELSE "completed"

\* Fault: the override is recorded for the newest case of the application.
SubmitOverride_NewestCase(a, i, d) ==
  /\ overrides' = [overrides EXCEPT ![a] =
                     Append(@, [case |-> Len(cases[a]), decision |-> d])]
  /\ cases' = [cases EXCEPT ![a][i].status = StatusOf(d)]

\* Fault: a completed case keeps its status when it is escalated afterwards.
SubmitOverride_KeepsCompleted(a, i, d) ==
  /\ overrides' = [overrides EXCEPT ![a] = Append(@, [case |-> i, decision |-> d])]
  /\ cases' = [cases EXCEPT ![a][i].status =
                 IF @ = "completed" THEN @ ELSE StatusOf(d)]

\* ReviewProcessor.submit_override: record, then set the status.
SubmitOverride(a, i, d) ==
  /\ overrides' = [overrides EXCEPT ![a] = Append(@, [case |-> i, decision |-> d])]
  /\ cases' = [cases EXCEPT ![a][i].status = StatusOf(d)]

\* What both handlers hand to save_override, evaluated before the await.
SaveRequestOf(a, i, d) ==
  [app |-> a, index |-> Len(overrides[a]) + 1,
   decision |-> d, status |-> cases'[a][i].status]

\* POST /review/{case}/override: 409 once the case is completed.
OverrideByApi(a, i, d) ==
  /\ phase = "serving"
  /\ cases[a][i].status # "completed"
  /\ Len(overrides[a]) < MaxOverrides
  /\ SubmitOverride(a, i, d)
  /\ saving' = saving \cup {SaveRequestOf(a, i, d)}
  /\ UNCHANGED <<phase, seeded, durable, crashes>>

\* POST /ui/review/{case}/override: the same, without the check.
OverrideByUi(a, i, d) ==
  /\ phase = "serving"
  /\ Len(overrides[a]) < MaxOverrides
  /\ SubmitOverride(a, i, d)
  /\ saving' = saving \cup {SaveRequestOf(a, i, d)}
  /\ UNCHANGED <<phase, seeded, durable, crashes>>

\* Fault: the status is committed, the override row is not.
CommitOverride_StatusOnly(s) ==
  /\ row' = IF row[s.app] = "none" THEN row
                                   ELSE [row EXCEPT ![s.app] = s.status]
  /\ saving' = saving \ {s}
  /\ UNCHANGED <<phase, seeded, cases, overrides, dbOverrides, crashes>>

\* Fault: an application that has no row gets one.
CommitOverride_Upsert(s) ==
  /\ dbOverrides' = [dbOverrides EXCEPT ![s.app] = @ \cup {s.decision}]
  /\ row' = [row EXCEPT ![s.app] = s.status]
  /\ saving' = saving \ {s}
  /\ UNCHANGED <<phase, seeded, cases, overrides, crashes>>

\* Fault: a save that would not change the status is skipped.
CommitOverride_OnChangeOnly(s) ==
  /\ dbOverrides' = IF row[s.app] = s.status THEN dbOverrides
                     ELSE [dbOverrides EXCEPT ![s.app] = @ \cup {s.decision}]
  /\ row' = IF row[s.app] = "none" THEN row
                                   ELSE [row EXCEPT ![s.app] = s.status]
  /\ saving' = saving \ {s}
  /\ UNCHANGED <<phase, seeded, cases, overrides, crashes>>

\* The transaction of save_override commits: the override row and the status
\* of the application, when it has a row.  Saves may commit in any order.
CommitOverride(s) ==
  /\ dbOverrides' = [dbOverrides EXCEPT ![s.app] = @ \cup {s.decision}]
  /\ row' = IF row[s.app] = "none" THEN row
                                   ELSE [row EXCEPT ![s.app] = s.status]
  /\ saving' = saving \ {s}
  /\ UNCHANGED <<phase, seeded, cases, overrides, crashes>>

\* The save raises: the handler logs a warning and answers all the same.
DropOverride(s) ==
  /\ SaveMayFail
  /\ saving' = saving \ {s}
  /\ UNCHANGED <<phase, seeded, cases, overrides, durable, crashes>>

\* The process dies: the queue, the overrides and the pending saves are gone.
Crash ==
  /\ crashes < MaxCrashes
  /\ crashes' = crashes + 1
  /\ phase' = "down"
  /\ seeded' = 0
  /\ cases' = [a \in Applications |-> <<>>]
  /\ overrides' = [a \in Applications |-> <<>>]
  /\ saving' = {}
  /\ UNCHANGED durable

-----------------------------------------------------------------------------

Startup == Rehydrate \/ BeginSeeding \/ SeedScenario \/ FinishSeeding

Request ==
  \E a \in Applications :
    \/ CreateReviewCase(a)
    \/ \E i \in DOMAIN cases[a] :
         \/ \E r \in Reviewers : AssignCase(a, i, r)
         \/ \E d \in OverrideDecision : OverrideByApi(a, i, d) \/ OverrideByUi(a, i, d)

SettleSave == \E s \in saving : CommitOverride(s) \/ DropOverride(s)

Next == Startup \/ Request \/ SettleSave \/ Crash

Spec == Init /\ [][Next]_vars

\* The event loop resumes every suspended handler with its save done or raised;
\* start-up, requests and crashes are nobody's obligation here.
Fairness ==
  \A a \in Applications, n \in 1..MaxOverrides :
    WF_vars(\E s \in saving : /\ s.app = a /\ s.index = n
                              /\ CommitOverride(s) \/ DropOverride(s))

FairSpec == Spec /\ Fairness

-----------------------------------------------------------------------------
(* Safety                                                                  *)

\* The verdicts behind a status that a reviewer's decision produces.
VerdictsFor(st) == {d \in OverrideDecision : StatusOf(d) = st}
Reviewed        == {"completed", "escalated"}

\* A row that reads "completed" or "escalated" has a matching verdict in
\* review_overrides: save_override writes both in one transaction, and no
\* other code path stores a status a reviewer did not produce.
RowJustified ==
  \A a \in Applications :
    row[a] \in Reviewed => dbOverrides[a] \cap VerdictsFor(row[a]) # {}

\* Every case the console shows as completed or escalated rests on a reviewer
\* verdict of that kind: one given on this very case since start-up, or one in
\* Postgres for its application.  It must survive duplicates of an application
\* id, restarts, lost saves and the seeding fallback.
CaseJustified ==
  \A a \in Applications : \A i \in DOMAIN cases[a] :
    cases[a][i].status \in Reviewed =>
      \/ \E k \in DOMAIN overrides[a] :
           /\ overrides[a][k].case = i
           /\ overrides[a][k].decision \in VerdictsFor(cases[a][i].status)
      \/ dbOverrides[a] \cap VerdictsFor(cases[a][i].status) # {}

\* A case in progress has a reviewer.  Assignments are never persisted, so a
\* restart must not bring back a case in progress that belongs to nobody.
InProgressHasReviewer ==
  \A a \in Applications : \A i \in DOMAIN cases[a] :
    cases[a][i].status = "in_progress" => cases[a][i].assigned_to # NoOne

\* A closed or escalated case that was overridden since start-up carries the
\* status of its LATEST override, whichever endpoint and order they came by;
\* the case page and the status page read the two separately.
StatusFollowsLatestOverride ==
  \A a \in Applications : \A i \in DOMAIN cases[a] :
    LET mine == {k \in DOMAIN overrides[a] : overrides[a][k].case = i}
    IN  mine # {} /\ cases[a][i].status \in Reviewed =>
          \E k \in mine : /\ \A j \in mine : j <= k
                          /\ cases[a][i].status = StatusOf(overrides[a][k].decision)

\* A pending save still says what the override it belongs to said.
SavesMatchOverrides ==
  \A s \in saving :
    /\ s.index \in DOMAIN overrides[s.app]
    /\ overrides[s.app][s.index].decision = s.decision
    /\ s.status = StatusOf(s.decision)

\* Once the console serves requests, no application registered in Postgres is
\* missing from its queue.  (Where the database can be reached at start-up.)
RegisteredIsQueued ==
  phase = "serving" => \A a \in Registered : cases[a] # <<>>

\* A reviewed application never falls back to pending in Postgres, whatever
\* restarts happen.  (Where the database can be reached at start-up.)
ReviewSurvives ==
  [][\A a \in Applications : row[a] \in Reviewed => row'[a] \in Reviewed]_vars

-----------------------------------------------------------------------------
(* The customer's status page, which reads two things: the status of the   *)
(* application's case and the last override of the application.            *)

\* get_case_by_application answers with the oldest case.
StatusPage(a) ==
  [status  |-> IF cases[a] = <<>> THEN "none" ELSE cases[a][1].status,
   verdict |-> IF cases[a] = <<>> \/ overrides[a] = <<>> THEN "system"
               ELSE overrides[a][Len(overrides[a])].decision]

\* The page is said to be "merging any later action the bank admin took on the
\* case": a status a reviewer produced comes with a verdict of that kind.
StatusPageMergesReview ==
  \A a \in Applications :
    StatusPage(a).status \in Reviewed =>
      StatusPage(a).verdict \in VerdictsFor(StatusPage(a).status)

-----------------------------------------------------------------------------
(* Liveness                                                                *)

\* Where saves succeed, a verdict that was accepted reaches Postgres unless the
\* process dies first.
VerdictReachesStore ==
  \A a \in Applications, n \in 1..MaxOverrides, d \in OverrideDecision, k \in 0..MaxCrashes :
    (crashes = k /\ \E s \in saving : s.app = a /\ s.index = n /\ s.decision = d)
      ~> (d \in dbOverrides[a] \/ crashes > k)

-----------------------------------------------------------------------------
(* The console implements the ledger: its durable variables are the        *)
(* ledger's, seeding registers, a committed save records.                  *)
Ledger == INSTANCE ReviewLedger WITH status <- row, verdicts <- dbOverrides
LedgerSpec == Ledger!Spec
=============================================================================
