# LOIP: formal models and proofs

LOIP is a loan-onboarding platform for Indian personal loans: applicants upload
documents, a pipeline of ten stages reads, checks and scores them, a rule engine
approves, rejects or holds the application, and bank staff rule on what is held.
It is one FastAPI process with one asyncio event loop; almost all of its state is in
module-level Python dictionaries, some of it is written to Postgres.

This directory holds TLA+ models of the parts of that program where order, failure and
shared state matter, the TLC instances that check them, and TLAPS proofs of the
properties that matter most for every value of the constants. `PROJECT.json` ties every
definition to the lines it models, every property to the fault that would break it, and
every hazard of the code to the properties that watch it.

    tlc -workers 2 -config ReviewConsole.cfg MCReviewConsole.tla      # check one instance
    tlapm ReviewConsoleProofs.tla                                     # check the proofs

## 1. The system

| Component | State it keeps | Operations | Talks to | What is hard | What makes it correct |
|---|---|---|---|---|---|
| Human review queue (`domains/human_review`, `web/routes/review.py`, `ui.py`) | cases, overrides (memory) | create, assign, override by API, override by form | persistence (awaited), pipeline (creates), status page (reads) | two endpoints with different checks; saves suspended across other handlers | a status is always backed by a verdict; the latest verdict counts; nothing reviewed is lost |
| Persistence (`persistence.py`) | `applications`, `review_overrides`, evidence, consent and audit tables | `save_decision`, `save_override`, `load_decisions` | Postgres | a save may raise or commit late; the process may die before it | row and override change together; a reviewed row stays reviewed |
| Start-up (`web/startup.py`, `web/api.py` lifespan) | none of its own | rehydrate, seed demo data | persistence, queue, pipeline | database down at one moment, up the next; seeding cut short | the queue afterwards holds every registered application |
| Video KYC (`identity_trust/vcip.py`, `web/routes/vcip.py`) | sessions (memory) | initiate, geotag, document, answers, recording, complete, cancel | consent store, decision (result) | handlers in any order; upload suspended while others run; expiry | a pass rests on consent and full evidence; flags describe the last verdict |
| Compliance (`domains/compliance`, `web/routes/consent.py`) | consent records, Key Fact Statements, cooling-off records, deletion log (memory) | record/withdraw consent, generate/disclose/accept KFS, start/cancel cooling-off, erase | V-CIP (reads consent) | legal calls in unplanned order; duplicates | withdrawal is complete and only for its purpose; stamps belong to the current statement; cancellation only in time |
| Risk decisioning (`domains/risk_decisioning`) | none | `decide` | pipeline | fourteen gates, eight triggers, a score and a V-CIP block on four paths | the block holds on every path; every outcome is explained; better facts never hurt |
| Onboarding pipeline (`pipelines/onboarding.py`, `web/routes/onboard.py`) | per submission; explanations | `execute` | all stages, queue, audit | submissions interleave at every await; a stage may raise half-way | whoever is held is queued once and has an explanation; approvals pass every gate |
| Customer form (`web/routes/demo.py`) | demo records on disk | submit, status, liveness check | pipeline, queue | overwrites the pipeline's decision after the case was queued | whoever it holds has a case, and one only |
| Explainability and audit (`domains/explainability`, `routes/audit.py`) | explanations by application id | store, read | pipeline | one slot per application id | a case has an explanation |
| Fraud intelligence, identity graph (`domains/fraud`, `graph.py`, `models/graphsage_wrapper.py`) | Neo4j graph, when reachable; the wrapper's nodes (memory) | ingest, find rings, predict | pipeline | two best-effort calls over a shared graph, other submissions between them; a model that may raise after them | of two who share a device one is told; nobody is their own neighbour |
| Document intelligence (`domains/document_intel`, `models/qwen2_5_vl_wrapper.py` and the other readers) | result cache, semaphore | read all pages of a submission at once in worker threads; the form does so twice | pipeline, form, Ollama | threads share a cache the first of them makes; bounded slots; retries, time-outs, answers that break off | slots are conserved and return; what the form was compared with is what is decided on |
| Identity trust (`domains/identity_trust/processor.py`) | none | score identity | pipeline, NSDL and UIDAI clients | penalties that only together reach a threshold; two answers of one service | two signals of forgery are never approved unseen; better evidence never hurts |
| QR trust (`domains/qr_trust`) | none | find, parse, verify and compare codes; look for retouching; score | pipeline, identity trust | several pages of one class; damaged, unsigned and foreign codes; no key, no detector | only UIDAI's signature is valid; no code serves better than the genuine one; the decision is told what was found |
| Income, affordability, eligibility (`income_intel`, `affordability`, `services/eligibility.py`) | none | pure computation | pipeline | weighted sources, boundaries, no income at all | an approval is backed by a document |
| MLOps registry (`domains/mlops`, `routes/admin.py`) | model versions, drift alerts, retraining triggers | register, promote, drift check, retrain | queue's override feed | promotion of one retires another | one model in production |
| Integration clients (`integrations/`) | none | request, at most twice | external services | time-outs, repeated requests | silence verifies nobody |
| Event publisher (`events.py`) | Kafka producer | publish, best effort | nobody reads the topics | suspension point | publishing never fails the pipeline |
| Storage and evidence (`storage.py`, `routes/evidence.py`) | MinIO objects or local files | store, fetch by id | pipeline, V-CIP | backend chosen at each start | the page a decision cites is the page it was read from, and is found |
| Document numbers (`validation.py`) | none | Verhoeff, MRZ check digits | fraud, QR trust | tables typed by hand | every single error is caught |
| Annotation of training documents (`scripts/annotate`) | files | label, validate | generators, training | values alike within two edits; labels overwrite labels; rounding | a label is true of what it labels; a page with everything on it passes the gate; boxes stay in their line |
| Authentication, other scripts, schemas, migrations, landing page | - | - | - | - | - |

### How they interact

`POST /onboard` and `POST /apply/submit` run `OnboardingPipeline.execute`. It fills a
context stage by stage, awaiting the document models, the bureau clients and the event
publisher, calls `RiskDecisionProcessor.decide`, stores an explanation for the audit route,
and creates a review case for everything but an approval. The form route may overrule
the decision afterwards. Bank staff assign and override cases; both override endpoints
change memory first and then await `save_override`. On a restart the queue is rebuilt from
Postgres, or seeded with demo applications when Postgres is empty or does not answer. Video
KYC is a separate set of routes that reads the consent store and shares nothing else with
the pipeline: no route passes its result into `decide`, so every loan above the V-CIP
ceiling is held.

## 2. Modules

| Module | What it models | Built on |
|---|---|---|
| `ReviewLedger` | abstract: registered applications, verdicts that are kept, status of a verdict | - |
| `ReviewConsole` | queue, assignment, both override endpoints, saves as separate steps, rehydration, seeding, crashes | implements `ReviewLedger` |
| `ConsentLedger` | abstract: consent of a subject is given or withdrawn | - |
| `VideoKyc` | V-CIP sessions with suspended uploads and expiry | its consent actions are `ConsentLedger`'s |
| `Compliance` | the compliance processor's stores | implements `ConsentLedger` |
| `RiskDecision` | `decide` as an operator on facts | - |
| `Evidence` | from what documents, services and models report to the facts `decide` works on: identity flags and confidence, QR trust, fraud score, reconciled income, affordability | `RiskDecision` |
| `DecisionPolicy` | decides an application again as its evidence improves | `Evidence` |
| `OnboardingPipeline` | interleaved submissions through `execute` and its two routes, queue, explanations | `RiskDecision` |
| `DocumentReader` | the worker threads, cache, semaphore and fall-backs of document intelligence, under both routes | - |
| `IdentityGraph` | the two graphs as values: ingest, ring queries, adjacency | - |
| `SubmissionServices` | what a submission needs from outside: document store, NSDL, UIDAI and CIBIL behind the retrying client, the graphs; process restarts | `IdentityGraph` |
| `QrTrust` | pages read into the dictionaries, codes found, parsed, verified, compared, scored | checked against `Evidence` |
| `RunningTotal` | the sum of a sequence of numbers, term by term | - |
| `DocumentNumbers`, `FormCheck`, `Masking`, `Annotation` | pure functions: check digits, the form's comparison, masking, labelling | `RunningTotal` |
| `Algorithms` | the properties of those four over sets of inputs, and what is assumed of the inputs | the four |
| `MC*` | constants of the TLC instances | the module they are named after |
| `*Proofs` | theorems | the module they are named after; `ComplianceProofs`: `Compliance` and, as it is in the same source file, masking; `DocumentChecksProofs`: `QrTrust` and the rest of `Algorithms` |

Definitions named `X_Fault` stand before the definition `X` they vary. No specification
uses them: they are the plausible bugs by which each property was tried out.

### ReviewConsole

One handler is atomic up to its first await. The override handlers await only
`save_override`, so an override is two steps: `OverrideByApi`/`OverrideByUi` change
`cases` and `overrides` and put a request in `saving`; `CommitOverride` or `DropOverride`
(the exception is logged and swallowed) settles it, in any order among pending saves. What a
save carries is computed before the await (`SaveRequestOf`). `row` and `dbOverrides` are the
durable tables: `row[a]` is `applications.status`, `dbOverrides[a]` the verdicts in
`review_overrides`; they survive `Crash`, the rest does not. Start-up runs before requests are
served (`phase`): `Rehydrate` when the table can be read and has rows, else
`BeginSeeding`, `SeedScenario` per demo application (queue, then `save_decision`, which writes
status pending over what is there), `FinishSeeding`, which also stands for an exception in
the middle, logged by the lifespan hook. Three constants turn failures on:
`LoadMayFail`, `SaveMayFail`, `SeedMayAbort`.

Cases are kept per application, as sequences: an application id may repeat, and
`get_case_by_application` returns the oldest. Abstracted: priority, SLA times, notes,
the retraining feed, evidence and audit rows (written in the same transactions, read by
no code), filters and counts (reads). `StatusPage` is the one read that is modelled: the
customer's page takes the status from the application's oldest case and the verdict from its
last override.

### VideoKyc

`session[s]` is the `VCIPSession`; scores are `pass`, `fail` or `none` against their
thresholds, a location is in India or abroad. `Capture` is what all evidence handlers share:
404 for an unknown session, start it if it has not started, replace one part. The
routes run the processor in mock mode, where a score not supplied passes (`MockMode`). The
upload route looks the session up and then awaits the file, so it is `BeginUpload` and
`FinishUpload`. Expiry is the external step `PassExpiry`; only `Complete` looks at it.
`complete_session` and `cancel_session` have no status guard, and neither have the actions.

### Compliance

`records[a]` is the list `_consent_store` keeps. `record_consent` appends, `verify_consent`
looks for any active record of the purpose, `withdraw_consent` withdraws all of that
purpose. Key Fact Statements and cooling-off records are replaced, not amended, when
generated again; timestamps are abstracted to whether they are set, the three-day window to
`over`, which the clock may set at any time. `asked` is a history variable: when a cancellation of the
current period was asked for, in time or too late. No action reads it; `CancelledInTime` compares it with what the record keeps.

### RiskDecision, Evidence and DecisionPolicy

`Facts` are what the earlier stages established; `HardFails` lists the gates in the
order `decide` tries them, `ReviewTriggers` the soft conditions, `Decide` puts them
together. The ensemble score is a fact, although the code computes it only when no
trigger fired.

`Evidence` computes the facts with real models. `TamperFlags`, `FailedChecks` and
`Confidence` are `verify_identity`, `TrustLoss` the QR trust score, `FraudScore` the maximum
of the fraud signals' severities, `Weight` to `IncomeAnomaly` `process_income`, `Foir`
and the rest `process_affordability`. Inputs (`Raw`) are what a model, a service or a
document says, on either side of its threshold: a similarity is "wrong or not", a liveness
score one of three ranges, an income an amount, the instalment an amount. Confidence is kept
in 400ths, which represent every penalty exactly; where the float sum of the code falls on
one side of a threshold it should meet (0.30 comes out just below, over all combinations
of penalties; 0.70 does not), `Confidence` says so. Ratios of amounts are exact.

`DecisionPolicy` is a state machine whose step improves one piece of the evidence,
computes the facts and decides again, so that monotonicity is an action property. An
amount of income is no improvement: a second source that shows more may contradict the
first one. Facts decide does not look at, and flags that only describe (evidence texts),
are left out.

### OnboardingPipeline

`stage[p]` says where submission `p` is suspended: `reading` (documents to
affordability), `pulled` (bureau report fetched), `decided` (explanation stored, decision being
published), `queued`, then `answered` or `failed`. Two submissions may use the same
application id through `/onboard`; the form draws a fresh one. `Fail` is a stage that raises:
the route answers 500, and what was queued stays. `AnswerForm` is the code after `execute` in
`submit_application`, which has no await: overwrite the decision in real-model mode, queue a
case if the application has none, answer. The stages' results are the constant set
`Profiles`, here as facts.

### DocumentReader

`thread[<<s, i>>]` is the place in `process()` of the worker thread that reads page `i` of
submission `s`: it takes one of `Workers`, looks for the cache (and makes it, if it found none:
`create` is a step of its own, which is the race), looks its image up, then classifies and extracts.
Both calls to Ollama wait for one of `Slots` and try up to `Attempts` times, keeping the slot while
they sleep. The models answer as a function of image and class, as temperature 0 makes them; what
varies is whether a call is answered, refused, times out or breaks off, which is why the same page
may be read differently twice. `setup` says which backend the extractor chose when it was made.
A form submission with real models runs the threads twice, with the comparison of
`_extract_fields_by_class` between; a page whose thread raises counts as empty in the first pass
and fails the submission in the second, whose other threads go on reading.

### IdentityGraph and SubmissionServices

`edges` is Neo4j's graph, one edge per application and attribute value; `PanFarming`, `DeviceRings`
and `AddressRings` are the three Cypher queries. `nodes` are GraphSAGE's, a list per pipeline object, and
`Neighbours` its rule of adjacency. `SubmissionServices` runs a submission through `stage`: storing the pages
in the backend this process chose at its start, one request after another (`Send`, then `Answered`,
`Unanswered`, `TryAgain`, `GiveUp`; the service may have acted on a request nobody was answered), then
`Predict`, `AskGraph` or `NoGraph`, and `Score`. Ingesting is a transaction per attribute and may stop
after any of them. Only Neo4j is asked under a `try`: `ScoreFails` is the model of the real pipeline that cannot be
loaded or raises, after the application has come into the graphs. `Crash` and `Start` lose what is in memory and choose the backends again.

### QrTrust

Pages are read one by one into `fields`, `codes` and `image`, which hold per document class the
page each dictionary's entry is of. A code is its kind and the person it speaks of. `TryPyzbar`
and `TryOpencv` are the detectors, `PublicKey` what became of the key file, `AadhaarData` and
`PanData` the parsers' fields, `Verify` the processor's `verify` with its trust score in hundredths.
`EvidenceIsFaithful` instantiates `Evidence` and compares: the few fields on QR codes the decision model
takes as input say what the detailed model computes, wherever signatures can be checked (`Checkable`; section 4 says what
happens to a signed code without the key).

### Algorithms

Pure functions, translated as operators and checked on every input of a set; a behaviour of
`InputSpec` takes one input and ends. Numbers are digits, texts are sequences of symbols (a digit of
number `i`, a PAN, the parts of an address), so that `Masked` follows the regular expressions without spelling
letters, and a country code is digits -1 and 0 of its number. Documents are values of several words and words are letters, so that
`FuzzyMatch` is the code's edit distance and two different values can be as alike as in the code. Loops over data are
recursive functions that take one element at a time (`VerhoeffCheck`, `Total`, `Masked`, `Tokens`,
`AnnotateDocument`), which is also the form the proofs unfold. `InputAssumption` says what an input is: digits
and characters of the right range, schema fields with words, pages of words; that what is read of one's own
numbers is what one typed; that the PAN typed is not in somebody else's documents; and that texts are
`Written` in full: no number is broken off, each has the spaces its form has or none, a telephone number begins with a
high digit, and the letters of an address go on to its "@". What the code makes of fragments is not a
question of masking. The patterns (`compliance/processor.py:32-35`) have no word boundary, so letters or digits stuck to a
number become part of a match: `Written` leaves out letters next to a number, `PiiIsMasked` two numbers with nothing or only a
space between them, and of both nothing is claimed.
`NoneInside` (no place of a value lies inside another's) and `InFull` are conditions on a document and a page in two of the
three parts of `AnnotationIsSound`, so that a page may hold any other words in any order; `LabelsAreTrue` has no condition.

## 3. Runs

All runs use two TLC workers. Deadlock is checked unless stated.

| Run | Instance | States | Shows |
|---|---|---|---|
| `review_console` | one application, 2 cases, 3 overrides per process life, 1 crash, all three failures on | 521,461 | `RowJustified`, `CaseJustified`: a status completed/escalated in a row or on a case is backed by a verdict, whatever was lost; `StatusFollowsLatestOverride` over both endpoints and duplicated application ids; `LedgerSpec`: refinement of `ReviewLedger` |
| `review_restart` | two demo applications, 2 crashes, seeding may abort, database readable at start-up | 96,961 | `RegisteredIsQueued`, `ReviewSurvives`; under `FairSpec` `VerdictReachesStore` |
| `video_kyc` | two applications (symmetric), one session, 2 questions, 1 suspended upload | 424,998 | `CompletedHasEvidence`, `FlagsExplainVerdict` |
| `compliance` | one application, two purposes, 4 consent records, 1 erasure | 16,044 | `LedgerSpec` (refinement of `ConsentLedger`), `StampsAreCurrent`, `CancelledInTime` |
| `decision_policy` | 8,125 pieces of evidence: one and two blemishes of an identity, incomes from up to four sources, credit data, on both sides of every threshold; and their improvements | 24,312 | `VideoGateHolds`, `OutcomeIsExplained`, `SignalsAddUp`, `IncomeBacksApproval`, `ImprovementNeverHurts` |
| `pipeline_real` | two submissions, one id for callers, four profiles, real models, stages may raise | 45,496 | `HeldIsQueued`, `CaseIsExplained`, `OneCaseEach` |
| `document_reader` | a form of two pages and a submission that brings one of them again, 2 workers, 1 slot, `FairSpec` | 93,042 | `SlotsConserved`, `EverySubmissionAnswered`, `FormSawWhatIsDecided`, `DecidedOnEveryPage`, `OnlyFirstReadsLose` |
| `submission_services` | two submissions with fresh ids, of one person or of two on one phone and device; four pages and two, one of them with a name; 2 process starts, 2 attempts, `FairSpec` | 171,330 | `VerdictIsTraceable`, `NoVerdictOnSilence`, `LaterSeesTheRing`, `EverySubmissionEnds` |
| `qr_trust` | up to 3 pages of 15 cards of two people, four installations | 196,348 | `ValidMeansSigned`, `GenuineCodeIsBest`, `EvidenceIsFaithful` |
| `algorithms` | 72 Aadhaar numbers and 4 MRZ lines with every change of one place; 23,000 forms; every two and three of 11 numbers and addresses; thirteen documents, their lines in eight orders, one line unread or misread by up to three letters (1,744 pages with other texts, 704 of them in full, 184 of these with values within two edits of each other); lines of words | 30,547 | `WrongNumbersAreTold` (both kinds of number), `FormTellsWhoseDocuments`, `PiiIsMasked`, `AnnotationIsSound`, `BoxesStayInLine` |
| `status_page` | two demo applications, one crash, nothing fails | violation | `StatusPageMergesReview` |
| `policy_inactive_pan` | the evidence of `decision_policy` | violation | `InactivePanIsRejected` |

The type invariant of each state machine and some smaller properties (`SavesMatchOverrides`,
`InProgressHasReviewer`, `InitiatedIsBlank`, `WithdrawnAtOnce`, `ApprovalIsEarned`,
`RepeatIsNoNeighbour`) are not checked by a run: section 5 proves them for all constants.

Why the bounds are enough. *Review*: the hazards need two saves of one application
pending together and a third verdict after them (3 overrides), a second case under the same id
(2 cases) and one restart between (1 crash); applications interact nowhere but in the order of
seeding, which is what the two applications and two crashes of `review_restart` are for.
*Video KYC*: sessions are independent but for the consent of their application, so one session
and two applications show a session opened under one consent while another changes; every
evidence handler can run before, during and after an upload. *Compliance*: duplicated records
of a purpose among records of another need at least three; applications share nothing.
*Pipeline*: two submissions are what can share an id, a case list and an explanation; the four
profiles are one per path through `decide` and the form's rule; the pipeline without real models
(`RealModels` false) only lacks the form's rule, and the theorems hold for both. *Decision*: one
value on each side of every comparison, every single blemish and every pair of them, since the
penalties of two add up; evidence is data, so no interleaving is cut off. *Reader*: two threads
make the race for the cache, two workers and one slot make them wait for each other, and a third page
is what waits behind them. *Services*: rings and traces relate two submissions; one restart is what
separates objects and graphs from memory; two attempts are what the code's clients are given. *QR*: three
pages are two of a class and one of another. *Algorithms*: two texts masked one after the other interact,
a third shows what is left of the second; a label can only be overwritten by one other value.

`CHECK_DEADLOCK FALSE` is set in `DecisionPolicy.cfg` and `PolicyInactivePan.cfg` (nothing left to improve),
in `PipelineReal.cfg`, `DocumentReader.cfg` and `SubmissionServices.cfg` (every submission has been answered),
in `QrTrust.cfg` (`verify` has returned) and in `Algorithms.cfg` (the input was taken): there the system really stops.

### Fairness

`ReviewConsole!FairSpec` has weak fairness of settling each pending save: every suspended handler is
resumed with its save done or raised. Requests, start-up and crashes have none. `OnboardingPipeline` is
checked without fairness. `DocumentReader!Fairness` is weak fairness of every thread's and every handler's next step: calls to
Ollama have a time limit, so each ends, and a thread that waits for the slot gets it. `SubmissionServices` has weak fairness of a
submission's next step while the process is up and of its start, not of services, which may stay silent, nor
of crashes. `SaveMayFail` is off in `review_restart` because `VerdictReachesStore` is a claim about
saves that do not raise: one that raises is dropped for good.

## 4. What the runs found

Where code and documentation disagree a run shows it:

1. **An inactive PAN is approved** (`policy_inactive_pan`). `verify_identity` takes NSDL's
   name match for the verification and looks at the status only when the name does not match;
   the build plan (`LOIP_BUILD_PLAN_v3_PersonalLoans_India.md:412` and `:850`) wants every
   inactive PAN flagged and rejected.

2. **The customer's page forgets who decided** (`status_page`). After a restart an overridden application
   is shown with the status of the review, read back from Postgres, and with a verdict of the system, because
   `_rehydrate_from_db` does not read the override table. `docs/RUNBOOK.md:25` says overrides survive restarts.

Met while modelling and not given a run of their own.

Review, start-up and V-CIP:

- when `load_decisions` raises, start-up seeds in memory but still calls `save_decision` with status pending; if the
  database answers by then, reviewed demo rows are overwritten (`ReviewSurvives` is checked and proved without that);
- the API refuses to override a completed case with 409, the form route has no check, and `assign_case` reopens
  a completed case;
- expiry of a V-CIP session counts only until the first verdict: fail once, wait, complete the evidence, complete again.

Pipeline and decision:

- `execute` passes `consent_verified=True` to UIDAI and to the bureau whatever the consent store says;
- `SPOOF_DETECTED` has no gate or trigger of its own, and a borderline liveness has fraud severity
  0.55, "review-level" (`README.md:550`), which no trigger of `decide` looks at: alone it is
  approved. No route passes a selfie to the pipeline, so this cannot be reached today;
- `execute` never passes document metadata on, so `metadata_anomaly` is never raised there;
- a salaried applicant with a bank statement without a salary credit is rejected
  (`bank_credit_not_found`), one without any statement is not; without a verified income
  the FOIR is 0, the best there is, and only the minimum income stands in the way;
- the fraud stage looks for a passport's `mrz_line2` (`fraud/processor.py:61`), which the extraction schema calls
  `mrz_line` (`document_intel/schemas.py:98`): the MRZ check never runs;
- a submission with a bank statement whose salary credits were read answers 500: the extractors give one
  string (`qwen2_5_vl_wrapper.py:171`), the form's comparison asks its characters for their amounts (`demo.py:332`);
- `_to_float("-5")` is -5 although its comment promises 0, and hides the gross pay behind it.

Services and graphs:

- a model of GraphSAGE that cannot be loaded, or raises, fails the submission (`graphsage_wrapper.py:45`, `:121`, outside
  the `try` of `fraud/processor.py:78`): its attributes stay in both graphs, and what Neo4j reported on it is lost;
- the clients' repeated request follows at once, without back-off; Neo4j merges applications that use one id;
- Neo4j reports an applicant who comes back under another id as a ring (`fraud/processor.py:83`), which
  GraphSAGE is careful not to (`graphsage_wrapper.py:52`); `graph.py:6` names an `employer_shell` ring no query looks for,
  and the comment at `graph.py:88` counts devices into `pan_farming` where the query has phones and e-mails only;
- `/health` and readiness report MinIO even when the local fall-back is in use.

QR codes:

- without the UIDAI key a signature counts as `QR_SIGNATURE_INVALID` (-0.35) and not as the `QR_SIGNATURE_MISSING`
  (-0.10) of `README.md:520` and `:535`, so that the genuine code costs more than an unsigned one; `EvidenceIsFaithful` and
  `GenuineCodeIsBest` are claimed where signatures can be checked; a secure code that does not decompress costs only the 0.10;
- only the first Aadhaar or PAN image is examined for retouching, where `README.md:477` says every card; of several
  pages of a class the last one counts, and a passport's fields override both cards';
- a name or date OCR did not read counts as a mismatch with the code.

Numbers, masking, annotation:

- a filler as the check digit of an empty personal number is refused, which ICAO 9303 allows; the generators' Aadhaar
  numbers are not Verhoeff-valid, and the balances of generated statements are out of order because transactions are sorted
  by their `dd/mm/yyyy` text;
- a telephone number and an Aadhaar number with only a space between them leave eight Aadhaar digits readable, and an
  address that another one ends leaks what comes before; `PiiIsMasked` excludes both;
- a label may overwrite another value's when a value lies inside another: the labels left are still those of values matched
  (`LabelsAreTrue`), but the other one is reported as matched without a beginning of its own (`LabelsAreWhole` excludes that);
  of two values within two edits of each other (Rao and Ram, two days of a month) the first in the schema gets the first place,
  so one may carry the other's label; the
  gate never sees documents without annotations; the schemas of tax returns name fields the generators do not write;
  an Aadhaar number without spaces never matches the card's; rounding may move a box past 1000.

Others:

- a completed V-CIP session takes new evidence without a new verdict, and a withdrawn
  consent does not stop a session that is open (`docs/COMPLIANCE.md:15`: "blocks further processing");
- a Key Fact Statement can be accepted without having been disclosed, starting the
  cooling-off period again reopens a closed window, and a repeated cancellation after the
  window turns the status of a loan cancelled in time to expired: only its stamp still tells (`CancelledInTime`);
- an erasure is logged as completed and touches no store (`docs/COMPLIANCE.md:13`:
  "PII fields listed and zeroed");
- below an ensemble score of 40, clearing the last review trigger turns a review into
  a rejection, because the score is not looked at while there is something to review;
  `ImprovementNeverHurts` excludes that range explicitly;
- a cancelled V-CIP session can be completed, and the status `expired` of sessions and of
  consents is declared but never assigned;
- cases of `/onboard` and of the form are never saved; compliance and V-CIP state is lost
  on restart;
- with real models, the case of a form submission keeps the pipeline's decision after the form
  has overruled it, so the reviewer may see another decision than the applicant was told;
- `RUNBOOK.md` speaks of 7 demo cases, the code seeds 20.

## 5. Proofs

Each `*Proofs` module proves, for every value of the constants that satisfies the named
assumption of the component, the properties the runs check on small instances. Bounds
(`MaxCases`, `MaxRecords`, ...) are arbitrary naturals.

| Theorem | Assumption | Argument |
|---|---|---|
| `ReviewConsoleProofs!TypeCorrect` | `ConsoleAssumption` | `TypeOK` is inductive |
| `StatusJustified`, `SavesMatch` | " | `Justified == TypeOK /\ RowJustified /\ CaseJustified /\ SavesMatchOverrides` is inductive: a commit writes the verdict of a pending save, and a case rehydrated from a row is justified by that row, so neither of the first two is inductive without the other and both need the third |
| `ImplementsLedger` | " | step simulation under `row`, `dbOverrides`; commits map to `Record`, seeding to `Register`, the rest to stutters; uses `SavesMatchOverrides` |
| `ReviewIsKept` | and `~LoadMayFail` | `StartupSafe`: while seeding, every scenario still to come has no row; so seeding never overwrites one |
| `InProgressIsOwned` | " | no row is ever in progress, hence none is rehydrated so |
| `LatestVerdictCounts` | " | `LatestInv`: before start-up there are no overrides; afterwards each override action appends the override and sets the case's status from it in one step; no other step touches the status of a case that was overridden except `assign`, to in progress, which the property leaves out |
| `NothingRegisteredIsLost` | and `~LoadMayFail` | `Queued`: as soon as start-up has left `down`, every registered application has a case; rehydration queues all rows, seeding registers what it queues, and a save registers nothing new |
| `VideoKycProofs!TypeCorrect`, `PassIsBacked`, `FlagsAreCurrent`, `NothingBeforeStart` | `KycAssumption` | `IInv`: type and `SessionOK` of each session. A completed session had no gate flag at its verdict; evidence afterwards is replaced, never removed, which is the strengthening |
| `ComplianceProofs!TypeCorrect`, `StampsOfCurrent`, `CancelsInTime`, `WithdrawalsAreComplete` | `ComplianceAssumption` | stamps by an invariant of their own; `CancelsInTime` is inductive together with `OnTime`: a cancellation asked for too late found the window over, and it stays over until the period starts again; withdrawals from type correctness |
| `ComplianceProofs!ImplementsLedger` | " | step simulation for lists of any length: recording appends an active record, withdrawing maps the list, and both leave other purposes alone |
| `DecisionPolicyProofs!VideoGateAlways`, `AlwaysExplained` | `PolicyAssumption` | `facts = FactsOf(evidence)` and `outcome = Decide(facts)` are invariant; both properties follow from the latter for all facts, by the branches of `Decide` |
| `SignalsAlwaysAddUp` | " | counts the signals: penalties of 80 and 120 for two of them leave less than the 280 an approval needs, one leaves at least the 120 below which confidence rejects; by cardinalities of finite sets |
| `ApprovalsAreBacked` | " | a weighted average is at most its largest source, and an approval passed the minimum, the FOIR and the disposable income with the average; for all amounts and segments |
| `ImprovingNeverHurts` | " | `NoWorse` relates two pieces of evidence field by field; under it, and if no gate failed before, signals, lost trust, severities, FOIR and shortfalls can only shrink and confidence grow, so no gate and no trigger is new |
| `DecisionPolicyProofs!TypeCorrect` | " | `facts = FactsOf(evidence)`; the FOIR is a rounded-up quotient kept below 100, the confidence 400 less what is charged, the fraud score one of four severities |
| `OnboardingPipelineProofs!TypeCorrect`, `HeldHaveCases`, `CasesExplained`, `ApprovalsAreEarned`, `QueuedOnce` | `PipelineAssumption` | `IInv`: explanations belong to decided submissions of the same id (`Explanations`), a case comes from a decided submission whose id is explained (`Cases`), a held one has its case from `queued` on (`Held`), an approval is `Decide`'s (`Earned`) |
| `DocumentReaderProofs!TypeCorrect`, `NoSlotIsLost` | `ReaderAssumption` | `TypeOK /\ SlotsConserved` is inductive; each step moves one thread, so the holders change by it alone |
| `EntriesStay` | " | an action property: only a thread that found no cache replaces one |
| `FormAndDecisionAgree` | " | `Undisturbed`: for a page nobody else reads, in a process whose cache exists, what the form saw is the cache's entry, so the second pass finds it |
| `DecisionsReadEveryPage` | " | `EveryPageInv`: a thread's class is its page's or the guess for it, so is a cache entry's, and a submission is decided only when all its threads have ended with a result |
| `SubmissionServicesProofs!TypeCorrect`, `SilenceFails`, `RepeatsAreDropped` | `ServicesAssumption` | by the types and one strengthening each: who left a service behind was answered by it |
| `RingsAreTold` | " | whoever was told has its device in the graph, edges are never removed, so of two the later sees the earlier |
| `VerdictsAreTraceable` | " | citations and fields are written for the same page; objects stay in their backend, and the store's backend is fixed between starts |
| `DocumentChecksProofs!TypeCorrect`, `OnlySignedCodesAreValid` | `QrAssumption` | `IInv`: the installation never changes, the three dictionaries point at the same page of a class, a code kept for a page was found on it, the result is `Verify`'s of them |
| `NothingBeatsTheGenuineCode` | " | term by term: each of the seven charges of the genuine code is at most that of any other code |
| `DecisionIsToldTheTruth` | " | where signatures can be checked, flag by flag and charge by charge: what `Evidence` makes of the four facts on codes is what `verify` found, for any pages; its charge is at most 100, so that the cut at 0 is the same on both sides |
| `NumberErrorsAreCaught` | `InputAssumption` | see below: Verhoeff's tables are a group and the powers of one permutation; ICAO's weights have inverses modulo 10 |
| `FormsAreToldApart` | " | for any incomes and credits: the code's tolerance, a difference over the larger amount, is the symmetric condition that each is within ten percent of the other |
| `ComplianceProofs!TextsAreMasked` | " | pattern by pattern: what the text still is after each (`Legible`, `Endless`) and what it has no more (`AadhaarHidden`, `PhonesHidden`), from one argument for all four (`AllMasked`); see below |
| `BoxesAreInTheirLine` | " | rounding moves a word's edge by at most half a unit; the sum of the shares is the whole width, so the sum of the rounded ones is off by at most half a unit a word |
| `AnnotationsAreSound` | " | `Reached`: after each entry of the lookup every label is that of a matched value at a place where it is read, and an unmatched one has no free place; without places inside one another no label is overwritten; see below |

The last five are about functions of data of any size. The library states induction with an operator as
parameter, which the provers cannot instantiate, so both modules state it of a set: from the
well-foundedness of the order on finite sets follows that a set of naturals has a least element (`Least`), from that
`Induction`, from that that a function defined one element at a time exists (`Recursion`); a
recursive definition is then unfolded at any argument.

*Aadhaar numbers.* `DTable` shows the 100 entries of `_VERHOEFF_D` to be the dihedral group on five points and `PTable`
each row of `_VERHOEFF_P` to be one permutation after the row before. Then a step of the loop is a product in
the group: a wrong digit changes one factor, and two digits in the wrong order change the product of two
neighbours because the permutation has `SigmaInjective`. The difference survives the rest of the loop, a product
determining each of its factors. The last digit is unique because every row is a permutation.

*Passport lines.* The sum a digit is taken of changes by weight times difference; 7, 3 and 1 have inverses modulo 10, so
the sum keeps its last digit only if the characters' values differ by tens. `PlaceTable` says of each of the 44 places which of
the four fields and of the composite digit it belongs to.

*Annotations.* `OneMore` is one step of the loop: the entry's first free place gets its labels, and what they overwrite are labels, so
every label stays that of a value matched (`Reached`, carried through the lookup by `AllReached`). This holds of any document; a beginning may
be lost, none is gained. Where no place lies inside another (`NoneInside`) a step overwrites nothing (`KeepsLabels`): each label
B is then the first word of exactly one entry matched, which counts them by a bijection (`BeginningsCount`, `FoundCount`), and an I follows
the label before it. On a page that is `InFull` values that share a place share all of them and have as many places as there are such values;
fewer of those were labelled before one's turn, so a place is left (`EachHasAPlace`), and every tag the gate looks for is given.

*Masking.* `mask_pii_in_text` finds the matches of a pattern in one text and replaces them, one after the other, by
`str.replace` in what is left of it, so a replacement may take away, or make, what a later one looks for. `ReplaceIs` says
of each symbol of the new text which symbol it was or which of the mask it is (`Origin`), `FindAllIs` where the matches
found are and that no match begins between them (`FoundFrom`); one that begins inside ends with it. Then, after k replacements, each match still in the
text ends where an occurrence of one of the found texts after the k-th does (`Open`): `OpenStep` needs only that no
match of the new text begins in a mask or reaches into one (`Clean`) and that each was a match of the old text (`Moves`). At the end there is no later one, so
`AllMasked` leaves no match of the pattern, however often its texts occur.

The four patterns differ in what makes this true. For numbers `Legible` has six parts (digits in range and in runs, each followed and preceded
by its neighbour or a mask, marks before what they belong to), none inductive alone: a masked number must not make a neighbour look unfinished. `NumberAt` is what the Aadhaar
and the telephone pattern have in common, a beginning that only a number has and its last four digits. An Aadhaar number
that is left would be a match, so after the second pattern there is none (`AadhaarHidden`); the third finds no telephone number in its
remains, and leaves none (`PhonesHidden`). PANs are replaced symbol by symbol (`SameButPans`). For addresses the condition of the property, that
none ends one that comes after it, is `Endless`: it survives the three patterns before, and without it a shorter address masked first
leaves the letters before it.

Only model-checked: the liveness properties (`VerdictReachesStore`, `EverySubmissionEnds`, `EverySubmissionAnswered`), since liveness under fairness is out of the prover's reach. Every safety property a
passing run checks is a theorem. No theorem rests on recursive operators, and no run replaces a definition a proof uses.

What proving changed in the models. `FormCheck!NumberMessages` was a CASE with overlapping conditions, of which TLA+
leaves open which one counts: it is now the code's `if`, `elif`, `else`. The
input of the annotation run carried a flag that said the page is perfect; `InFull` now says what that means, and
with it `FullPagePasses` covers more pages than the flag did. Filters and folds that the
provers see nothing of (`SelectSeq`, `FlattenSeq`, `FoldLeft`) became quantifiers over places, index arithmetic and
recursive functions, with the same values. The numbers in the texts of the instance had two country-code digits that were
alike, so that one of them was followed by itself; they are digits -1 and 0 now, and what a text must be for the
patterns to see its numbers, true of the instance all along, became the assumption `Written`.

## 6. Not modelled, and the plan

Out of reach: what models compute (OCR, embeddings, SHAP values), cryptographic signatures, wording of
explanations, HTML pages, Kafka (nobody consumes). Left out because nothing about them is hard to test:
authentication (a fixed table looked up per request), eligibility (one formula), schema migrations, the
generators of synthetic documents, dataset downloads, training and benchmark scripts (sequential, offline,
run by hand). The model registry is not modelled because no route registers a model or reports drift:
its stores stay empty in the program as it is.

Order of work, most important behaviour first:

1. `ReviewLedger`, `ReviewConsole` - done
2. `VideoKyc`, `ConsentLedger` - done
3. `RiskDecision`, `Evidence`, `DecisionPolicy` - done
4. `OnboardingPipeline` - done
5. `Compliance` - done
6. proofs of the safety properties of 1 to 5 - done, `ImprovementNeverHurts` included
7. identity graph: ingest and rings over the shared graph, partial failure between the two - done, in
   `IdentityGraph` and `SubmissionServices`
8. `DocumentReader`: worker threads, the lazily created cache, the semaphore with its retries - done
9. the retry loop of `integrations/base.py` - done, in `SubmissionServices`
10. storage of evidence across restarts - done, in `SubmissionServices`
11. QR codes: `QrTrust`, tied to `Evidence` - done
12. operators with reference definitions: check digits, the form's comparison, masking, annotation - done
13. the customer's status page over queue and restart - done, as a run of `ReviewConsole`
14. the safety properties of 7, 8, 9, 10 and 11 proved - done
15. the functions of 12 proved for all inputs: check digits, the form's comparison, annotation, masking - done
16. open: the model registry, should a route come to use it; reloading cases of `/onboard` after a restart,
    should the program come to save them
