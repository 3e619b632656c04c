--------------------------- MODULE DocumentReader ---------------------------
(***************************************************************************)
(* Document intelligence as the routes use it: DocumentIntelligence-       *)
(* Processor.process is run for every page of a submission in a worker     *)
(* thread, all pages at once, and a submission of the customer form does   *)
(* so twice: a form pass whose fields are compared with what was typed,    *)
(* and the pipeline's pass that decides.  The threads share the result     *)
(* cache, which the first of them creates, and a semaphore in front of     *)
(* the vision model (Ollama), whose calls are retried.                     *)
(*                                                                         *)
(* The models answer as a function of the page and the class asked for     *)
(* (temperature 0); what varies is whether a call of theirs succeeds.      *)
(***************************************************************************)
EXTENDS Naturals, FiniteSets

CONSTANTS
  Images,       \* page images, told apart by their hash
  Submissions,
  ByForm,       \* those of the customer form; the others come to /onboard
  Pages,        \* Pages[s]: the places of s's pages
  Page,         \* Page[s][i]: the image at place i of submission s
  Class,        \* document classes
  Kind,         \* Kind[i]: the class the vision model names, or Unknown
  Guess,        \* Guess[i]: the class LayoutLMv3 names
  Sure,         \* images LayoutLMv3 is confident about
  OcrMocked,    \* is PaddleOCR unavailable, and mocked?
  OcrConf,      \* OcrConf[i]: PaddleOCR's mean confidence, in hundredths
  Digits,       \* images whose text holds twelve digits
  Fields,       \* field names of a class
  Shows,        \* Shows[i]: fields the vision model finds, asked for Kind[i]
  DonutShows,   \* DonutShows[i]: fields Donut finds, asked for Kind[i]
  Canned,       \* Canned[c]: fields of the canned answer for class c
  Workers,      \* threads of asyncio.to_thread
  Slots,        \* LOIP_OLLAMA_MAX_CONCURRENCY
  Unknown, Nothing

Tasks == UNION {{<<s, i>> : i \in Pages[s]} : s \in Submissions}
Img(t) == Page[t[1]][t[2]]
TasksOf(s) == {t \in Tasks : t[1] = s}

ASSUME ReaderAssumption ==
  /\ IsFiniteSet(Tasks) /\ ByForm \subseteq Submissions
  /\ \A t \in Tasks : Img(t) \in Images
  /\ Kind \in [Images -> Class \cup {Unknown}] /\ Unknown \notin Class
  /\ Guess \in [Images -> Class] /\ Sure \subseteq Images
  /\ OcrMocked \in BOOLEAN /\ OcrConf \in [Images -> 0..100]
  /\ Digits \subseteq Images
  /\ {"aadhaar_number", "salary_credits"} \subseteq Fields
  /\ Shows \in [Images -> SUBSET Fields] /\ DonutShows \in [Images -> SUBSET Fields]
  /\ Canned \in [Class -> SUBSET Fields]
  /\ \A c \in Class, b \in BOOLEAN, f \in SUBSET Fields :
       Nothing # [class |-> c, marked |-> b, fields |-> f]
  /\ Workers \in Nat \ {0} /\ Slots \in Nat \ {0}

Attempts == 3   \* of a call to the vision model

VARIABLES
  setup,      \* the processor: its mode and the backend of its extractor
  warm,       \* did an earlier submission create the cache?
  stage,      \* stage[s]: how far submission s has come
  pages,      \* pages[s]: the pages of s that could be decoded
  thread,     \* thread[t]: where the thread of page t is
  attempt,    \* attempt[t]: attempts begun in its current call, 1 outside one
  draft,      \* draft[t]: what it has read so far
  hasCache,   \* is there a _cache?
  cache,      \* _cache: the finished reads, Nothing where there is none
  free,       \* the semaphore's counter
  form,       \* form[t]: what the form pass read, Nothing if it raised
  result      \* result[t]: what process() returned last for page t

vars == <<setup, warm, stage, pages, thread, attempt, draft, hasCache, cache,
          free, form, result>>

Backends == {"ollama", "hf", "mock"}
Stage  == {"idle", "refused", "form", "pipeline", "decided", "failed"}
Thread == {"none", "queued", "create", "lookup", "wantClass", "class", "fields",
           "wantFields", "extract", "donut", "done", "raised"}

\* The threads that are in process(), and those that hold a slot.
Running == Thread \ {"none", "queued", "done", "raised"}
Holding == {"class", "extract"}
Holders == {t \in Tasks : thread[t] \in Holding}

\* What process() returns, as far as anybody looks at it.
Read == [class : Class, marked : BOOLEAN, fields : SUBSET Fields]
Blank(i) == [class |-> Guess[i], marked |-> FALSE, fields |-> {}]

TypeOK ==
  /\ setup \in [real : BOOLEAN, backend : Backends]
  /\ warm \in BOOLEAN /\ hasCache \in BOOLEAN
  /\ stage \in [Submissions -> Stage]
  /\ pages \in [Submissions -> SUBSET Tasks]
  /\ \A s \in Submissions : pages[s] \subseteq TasksOf(s)
  /\ thread \in [Tasks -> Thread]
  /\ attempt \in [Tasks -> 1..Attempts]
  /\ draft \in [Tasks -> Read]
  /\ cache \in [Images -> Read \cup {Nothing}]
  /\ free \in 0..Slots
  /\ form \in [Tasks -> Read \cup {Nothing}]
  /\ result \in [Tasks -> Read \cup {Nothing}]

\* Qwen25VLWrapper.__init__: Ollama if preferred and reachable, else the
\* Hugging Face weights, else canned answers; the mock pipeline has the last.
Backend(real, prefer, reachable, transformers) ==
  CASE ~real -> "mock"
    [] real /\ prefer = "ollama" /\ reachable -> "ollama"
    [] real /\ ~(prefer = "ollama" /\ reachable) /\ transformers -> "hf"
    [] OTHER -> "mock"

Init ==
  /\ setup \in {[real |-> r, backend |-> Backend(r, p, o, h)] :
                  r \in BOOLEAN, p \in {"ollama", "hf"}, o \in BOOLEAN, h \in BOOLEAN}
  /\ warm \in BOOLEAN /\ hasCache = warm
  /\ stage = [s \in Submissions |-> "idle"]
  /\ pages = [s \in Submissions |-> {}]
  /\ thread = [t \in Tasks |-> "none"]
  /\ attempt = [t \in Tasks |-> 1]
  /\ draft = [t \in Tasks |-> Blank(Img(t))]
  /\ cache = [i \in Images |-> Nothing]
  /\ free = Slots
  /\ form = [t \in Tasks |-> Nothing]
  /\ result = [t \in Tasks |-> Nothing]

Goto(t, from, to) ==
  /\ thread[t] = from
  /\ thread' = [thread EXCEPT ![t] = to]

-----------------------------------------------------------------------------
(* What the steps of process() compute                                     *)

\* LayoutLMv3Wrapper.classify, then classify_document up to its fall-back.
IsMarked(i) == ~setup.real \/ OcrMocked \/ i \notin Sure
LocalClass(i) == [class |-> Guess[i], marked |-> IsMarked(i), fields |-> {}]

\* perform_ocr: PaddleOCR's confidence p against Surya's s.
Ocr(p, s) ==
  CASE p >= 90 -> "paddleocr"
    [] p < 90 /\ (p > s + 15 \/ s > p + 15) -> "conflict"
    [] p < 90 /\ ~(p > s + 15 \/ s > p + 15) /\ p > s -> "paddleocr"
    [] OTHER -> "surya"

\* Surya finds nothing, and a conflict shows the text of both.
HasDigits(i) ==
  /\ ~OcrMocked /\ i \in Digits
  /\ Ocr(OcrConf[i], 0) # "surya"

\* What a model finds on image i when asked for the fields of class c.
Answer(found, i, c) == IF c = Kind[i] THEN found[i] ELSE {}

\* extract_fields: the vision model's answer counts 0.70 or 0.90 if it found
\* anything, a canned one 0.96; Donut is only asked if it found nothing.
Confidence(found) ==
  CASE setup.backend = "mock" -> 96
    [] setup.backend # "mock" /\ found # {} -> 70
    [] OTHER -> 0
ChosenFields(qwen, donut) ==
  IF Confidence(qwen) >= 70 THEN qwen ELSE donut

\* _patch_aadhaar_from_ocr
Patched(r, i) ==
  IF r.class = "aadhaar" /\ HasDigits(i)
    THEN [r EXCEPT !.fields = @ \cup {"aadhaar_number"}] ELSE r

-----------------------------------------------------------------------------
(* process(), in one worker thread                                         *)

\* A free worker takes the page and looks for the cache.
Begin(t) ==
  /\ Cardinality({u \in Tasks : thread[u] \in Running}) < Workers
  /\ Goto(t, "queued", IF hasCache THEN "lookup" ELSE "create")
  /\ UNCHANGED <<setup, warm, stage, pages, attempt, draft, hasCache, cache, free, form, result>>

\* The entries of a cache another thread has made meanwhile are lost.
CreateCache(t) ==
  /\ Goto(t, "create", "lookup")
  /\ hasCache' = TRUE
  /\ cache' = [i \in Images |-> Nothing]
  /\ UNCHANGED <<setup, warm, stage, pages, attempt, draft, free, form, result>>

Hit(t) ==
  /\ cache[Img(t)] # Nothing
  /\ Goto(t, "lookup", "done")
  /\ result' = [result EXCEPT ![t] = cache[Img(t)]]
  /\ UNCHANGED <<setup, warm, stage, pages, attempt, draft, hasCache, cache, free, form>>

\* Not in the cache: classify_document, up to the vision model's part in it.
Miss(t) ==
  /\ cache[Img(t)] = Nothing
  /\ Goto(t, "lookup", IF setup.real /\ IsMarked(Img(t)) THEN "wantClass" ELSE "fields")
  /\ draft' = [draft EXCEPT ![t] = LocalClass(Img(t))]
  /\ UNCHANGED <<setup, warm, stage, pages, attempt, hasCache, cache, free, form, result>>

\* Either call to Ollama: "with _OLLAMA_SEMAPHORE", then up to three attempts.
Acquire(t) ==
  /\ free > 0
  /\ \/ Goto(t, "wantClass", "class")
     \/ Goto(t, "wantFields", "extract")
  /\ free' = free - 1
  /\ UNCHANGED <<setup, warm, stage, pages, attempt, draft, hasCache, cache, form, result>>

\* Fault: the slot is only given back by a call that is answered.
Release_OnAnswer(t, answered) ==
  /\ free' = IF answered THEN free + 1 ELSE free
  /\ attempt' = [attempt EXCEPT ![t] = 1]

\* Leaving the with-block, by its end, a return or an exception.
Release(t, answered) ==
  /\ free' = free + 1
  /\ attempt' = [attempt EXCEPT ![t] = 1]

\* Fault: attempts are not counted.
Busy_Forever(t) ==
  /\ thread[t] \in Holding
  /\ attempt' = [attempt EXCEPT ![t] = 3 - @]
  /\ UNCHANGED <<setup, warm, stage, pages, thread, draft, hasCache, cache, free, form, result>>

\* A 5xx before the last attempt: sleep and try again, keeping the slot.
Busy(t) ==
  /\ thread[t] \in Holding /\ attempt[t] < Attempts
  /\ attempt' = [attempt EXCEPT ![t] = @ + 1]
  /\ UNCHANGED <<setup, warm, stage, pages, thread, draft, hasCache, cache, free, form, result>>

\* _classify_via_ollama: an answer naming a class replaces the local one, an
\* answer naming none, a timeout or an error leaves it.
ClassAnswered(t) ==
  /\ Goto(t, "class", "fields")
  /\ Release(t, TRUE)
  /\ draft' = [draft EXCEPT ![t] =
       IF Kind[Img(t)] = Unknown THEN @ ELSE [@ EXCEPT !.class = Kind[Img(t)], !.marked = FALSE]]
  /\ UNCHANGED <<setup, warm, stage, pages, hasCache, cache, form, result>>

ClassFailed(t) ==
  /\ Goto(t, "class", "fields")
  /\ Release(t, FALSE)
  /\ UNCHANGED <<setup, warm, stage, pages, draft, hasCache, cache, form, result>>

\* perform_ocr and the choice of Qwen25VLWrapper.extract_fields.  The canned
\* answer and the local weights need no slot.
ReadText(t) ==
  /\ Goto(t, "fields", IF setup.backend = "ollama" THEN "wantFields" ELSE "donut")
  /\ draft' = [draft EXCEPT ![t].fields =
       CASE setup.backend = "ollama" -> {}
         [] setup.backend = "hf" -> Answer(Shows, Img(t), draft[t].class)
         [] setup.backend = "mock" -> Canned[draft[t].class]]
  /\ UNCHANGED <<setup, warm, stage, pages, attempt, hasCache, cache, free, form, result>>

FieldsAnswered(t) ==
  /\ Goto(t, "extract", "donut")
  /\ Release(t, TRUE)
  /\ draft' = [draft EXCEPT ![t].fields = Answer(Shows, Img(t), draft[t].class)]
  /\ UNCHANGED <<setup, warm, stage, pages, hasCache, cache, form, result>>

FieldsFailed(t) ==
  /\ Goto(t, "extract", "donut")
  /\ Release(t, FALSE)
  /\ UNCHANGED <<setup, warm, stage, pages, draft, hasCache, cache, form, result>>

\* An answer that breaks off, an unexpected body, a local model that raises:
\* nothing catches it in process().
Raise(t) ==
  /\ thread[t] \in Holding \cup {"fields", "donut"}
  /\ thread' = [thread EXCEPT ![t] = "raised"]
  /\ draft' = [draft EXCEPT ![t] = Blank(Img(t))]
  /\ IF thread[t] \in Holding THEN Release(t, FALSE) ELSE UNCHANGED <<free, attempt>>
  /\ UNCHANGED <<setup, warm, stage, pages, hasCache, cache, form, result>>

\* Donut if need be, the Aadhaar number from the text, and the entry, whether
\* or not anything was read.
ReadOf(t) ==
  Patched([draft[t] EXCEPT
             !.fields = ChosenFields(@, Answer(DonutShows, Img(t), draft[t].class))], Img(t))

\* Fault: two threads that missed make the entry between them, later ones
\* start a new cache.
StoreRead_Replaces(t) ==
  /\ Goto(t, "donut", "done")
  /\ cache' = [i \in Images |-> IF i = Img(t) THEN ReadOf(t) ELSE Nothing]
  /\ result' = [result EXCEPT ![t] = ReadOf(t)]
  /\ draft' = [draft EXCEPT ![t] = Blank(Img(t))]
  /\ UNCHANGED <<setup, warm, stage, pages, attempt, hasCache, free, form>>

\* Fault: only reads that found something are kept.
StoreRead_GoodOnly(t) ==
  /\ Goto(t, "donut", "done")
  /\ cache' = IF ReadOf(t).fields = {} THEN cache ELSE [cache EXCEPT ![Img(t)] = ReadOf(t)]
  /\ result' = [result EXCEPT ![t] = ReadOf(t)]
  /\ draft' = [draft EXCEPT ![t] = Blank(Img(t))]
  /\ UNCHANGED <<setup, warm, stage, pages, attempt, hasCache, free, form>>

StoreRead(t) ==
  /\ Goto(t, "donut", "done")
  /\ cache' = [cache EXCEPT ![Img(t)] = ReadOf(t)]
  /\ result' = [result EXCEPT ![t] = ReadOf(t)]
  /\ draft' = [draft EXCEPT ![t] = Blank(Img(t))]
  /\ UNCHANGED <<setup, warm, stage, pages, attempt, hasCache, free, form>>

-----------------------------------------------------------------------------
(* The submissions                                                         *)

Queue(S) == [t \in Tasks |-> IF t \in S THEN "queued" ELSE thread[t]]

\* The uploaded files are decoded to pages: an image that cannot be decoded
\* is dropped, of a PDF that breaks off the pages before that are kept.  Only
\* the form, with real models, reads them first for itself.
Submit(s) ==
  /\ stage[s] = "idle"
  /\ \E S \in SUBSET TasksOf(s) :
       /\ pages' = [pages EXCEPT ![s] = S]
       /\ \/ S = {} /\ stage' = [stage EXCEPT ![s] = "refused"]
          \/ S # {} /\ stage' = [stage EXCEPT ![s] =
                                   IF setup.real /\ s \in ByForm THEN "form" ELSE "pipeline"]
       /\ thread' = Queue(S)
  /\ UNCHANGED <<setup, warm, attempt, draft, hasCache, cache, free, form, result>>

Ended(s) == \A t \in pages[s] : thread[t] \in {"done", "raised"}
Raised(s) == {t \in pages[s] : thread[t] = "raised"}
FormRead(s) == [t \in Tasks |->
  IF t \in pages[s] THEN (IF thread[t] = "raised" THEN Nothing ELSE result[t]) ELSE form[t]]

\* _cross_check goes through the statement's credits as a list of records,
\* and the models give them as one string: it raises, outside any handler.
CrossCheckRaises(s) ==
  \E t \in pages[s] : /\ thread[t] = "done" /\ result[t].class = "bank_statement"
                      /\ "salary_credits" \in result[t].fields

\* _extract_fields_by_class is done: a page whose thread raised counts as
\* empty.  Then the comparison, and with no await between, the second pass.
EndFormPass(s) ==
  /\ stage[s] = "form" /\ Ended(s)
  /\ form' = FormRead(s)
  /\ IF CrossCheckRaises(s)
       THEN stage' = [stage EXCEPT ![s] = "failed"] /\ UNCHANGED thread
       ELSE stage' = [stage EXCEPT ![s] = "pipeline"] /\ thread' = Queue(pages[s])
  /\ UNCHANGED <<setup, warm, pages, attempt, draft, hasCache, cache, free, result>>

\* Fault: as in the form pass, pages that raised count as empty.
EndPipelinePass_Tolerant(s) ==
  /\ stage[s] = "pipeline" /\ Ended(s)
  /\ stage' = [stage EXCEPT ![s] = "decided"]
  /\ UNCHANGED <<setup, warm, pages, thread, attempt, draft, hasCache, cache, free, form, result>>

\* The gather of execute ends with its last thread, or with the first that
\* raises; the threads left then go on reading.
EndPipelinePass(s) ==
  /\ stage[s] = "pipeline"
  /\ \/ Raised(s) # {} /\ stage' = [stage EXCEPT ![s] = "failed"]
     \/ Raised(s) = {} /\ Ended(s) /\ stage' = [stage EXCEPT ![s] = "decided"]
  /\ UNCHANGED <<setup, warm, pages, thread, attempt, draft, hasCache, cache, free, form, result>>

-----------------------------------------------------------------------------
ThreadStep(t) ==
  \/ Begin(t) \/ CreateCache(t) \/ Hit(t) \/ Miss(t)
  \/ Acquire(t) \/ ClassAnswered(t) \/ ClassFailed(t) \/ ReadText(t)
  \/ FieldsAnswered(t) \/ FieldsFailed(t) \/ Raise(t) \/ StoreRead(t)

HandlerStep(s) == EndFormPass(s) \/ EndPipelinePass(s)

Next ==
  \/ \E t \in Tasks : ThreadStep(t) \/ Busy(t)
  \/ \E s \in Submissions : Submit(s) \/ HandlerStep(s)

\* Every request to Ollama has a time limit, so a call ends or is repeated;
\* threads and handlers run.  Calls are finitely many, so that is enough for
\* whoever waits for a slot.
Fairness ==
  /\ \A t \in Tasks : WF_vars(ThreadStep(t) \/ Busy(t))
  /\ \A s \in Submissions : WF_vars(HandlerStep(s))

Spec == Init /\ [][Next]_vars
FairSpec == Spec /\ Fairness

-----------------------------------------------------------------------------
(* Properties                                                              *)

\* However a call ends -- answered, refused three times, timed out, broken
\* off -- its slot goes back to the semaphore, so the slots are those that are
\* free and those of the threads in a call, whose requests went away or not.
SlotsConserved == free + Cardinality(Holders) = Slots

\* Again and again nobody holds a slot: they come back from every call, also
\* from the threads of a submission that has been answered already.
SlotsReturn == []<>(free = Slots)

\* Every submission is answered, whatever the vision model does: refused,
\* decided or failed.
EverySubmissionAnswered ==
  \A s \in Submissions :
    (stage[s] # "idle") ~> (stage[s] \in {"refused", "decided", "failed"})

\* The entries of the cache are only ever lost to a thread that found no
\* cache when it began: once those have passed, what was read stays read.
OnlyFirstReadsLose ==
  [][(hasCache /\ \A t \in Tasks : thread[t] # "create")
       => \A i \in Images : cache[i] # Nothing => cache'[i] # Nothing]_vars

\* A page that nobody else reads, in a process whose cache exists.
Undisturbed(t) == warm /\ \A u \in Tasks : Img(u) = Img(t) => u = t

\* The fields the form was compared with are those the decision is made on,
\* although the page is read in two passes of calls that may fail.
FormSawWhatIsDecided ==
  \A t \in Tasks :
    (Undisturbed(t) /\ stage[t[1]] = "decided" /\ t \in pages[t[1]] /\ form[t] # Nothing)
      => result[t] = form[t]

\* A decision is made on a read of every page, of the class and fields of
\* that page and no other: pages that could not be read are not left out.
DecidedOnEveryPage ==
  \A s \in Submissions : stage[s] = "decided" =>
    \A t \in pages[s] : /\ result[t] # Nothing /\ thread[t] = "done"
                        /\ result[t].class \in {Kind[Img(t)], Guess[Img(t)]}
=============================================================================
