------------------------- MODULE SubmissionServices -------------------------
(***************************************************************************)
(* What a submission needs from outside the process while                  *)
(* OnboardingPipeline.execute runs it: the document store that keeps its   *)
(* pages, the NSDL, UIDAI and CIBIL services behind the retrying client,   *)
(* and the identity graphs.  MinIO and Neo4j outlive the process, which    *)
(* chooses its backends when it starts; GraphSAGE's nodes do not.          *)
(* execute is suspended while a request is out, so submissions interleave  *)
(* there; storing the pages and scoring fraud run without a pause, but may *)
(* break off half way.                                                     *)
(***************************************************************************)
EXTENDS IdentityGraph

CONSTANTS
  Submissions,    \* requests
  App(_),         \* the application id of a submission
  People,         \* the attributes documents and forms may show
  Pages(_),       \* the document class of each of its pages, in order
  Named(_),       \* were a full name and a date of birth read?
  GivesOtp(_),    \* does the applicant give an Aadhaar OTP?
  PipelineOf(_),  \* "mock" or "real": the pipeline object that serves it
  WellFormed,     \* the PANs that match PAN_REGEX
  Mocked,         \* the services whose client answers by itself
  Retries,        \* BaseClient.retries: attempts in all
  Earlier,        \* edges earlier processes left in Neo4j
  MaxStarts       \* bound: process starts

Service  == {"nsdl", "uidai", "cibil"}
Backend  == {"minio", "local"}
Pipeline == {"mock", "real"}
Apps     == {App(p) : p \in Submissions}

ASSUME ServicesAssumption ==
  /\ Retries \in Nat \ {0} /\ MaxStarts \in Nat
  /\ Mocked \subseteq Service
  /\ None \notin WellFormed
  /\ \A h \in People : DOMAIN h = Attribute
  /\ \A p \in Submissions : Pages(p) \in Seq(STRING)
  /\ \A p \in Submissions :
       PipelineOf(p) \in Pipeline /\ Named(p) \in BOOLEAN /\ GivesOtp(p) \in BOOLEAN

VARIABLES
  held,       \* held[p]: the attributes the documents and the form of p show
  up,         \* is the process running?
  starts,
  store,      \* document_store: "minio", "local", or "none"
  graphOn,    \* is identity_graph connected?
  stage,      \* stage[p]: how far execute has come
  attempt,    \* attempt[p]: the attempt that is out, 0 when no request is
  acted,      \* acted[p]: the services that acted on a request of p
  fieldsFrom, \* fieldsFrom[p]: extracted_data, the page each class was read from
  cites,      \* cites[p]: document_ids, the object cited for each class
  objects,    \* objects[b]: what backend b holds
  edges,      \* Neo4j
  nodes,      \* nodes[l]: the GraphSAGE nodes of pipeline l
  told,       \* told[p]: what p was scored with from Neo4j: no report or one set of rings
  near        \* near[p]: the neighbours GraphSAGE counted for p

process == <<up, starts, store, graphOn, held>>
calls   == <<attempt, acted>>
docs    == <<fieldsFrom, cites, objects>>
graphs  == <<edges, nodes, told, near>>
vars    == <<process, stage, calls, docs, graphs>>

Stage   == {"idle", "reading", "nsdl", "uidai", "cibil", "scoring", "done", "failed"}
Ended   == {"done", "failed"}
Running == Stage \ (Ended \cup {"idle"})

Node(p) == [app |-> App(p), pan |-> held[p].pan, aadhaar |-> held[p].aadhaar]
Nodes   == {Node(p) : p \in Submissions}
Classes(p) == {Pages(p)[i] : i \in DOMAIN Pages(p)}
Object(p, i) == [of |-> p, page |-> i]
AllObjects == UNION {{Object(p, i) : i \in DOMAIN Pages(p)} : p \in Submissions}

TypeOK ==
  /\ held \in [Submissions -> People]
  /\ up \in BOOLEAN /\ graphOn \in BOOLEAN
  /\ starts \in 0..MaxStarts
  /\ store \in Backend \cup {"none"}
  /\ stage \in [Submissions -> Stage]
  /\ attempt \in [Submissions -> 0..Retries]
  /\ acted \in [Submissions -> SUBSET Service]
  /\ objects \in [Backend -> SUBSET AllObjects]
  /\ nodes \in [Pipeline -> SUBSET Nodes]
  /\ \A p \in Submissions : attempt[p] > 0 => stage[p] \in Service

Init ==
  /\ held \in [Submissions -> People]
  /\ up = FALSE /\ starts = 0 /\ store = "none" /\ graphOn = FALSE
  /\ stage = [p \in Submissions |-> "idle"]
  /\ attempt = [p \in Submissions |-> 0]
  /\ acted = [p \in Submissions |-> {}]
  /\ fieldsFrom = [p \in Submissions |-> <<>>]
  /\ cites = [p \in Submissions |-> <<>>]
  /\ objects = [b \in Backend |-> {}]
  /\ edges = Earlier
  /\ nodes = [l \in Pipeline |-> {}]
  /\ told = [p \in Submissions |-> {}]
  /\ near = [p \in Submissions |-> {}]

-----------------------------------------------------------------------------
(* The process                                                             *)

\* open_document_store prefers MinIO and falls back to the file system; if
\* that fails as well there is no store.
OpenStore == Backend \cup {"none"}

\* IdentityGraph() connects and sets its constraints, or raises.
ConnectGraph == BOOLEAN

\* The import of the onboard route opens the store, the lifespan hook connects
\* to Neo4j or does without.
Start ==
  /\ ~up /\ starts < MaxStarts
  /\ up' = TRUE /\ starts' = starts + 1
  /\ store' \in OpenStore
  /\ graphOn' \in ConnectGraph
  /\ UNCHANGED <<held, stage, calls, docs, graphs>>

\* The process dies, and with it every submission under way and the in-memory
\* nodes.  A submission that was being scored may leave part of itself in Neo4j.
Crash ==
  /\ up /\ up' = FALSE
  /\ stage' = [p \in Submissions |-> IF stage[p] \in Running THEN "failed" ELSE stage[p]]
  /\ attempt' = [p \in Submissions |-> 0]
  /\ nodes' = [l \in Pipeline |-> {}]
  /\ \/ UNCHANGED edges
     \/ \E p \in Submissions, n \in 1..Len(Attributes) :
          /\ graphOn /\ stage[p] = "scoring"
          /\ edges' = Ingested(edges, App(p), held[p], n)
  /\ UNCHANGED <<starts, store, graphOn, held, acted, docs, told, near>>

\* POST /apply/_reset_fraud_graph reaches the real pipeline's nodes only.
ResetFraudGraph ==
  /\ up
  /\ nodes' = [nodes EXCEPT !["real"] = {}]
  /\ UNCHANGED <<process, stage, calls, docs, edges, told, near>>

-----------------------------------------------------------------------------
(* Documents                                                               *)

Submit(p) ==
  /\ up /\ stage[p] = "idle"
  /\ stage' = [stage EXCEPT ![p] = "reading"]
  /\ UNCHANGED <<process, calls, docs, graphs>>

\* verify_identity asks NSDL if a PAN, a name and a date of birth were read, and
\* UIDAI if an Aadhaar number was and an OTP given; the bureau is always asked.
Asked(p) == {s \in Service :
  \/ s = "nsdl"  /\ held[p].pan # None /\ Named(p)
  \/ s = "uidai" /\ held[p].aadhaar # None /\ GivesOtp(p)
  \/ s = "cibil"}

\* The stage that follows a service, or the reading.
StageAfter(p, s) ==
  CASE s = "reading" /\ "nsdl" \in Asked(p)                       -> "nsdl"
    [] s = "reading" /\ Asked(p) = {"uidai", "cibil"}             -> "uidai"
    [] s = "nsdl" /\ "uidai" \in Asked(p)                         -> "uidai"
    [] s = "uidai" \/ (s # "cibil" /\ Asked(p) \ {s} = {"cibil"}) -> "cibil"
    [] OTHER                                                     -> "scoring"

LastPage(p, n) == [c \in {Pages(p)[i] : i \in 1..n} |->
                     CHOOSE i \in 1..n : Pages(p)[i] = c /\ \A j \in i+1..n : Pages(p)[j] # c]
FirstPage(p, n) == [c \in {Pages(p)[i] : i \in 1..n} |->
                     CHOOSE i \in 1..n : Pages(p)[i] = c /\ \A j \in 1..i-1 : Pages(p)[j] # c]

Kept(p, n) == IF store = "none" THEN objects
              ELSE [objects EXCEPT ![store] = @ \cup {Object(p, i) : i \in 1..n}]

\* Fault: the first document of a class is the one that is cited.
StorePages_FirstCited(p) ==
  /\ up /\ stage[p] = "reading"
  /\ LET n == Len(Pages(p)) IN
       /\ fieldsFrom' = [fieldsFrom EXCEPT ![p] = LastPage(p, n)]
       /\ cites' = IF store = "none" THEN cites
                   ELSE [cites EXCEPT ![p] = [c \in Classes(p) |-> Object(p, FirstPage(p, n)[c])]]
       /\ objects' = Kept(p, n)
  /\ stage' = [stage EXCEPT ![p] = StageAfter(p, "reading")]
  /\ UNCHANGED <<process, calls, graphs>>

\* The loop over the pages: a page replaces the fields and the document id an
\* earlier page of its class left.
StorePages(p) ==
  /\ up /\ stage[p] = "reading"
  /\ LET n == Len(Pages(p)) IN
       /\ fieldsFrom' = [fieldsFrom EXCEPT ![p] = LastPage(p, n)]
       /\ cites' = IF store = "none" THEN cites
                   ELSE [cites EXCEPT ![p] = [c \in Classes(p) |-> Object(p, LastPage(p, n)[c])]]
       /\ objects' = Kept(p, n)
  /\ stage' = [stage EXCEPT ![p] = StageAfter(p, "reading")]
  /\ UNCHANGED <<process, calls, graphs>>

\* The store raises: the pages stored so far stay, and nobody cites them.
StoreFails(p) ==
  /\ up /\ stage[p] = "reading" /\ store # "none"
  /\ \E n \in 0..Len(Pages(p)) - 1 : objects' = Kept(p, n)
  /\ stage' = [stage EXCEPT ![p] = "failed"]
  /\ UNCHANGED <<process, calls, fieldsFrom, cites, graphs>>

\* exists: ids look the same in both backends, only one is asked.
Exists(d) == store # "none" /\ d \in objects[store]

\* GET /evidence/document/{id}.
GetDocument(d) ==
  CASE store = "none"                  -> 503
    [] store # "none" /\ ~Exists(d)    -> 404
    [] OTHER                           -> 200

-----------------------------------------------------------------------------
(* Requests of BaseClient                                                  *)

\* Answered without a request: in mock mode, and a malformed PAN.
Local(p, s) == s \in Mocked \/ (s = "nsdl" /\ held[p].pan \notin WellFormed)

AnswerLocally(p) ==
  /\ up /\ stage[p] \in Service /\ Local(p, stage[p]) /\ attempt[p] = 0
  /\ stage' = [stage EXCEPT ![p] = StageAfter(p, @)]
  /\ UNCHANGED <<process, calls, docs, graphs>>

Send(p) ==
  /\ up /\ stage[p] \in Service /\ ~Local(p, stage[p]) /\ attempt[p] = 0
  /\ attempt' = [attempt EXCEPT ![p] = 1]
  /\ UNCHANGED <<process, stage, acted, docs, graphs>>

\* A 2xx answer arrives in time.
Answered(p) ==
  /\ up /\ attempt[p] > 0
  /\ acted' = [acted EXCEPT ![p] = @ \cup {stage[p]}]
  /\ attempt' = [attempt EXCEPT ![p] = 0]
  /\ stage' = [stage EXCEPT ![p] = StageAfter(p, @)]
  /\ UNCHANGED <<process, docs, graphs>>

\* What the service did with a request that brought no answer is unknown.
Unanswered(p) ==
  /\ up /\ attempt[p] > 0
  /\ \/ acted' = [acted EXCEPT ![p] = @ \cup {stage[p]}]
     \/ UNCHANGED acted

\* Fault: the attempts are counted afresh when they are used up.
TryAgain_Endless(p) ==
  /\ Unanswered(p)
  /\ attempt' = [attempt EXCEPT ![p] = IF @ < Retries THEN @ + 1 ELSE 1]
  /\ UNCHANGED <<process, stage, docs, graphs>>

\* A timeout, or one of 429, 500, 502, 503, 504: the request is sent again at
\* once, whether or not the service acted on it.
TryAgain(p) ==
  /\ Unanswered(p) /\ attempt[p] < Retries
  /\ attempt' = [attempt EXCEPT ![p] = @ + 1]
  /\ UNCHANGED <<process, stage, docs, graphs>>

\* Fault: a service that does not answer is passed over.
GiveUp_PassesOver(p) ==
  /\ Unanswered(p)
  /\ attempt' = [attempt EXCEPT ![p] = 0]
  /\ stage' = [stage EXCEPT ![p] = IF attempt[p] = Retries THEN StageAfter(p, @) ELSE "failed"]
  /\ UNCHANGED <<process, docs, graphs>>

\* IntegrationError: after the last attempt, or at once on any other status,
\* a broken connection or an answer that is no JSON.  Nothing catches it.
GiveUp(p) ==
  /\ Unanswered(p)
  /\ attempt' = [attempt EXCEPT ![p] = 0]
  /\ stage' = [stage EXCEPT ![p] = "failed"]
  /\ UNCHANGED <<process, docs, graphs>>

Call(p) == AnswerLocally(p) \/ Send(p) \/ Answered(p) \/ TryAgain(p) \/ GiveUp(p)

-----------------------------------------------------------------------------
(* FraudIntelligenceProcessor.process_fraud                                *)

\* GraphSAGEWrapper.predict_fraud, whatever came of Neo4j.
Predict(p) ==
  LET l == PipelineOf(p) IN
    /\ nodes' = [nodes EXCEPT ![l] = Inserted(@, Node(p))]
    /\ near' = [near EXCEPT ![p] = Neighbours(Inserted(nodes[l], Node(p)), Node(p))]

\* Fault: rings are looked for before the application is in the graph.
AskGraph_BeforeIngest(p) ==
  /\ graphOn
  /\ edges' = Ingested(edges, App(p), held[p], Len(Attributes))
  /\ told' = [told EXCEPT ![p] = {DetectFraudRings(edges, App(p))}]

AskGraph(p) ==
  /\ graphOn
  /\ edges' = Ingested(edges, App(p), held[p], Len(Attributes))
  /\ told' = [told EXCEPT ![p] = {DetectFraudRings(edges', App(p))}]

\* There is no graph; or it breaks off while the attributes are linked or
\* the rings looked for, which is logged.
NoGraph(p) ==
  /\ \/ UNCHANGED edges
     \/ /\ graphOn
        /\ \E n \in 0..Len(Attributes) : edges' = Ingested(edges, App(p), held[p], n)
  /\ UNCHANGED told

Score(p) ==
  /\ up /\ stage[p] = "scoring"
  /\ AskGraph(p) \/ NoGraph(p)
  /\ Predict(p)
  /\ stage' = [stage EXCEPT ![p] = "done"]
  /\ UNCHANGED <<process, calls, docs>>

\* The checkpoint of the real pipeline's model cannot be loaded, or the model
\* raises: only Neo4j is asked under a try.  By then the application is among
\* the nodes, and what Neo4j reported on it is lost.
ScoreFails(p) ==
  /\ up /\ stage[p] = "scoring" /\ PipelineOf(p) = "real"
  /\ NoGraph(p)
  /\ Predict(p)
  /\ stage' = [stage EXCEPT ![p] = "failed"]
  /\ UNCHANGED <<process, calls, docs>>

-----------------------------------------------------------------------------

Execute(p) == StorePages(p) \/ StoreFails(p) \/ Call(p) \/ Score(p) \/ ScoreFails(p)

Next ==
  \/ Start \/ Crash \/ ResetFraudGraph
  \/ \E p \in Submissions : Submit(p) \/ Execute(p)

Spec == Init /\ [][Next]_vars

\* The event loop resumes every submission: a request ends by an answer, an
\* error or the client's timeout of 30 s.
FairSpec == Spec /\ \A p \in Submissions : WF_vars(Execute(p))

-----------------------------------------------------------------------------
(* Properties                                                              *)

\* A submission that was decided on can be traced: the page its fields of a
\* class came from is the one cited for that class, the evidence route serves
\* it until the process ends, and a backend holds it ever after.  (Unless there
\* was no store; several pages may be of one class, and other submissions,
\* failures of the store and restarts come between.)
VerdictIsTraceable ==
  \A p \in Submissions : stage[p] = "done" /\ cites[p] # <<>> =>
    \A c \in Classes(p) :
      /\ cites[p][c] = Object(p, fieldsFrom[p][c])
      /\ starts = 1 => GetDocument(cites[p][c]) = 200
      /\ \E b \in Backend : cites[p][c] \in objects[b]

\* No decision rests on a service's silence: each service that had to be
\* asked has acted on a request, and a client that gave up failed the
\* submission.
NoVerdictOnSilence ==
  \A p \in Submissions : stage[p] \in {"scoring", "done"} =>
    \A s \in Asked(p) : Local(p, s) \/ s \in acted[p]

\* Of two applications from one device that Neo4j reported on, one was told of
\* the other, whichever was scored first, with failed scorings, crashes and
\* restarts in between.
LaterSeesTheRing ==
  \A p, q \in Submissions :
    ( /\ told[p] # {} /\ told[q] # {} /\ App(p) # App(q)
      /\ held[p].device # None /\ held[p].device = held[q].device )
    => \/ \E rings \in told[p] : \E r \in rings : App(q) \in r.peers
       \/ \E rings \in told[q] : \E r \in rings : App(p) \in r.peers

\* "the same person re-submitting their own docs doesn't look like a
\* synthetic-identity ring" to GraphSAGE: nobody is their own neighbour.
RepeatIsNoNeighbour ==
  \A p \in Submissions : \A n \in near[p] : ~SameIdentity(Node(p), n)

\* A submission is answered, whatever the services do.
EverySubmissionEnds ==
  \A p \in Submissions : (stage[p] = "reading") ~> (stage[p] \in Ended)
=============================================================================
