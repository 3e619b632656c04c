---------------------- MODULE SubmissionServicesProofs ----------------------
(***************************************************************************)
(* Proofs about SubmissionServices, for any number of submissions, pages,  *)
(* attempts and starts, and any identities.                                *)
(***************************************************************************)
EXTENDS SubmissionServices, WellFoundedInduction, TLAPS

-----------------------------------------------------------------------------
(* Types                                                                   *)

\* The variables whose values TypeOK leaves open are functions all the same.
Shape ==
  /\ fieldsFrom = [p \in Submissions |-> fieldsFrom[p]]
  /\ cites = [p \in Submissions |-> cites[p]]
  /\ told = [p \in Submissions |-> told[p]]
  /\ near = [p \in Submissions |-> near[p]]

TypeInv == TypeOK /\ Shape

LEMMA StageAfterType ==
  ASSUME NEW p, NEW s PROVE StageAfter(p, s) \in {"nsdl", "uidai", "cibil", "scoring"}
BY DEF StageAfter

LEMMA KeptType ==
  ASSUME TypeOK, NEW p \in Submissions, NEW n \in 0..Len(Pages(p))
  PROVE  Kept(p, n) \in [Backend -> SUBSET AllObjects]
<1>1. \A i \in 1..n : i \in DOMAIN Pages(p)  BY ServicesAssumption
<1>2. {Object(p, i) : i \in 1..n} \subseteq AllObjects  BY <1>1 DEF AllObjects
<1> QED BY <1>2 DEF Kept, TypeOK

LEMMA InsertedType ==
  ASSUME NEW S, NEW m \in S, NEW N \in SUBSET S PROVE Inserted(N, m) \in SUBSET S
BY DEF Inserted

LEMMA NodeStays ==
  ASSUME NEW p \in Submissions, held' = held PROVE Node(p)' = Node(p)
BY DEF Node

LEMMA TypeStep == TypeInv /\ [Next]_vars => TypeInv'
<1> SUFFICES ASSUME TypeInv, [Next]_vars PROVE TypeInv'  OBVIOUS
<1> USE DEF TypeInv, Shape
<1>h. held' = held
  BY DEF Next, Start, Crash, ResetFraudGraph, Submit, Execute, StorePages, StoreFails, Call,
         AnswerLocally, Send, Answered, Unanswered, TryAgain, GiveUp, Score, ScoreFails, process, vars
<1>n. held' = held /\ Nodes' = Nodes  BY <1>h DEF Nodes, Node
<1>1. CASE Start
  <2>1. Shape'  BY <1>1 DEF Start, docs, graphs
  <2>2. starts' \in 0..MaxStarts  BY <1>1, ServicesAssumption DEF Start, TypeOK
  <2> QED BY <1>1, <1>n, <2>1, <2>2 DEF Start, OpenStore, ConnectGraph, TypeOK, calls, docs, graphs
<1>2. CASE Crash
  <2>1. stage' \in [Submissions -> Stage]  BY <1>2 DEF Crash, TypeOK, Stage
  <2>2. attempt' = [p \in Submissions |-> 0] /\ attempt' \in [Submissions -> 0..Retries]
    BY <1>2, ServicesAssumption DEF Crash
  <2>3. nodes' \in [Pipeline -> SUBSET Nodes]  BY <1>2 DEF Crash
  <2>4. Shape'  BY <1>2 DEF Crash, docs
  <2>5. \A p \in Submissions : ~(attempt'[p] > 0)  BY <2>2
  <2>6. UNCHANGED <<starts, store, graphOn, held, acted, objects>> /\ up' = FALSE  BY <1>2 DEF Crash, docs
  <2> QED BY <1>n, <2>1, <2>2, <2>3, <2>4, <2>5, <2>6 DEF TypeOK
<1>3. CASE ResetFraudGraph
  BY <1>3, <1>n DEF ResetFraudGraph, TypeOK, calls, docs, process
<1>4. ASSUME NEW p \in Submissions, Submit(p) PROVE TypeInv'
  <2>1. stage' \in [Submissions -> Stage]  BY <1>4 DEF Submit, TypeOK, Stage
  <2>2. ASSUME NEW q \in Submissions, attempt'[q] > 0 PROVE stage'[q] \in Service
    <3>1. stage[q] \in Service  BY <1>4, <2>2 DEF Submit, calls, TypeOK
    <3>2. q # p  BY <1>4, <3>1 DEF Submit, Service
    <3> QED BY <1>4, <3>1, <3>2 DEF Submit, TypeOK
  <2>3. UNCHANGED <<process, calls, docs, graphs>>  BY <1>4 DEF Submit
  <2> QED BY <1>n, <2>1, <2>2, <2>3 DEF TypeOK, calls, docs, graphs, process
<1>5. ASSUME NEW p \in Submissions, StorePages(p) PROVE TypeInv'
  <2>1. Len(Pages(p)) \in 0..Len(Pages(p))  BY ServicesAssumption
  <2>2. objects' \in [Backend -> SUBSET AllObjects]  BY <1>5, <2>1, KeptType DEF StorePages
  <2>3. stage' \in [Submissions -> Stage]  BY <1>5, StageAfterType DEF StorePages, TypeOK, Stage
  <2>4. ASSUME NEW q \in Submissions, attempt'[q] > 0 PROVE stage'[q] \in Service
    <3>1. attempt[q] > 0 /\ stage[q] \in Service  BY <1>5, <2>4 DEF StorePages, calls, TypeOK
    <3>2. q # p  BY <1>5, <3>1 DEF StorePages, Service
    <3> QED BY <1>5, <3>1, <3>2 DEF StorePages, TypeOK
  <2>5. Shape'
    <3>1. fieldsFrom' = [q \in Submissions |-> fieldsFrom'[q]]  BY <1>5 DEF StorePages
    <3>2. cites' = [q \in Submissions |-> cites'[q]]  BY <1>5 DEF StorePages
    <3> QED BY <1>5, <3>1, <3>2 DEF StorePages, graphs
  <2> QED BY <1>5, <1>n, <2>2, <2>3, <2>4, <2>5 DEF StorePages, TypeOK, calls, graphs, process, Stage, Service
<1>6. ASSUME NEW p \in Submissions, StoreFails(p) PROVE TypeInv'
  <2>1. PICK n \in 0..Len(Pages(p)) - 1 : objects' = Kept(p, n)  BY <1>6 DEF StoreFails
  <2>2. objects' \in [Backend -> SUBSET AllObjects]  BY <2>1, KeptType, ServicesAssumption
  <2> QED BY <1>6, <1>n, <2>2 DEF StoreFails, TypeOK, calls, graphs, process, Stage, Service
<1>7. ASSUME NEW p \in Submissions, AnswerLocally(p) PROVE TypeInv'
  <2>1. stage' \in [Submissions -> Stage]
    BY <1>7, StageAfterType DEF AnswerLocally, TypeOK, Stage
  <2>2. ASSUME NEW q \in Submissions, attempt'[q] > 0 PROVE stage'[q] \in Service
    <3>1. attempt[q] > 0 /\ stage[q] \in Service  BY <1>7, <2>2 DEF AnswerLocally, calls, TypeOK
    <3>2. CASE q # p  BY <1>7, <3>1, <3>2 DEF AnswerLocally, TypeOK
    <3>3. q # p  BY <1>7, <2>2 DEF AnswerLocally, calls
    <3> QED BY <3>2, <3>3
  <2>3. UNCHANGED <<process, calls, docs, graphs>>  BY <1>7 DEF AnswerLocally
  <2> QED BY <1>n, <2>1, <2>2, <2>3 DEF TypeOK, calls, docs, graphs, process
<1>8. ASSUME NEW p \in Submissions, Send(p) PROVE TypeInv'
  <2>1. attempt' \in [Submissions -> 0..Retries]  BY <1>8, ServicesAssumption DEF Send, TypeOK
  <2>2. ASSUME NEW q \in Submissions, attempt'[q] > 0 PROVE stage'[q] \in Service
    <3>1. CASE q = p  BY <1>8, <3>1 DEF Send
    <3>2. CASE q # p  BY <1>8, <2>2, <3>2 DEF Send, TypeOK
    <3> QED BY <3>1, <3>2
  <2>3. UNCHANGED <<process, stage, acted, docs, graphs>>  BY <1>8 DEF Send
  <2> QED BY <1>n, <2>1, <2>2, <2>3 DEF TypeOK, docs, graphs, process
<1>9. ASSUME NEW p \in Submissions, Answered(p) PROVE TypeInv'
  <2>1. stage' \in [Submissions -> Stage]  BY <1>9, StageAfterType DEF Answered, TypeOK, Stage
  <2>2. attempt' \in [Submissions -> 0..Retries]  BY <1>9, ServicesAssumption DEF Answered, TypeOK
  <2>3. stage[p] \in Service  BY <1>9 DEF Answered, TypeOK
  <2>4. acted' \in [Submissions -> SUBSET Service]  BY <1>9, <2>3 DEF Answered, TypeOK
  <2>5. ASSUME NEW q \in Submissions, attempt'[q] > 0 PROVE stage'[q] \in Service
    <3>1. q # p  BY <1>9, <2>5, <2>2 DEF Answered, TypeOK
    <3> QED BY <1>9, <2>5, <3>1 DEF Answered, TypeOK
  <2>6. UNCHANGED <<process, docs, graphs>>  BY <1>9 DEF Answered
  <2> QED BY <1>n, <2>1, <2>2, <2>4, <2>5, <2>6 DEF TypeOK, docs, graphs, process
<1>10. ASSUME NEW p \in Submissions, TryAgain(p) PROVE TypeInv'
  <2>1. attempt' \in [Submissions -> 0..Retries]
    BY <1>10, ServicesAssumption DEF TryAgain, Unanswered, TypeOK
  <2>2. stage[p] \in Service /\ stage' = stage  BY <1>10 DEF TryAgain, Unanswered, TypeOK
  <2>3. acted' \in [Submissions -> SUBSET Service]  BY <1>10, <2>2 DEF TryAgain, Unanswered, TypeOK
  <2>4. ASSUME NEW q \in Submissions, attempt'[q] > 0 PROVE stage'[q] \in Service
    BY <1>10, <2>2, <2>4 DEF TryAgain, TypeOK
  <2>5. UNCHANGED <<process, docs, graphs>>  BY <1>10 DEF TryAgain
  <2> QED BY <1>n, <2>1, <2>2, <2>3, <2>4, <2>5 DEF TypeOK, docs, graphs, process
<1>11. ASSUME NEW p \in Submissions, GiveUp(p) PROVE TypeInv'
  <2>1. stage' \in [Submissions -> Stage]  BY <1>11 DEF GiveUp, TypeOK, Stage
  <2>2. attempt' \in [Submissions -> 0..Retries]  BY <1>11, ServicesAssumption DEF GiveUp, TypeOK
  <2>3. stage[p] \in Service  BY <1>11 DEF GiveUp, Unanswered, TypeOK
  <2>4. acted' \in [Submissions -> SUBSET Service]  BY <1>11, <2>3 DEF GiveUp, Unanswered, TypeOK
  <2>5. ASSUME NEW q \in Submissions, attempt'[q] > 0 PROVE stage'[q] \in Service
    <3>1. q # p  BY <1>11, <2>5, <2>2 DEF GiveUp, TypeOK
    <3> QED BY <1>11, <2>5, <3>1 DEF GiveUp, TypeOK
  <2>6. UNCHANGED <<process, docs, graphs>>  BY <1>11 DEF GiveUp
  <2> QED BY <1>n, <2>1, <2>2, <2>4, <2>5, <2>6 DEF TypeOK, docs, graphs, process
<1>12. ASSUME NEW p \in Submissions, Score(p) \/ ScoreFails(p) PROVE TypeInv'
  <2>1. nodes' \in [Pipeline -> SUBSET Nodes]
    <3>1. PipelineOf(p) \in Pipeline /\ Node(p) \in Nodes  BY ServicesAssumption DEF Nodes
    <3>2. nodes[PipelineOf(p)] \in SUBSET Nodes  BY <3>1 DEF TypeOK
    <3>3. Inserted(nodes[PipelineOf(p)], Node(p)) \in SUBSET Nodes
      BY <3>1, <3>2, InsertedType
    <3>4. nodes' = [nodes EXCEPT ![PipelineOf(p)] = Inserted(nodes[PipelineOf(p)], Node(p))]
      BY <1>12 DEF Score, ScoreFails, Predict
    <3> QED BY <3>3, <3>4 DEF TypeOK
  <2>2. told' = [q \in Submissions |-> told'[q]]
    BY <1>12 DEF Score, ScoreFails, AskGraph, NoGraph
  <2>3. near' = [q \in Submissions |-> near'[q]]  BY <1>12 DEF Score, ScoreFails, Predict
  <2>4. PICK st \in {"done", "failed"} : stage' = [stage EXCEPT ![p] = st]
    BY <1>12 DEF Score, ScoreFails
  <2>5. stage[p] = "scoring" /\ UNCHANGED <<process, calls, docs>>
    BY <1>12 DEF Score, ScoreFails
  <2> QED BY <1>n, <2>1, <2>2, <2>3, <2>4, <2>5
          DEF TypeOK, calls, docs, process, Stage, Service
<1>13. CASE UNCHANGED vars
  BY <1>13, <1>n DEF vars, process, calls, docs, graphs, TypeOK
<1> QED BY <1>1, <1>2, <1>3, <1>4, <1>5, <1>6, <1>7, <1>8, <1>9, <1>10, <1>11, <1>12, <1>13
        DEF Next, Execute, Call

LEMMA TypeInit == Init => TypeInv
<1> SUFFICES ASSUME Init PROVE TypeInv  OBVIOUS
<1>1. Shape  BY DEF Init, Shape
<1>2. stage \in [Submissions -> Stage] /\ store \in Backend \cup {"none"}  BY DEF Init, Stage
<1>3. attempt \in [Submissions -> 0..Retries] /\ starts \in 0..MaxStarts
  BY ServicesAssumption DEF Init
<1>4. \A p \in Submissions : ~(attempt[p] > 0)  BY DEF Init
<1> QED BY <1>1, <1>2, <1>3, <1>4 DEF Init, TypeInv, TypeOK

LEMMA TypeAlways == Spec => []TypeInv
BY TypeInit, TypeStep, PTL DEF Spec

\* The variables have their types; a request is only out while a service is asked.
THEOREM TypeCorrect == Spec => []TypeOK
BY TypeAlways, PTL DEF TypeInv

-----------------------------------------------------------------------------
(* Calls                                                                   *)

\* The services that come before a stage.
Before(st) ==
  CASE st = "uidai"               -> {"nsdl"}
    [] st = "cibil"               -> {"nsdl", "uidai"}
    [] st \in {"scoring", "done"} -> Service
    [] OTHER                      -> {}

ActedBefore ==
  \A p \in Submissions : \A s \in Asked(p) \cap Before(stage[p]) : Local(p, s) \/ s \in acted[p]

\* Moving on passes over no service that has to be asked.
LEMMA NoneSkipped ==
  ASSUME NEW p, NEW st \in Service \cup {"reading"}, NEW s \in Asked(p) \cap Before(StageAfter(p, st))
  PROVE  s = st \/ s \in Before(st)
<1>1. Asked(p) \subseteq Service /\ "cibil" \in Asked(p)  BY DEF Asked, Service
<1>2. CASE st = "reading"
  <2>1. CASE "nsdl" \in Asked(p)  BY <1>2, <2>1 DEF StageAfter, Before
  <2>2. CASE "nsdl" \notin Asked(p) /\ "uidai" \in Asked(p)
    <3>1. Asked(p) = {"uidai", "cibil"}  BY <1>1, <2>2 DEF Service
    <3> QED BY <1>2, <2>2, <3>1 DEF StageAfter, Before
  <2>3. CASE "nsdl" \notin Asked(p) /\ "uidai" \notin Asked(p)
    <3>1. Asked(p) = {"cibil"} /\ Asked(p) \ {st} = {"cibil"}  BY <1>1, <1>2, <2>3 DEF Service
    <3>2. StageAfter(p, st) = "cibil"  BY <1>2, <2>3, <3>1 DEF StageAfter
    <3> QED BY <3>1, <3>2 DEF Before
  <2> QED BY <2>1, <2>2, <2>3
<1>3. CASE st = "nsdl"
  <2>1. CASE "uidai" \in Asked(p)  BY <1>3, <2>1 DEF StageAfter, Before
  <2>2. CASE "uidai" \notin Asked(p)
    <3>1. Asked(p) \ {st} = {"cibil"}  BY <1>1, <1>3, <2>2 DEF Service
    <3>2. StageAfter(p, st) = "cibil"  BY <1>3, <2>2, <3>1 DEF StageAfter
    <3> QED BY <1>3, <2>2, <3>2 DEF Before
  <2> QED BY <2>1, <2>2
<1>4. CASE st = "uidai"
  <2>1. StageAfter(p, st) = "cibil"  BY <1>4 DEF StageAfter
  <2> QED BY <1>4, <2>1 DEF Before
<1>5. CASE st = "cibil"  BY <1>1, <1>5 DEF Before, Service
<1> QED BY <1>2, <1>3, <1>4, <1>5 DEF Service

\* A step that leaves the stage of a submission, and may only add to acted.
LEMMA CallsStep == TypeInv /\ ActedBefore /\ [Next]_vars => ActedBefore'
<1> SUFFICES ASSUME TypeInv, ActedBefore, [Next]_vars,
                    NEW p \in Submissions, NEW s \in Asked(p)', s \in Before(stage'[p])
             PROVE  Local(p, s)' \/ s \in acted'[p]
  BY DEF ActedBefore
<1> USE DEF TypeInv
<1>h. held' = held
  BY DEF Next, Start, Crash, ResetFraudGraph, Submit, Execute, StorePages, StoreFails, Call,
         AnswerLocally, Send, Answered, Unanswered, TryAgain, GiveUp, Score, ScoreFails, process, vars
<1>l. s \in Asked(p) /\ (Local(p, s)' <=> Local(p, s))  BY <1>h DEF Asked, Local
<1>a. acted[p] \subseteq acted'[p]
  BY DEF Next, Start, Crash, ResetFraudGraph, Submit, Execute, StorePages, StoreFails, Call,
         AnswerLocally, Send, Answered, Unanswered, TryAgain, GiveUp, Score, ScoreFails, calls, vars, TypeOK
<1>1. CASE s \in Before(stage[p])  BY <1>1, <1>l, <1>a DEF ActedBefore
<1>2. CASE s \notin Before(stage[p])
  <2>1. stage'[p] # stage[p] /\ stage'[p] \notin {"idle", "reading", "failed", "nsdl"}
    BY <1>2 DEF Before
  <2>2. CASE StorePages(p) \/ AnswerLocally(p) \/ Answered(p)
    <3>1. stage'[p] = StageAfter(p, stage[p])
      BY <2>2 DEF StorePages, AnswerLocally, Answered, TypeOK
    <3>2. stage[p] \in Service \cup {"reading"}
      BY <2>2 DEF StorePages, AnswerLocally, Answered, TypeOK
    <3>3. s = stage[p]  BY <1>2, <1>l, <3>1, <3>2, NoneSkipped
    <3>4. s \in Service  BY <1>l DEF Asked
    <3>5. Local(p, s) \/ s \in acted'[p]
      BY <2>2, <3>3, <3>4 DEF StorePages, AnswerLocally, Answered, TypeOK, Service
    <3> QED BY <1>l, <3>5
  <2>3. CASE Score(p)
    <3>1. stage[p] = "scoring" /\ stage'[p] = "done"  BY <2>3 DEF Score, TypeOK
    <3> QED BY <1>2, <3>1 DEF Before
  <2>4. ~Start /\ ~ResetFraudGraph /\ vars' # vars
    BY <2>1 DEF Start, ResetFraudGraph, vars
  <2>5. ~Crash  BY <2>1 DEF Crash, TypeOK
  <2>6. PICK q \in Submissions : Submit(q) \/ Execute(q)  BY <2>4, <2>5 DEF Next
  <2>7. q = p
    BY <2>1, <2>6 DEF Submit, Execute, StorePages, StoreFails, Call, AnswerLocally, Send, Answered,
                      TryAgain, GiveUp, Score, ScoreFails, TypeOK
  <2>8. ~Submit(p) /\ ~StoreFails(p) /\ ~Send(p) /\ ~TryAgain(p) /\ ~GiveUp(p) /\ ~ScoreFails(p)
    BY <2>1 DEF Submit, StoreFails, Send, TryAgain, GiveUp, ScoreFails, TypeOK
  <2> QED BY <2>2, <2>3, <2>6, <2>7, <2>8 DEF Execute, Call
<1> QED BY <1>1, <1>2

\* No submission reaches the fraud score before every service that had to be
\* asked has acted, however requests fail and are repeated.
THEOREM SilenceFails == Spec => []NoVerdictOnSilence
<1>1. Init => ActedBefore  BY DEF Init, ActedBefore, Before
<1>2. ActedBefore => NoVerdictOnSilence
  <2>1. \A p \in Submissions : Asked(p) \subseteq Service  BY DEF Asked
  <2> QED BY <2>1 DEF ActedBefore, NoVerdictOnSilence, Before
<1> QED BY <1>1, <1>2, CallsStep, TypeAlways, PTL DEF Spec

-----------------------------------------------------------------------------
(* The graphs                                                              *)

DeviceEdge(p) == [app |-> App(p), field |-> "device", value |-> held[p].device]

\* Whoever was told of rings has a linked device, and the sharers among those
\* who were told know of each other.
ToldAreLinked ==
  \A p \in Submissions : told[p] # {} /\ held[p].device # None => DeviceEdge(p) \in edges

LEMMA IngestedGrows ==
  ASSUME NEW E, NEW a, NEW h, NEW n PROVE E \subseteq Ingested(E, a, h, n)
BY DEF Ingested

LEMMA IngestedDevice ==
  ASSUME NEW E, NEW a, NEW h, h["device"] # None
  PROVE  [app |-> a, field |-> "device", value |-> h["device"]] \in Ingested(E, a, h, Len(Attributes))
<1>1. Len(Attributes) = 6 /\ Attributes[5] = "device"  BY DEF Attributes
<1>2. 5 \in {j \in 1..Len(Attributes) : h[Attributes[j]] # None}  BY <1>1
<1>3. "device" \in {Attributes[i] : i \in {j \in 1..Len(Attributes) : h[Attributes[j]] # None}}
  BY <1>1, <1>2
<1> QED BY <1>3 DEF Ingested

\* Two applications linked to one device are a ring.
LEMMA RingIsFound ==
  ASSUME NEW E, NEW a, NEW b, NEW v, a # b,
         [app |-> a, field |-> "device", value |-> v] \in E,
         [app |-> b, field |-> "device", value |-> v] \in E
  PROVE  \E r \in DetectFraudRings(E, a) : b \in r.peers
<1> DEFINE S == Sharers(E, a, "device", v)
           r == Ring("synthetic_identity_ring", S, AtMostOne(7 + Cardinality(S)))
<1>1. b \in S
  <2>1. [app |-> b, field |-> "device", value |-> v] \in {x \in E : x.field = "device" /\ x.value = v /\ x.app # a}
    OBVIOUS
  <2> QED BY <2>1 DEF Sharers
<1>2. v \in ValuesOf(E, a, "device")
  <2>1. [app |-> a, field |-> "device", value |-> v] \in {x \in E : x.app = a /\ x.field = "device"}
    OBVIOUS
  <2> QED BY <2>1 DEF ValuesOf
<1>3. r \in DeviceRings(E, a)  BY <1>1, <1>2 DEF DeviceRings
<1>4. r.peers = S  BY DEF Ring
<1> QED BY <1>1, <1>3, <1>4 DEF DetectFraudRings

RingInv == ToldAreLinked /\ LaterSeesTheRing

LEMMA EdgesStay == [Next]_vars => edges \subseteq edges'
<1> SUFFICES ASSUME [Next]_vars PROVE edges \subseteq edges'  OBVIOUS
<1>1. CASE Crash  BY <1>1, IngestedGrows DEF Crash
<1>2. ASSUME NEW p \in Submissions, Score(p) \/ ScoreFails(p) PROVE edges \subseteq edges'
  BY <1>2, IngestedGrows DEF Score, ScoreFails, AskGraph, NoGraph
<1> QED BY <1>1, <1>2
        DEF Next, Start, ResetFraudGraph, Submit, Execute, StorePages, StoreFails, Call, AnswerLocally,
            Send, Answered, TryAgain, GiveUp, vars, graphs

LEMMA RingStep == TypeInv /\ RingInv /\ [Next]_vars => RingInv'
<1> SUFFICES ASSUME TypeInv, RingInv, [Next]_vars PROVE RingInv'  OBVIOUS
<1>h. held' = held
  BY DEF Next, Start, Crash, ResetFraudGraph, Submit, Execute, StorePages, StoreFails, Call,
         AnswerLocally, Send, Answered, Unanswered, TryAgain, GiveUp, Score, ScoreFails, process, vars
<1>e. edges \subseteq edges'  BY EdgesStay
<1>1. CASE told' = told
  BY <1>1, <1>h, <1>e DEF RingInv, ToldAreLinked, LaterSeesTheRing, DeviceEdge
<1>2. ASSUME NEW p \in Submissions, AskGraph(p) PROVE RingInv'
  <2>1. told' = [told EXCEPT ![p] = {DetectFraudRings(edges', App(p))}]  BY <1>2 DEF AskGraph
  <2>2. told'[p] = {DetectFraudRings(edges', App(p))}
        /\ \A q \in Submissions : q # p => told'[q] = told[q]
    BY <2>1 DEF TypeInv, Shape
  <2>3. held[p].device # None => DeviceEdge(p) \in edges'
    BY <1>2, IngestedDevice DEF AskGraph, DeviceEdge
  <2>4. ToldAreLinked'  BY <1>h, <1>e, <2>2, <2>3 DEF RingInv, ToldAreLinked, DeviceEdge
  <2>5. ASSUME NEW q \in Submissions, told'[q] # {}, App(p) # App(q),
               held[p].device # None, held[p].device = held[q].device
        PROVE  \E rings \in told'[p] : \E r \in rings : App(q) \in r.peers
    <3>1. DeviceEdge(p) \in edges' /\ DeviceEdge(q) \in edges'
      BY <1>h, <2>4, <2>5, <2>3 DEF ToldAreLinked, DeviceEdge
    <3>2. \E r \in DetectFraudRings(edges', App(p)) : App(q) \in r.peers
      BY <2>5, <3>1, RingIsFound DEF DeviceEdge
    <3> QED BY <2>2, <3>2
  <2>6. LaterSeesTheRing'
    <3> SUFFICES ASSUME NEW x \in Submissions, NEW y \in Submissions,
                        told'[x] # {}, told'[y] # {}, App(x) # App(y),
                        held[x].device # None, held[x].device = held[y].device
                 PROVE  \/ \E rings \in told'[x] : \E r \in rings : App(y) \in r.peers
                        \/ \E rings \in told'[y] : \E r \in rings : App(x) \in r.peers
      BY <1>h DEF LaterSeesTheRing
    <3>1. CASE x = p  BY <2>5, <3>1
    <3>2. CASE y = p  BY <2>5, <3>2
    <3>3. CASE x # p /\ y # p  BY <2>2, <3>3 DEF RingInv, LaterSeesTheRing
    <3> QED BY <3>1, <3>2, <3>3
  <2> QED BY <2>4, <2>6 DEF RingInv
<1> QED BY <1>1, <1>2
        DEF Next, Start, Crash, ResetFraudGraph, Submit, Execute, StorePages, StoreFails, Call,
            AnswerLocally, Send, Answered, TryAgain, GiveUp, Score, ScoreFails, NoGraph, vars, graphs

\* Of two applications from one device that Neo4j reported on, one was told of
\* the other, for any attributes, earlier edges, failures and restarts.
THEOREM RingsAreTold == Spec => []LaterSeesTheRing
<1>1. Init => RingInv  BY DEF Init, RingInv, ToldAreLinked, LaterSeesTheRing
<1>2. RingInv => LaterSeesTheRing  BY DEF RingInv
<1> QED BY <1>1, <1>2, RingStep, TypeAlways, PTL DEF Spec

LEMMA NoRepeatNear ==
  ASSUME NEW N, NEW m PROVE \A n \in Neighbours(Inserted(N, m), m) : ~SameIdentity(m, n)
<1>1. SUFFICES ASSUME NEW n \in Neighbours(Inserted(N, m), m) PROVE ~SameIdentity(m, n)  OBVIOUS
<1>2. n.app # m.app /\ n \in Inserted(N, m)  BY DEF Neighbours
<1>3. n # m  BY <1>2
<1> QED BY <1>2, <1>3 DEF Inserted

\* GraphSAGE never counts a repeated submission of one identity against it.
THEOREM RepeatsAreDropped == Spec => []RepeatIsNoNeighbour
<1>1. Init => RepeatIsNoNeighbour  BY DEF Init, RepeatIsNoNeighbour
<1>2. TypeInv /\ RepeatIsNoNeighbour /\ [Next]_vars => RepeatIsNoNeighbour'
  <2> SUFFICES ASSUME TypeInv, RepeatIsNoNeighbour, [Next]_vars, NEW q \in Submissions, NEW n \in near'[q]
               PROVE  ~SameIdentity(Node(q), n)'
    BY DEF RepeatIsNoNeighbour
  <2>h. held' = held
    BY DEF Next, Start, Crash, ResetFraudGraph, Submit, Execute, StorePages, StoreFails, Call,
           AnswerLocally, Send, Answered, Unanswered, TryAgain, GiveUp, Score, ScoreFails, process, vars
  <2>n. Node(q)' = Node(q)  BY <2>h DEF Node
  <2>1. CASE near'[q] = near[q]  BY <2>1, <2>n DEF RepeatIsNoNeighbour, SameIdentity
  <2>2. CASE Score(q) \/ ScoreFails(q)
    <3>1. near'[q] = Neighbours(Inserted(nodes[PipelineOf(q)], Node(q)), Node(q))
      BY <2>2 DEF Score, ScoreFails, Predict, TypeInv, Shape
    <3> QED BY <2>n, <3>1, NoRepeatNear DEF SameIdentity
  <2>3. ASSUME NEW p \in Submissions, Score(p) \/ ScoreFails(p), p # q PROVE near'[q] = near[q]
    BY <2>3 DEF Score, ScoreFails, Predict, TypeInv, Shape
  <2> QED BY <2>1, <2>2, <2>3
          DEF Next, Start, Crash, ResetFraudGraph, Submit, Execute, StorePages, StoreFails, Call,
              AnswerLocally, Send, Answered, TryAgain, GiveUp, vars, graphs
<1> QED BY <1>1, <1>2, TypeAlways, PTL DEF Spec

-----------------------------------------------------------------------------
(* Documents                                                               *)

\* What is cited was stored, in the first process by the backend still in use;
\* nothing is cited before the pages are read.
CitedWasStored ==
  /\ starts = 0 => ~up
  /\ \A p \in Submissions : starts = 0 \/ stage[p] \in {"idle", "reading"} => cites[p] = <<>>
  /\ starts = 0 => \A p \in Submissions : stage[p] = "idle"
  /\ \A p \in Submissions : cites[p] # <<>> => \A c \in Classes(p) :
       /\ cites[p][c] = Object(p, fieldsFrom[p][c])
       /\ starts = 1 => store # "none" /\ cites[p][c] \in objects[store]
       /\ \E b \in Backend : cites[p][c] \in objects[b]

LEMMA KeptGrows ==
  ASSUME TypeOK, NEW p \in Submissions, NEW n
  PROVE  \A b \in Backend : objects[b] \subseteq Kept(p, n)[b]
BY DEF Kept, TypeOK

\* Of the pages of a class there is a last one.
LEMMA LastIsStored ==
  ASSUME NEW p \in Submissions, NEW c \in Classes(p)
  PROVE  LastPage(p, Len(Pages(p)))[c] \in 1..Len(Pages(p))
<1> DEFINE n == Len(Pages(p))
           I == {i \in 1..n : Pages(p)[i] = c}
           T == {n - i : i \in I}
           R == {x \in Nat \X Nat : x[1] < x[2]}
<1>1. n \in Nat /\ DOMAIN Pages(p) = 1..n  BY ServicesAssumption
<1>2. I # {}  BY <1>1 DEF Classes
<1>3. T \subseteq Nat /\ T # {}  BY <1>1, <1>2
<1>4. IsWellFoundedOn(R, Nat)
  BY NatLessThanWellFounded DEF OpToRel
<1>5. PICK x \in T : \A y \in T : ~(<<y, x>> \in R)
  <2> HIDE DEF T, R
  <2> QED BY <1>3, <1>4, WFMin
<1>6. PICK i \in I : x = n - i  BY <1>5
<1>7. \A j \in I : j <= i
  <2>1. ASSUME NEW j \in I PROVE ~(n - j < n - i)
    <3>1. n - j \in T /\ n - j \in Nat /\ n - i \in Nat  BY <1>1, <1>3
    <3> QED BY <1>5, <1>6, <3>1
  <2> QED BY <1>1, <2>1
<1>8. Pages(p)[i] = c /\ \A j \in i+1..n : Pages(p)[j] # c  BY <1>1, <1>7
<1>9. c \in {Pages(p)[k] : k \in 1..n}  BY <1>8
<1> HIDE DEF n
<1>10. LastPage(p, n)[c] = CHOOSE k \in 1..n : Pages(p)[k] = c /\ \A j \in k+1..n : Pages(p)[j] # c
  BY <1>9 DEF LastPage
<1>11. i \in 1..n  OBVIOUS
<1> QED BY <1>8, <1>10, <1>11 DEF n

\* What the loop over the pages leaves.
LEMMA StoredIsCited ==
  ASSUME TypeInv, CitedWasStored, NEW p \in Submissions, StorePages(p), NEW c \in Classes(p),
         cites'[p] # <<>>
  PROVE  /\ store \in Backend
         /\ cites'[p][c] = Object(p, fieldsFrom'[p][c])
         /\ cites'[p][c] \in objects'[store]
<1> USE DEF TypeInv, Shape
<1> DEFINE n == Len(Pages(p))
<1>1. fieldsFrom'[p] = LastPage(p, n)  BY DEF StorePages
<1>2. store # "none" /\ cites'[p] = [d \in Classes(p) |-> Object(p, LastPage(p, n)[d])]
  BY DEF StorePages, CitedWasStored
<1>3. store \in Backend  BY <1>2 DEF TypeOK
<1>4. LastPage(p, n)[c] \in 1..n  BY LastIsStored
<1>5. Object(p, LastPage(p, n)[c]) \in {Object(p, i) : i \in 1..n}  BY <1>4
<1>6. objects'[store] = objects[store] \cup {Object(p, i) : i \in 1..n}
  BY <1>2, <1>3 DEF StorePages, Kept, TypeOK
<1> QED BY <1>1, <1>2, <1>3, <1>5, <1>6

\* Objects stay where they are.
LEMMA ObjectsStay == TypeInv /\ [Next]_vars => \A b \in Backend : objects[b] \subseteq objects'[b]
<1> SUFFICES ASSUME TypeInv, [Next]_vars PROVE \A b \in Backend : objects[b] \subseteq objects'[b]
  OBVIOUS
<1>1. ASSUME NEW p \in Submissions, StorePages(p) \/ StoreFails(p)
      PROVE  \A b \in Backend : objects[b] \subseteq objects'[b]
  BY <1>1, KeptGrows DEF StorePages, StoreFails, TypeInv
<1> QED BY <1>1
        DEF Next, Start, Crash, ResetFraudGraph, Submit, Execute, Call, AnswerLocally,
            Send, Answered, TryAgain, GiveUp, Score, ScoreFails, vars, docs

LEMMA CitedStep == TypeInv /\ CitedWasStored /\ [Next]_vars => CitedWasStored'
<1> SUFFICES ASSUME TypeInv, CitedWasStored, [Next]_vars PROVE CitedWasStored'  OBVIOUS
<1> USE DEF TypeInv, Shape
<1>o. \A b \in Backend : objects[b] \subseteq objects'[b]  BY ObjectsStay
<1>1. ASSUME NEW p \in Submissions, StorePages(p) PROVE CitedWasStored'
  <2>1. starts' = starts /\ store' = store /\ up' = up /\ up  BY <1>1 DEF StorePages, process
  <2>2. starts # 0  BY <2>1 DEF CitedWasStored
  <2>3. \A q \in Submissions : q # p =>
          cites'[q] = cites[q] /\ fieldsFrom'[q] = fieldsFrom[q] /\ stage'[q] = stage[q]
    BY <1>1 DEF StorePages, TypeOK
  <2>4. stage'[p] \notin {"idle", "reading"}  BY <1>1, StageAfterType DEF StorePages, TypeOK
  <2>5. ASSUME NEW q \in Submissions, cites'[q] # <<>>, NEW c \in Classes(q)
        PROVE  /\ cites'[q][c] = Object(q, fieldsFrom'[q][c])
               /\ starts' = 1 => store' # "none" /\ cites'[q][c] \in objects'[store']
               /\ \E b \in Backend : cites'[q][c] \in objects'[b]
    <3>1. CASE q = p
      <4>1. /\ store \in Backend
            /\ cites'[p][c] = Object(p, fieldsFrom'[p][c])
            /\ cites'[p][c] \in objects'[store]
        BY <1>1, <2>5, <3>1, StoredIsCited
      <4>2. store # "none"  BY <4>1 DEF Backend
      <4> QED BY <2>1, <3>1, <4>1, <4>2
    <3>2. CASE q # p
      <4>1. cites[q] # <<>> /\ cites'[q] = cites[q] /\ fieldsFrom'[q] = fieldsFrom[q]
        BY <2>3, <2>5, <3>2
      <4>2. store # "none" => store \in Backend  BY DEF TypeOK
      <4> QED BY <1>o, <2>1, <4>1, <4>2 DEF CitedWasStored
    <3> QED BY <3>1, <3>2
  <2> QED BY <2>1, <2>2, <2>3, <2>4, <2>5 DEF CitedWasStored
<1>2. CASE Start
  <2>1. UNCHANGED <<stage, cites, fieldsFrom, objects>> /\ starts' = starts + 1  BY <1>2 DEF Start, docs
  <2>2. starts \in Nat  BY ServicesAssumption DEF TypeOK
  <2>3. starts' # 0 /\ (starts' = 1 => starts = 0)  BY <2>1, <2>2
  <2>4. CASE starts = 0
    <3>1. \A p \in Submissions : cites'[p] = <<>>  BY <2>1, <2>4 DEF CitedWasStored
    <3> QED BY <2>3, <3>1 DEF CitedWasStored
  <2>5. CASE starts # 0
    <3>1. starts' # 1  BY <2>3, <2>5
    <3> QED BY <2>1, <2>3, <3>1 DEF CitedWasStored
  <2> QED BY <2>4, <2>5
<1>3. ASSUME UNCHANGED <<starts, store, cites, fieldsFrom>>,
             up' => up,
             starts = 0 => stage' = stage,
             \A p \in Submissions : stage'[p] \in {"idle", "reading"} => stage[p] \in {"idle", "reading"}
      PROVE  CitedWasStored'
  <2>1. store # "none" => store \in Backend  BY DEF TypeOK
  <2>2. \A p \in Submissions : starts' = 0 \/ stage'[p] \in {"idle", "reading"} => cites'[p] = <<>>
    BY <1>3 DEF CitedWasStored
  <2>3. (starts' = 0 => ~up') /\ (starts' = 0 => \A p \in Submissions : stage'[p] = "idle")
    BY <1>3 DEF CitedWasStored, TypeOK
  <2>4. ASSUME NEW q \in Submissions, cites'[q] # <<>>, NEW c \in Classes(q)
        PROVE  /\ cites'[q][c] = Object(q, fieldsFrom'[q][c])
               /\ starts' = 1 => store' # "none" /\ cites'[q][c] \in objects'[store']
               /\ \E b \in Backend : cites'[q][c] \in objects'[b]
    BY <1>3, <1>o, <2>1, <2>4 DEF CitedWasStored
  <2> QED BY <2>2, <2>3, <2>4 DEF CitedWasStored
<1>4. CASE Crash
  <2>1. up /\ starts # 0  BY <1>4 DEF Crash, CitedWasStored
  <2>2. UNCHANGED <<starts, store, cites, fieldsFrom>> /\ ~up'  BY <1>4 DEF Crash, docs
  <2>3. \A p \in Submissions : stage'[p] \in {"idle", "reading"} => stage[p] \in {"idle", "reading"}
    BY <1>4 DEF Crash
  <2> QED BY <1>3, <2>1, <2>2, <2>3
<1>5. CASE ResetFraudGraph \/ UNCHANGED vars
  BY <1>3, <1>5 DEF ResetFraudGraph, vars, process, docs
<1>6. ASSUME NEW p \in Submissions,
             Submit(p) \/ StoreFails(p) \/ Call(p) \/ Score(p) \/ ScoreFails(p)
      PROVE  CitedWasStored'
  <2>1. up /\ starts # 0
    BY <1>6 DEF Submit, StoreFails, Call, AnswerLocally, Send, Answered, Unanswered, TryAgain, GiveUp,
               Score, ScoreFails, CitedWasStored
  <2>2. UNCHANGED <<starts, store, cites, fieldsFrom, up>>
    BY <1>6 DEF Submit, StoreFails, Call, AnswerLocally, Send, Answered, TryAgain, GiveUp,
               Score, ScoreFails, process, docs
  <2>3. \/ stage' = stage
        \/ \E st \in Stage \ {"idle", "reading"} : stage' = [stage EXCEPT ![p] = st]
        \/ stage[p] = "idle" /\ stage' = [stage EXCEPT ![p] = "reading"]
    <3>1. CASE Submit(p)
      <4>1. stage[p] = "idle" /\ stage' = [stage EXCEPT ![p] = "reading"]  BY <3>1 DEF Submit
      <4> QED BY <4>1
    <3>2. CASE StoreFails(p) \/ GiveUp(p) \/ Score(p) \/ ScoreFails(p)
      <4>1. \/ stage' = [stage EXCEPT ![p] = "failed"]
            \/ stage' = [stage EXCEPT ![p] = "done"]
        BY <3>2 DEF StoreFails, GiveUp, Score, ScoreFails
      <4> QED BY <4>1 DEF Stage
    <3>3. CASE Send(p) \/ TryAgain(p)  BY <3>3 DEF Send, TryAgain
    <3>4. CASE AnswerLocally(p) \/ Answered(p)
      <4>1. stage' = [stage EXCEPT ![p] = StageAfter(p, stage[p])]
        BY <3>4 DEF AnswerLocally, Answered, TypeOK
      <4> QED BY <4>1, StageAfterType DEF Stage
    <3> QED BY <1>6, <3>1, <3>2, <3>3, <3>4 DEF Call
  <2>4. \A q \in Submissions : stage'[q] \in {"idle", "reading"} => stage[q] \in {"idle", "reading"}
    BY <2>3 DEF TypeOK
  <2> QED BY <1>3, <2>1, <2>2, <2>4
<1> QED BY <1>1, <1>2, <1>4, <1>5, <1>6 DEF Next, Execute

\* Whoever was decided on can be traced, for any pages, failures and restarts.
THEOREM VerdictsAreTraceable == Spec => []VerdictIsTraceable
<1>1. Init => CitedWasStored  BY DEF Init, CitedWasStored
<1>2. TypeInv /\ CitedWasStored => VerdictIsTraceable
  BY DEF CitedWasStored, VerdictIsTraceable, GetDocument, Exists
<1> QED BY <1>1, <1>2, CitedStep, TypeAlways, PTL DEF Spec
=============================================================================
