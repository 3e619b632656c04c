------------------------ MODULE DocumentReaderProofs ------------------------
(***************************************************************************)
(* Proofs about DocumentReader, for any number of submissions, pages,      *)
(* workers and slots: the types, the slots of the vision model, the cache  *)
(* that only first reads can lose, and the agreement of the form's pass    *)
(* with the pipeline's.                                                    *)
(***************************************************************************)
EXTENDS DocumentReader, FiniteSetTheorems, TLAPS

-----------------------------------------------------------------------------
(* What the reads are                                                      *)

\* A task knows its submission, and its image is one of Images.
LEMMA TaskImage == ASSUME NEW t \in Tasks PROVE t[1] \in Submissions /\ Img(t) \in Images
<1>1. PICK s \in Submissions : \E i \in Pages[s] : t = <<s, i>>  BY DEF Tasks
<1> QED BY <1>1, ReaderAssumption

LEMMA NothingIsNoRead == Nothing \notin Read
BY ReaderAssumption DEF Read

\* The reads the steps put together have the type of a read.
LEMMA ReadTypes ==
  ASSUME TypeOK, NEW t \in Tasks
  PROVE  /\ Blank(Img(t)) \in Read /\ LocalClass(Img(t)) \in Read
         /\ ReadOf(t) \in Read
<1>1. Img(t) \in Images  BY TaskImage
<1>2. Guess[Img(t)] \in Class  BY <1>1, ReaderAssumption
<1>3. setup.real \in BOOLEAN  BY DEF TypeOK
<1>4. IsMarked(Img(t)) \in BOOLEAN  BY ReaderAssumption, <1>3 DEF IsMarked
<1>5. Blank(Img(t)) \in Read /\ LocalClass(Img(t)) \in Read
  BY <1>2, <1>4 DEF Read, Blank, LocalClass
<1> DEFINE d == draft[t]
           o == Answer(DonutShows, Img(t), d.class)
           f == ChosenFields(d.fields, o)
<1>6. d \in Read /\ d.class \in Class /\ d.marked \in BOOLEAN /\ d.fields \in SUBSET Fields
  BY DEF TypeOK, Read
<1>7. o \in SUBSET Fields  BY <1>1, ReaderAssumption DEF Answer
<1>8. f \in SUBSET Fields  BY <1>6, <1>7 DEF ChosenFields
<1>9. [d EXCEPT !.fields = f] \in Read  BY <1>6, <1>8 DEF Read
<1>10. Patched([d EXCEPT !.fields = f], Img(t)) \in Read
  BY <1>9, ReaderAssumption DEF Patched, Read
<1> QED BY <1>5, <1>10 DEF ReadOf

-----------------------------------------------------------------------------
(* Types and slots                                                         *)

\* A submission that has not come in has no threads.
IdleIsQuiet == \A t \in Tasks : stage[t[1]] = "idle" => thread[t] = "none"

SlotInv == TypeOK /\ SlotsConserved /\ IdleIsQuiet

\* Holders of an unchanged thread function, and of one that moves thread t.
LEMMA HoldersStay ==
  ASSUME NEW t \in Tasks, TypeOK, NEW to, thread' = [thread EXCEPT ![t] = to],
         thread[t] \notin Holding, to \notin Holding
  PROVE  Holders' = Holders
BY DEF Holders, TypeOK

LEMMA HoldersGrow ==
  ASSUME NEW t \in Tasks, TypeOK, SlotsConserved, NEW to,
         thread' = [thread EXCEPT ![t] = to],
         thread[t] \notin Holding, to \in Holding, free > 0, free' = free - 1
  PROVE  SlotsConserved' /\ free' \in 0..Slots
<1>1. Holders' = Holders \cup {t} /\ t \notin Holders  BY DEF Holders, TypeOK
<1>2. IsFiniteSet(Holders)  BY ReaderAssumption, FS_Subset DEF Holders
<1>3. Cardinality(Holders') = Cardinality(Holders) + 1  BY <1>1, <1>2, FS_AddElement
<1>4. Cardinality(Holders) \in Nat /\ free \in 0..Slots /\ Slots \in Nat
  BY <1>2, FS_CardinalityType, ReaderAssumption DEF TypeOK
<1> QED BY <1>3, <1>4 DEF SlotsConserved

LEMMA HoldersShrink ==
  ASSUME NEW t \in Tasks, TypeOK, SlotsConserved, NEW to,
         thread' = [thread EXCEPT ![t] = to],
         thread[t] \in Holding, to \notin Holding, free' = free + 1
  PROVE  SlotsConserved' /\ free' \in 0..Slots
<1>1. Holders' = Holders \ {t} /\ t \in Holders  BY DEF Holders, TypeOK
<1>2. IsFiniteSet(Holders)  BY ReaderAssumption, FS_Subset DEF Holders
<1>3. Cardinality(Holders') = Cardinality(Holders) - 1  BY <1>1, <1>2, FS_RemoveElement
<1>4. Cardinality(Holders) \in Nat /\ free \in 0..Slots /\ Slots \in Nat
  BY <1>2, FS_CardinalityType, ReaderAssumption DEF TypeOK
<1>5. IsFiniteSet(Holders')  BY <1>1, <1>2, FS_Subset
<1>6. Cardinality(Holders') \in Nat  BY <1>5, FS_CardinalityType
<1> QED BY <1>3, <1>4, <1>6 DEF SlotsConserved

\* Every step keeps the types and the slots.
LEMMA SlotStep ==
  ASSUME SlotInv, [Next]_vars
  PROVE  SlotInv'
<1> USE DEF SlotInv
<1>T. /\ setup \in [real : BOOLEAN, backend : Backends]
      /\ warm \in BOOLEAN /\ hasCache \in BOOLEAN
      /\ stage \in [Submissions -> Stage]
      /\ pages \in [Submissions -> SUBSET Tasks]
      /\ \A s \in Submissions : pages[s] \subseteq TasksOf(s)
      /\ thread \in [Tasks -> Thread]
      /\ attempt \in [Tasks -> 1..Attempts]
      /\ draft \in [Tasks -> Read]
      /\ cache \in [Images -> Read \cup {Nothing}]
      /\ free \in 0..Slots
      /\ form \in [Tasks -> Read \cup {Nothing}]
      /\ result \in [Tasks -> Read \cup {Nothing}]
  BY DEF TypeOK
<1>1. CASE UNCHANGED vars
  BY <1>1, <1>T DEF vars, TypeOK, SlotsConserved, Holders, IdleIsQuiet
<1>2. ASSUME NEW t \in Tasks, ThreadStep(t) \/ Busy(t)  PROVE (TypeOK /\ SlotsConserved)'
  <2> DEFINE i == Img(t)
  <2>R. i \in Images /\ Blank(i) \in Read /\ LocalClass(i) \in Read /\ ReadOf(t) \in Read
    BY TaskImage, ReadTypes
  <2>1. CASE Begin(t)
    <3>1. SlotsConserved'  BY <2>1, HoldersStay DEF Begin, Goto, Holding, SlotsConserved
    <3>2. TypeOK'  BY <2>1, <1>T DEF Begin, Goto, TypeOK, Thread
    <3> QED BY <3>1, <3>2
  <2>2. CASE CreateCache(t)
    <3>1. SlotsConserved'  BY <2>2, HoldersStay DEF CreateCache, Goto, Holding, SlotsConserved
    <3>2. TypeOK'  BY <2>2, <1>T DEF CreateCache, Goto, TypeOK, Thread
    <3> QED BY <3>1, <3>2
  <2>3. CASE Hit(t)
    <3>1. SlotsConserved'  BY <2>3, HoldersStay DEF Hit, Goto, Holding, SlotsConserved
    <3>2. TypeOK'  BY <2>3, <2>R, <1>T DEF Hit, Goto, TypeOK, Thread
    <3> QED BY <3>1, <3>2
  <2>4. CASE Miss(t)
    <3>1. SlotsConserved'  BY <2>4, HoldersStay DEF Miss, Goto, Holding, SlotsConserved
    <3>2. TypeOK'  BY <2>4, <2>R, <1>T DEF Miss, Goto, TypeOK, Thread
    <3> QED BY <3>1, <3>2
  <2>5. CASE Acquire(t)
    <3>1. SlotsConserved' /\ free' \in 0..Slots
      BY <2>5, HoldersGrow DEF Acquire, Goto, Holding
    <3>2. TypeOK'  BY <2>5, <3>1, <1>T DEF Acquire, Goto, TypeOK, Thread
    <3> QED BY <3>1, <3>2
  <2>6. CASE ClassAnswered(t)
    <3>1. SlotsConserved' /\ free' \in 0..Slots
      BY <2>6, HoldersShrink DEF ClassAnswered, Release, Goto, Holding
    <3>2. draft' \in [Tasks -> Read]
      BY <2>6, <2>R, <1>T, ReaderAssumption DEF ClassAnswered, Read
    <3>3. TypeOK'
      BY <2>6, <3>1, <3>2, <1>T DEF ClassAnswered, Release, Goto, TypeOK, Thread, Attempts
    <3> QED BY <3>1, <3>3
  <2>7. CASE ClassFailed(t)
    <3>1. SlotsConserved' /\ free' \in 0..Slots
      BY <2>7, HoldersShrink DEF ClassFailed, Release, Goto, Holding
    <3>2. TypeOK'
      BY <2>7, <3>1, <1>T DEF ClassFailed, Release, Goto, TypeOK, Thread, Attempts
    <3> QED BY <3>1, <3>2
  <2>8. CASE ReadText(t)
    <3> DEFINE to == IF setup.backend = "ollama" THEN "wantFields" ELSE "donut"
    <3>t. thread[t] \notin Holding /\ to \notin Holding /\ thread' = [thread EXCEPT ![t] = to]
      BY <2>8 DEF ReadText, Goto, Holding
    <3>h. Holders' = Holders
      <4> HIDE DEF to
      <4> QED BY <3>t, HoldersStay
    <3>1. SlotsConserved'  BY <2>8, <3>h DEF ReadText, SlotsConserved
    <3>2. draft[t].class \in Class  BY <1>T DEF Read
    <3>3. Answer(Shows, Img(t), draft[t].class) \in SUBSET Fields
      BY <2>R, ReaderAssumption DEF Answer
    <3>4. Canned[draft[t].class] \in SUBSET Fields  BY <3>2, ReaderAssumption
    <3> DEFINE read == CASE setup.backend = "ollama" -> {}
                         [] setup.backend = "hf" -> Answer(Shows, Img(t), draft[t].class)
                         [] setup.backend = "mock" -> Canned[draft[t].class]
    <3>5. read \in SUBSET Fields  BY <3>3, <3>4, <1>T DEF Backends
    <3>6. draft' = [draft EXCEPT ![t].fields = read]  BY <2>8 DEF ReadText
    <3>7. draft' \in [Tasks -> Read]
      <4> HIDE DEF read
      <4> QED BY <3>5, <3>6, <1>T DEF Read
    <3>8. thread' \in [Tasks -> Thread]
      <4>1. to \in Thread  BY DEF Thread
      <4> HIDE DEF to
      <4> QED BY <3>t, <4>1, <1>T
    <3>9. UNCHANGED <<setup, warm, stage, pages, attempt, hasCache, cache, free, form, result>>
      BY <2>8 DEF ReadText
    <3>10. TypeOK'  BY <3>7, <3>8, <3>9, <1>T DEF TypeOK
    <3> QED BY <3>1, <3>10
  <2>9. CASE FieldsAnswered(t)
    <3>1. SlotsConserved' /\ free' \in 0..Slots
      BY <2>9, HoldersShrink DEF FieldsAnswered, Release, Goto, Holding
    <3>2. Answer(Shows, Img(t), draft[t].class) \in SUBSET Fields
      BY <2>R, ReaderAssumption DEF Answer
    <3>3. draft' \in [Tasks -> Read]
      BY <2>9, <3>2, <1>T DEF FieldsAnswered, Read
    <3>4. TypeOK'
      BY <2>9, <3>1, <3>3, <1>T DEF FieldsAnswered, Release, Goto, TypeOK, Thread, Attempts
    <3> QED BY <3>1, <3>4
  <2>10. CASE FieldsFailed(t)
    <3>1. SlotsConserved' /\ free' \in 0..Slots
      BY <2>10, HoldersShrink DEF FieldsFailed, Release, Goto, Holding
    <3>2. TypeOK'
      BY <2>10, <3>1, <1>T DEF FieldsFailed, Release, Goto, TypeOK, Thread, Attempts
    <3> QED BY <3>1, <3>2
  <2>11. CASE Raise(t)
    <3>1. SlotsConserved' /\ free' \in 0..Slots
      <4>0. thread' = [thread EXCEPT ![t] = "raised"] /\ "raised" \notin Holding
        BY <2>11 DEF Raise, Holding
      <4>1. CASE thread[t] \in Holding
        <5>1. free' = free + 1  BY <2>11, <4>1 DEF Raise, Release
        <5> QED BY <4>0, <4>1, <5>1, HoldersShrink
      <4>2. CASE thread[t] \notin Holding
        <5>1. free' = free  BY <2>11, <4>2 DEF Raise
        <5>2. Holders' = Holders  BY <4>0, <4>2, HoldersStay
        <5> QED BY <5>1, <5>2, <1>T DEF SlotsConserved
      <4> QED BY <4>1, <4>2
    <3>2. attempt' \in [Tasks -> 1..Attempts]
      <4>1. attempt' = [attempt EXCEPT ![t] = 1] \/ attempt' = attempt
        BY <2>11 DEF Raise, Release
      <4> QED BY <4>1, <1>T DEF Attempts
    <3>3. draft' \in [Tasks -> Read]
      <4> HIDE DEF i
      <4> QED BY <2>11, <2>R, <1>T DEF Raise, i
    <3>4. thread' \in [Tasks -> Thread]  BY <2>11, <1>T DEF Raise, Thread
    <3>5. TypeOK'
      BY <2>11, <3>1, <3>2, <3>3, <3>4, <1>T DEF Raise, TypeOK
    <3> QED BY <3>1, <3>5
  <2>12. CASE StoreRead(t)
    <3>1. SlotsConserved'  BY <2>12, HoldersStay DEF StoreRead, Goto, Holding, SlotsConserved
    <3>2. TypeOK'
      <4> HIDE DEF i
      <4>1. cache' \in [Images -> Read \cup {Nothing}]
        BY <2>12, <2>R, <1>T DEF StoreRead
      <4>2. result' \in [Tasks -> Read \cup {Nothing}]
        BY <2>12, <2>R, <1>T DEF StoreRead
      <4>3. draft' \in [Tasks -> Read]
        BY <2>12, <2>R, <1>T DEF StoreRead, i
      <4>4. thread' \in [Tasks -> Thread]
        BY <2>12, <1>T DEF StoreRead, Goto, Thread
      <4> QED BY <2>12, <4>1, <4>2, <4>3, <4>4, <1>T DEF StoreRead, TypeOK
    <3> QED BY <3>1, <3>2
  <2>13. CASE Busy(t)
    <3>1. SlotsConserved'  BY <2>13, <1>T DEF Busy, SlotsConserved, Holders
    <3>2. TypeOK'  BY <2>13, <1>T DEF Busy, TypeOK, Attempts
    <3> QED BY <3>1, <3>2
  <2> QED BY <1>2, <2>1, <2>2, <2>3, <2>4, <2>5, <2>6, <2>7, <2>8, <2>9, <2>10, <2>11,
             <2>12, <2>13 DEF ThreadStep
<1>4. ASSUME NEW t \in Tasks, ThreadStep(t) \/ Busy(t)  PROVE IdleIsQuiet'
  <2>1. stage' = stage
    BY <1>4 DEF ThreadStep, Begin, CreateCache, Hit, Miss, Acquire, ClassAnswered,
       ClassFailed, ReadText, FieldsAnswered, FieldsFailed, Raise, StoreRead, Busy
  <2>2. thread[t] # "none" /\ \A u \in Tasks : u # t => thread'[u] = thread[u]
    BY <1>4, <1>T DEF ThreadStep, Begin, CreateCache, Hit, Miss, Acquire, ClassAnswered,
       ClassFailed, ReadText, FieldsAnswered, FieldsFailed, Raise, StoreRead, Busy,
       Goto, Holding
  <2> QED BY <2>1, <2>2 DEF IdleIsQuiet
<1>3. ASSUME NEW s \in Submissions, Submit(s) \/ HandlerStep(s)  PROVE SlotInv'
  <2>1. CASE Submit(s)
    <3>1. PICK S \in SUBSET TasksOf(s) :
            /\ pages' = [pages EXCEPT ![s] = S]
            /\ thread' = Queue(S)
      BY <2>1 DEF Submit
    <3>2. stage' \in [Submissions -> Stage]
      BY <2>1, <1>T DEF Submit, Stage
    <3>3. thread' \in [Tasks -> Thread]  BY <3>1, <1>T DEF Queue, Thread
    <3>p. pages' \in [Submissions -> SUBSET Tasks] /\ \A z \in Submissions : pages'[z] \subseteq TasksOf(z)
      BY <3>1, <1>T DEF TasksOf
    <3>4. TypeOK'  BY <2>1, <3>2, <3>3, <3>p, <1>T DEF Submit, TypeOK
    <3>5. \A t \in S : thread[t] = "none"  BY <2>1, <3>1 DEF Submit, TasksOf, IdleIsQuiet
    <3>6. Holders' = Holders  BY <3>1, <3>5, <1>T DEF Holders, Holding, Queue
    <3>7. SlotsConserved'  BY <2>1, <3>6 DEF Submit, SlotsConserved
    <3>8. IdleIsQuiet'
      <4>1. stage'[s] # "idle" /\ \A z \in Submissions : z # s => stage'[z] = stage[z]
        BY <2>1, <1>T DEF Submit
      <4>2. \A t \in Tasks : t[1] # s => thread'[t] = thread[t]
        BY <3>1 DEF Queue, TasksOf
      <4> QED BY <4>1, <4>2, TaskImage DEF IdleIsQuiet
    <3> QED BY <3>4, <3>7, <3>8
  <2>2. CASE EndFormPass(s)
    <3>1. thread' = thread \/ thread' = Queue(pages[s])  BY <2>2 DEF EndFormPass
    <3>2. \A t \in pages[s] : thread[t] \in {"done", "raised"}  BY <2>2 DEF EndFormPass, Ended
    <3>3. thread' \in [Tasks -> Thread]  BY <3>1, <1>T DEF Queue, Thread
    <3>4. stage' \in [Submissions -> Stage]  BY <2>2, <1>T DEF EndFormPass, Stage
    <3>5. form' \in [Tasks -> Read \cup {Nothing}]  BY <2>2, <1>T DEF EndFormPass, FormRead
    <3>6. TypeOK'  BY <2>2, <3>3, <3>4, <3>5, <1>T DEF EndFormPass, TypeOK
    <3>7. Holders' = Holders
      BY <3>1, <3>2, <1>T DEF Holders, Holding, Queue
    <3>8. SlotsConserved'  BY <2>2, <3>7 DEF EndFormPass, SlotsConserved
    <3>9. IdleIsQuiet'
      <4>1. stage'[s] # "idle" /\ \A z \in Submissions : z # s => stage'[z] = stage[z]
        BY <2>2, <1>T DEF EndFormPass
      <4>2. \A t \in Tasks : t[1] # s => thread'[t] = thread[t]
        BY <3>1, <1>T DEF Queue, TasksOf
      <4> QED BY <4>1, <4>2, TaskImage DEF IdleIsQuiet
    <3> QED BY <3>6, <3>8, <3>9
  <2>3. CASE EndPipelinePass(s)
    <3>1. TypeOK'  BY <2>3, <1>T DEF EndPipelinePass, TypeOK, Stage
    <3>2. SlotsConserved'  BY <2>3 DEF EndPipelinePass, SlotsConserved, Holders
    <3>3. IdleIsQuiet'
      <4>1. stage'[s] # "idle" /\ \A z \in Submissions : z # s => stage'[z] = stage[z]
        BY <2>3, <1>T DEF EndPipelinePass
      <4> QED BY <2>3, <4>1, TaskImage DEF EndPipelinePass, IdleIsQuiet
    <3> QED BY <3>1, <3>2, <3>3
  <2> QED BY <1>3, <2>1, <2>2, <2>3 DEF HandlerStep
<1>5. CASE \E t \in Tasks : ThreadStep(t) \/ Busy(t)
  BY <1>5, <1>2, <1>4
<1>6. CASE \E s \in Submissions : Submit(s) \/ HandlerStep(s)
  BY <1>6, <1>3
<1> QED BY <1>1, <1>5, <1>6 DEF Next

LEMMA SlotInit == Init => SlotInv
<1> SUFFICES ASSUME Init PROVE SlotInv  OBVIOUS
<1>1. setup \in [real : BOOLEAN, backend : Backends]
  BY DEF Init, Backend, Backends
<1>2. \A t \in Tasks : Blank(Img(t)) \in Read
  BY TaskImage, ReaderAssumption DEF Blank, Read
<1>3. TypeOK
  BY <1>1, <1>2, ReaderAssumption DEF Init, TypeOK, Stage, Thread, Attempts
<1>4. Holders = {}  BY DEF Init, Holders, Holding
<1>5. SlotsConserved
  BY <1>4, FS_EmptySet, ReaderAssumption DEF Init, SlotsConserved
<1>6. IdleIsQuiet  BY DEF Init, IdleIsQuiet
<1> QED BY <1>3, <1>5, <1>6 DEF SlotInv

LEMMA SlotInvariant == Spec => []SlotInv
BY SlotInit, SlotStep, PTL DEF Spec

\* The types of the document reader's variables.
THEOREM TypeCorrect == Spec => []TypeOK
<1>1. SlotInv => TypeOK  BY DEF SlotInv
<1> QED BY SlotInvariant, <1>1, PTL

\* The slots of the vision model are those free and those of threads in a
\* call: with any number of threads, none is lost and none is made.
THEOREM NoSlotIsLost == Spec => []SlotsConserved
<1>1. SlotInv => SlotsConserved  BY DEF SlotInv
<1> QED BY SlotInvariant, <1>1, PTL

-----------------------------------------------------------------------------
(* The cache                                                               *)

\* Once the threads that found no cache have passed, entries stay.
THEOREM EntriesStay == Spec => OnlyFirstReadsLose
<1> DEFINE Stays == (hasCache /\ \A t \in Tasks : thread[t] # "create")
                      => \A i \in Images : cache[i] # Nothing => cache'[i] # Nothing
<1>1. TypeOK /\ [Next]_vars => Stays
  <2> SUFFICES ASSUME TypeOK, [Next]_vars, \A t \in Tasks : thread[t] # "create"
               PROVE  \A i \in Images : cache[i] # Nothing => cache'[i] # Nothing
    OBVIOUS
  <2>1. CASE cache' = cache  BY <2>1
  <2>2. ASSUME NEW t \in Tasks, StoreRead(t)
        PROVE  \A i \in Images : cache[i] # Nothing => cache'[i] # Nothing
    <3>1. ReadOf(t) # Nothing  BY ReadTypes, NothingIsNoRead
    <3> QED BY <2>2, <3>1 DEF StoreRead, TypeOK
  <2>3. ASSUME NEW t \in Tasks, CreateCache(t)  PROVE FALSE
    BY <2>3 DEF CreateCache, Goto
  <2>4. cache' = cache \/ \E t \in Tasks : StoreRead(t) \/ CreateCache(t)
    BY DEF Next, ThreadStep, HandlerStep, Begin, Hit, Miss, Acquire, ClassAnswered,
       ClassFailed, ReadText, FieldsAnswered, FieldsFailed, Raise, Busy, Submit,
       EndFormPass, EndPipelinePass, vars
  <2> QED BY <2>1, <2>2, <2>3, <2>4
<1>2. TypeOK /\ [Next]_vars => [Stays]_vars  BY <1>1
<1> QED BY TypeCorrect, <1>2, PTL DEF Spec, OnlyFirstReadsLose

-----------------------------------------------------------------------------
(* The two passes of a submission                                          *)

\* In a process whose cache exists, no thread makes one.
CacheIsThere == warm => hasCache /\ \A t \in Tasks : thread[t] # "create"

\* A page nobody else reads: when its thread is done, the cache has what it
\* returned; once the form pass has read it, the cache and the last result
\* stay what the form saw, and the second pass finds the entry.
ReadAgrees(t) ==
  /\ thread[t] = "done" => result[t] # Nothing /\ result[t] = cache[Img(t)]
  /\ form[t] # Nothing =>
       /\ thread[t] \in {"queued", "lookup", "done"}
       /\ cache[Img(t)] = form[t] /\ result[t] = form[t]

PassInv == CacheIsThere /\ \A t \in Tasks : Undisturbed(t) => ReadAgrees(t)

\* A step of another thread leaves what concerns an undisturbed page alone.
LEMMA OtherThread ==
  ASSUME TypeOK, CacheIsThere, NEW t \in Tasks, Undisturbed(t),
         NEW u \in Tasks, u # t, ThreadStep(u) \/ Busy(u), ReadAgrees(t)
  PROVE  ReadAgrees(t)'
<1>1. Img(u) # Img(t)  BY DEF Undisturbed
<1>2. ~CreateCache(u)  BY DEF CreateCache, Goto, Undisturbed, CacheIsThere
<1>3. thread'[t] = thread[t] /\ result'[t] = result[t] /\ form' = form
  BY <1>2 DEF ThreadStep, Begin, Hit, Miss, Acquire, ClassAnswered, ClassFailed, ReadText,
     FieldsAnswered, FieldsFailed, Raise, StoreRead, Busy, Goto, TypeOK
<1>4. cache' = cache \/ StoreRead(u)
  BY <1>2 DEF ThreadStep, Begin, Hit, Miss, Acquire, ClassAnswered, ClassFailed, ReadText,
     FieldsAnswered, FieldsFailed, Raise, Busy
<1>5. cache'[Img(t)] = cache[Img(t)]
  BY <1>1, <1>4, TaskImage DEF StoreRead, TypeOK
<1> QED BY <1>3, <1>5 DEF ReadAgrees

\* A step of its own thread.
LEMMA OwnThread ==
  ASSUME TypeOK, CacheIsThere, NEW t \in Tasks, Undisturbed(t),
         ThreadStep(t) \/ Busy(t), ReadAgrees(t)
  PROVE  ReadAgrees(t)'
<1>1. ~CreateCache(t)  BY DEF CreateCache, Goto, Undisturbed, CacheIsThere
<1>2. form' = form
  BY DEF ThreadStep, Begin, CreateCache, Hit, Miss, Acquire, ClassAnswered, ClassFailed,
     ReadText, FieldsAnswered, FieldsFailed, Raise, StoreRead, Busy
<1>3. CASE Begin(t)
  <2>1. thread'[t] = "lookup"
    BY <1>3 DEF Begin, Goto, Undisturbed, CacheIsThere, TypeOK
  <2> QED BY <1>2, <1>3, <2>1 DEF Begin, ReadAgrees
<1>4. CASE Hit(t)
  BY <1>2, <1>4 DEF Hit, Goto, ReadAgrees, TypeOK
<1>5. CASE StoreRead(t)
  <2>1. form[t] = Nothing  BY <1>5 DEF StoreRead, Goto, ReadAgrees
  <2>2. ReadOf(t) # Nothing  BY ReadTypes, NothingIsNoRead
  <2>3. Img(t) \in Images  BY TaskImage
  <2>4. result'[t] = ReadOf(t) /\ cache'[Img(t)] = ReadOf(t)
    BY <1>5, <2>3 DEF StoreRead, TypeOK
  <2> QED BY <1>2, <2>1, <2>2, <2>4 DEF ReadAgrees
<1>6. CASE ~(Begin(t) \/ Hit(t) \/ StoreRead(t))
  <2>1. form[t] = Nothing
    BY <1>1, <1>6 DEF ThreadStep, Miss, Acquire, ClassAnswered, ClassFailed, ReadText,
       FieldsAnswered, FieldsFailed, Raise, Busy, Goto, Holding, ReadAgrees
  <2>2. thread'[t] # "done"
    BY <1>1, <1>6 DEF ThreadStep, Miss, Acquire, ClassAnswered, ClassFailed, ReadText,
       FieldsAnswered, FieldsFailed, Raise, Busy, Goto, Holding, TypeOK
  <2> QED BY <1>2, <2>1, <2>2 DEF ReadAgrees
<1> QED BY <1>3, <1>4, <1>5, <1>6

LEMMA PassStep ==
  ASSUME SlotInv, PassInv, [Next]_vars
  PROVE  PassInv'
<1> USE DEF SlotInv, PassInv
<1>1. warm' = warm
  BY DEF Next, ThreadStep, HandlerStep, Begin, CreateCache, Hit, Miss, Acquire,
     ClassAnswered, ClassFailed, ReadText, FieldsAnswered, FieldsFailed, Raise, StoreRead,
     Busy, Submit, EndFormPass, EndPipelinePass, vars
<1>2. \A t \in Tasks : Undisturbed(t)' <=> Undisturbed(t)  BY <1>1 DEF Undisturbed
<1>3. CASE UNCHANGED vars
  BY <1>2, <1>3 DEF vars, CacheIsThere, ReadAgrees
<1>4. ASSUME NEW u \in Tasks, ThreadStep(u) \/ Busy(u)  PROVE PassInv'
  <2>1. CacheIsThere'
    BY <1>1, <1>4 DEF ThreadStep, Begin, CreateCache, Hit, Miss, Acquire, ClassAnswered,
       ClassFailed, ReadText, FieldsAnswered, FieldsFailed, Raise, StoreRead, Busy, Goto,
       TypeOK, CacheIsThere
  <2>2. ASSUME NEW t \in Tasks, Undisturbed(t)  PROVE ReadAgrees(t)'
    <3>1. CASE u = t  BY <1>4, <2>2, <3>1, OwnThread
    <3>2. CASE u # t  BY <1>4, <2>2, <3>2, OtherThread
    <3> QED BY <3>1, <3>2
  <2> QED BY <1>2, <2>1, <2>2
<1>5. ASSUME NEW s \in Submissions, Submit(s)  PROVE PassInv'
  <2>1. \A t \in Tasks : thread'[t] \in {"queued", thread[t]}
    BY <1>5 DEF Submit, Queue
  <2>2. UNCHANGED <<hasCache, cache, form, result>>  BY <1>5 DEF Submit
  <2> QED BY <1>1, <1>2, <2>1, <2>2 DEF CacheIsThere, ReadAgrees
<1>6. ASSUME NEW s \in Submissions, EndFormPass(s)  PROVE PassInv'
  <2>1. \A t \in Tasks : thread'[t] \in {"queued", thread[t]}
    BY <1>6 DEF EndFormPass, Queue
  <2>2. UNCHANGED <<hasCache, cache, result>> /\ form' = FormRead(s)  BY <1>6 DEF EndFormPass
  <2>3. CacheIsThere'  BY <1>1, <2>1, <2>2 DEF CacheIsThere
  <2>4. ASSUME NEW t \in Tasks, Undisturbed(t)  PROVE ReadAgrees(t)'
    <3>1. CASE t \in pages[s] /\ thread[t] = "done"
      <4>1. form'[t] = result[t]  BY <2>2, <3>1 DEF FormRead
      <4> QED BY <2>1, <2>2, <2>4, <3>1, <4>1 DEF ReadAgrees
    <3>2. CASE t \in pages[s] /\ thread[t] # "done"
      <4>1. thread[t] = "raised"  BY <1>6, <3>2 DEF EndFormPass, Ended
      <4>2. form'[t] = Nothing  BY <2>2, <3>2, <4>1 DEF FormRead
      <4> QED BY <2>1, <2>2, <4>1, <4>2 DEF ReadAgrees
    <3>3. CASE t \notin pages[s]
      <4>1. form'[t] = form[t]  BY <2>2, <3>3 DEF FormRead
      <4> QED BY <2>1, <2>2, <2>4, <4>1 DEF ReadAgrees
    <3> QED BY <3>1, <3>2, <3>3
  <2> QED BY <1>2, <2>3, <2>4
<1>7. ASSUME NEW s \in Submissions, EndPipelinePass(s)  PROVE PassInv'
  BY <1>1, <1>2, <1>7 DEF EndPipelinePass, CacheIsThere, ReadAgrees
<1> QED BY <1>3, <1>4, <1>5, <1>6, <1>7 DEF Next, HandlerStep

LEMMA PassInit == Init => PassInv
BY DEF Init, PassInv, CacheIsThere, ReadAgrees

\* For a page nobody else reads, in a process whose cache exists, the
\* decision is made on the fields the form was compared with.
THEOREM FormAndDecisionAgree == Spec => []FormSawWhatIsDecided
<1>1. SlotInv /\ PassInv /\ [Next]_vars => PassInv'  BY PassStep
<1>2. PassInv => FormSawWhatIsDecided
  BY DEF PassInv, ReadAgrees, FormSawWhatIsDecided
<1> QED BY SlotInvariant, PassInit, <1>1, <1>2, PTL DEF Spec

-----------------------------------------------------------------------------
(* What is decided on                                                      *)

\* A read of image i is of the class one of the two models names.
Named(i) == {Kind[i], Guess[i]}

\* Drafts, entries and results are reads of the image they are kept for.
OfItsPage ==
  /\ \A t \in Tasks : draft[t].class \in Named(Img(t))
  /\ \A i \in Images : cache[i] # Nothing => cache[i].class \in Named(i)
  /\ \A t \in Tasks :
       thread[t] = "done" => result[t] # Nothing /\ result[t].class \in Named(Img(t))

\* The threads of a submission that has been decided are done for good.
DecidedAreRead ==
  \A s \in Submissions : stage[s] = "decided" => \A t \in pages[s] : thread[t] = "done"

EveryPageInv == OfItsPage /\ DecidedAreRead

\* What the steps make of a draft keeps its class, or takes the one named.
LEMMA ClassKept ==
  ASSUME TypeOK, NEW t \in Tasks
  PROVE  /\ Blank(Img(t)).class = Guess[Img(t)] /\ LocalClass(Img(t)).class = Guess[Img(t)]
         /\ ReadOf(t).class = draft[t].class
         /\ \A f : [draft[t] EXCEPT !.fields = f].class = draft[t].class
<1>1. draft[t] \in Read  BY DEF TypeOK
<1>2. \A f : [draft[t] EXCEPT !.fields = f].class = draft[t].class  BY <1>1 DEF Read
<1> DEFINE d == [draft[t] EXCEPT
                   !.fields = ChosenFields(@, Answer(DonutShows, Img(t), draft[t].class))]
<1>3. d.class = draft[t].class  BY <1>2
<1>4. Patched(d, Img(t)).class = d.class
  <2> DEFINE new == d.fields \cup {"aadhaar_number"}
  <2>1. DOMAIN d = {"class", "marked", "fields"}  BY <1>1 DEF Read
  <2>2. [d EXCEPT !.fields = new].class = d.class
    <3> HIDE DEF d, new
    <3> QED BY <2>1
  <2> HIDE DEF d
  <2> QED BY <2>2 DEF Patched
<1> QED BY <1>2, <1>3, <1>4 DEF Blank, LocalClass, ReadOf

LEMMA EveryPageStep ==
  ASSUME SlotInv, EveryPageInv, [Next]_vars
  PROVE  EveryPageInv'
<1> USE DEF SlotInv, EveryPageInv
<1>1. CASE UNCHANGED vars
  BY <1>1 DEF vars, OfItsPage, DecidedAreRead
<1>2. ASSUME NEW t \in Tasks, ThreadStep(t) \/ Busy(t)  PROVE EveryPageInv'
  <2>1. DecidedAreRead'
    <3>1. thread[t] # "done" /\ \A u \in Tasks : u # t => thread'[u] = thread[u]
      BY <1>2 DEF ThreadStep, Begin, CreateCache, Hit, Miss, Acquire, ClassAnswered,
         ClassFailed, ReadText, FieldsAnswered, FieldsFailed, Raise, StoreRead, Busy,
         Goto, Holding, TypeOK
    <3>2. UNCHANGED <<stage, pages>>
      BY <1>2 DEF ThreadStep, Begin, CreateCache, Hit, Miss, Acquire, ClassAnswered,
         ClassFailed, ReadText, FieldsAnswered, FieldsFailed, Raise, StoreRead, Busy
    <3>3. \A s \in Submissions : pages[s] \subseteq Tasks  BY DEF TypeOK, TasksOf
    <3> QED BY <3>1, <3>2, <3>3 DEF DecidedAreRead
  <2>2. \A u \in Tasks : u # t => thread'[u] = thread[u] /\ result'[u] = result[u]
    BY <1>2 DEF ThreadStep, Begin, CreateCache, Hit, Miss, Acquire, ClassAnswered,
       ClassFailed, ReadText, FieldsAnswered, FieldsFailed, Raise, StoreRead, Busy,
       Goto, TypeOK
  <2>3. \A u \in Tasks : u # t => draft'[u] = draft[u]
    BY <1>2 DEF ThreadStep, Begin, CreateCache, Hit, Miss, Acquire, ClassAnswered,
       ClassFailed, ReadText, FieldsAnswered, FieldsFailed, Raise, StoreRead, Busy, TypeOK
  <2>i. Img(t) \in Images  BY TaskImage
  <2>4. draft'[t].class \in Named(Img(t))
    <3>1. CASE draft' = draft  BY <3>1 DEF OfItsPage
    <3>2. CASE Miss(t)  BY <3>2, ClassKept DEF Miss, TypeOK, Named
    <3>3. CASE Raise(t) \/ StoreRead(t)
      BY <3>3, ClassKept DEF Raise, StoreRead, TypeOK, Named
    <3>4. CASE ClassAnswered(t)
      <4>1. CASE Kind[Img(t)] = Unknown  BY <3>4, <4>1 DEF ClassAnswered, OfItsPage, TypeOK
      <4>2. CASE Kind[Img(t)] # Unknown
        <5>1. draft'[t] = [draft[t] EXCEPT !.class = Kind[Img(t)], !.marked = FALSE]
          BY <3>4, <4>2 DEF ClassAnswered, TypeOK
        <5>2. draft[t] \in Read  BY DEF TypeOK
        <5> QED BY <5>1, <5>2 DEF Read, Named
      <4> QED BY <4>1, <4>2
    <3>5. CASE ReadText(t) \/ FieldsAnswered(t)
      <4>1. \E f : draft' = [draft EXCEPT ![t].fields = f]
        BY <3>5 DEF ReadText, FieldsAnswered
      <4>2. PICK f : draft' = [draft EXCEPT ![t].fields = f]  BY <4>1
      <4>3. draft'[t] = [draft[t] EXCEPT !.fields = f]  BY <4>2 DEF TypeOK
      <4> QED BY <4>3, ClassKept DEF OfItsPage
    <3> QED BY <1>2, <3>1, <3>2, <3>3, <3>4, <3>5
            DEF ThreadStep, Begin, CreateCache, Hit, Acquire, ClassFailed, FieldsFailed, Busy
  <2>5. \A i \in Images : cache'[i] # Nothing => cache'[i].class \in Named(i)
    <3>1. CASE cache' = cache  BY <3>1 DEF OfItsPage
    <3>2. CASE CreateCache(t)  BY <3>2 DEF CreateCache
    <3>3. CASE StoreRead(t)  BY <3>3, ClassKept DEF StoreRead, OfItsPage, TypeOK
    <3> QED BY <1>2, <3>1, <3>2, <3>3
            DEF ThreadStep, Begin, Hit, Miss, Acquire, ClassAnswered, ClassFailed,
                ReadText, FieldsAnswered, FieldsFailed, Raise, Busy
  <2>6. thread'[t] = "done" => result'[t] # Nothing /\ result'[t].class \in Named(Img(t))
    <3>1. CASE Hit(t)  BY <2>i, <3>1 DEF Hit, OfItsPage, TypeOK
    <3>2. CASE StoreRead(t)
      <4>1. ReadOf(t) # Nothing  BY ReadTypes, NothingIsNoRead
      <4> QED BY <3>2, <4>1, ClassKept DEF StoreRead, OfItsPage, TypeOK
    <3>3. CASE ~(Hit(t) \/ StoreRead(t))
      BY <1>2, <3>3 DEF ThreadStep, Begin, CreateCache, Miss, Acquire, ClassAnswered,
         ClassFailed, ReadText, FieldsAnswered, FieldsFailed, Raise, Busy, Goto, Holding,
         TypeOK
    <3> QED BY <3>1, <3>2, <3>3
  <2> QED BY <2>1, <2>2, <2>3, <2>4, <2>5, <2>6 DEF OfItsPage
<1>3. ASSUME NEW s \in Submissions, Submit(s) \/ EndFormPass(s)  PROVE EveryPageInv'
  <2>1. /\ \A t \in Tasks : thread'[t] \in {"queued", thread[t]}
        /\ \A t \in Tasks : t[1] # s => thread'[t] = thread[t]
    BY <1>3 DEF Submit, EndFormPass, Queue, TasksOf, TypeOK
  <2>2. UNCHANGED <<draft, cache, result>>  BY <1>3 DEF Submit, EndFormPass
  <2>3. OfItsPage'  BY <2>1, <2>2 DEF OfItsPage
  <2>4. DecidedAreRead'
    <3>1. stage'[s] # "decided" /\ \A z \in Submissions : z # s => stage'[z] = stage[z]
      BY <1>3 DEF Submit, EndFormPass, TypeOK
    <3>2. \A z \in Submissions : z # s => pages'[z] = pages[z]
      BY <1>3 DEF Submit, EndFormPass, TypeOK
    <3>3. \A z \in Submissions : \A t \in pages[z] : t \in Tasks /\ t[1] = z
      BY DEF TypeOK, TasksOf
    <3> QED BY <2>1, <3>1, <3>2, <3>3 DEF DecidedAreRead
  <2> QED BY <2>3, <2>4
<1>4. ASSUME NEW s \in Submissions, EndPipelinePass(s)  PROVE EveryPageInv'
  <2>1. UNCHANGED <<pages, thread, draft, cache, result>>  BY <1>4 DEF EndPipelinePass
  <2>2. stage'[s] = "decided" => \A t \in pages[s] : thread[t] = "done"
    BY <1>4 DEF EndPipelinePass, Ended, Raised, TypeOK
  <2>3. \A z \in Submissions : z # s => stage'[z] = stage[z]
    BY <1>4 DEF EndPipelinePass, TypeOK
  <2> QED BY <2>1, <2>2, <2>3 DEF OfItsPage, DecidedAreRead
<1> QED BY <1>1, <1>2, <1>3, <1>4 DEF Next, HandlerStep

\* A decision rests on a read of every page, of a class that was named for that
\* very page: no thread that failed or is still reading, no entry of another
\* page, and no second submission of the same image makes it otherwise.
THEOREM DecisionsReadEveryPage == Spec => []DecidedOnEveryPage
<1>1. Init => EveryPageInv
  <2> SUFFICES ASSUME Init PROVE OfItsPage /\ DecidedAreRead  BY DEF EveryPageInv
  <2>1. \A t \in Tasks : draft[t].class \in Named(Img(t))  BY DEF Init, Blank, Named
  <2> QED BY <2>1 DEF Init, OfItsPage, DecidedAreRead
<1>2. SlotInv /\ EveryPageInv /\ [Next]_vars => EveryPageInv'  BY EveryPageStep
<1>3. SlotInv /\ EveryPageInv => DecidedOnEveryPage
  BY DEF SlotInv, TypeOK, TasksOf, EveryPageInv, OfItsPage, DecidedAreRead,
     DecidedOnEveryPage, Named
<1> QED BY SlotInvariant, <1>1, <1>2, <1>3, PTL DEF Spec
=============================================================================
