------------------------- MODULE ReviewConsoleProofs -------------------------
(***************************************************************************)
(* Theorems about ReviewConsole, for any applications, scenarios,          *)
(* reviewers, bounds and failure assumptions.                              *)
(***************************************************************************)
EXTENDS ReviewConsole, SequenceTheorems, TLAPS

\* Replacing an element of a sequence by another of the same kind keeps its
\* type and its length.
LEMMA ReplaceInSeq ==
  ASSUME NEW S, NEW s \in Seq(S), NEW i \in DOMAIN s, NEW x \in S
  PROVE  /\ [s EXCEPT ![i] = x] \in Seq(S)
         /\ Len([s EXCEPT ![i] = x]) = Len(s)
         /\ DOMAIN [s EXCEPT ![i] = x] = DOMAIN s
BY ExceptSeq

\* The status a verdict produces is a review status of the reviewed kind, and
\* the verdict is among those that produce it.
LEMMA StatusOfVerdict ==
  ASSUME NEW d \in OverrideDecision
  PROVE  /\ StatusOf(d) \in Reviewed
         /\ StatusOf(d) \in ReviewStatus
         /\ d \in VerdictsFor(StatusOf(d))
BY DEF StatusOf, OverrideDecision, Reviewed, ReviewStatus, VerdictsFor

LEMMA NewCaseType == NewCase \in ReviewCase
BY DEF NewCase, ReviewCase, ReviewStatus

\* Appending a new case to the queue of an application keeps the queue typed.
LEMMA AppendCaseType ==
  ASSUME TypeOK, NEW a \in Applications,
         cases' = [cases EXCEPT ![a] = Append(@, NewCase)]
  PROVE  cases' \in [Applications -> Seq(ReviewCase)]
<1>1. cases[a] \in Seq(ReviewCase)
  BY DEF TypeOK
<1>2. Append(cases[a], NewCase) \in Seq(ReviewCase)
  BY <1>1, NewCaseType, AppendProperties
<1>. QED
  BY <1>2 DEF TypeOK

\* submit_override keeps the queue and the list of overrides typed, and leaves
\* the status of the verdict on the case.
LEMMA SubmitOverrideType ==
  ASSUME TypeOK, NEW a \in Applications, NEW i \in DOMAIN cases[a],
         NEW d \in OverrideDecision, SubmitOverride(a, i, d)
  PROVE  /\ cases' \in [Applications -> Seq(ReviewCase)]
         /\ overrides' \in [Applications -> Seq(OverrideRecord)]
         /\ cases'[a][i].status = StatusOf(d)
         /\ Len(overrides'[a]) = Len(overrides[a]) + 1
<1>1. cases[a] \in Seq(ReviewCase) /\ overrides[a] \in Seq(OverrideRecord)
  BY DEF TypeOK
<1>2. cases[a][i] \in ReviewCase /\ i \in Nat
  BY <1>1, ElementOfSeq, LenProperties
<1> DEFINE c == [cases[a][i] EXCEPT !.status = StatusOf(d)]
           o == [case |-> i, decision |-> d]
<1>3. c \in ReviewCase /\ c.status = StatusOf(d)
  BY <1>2, StatusOfVerdict DEF ReviewCase
<1>4. o \in OverrideRecord
  BY <1>2 DEF OverrideRecord
<1>5. cases' = [cases EXCEPT ![a] = [cases[a] EXCEPT ![i] = c]]
  BY DEF SubmitOverride
<1> HIDE DEF c
<1>6. [cases[a] EXCEPT ![i] = c] \in Seq(ReviewCase)
  BY <1>1, <1>3, ReplaceInSeq
<1>7. cases' \in [Applications -> Seq(ReviewCase)] /\ cases'[a][i] = c
  BY <1>1, <1>5, <1>6 DEF TypeOK
<1>8. overrides' = [overrides EXCEPT ![a] = Append(overrides[a], o)]
  BY DEF SubmitOverride
<1> HIDE DEF o
<1>9. Append(overrides[a], o) \in Seq(OverrideRecord)
      /\ Len(Append(overrides[a], o)) = Len(overrides[a]) + 1
  BY <1>1, <1>4, AppendProperties
<1>10. overrides' \in [Applications -> Seq(OverrideRecord)]
       /\ Len(overrides'[a]) = Len(overrides[a]) + 1
  BY <1>8, <1>9 DEF TypeOK
<1>. QED
  BY <1>3, <1>7, <1>10

\* The save request of a submitted override is typed and names the override
\* that was just recorded.
LEMMA SaveRequestType ==
  ASSUME TypeOK, NEW a \in Applications, NEW i \in DOMAIN cases[a],
         NEW d \in OverrideDecision, SubmitOverride(a, i, d),
         Len(overrides[a]) < MaxOverrides
  PROVE  /\ SaveRequestOf(a, i, d) \in SaveRequest
         /\ SaveRequestOf(a, i, d).app = a
         /\ SaveRequestOf(a, i, d).index = Len(overrides[a]) + 1
         /\ SaveRequestOf(a, i, d).decision = d
         /\ SaveRequestOf(a, i, d).status = StatusOf(d)
<1>1. cases'[a][i].status = StatusOf(d)
  BY SubmitOverrideType
<1>2. Len(overrides[a]) \in Nat
  BY LenProperties DEF TypeOK
<1>3. Len(overrides[a]) + 1 \in 1..MaxOverrides
  BY <1>2, ConsoleAssumption
<1>. QED
  BY <1>1, <1>3, StatusOfVerdict DEF SaveRequestOf, SaveRequest

\* Either override endpoint submits the override and awaits its save.
Override(a, i, d) ==
  /\ Len(overrides[a]) < MaxOverrides
  /\ SubmitOverride(a, i, d)
  /\ saving' = saving \cup {SaveRequestOf(a, i, d)}
  /\ UNCHANGED <<phase, seeded, durable, crashes>>

LEMMA EndpointsOverride ==
  ASSUME NEW a, NEW i, NEW d, OverrideByApi(a, i, d) \/ OverrideByUi(a, i, d)
  PROVE  Override(a, i, d)
BY DEF OverrideByApi, OverrideByUi, Override

-----------------------------------------------------------------------------

\* Type correctness of the console.
THEOREM TypeCorrect == Spec => []TypeOK
<1>1. Init => TypeOK
  BY ConsoleAssumption DEF Init, TypeOK
<1>2. TypeOK /\ [Next]_vars => TypeOK'
  <2> SUFFICES ASSUME TypeOK, [Next]_vars PROVE TypeOK'
    OBVIOUS
  <2>1. CASE Rehydrate
    <3>1. \A a \in Applications :
            [NewCase EXCEPT !.status = ToReviewStatus(row[a])] \in ReviewCase
      BY NewCaseType DEF ReviewCase, ToReviewStatus, ReviewStatus, NewCase
    <3>2. cases' \in [Applications -> Seq(ReviewCase)]
      BY <2>1, <3>1 DEF Rehydrate
    <3>. QED
      BY <2>1, <3>2 DEF Rehydrate, TypeOK, durable
  <2>2. CASE BeginSeeding
    BY <2>2, ConsoleAssumption, LenProperties DEF BeginSeeding, TypeOK, memory, durable
  <2>3. CASE SeedScenario
    <3>1. Len(Scenarios) \in Nat /\ seeded + 1 \in 1..Len(Scenarios)
      BY <2>3, ConsoleAssumption, LenProperties DEF SeedScenario, TypeOK
    <3>2. Scenarios[seeded + 1] \in Applications
      BY <3>1, ConsoleAssumption, ElementOfSeq
    <3>3. cases' \in [Applications -> Seq(ReviewCase)]
      BY <2>3, <3>2, AppendCaseType DEF SeedScenario
    <3>4. row' \in [Applications -> {"none"} \cup ReviewStatus]
      BY <2>3, <3>2 DEF SeedScenario, SaveDecision, TypeOK, ReviewStatus
    <3>. QED
      BY <2>3, <3>1, <3>3, <3>4 DEF SeedScenario, TypeOK
  <2>4. CASE FinishSeeding
    BY <2>4, ConsoleAssumption, LenProperties DEF FinishSeeding, TypeOK, memory, durable
  <2>5. ASSUME NEW a \in Applications, CreateReviewCase(a)
        PROVE  TypeOK'
    BY <2>5, AppendCaseType DEF CreateReviewCase, TypeOK, durable
  <2>6. ASSUME NEW a \in Applications, NEW i \in DOMAIN cases[a],
               NEW r \in Reviewers, AssignCase(a, i, r)
        PROVE  TypeOK'
    <3> DEFINE c == [status |-> "in_progress", assigned_to |-> r]
    <3>1. c \in ReviewCase
      BY DEF ReviewCase, ReviewStatus
    <3>2. cases' = [cases EXCEPT ![a] = [cases[a] EXCEPT ![i] = c]]
      BY <2>6 DEF AssignCase
    <3> HIDE DEF c
    <3>3. [cases[a] EXCEPT ![i] = c] \in Seq(ReviewCase)
      BY <3>1, ReplaceInSeq DEF TypeOK
    <3>4. cases' \in [Applications -> Seq(ReviewCase)]
      BY <3>2, <3>3 DEF TypeOK
    <3>. QED
      BY <2>6, <3>4 DEF AssignCase, TypeOK, durable
  <2>7. ASSUME NEW a \in Applications, NEW i \in DOMAIN cases[a],
               NEW d \in OverrideDecision, Override(a, i, d)
        PROVE  TypeOK'
    <3>1. SubmitOverride(a, i, d) /\ Len(overrides[a]) < MaxOverrides
      BY <2>7 DEF Override
    <3>2. saving' \in SUBSET SaveRequest
      BY <2>7, <3>1, SaveRequestType DEF Override, TypeOK
    <3>. QED
      BY <2>7, <3>1, <3>2, SubmitOverrideType DEF Override, TypeOK, durable
  <2>8. ASSUME NEW s \in saving, CommitOverride(s)
        PROVE  TypeOK'
    <3>1. s.app \in Applications /\ s.decision \in OverrideDecision
          /\ s.status \in ReviewStatus
      BY DEF TypeOK, SaveRequest
    <3>. QED
      BY <2>8, <3>1 DEF CommitOverride, TypeOK
  <2>9. ASSUME NEW s \in saving, DropOverride(s)
        PROVE  TypeOK'
    BY <2>9 DEF DropOverride, TypeOK, durable
  <2>10. CASE Crash
    BY <2>10, ConsoleAssumption, LenProperties DEF Crash, TypeOK, durable
  <2>11. CASE UNCHANGED vars
    BY <2>11 DEF vars, memory, durable, TypeOK
  <2>. QED
    BY <2>1, <2>2, <2>3, <2>4, <2>5, <2>6, <2>7, <2>8, <2>9, <2>10, <2>11,
       EndpointsOverride DEF Next, Startup, Request, SettleSave
<1>. QED
  BY <1>1, <1>2, PTL DEF Spec

-----------------------------------------------------------------------------
(* The inductive invariant of the status justification.  CaseJustified     *)
(* alone is not inductive: a restart copies statuses out of Postgres       *)
(* (RowJustified), and the rows get theirs from saves that were suspended  *)
(* while other handlers ran (SavesMatchOverrides).                         *)
Justified == TypeOK /\ RowJustified /\ CaseJustified /\ SavesMatchOverrides

\* Where the queue and the overrides are as before, and no verdict left
\* Postgres, the cases stay justified.
LEMMA CasesStayJustified ==
  ASSUME TypeOK, CaseJustified, UNCHANGED <<cases, overrides>>,
         \A a \in Applications : dbOverrides[a] \subseteq dbOverrides'[a]
  PROVE  CaseJustified'
BY DEF CaseJustified, VerdictsFor

\* A new pending case needs no justification and takes none away.
LEMMA NewCaseJustified ==
  ASSUME TypeOK, CaseJustified, NEW a \in Applications,
         cases' = [cases EXCEPT ![a] = Append(@, NewCase)],
         UNCHANGED <<overrides, dbOverrides>>
  PROVE  CaseJustified'
<1> SUFFICES ASSUME NEW b \in Applications, NEW i \in DOMAIN cases'[b],
                    cases'[b][i].status \in Reviewed
             PROVE  i \in DOMAIN cases[b] /\ cases'[b][i] = cases[b][i]
  BY DEF CaseJustified, VerdictsFor
<1>1. CASE b # a
  BY <1>1 DEF TypeOK
<1>2. CASE b = a
  <2>1. cases'[b] = Append(cases[b], NewCase) /\ cases[b] \in Seq(ReviewCase)
    BY <1>2 DEF TypeOK
  <2>2. /\ Len(cases[b]) \in Nat
        /\ DOMAIN cases[b] = 1..Len(cases[b])
        /\ DOMAIN cases'[b] = 1..(Len(cases[b]) + 1)
        /\ \A j \in 1..Len(cases[b]) : cases'[b][j] = cases[b][j]
        /\ cases'[b][Len(cases[b]) + 1] = NewCase
    BY <2>1, NewCaseType, AppendProperties, LenProperties
  <2>3. NewCase.status \notin Reviewed
    BY DEF NewCase, Reviewed
  <2>. QED
    BY <2>2, <2>3
<1>. QED
  BY <1>1, <1>2

\* submit_override: the effect on the other cases and on the recorded
\* overrides.
LEMMA SubmitOverrideEffect ==
  ASSUME TypeOK, NEW a \in Applications, NEW i \in DOMAIN cases[a],
         NEW d \in OverrideDecision, SubmitOverride(a, i, d)
  PROVE  /\ \A b \in Applications : DOMAIN cases'[b] = DOMAIN cases[b]
         /\ \A b \in Applications : \A j \in DOMAIN cases[b] :
              (b # a \/ j # i) => cases'[b][j] = cases[b][j]
         /\ \A b \in Applications : \A k \in DOMAIN overrides[b] :
              /\ k \in DOMAIN overrides'[b]
              /\ overrides'[b][k] = overrides[b][k]
         /\ Len(overrides[a]) + 1 \in DOMAIN overrides'[a]
         /\ overrides'[a][Len(overrides[a]) + 1] = [case |-> i, decision |-> d]
         /\ \A k \in DOMAIN overrides'[a] :
              k \in DOMAIN overrides[a] \/ k = Len(overrides[a]) + 1
         /\ DOMAIN overrides[a] = 1..Len(overrides[a])
         /\ \A b \in Applications : b # a => overrides'[b] = overrides[b]
<1> DEFINE c == [cases[a][i] EXCEPT !.status = StatusOf(d)]
           o == [case |-> i, decision |-> d]
<1>1. /\ cases[a] \in Seq(ReviewCase) /\ overrides[a] \in Seq(OverrideRecord)
      /\ Len(overrides[a]) \in Nat /\ DOMAIN overrides[a] = 1..Len(overrides[a])
      /\ i \in Nat
  BY LenProperties DEF TypeOK
<1>2. o \in OverrideRecord
  BY <1>1 DEF OverrideRecord
<1>3. cases' = [cases EXCEPT ![a] = [cases[a] EXCEPT ![i] = c]]
      /\ overrides' = [overrides EXCEPT ![a] = Append(overrides[a], o)]
  BY DEF SubmitOverride
<1> HIDE DEF c
<1>4. \A b \in Applications : DOMAIN cases'[b] = DOMAIN cases[b]
  BY <1>1, <1>3 DEF TypeOK
<1>5. \A b \in Applications : \A j \in DOMAIN cases[b] :
        (b # a \/ j # i) => cases'[b][j] = cases[b][j]
  BY <1>1, <1>3 DEF TypeOK
<1> HIDE DEF o
<1>6. /\ Append(overrides[a], o) \in Seq(OverrideRecord)
      /\ Len(Append(overrides[a], o)) = Len(overrides[a]) + 1
      /\ DOMAIN Append(overrides[a], o) = 1..(Len(overrides[a]) + 1)
      /\ \A k \in 1..Len(overrides[a]) : Append(overrides[a], o)[k] = overrides[a][k]
      /\ Append(overrides[a], o)[Len(overrides[a]) + 1] = o
  BY <1>1, <1>2, AppendProperties, LenProperties
<1>7. overrides'[a] = Append(overrides[a], o)
      /\ \A b \in Applications : b # a => overrides'[b] = overrides[b]
  BY <1>3 DEF TypeOK
<1> DEFINE n == Len(overrides[a])
<1>8. /\ n \in Nat /\ DOMAIN overrides[a] = 1..n /\ DOMAIN overrides'[a] = 1..(n + 1)
      /\ \A k \in 1..n : overrides'[a][k] = overrides[a][k]
      /\ overrides'[a][n + 1] = o
  BY <1>1, <1>6, <1>7
<1> HIDE DEF n
<1>9. \A b \in Applications : \A k \in DOMAIN overrides[b] :
        k \in DOMAIN overrides'[b] /\ overrides'[b][k] = overrides[b][k]
  BY <1>7, <1>8
<1>10. /\ n + 1 \in DOMAIN overrides'[a]
       /\ \A k \in DOMAIN overrides'[a] : k \in DOMAIN overrides[a] \/ k = n + 1
  BY <1>8
<1>. QED
  BY <1>4, <1>5, <1>7, <1>8, <1>9, <1>10 DEF o, n

\* An override of either endpoint preserves the invariant: the overridden case
\* is justified by the record just made, the others by what they had.
LEMMA OverrideKeepsJustified ==
  ASSUME Justified, NEW a \in Applications, NEW i \in DOMAIN cases[a],
         NEW d \in OverrideDecision, Override(a, i, d)
  PROVE  RowJustified' /\ CaseJustified' /\ SavesMatchOverrides'
<1>0. TypeOK /\ RowJustified /\ CaseJustified /\ SavesMatchOverrides
  BY DEF Justified
<1>1. SubmitOverride(a, i, d) /\ Len(overrides[a]) < MaxOverrides
      /\ UNCHANGED <<row, dbOverrides>>
      /\ saving' = saving \cup {SaveRequestOf(a, i, d)}
  BY DEF Override, durable
<1>2. cases'[a][i].status = StatusOf(d)
  BY <1>0, <1>1, SubmitOverrideType
<1> DEFINE new == Len(overrides[a]) + 1
<1>e. /\ \A b \in Applications : DOMAIN cases'[b] = DOMAIN cases[b]
      /\ \A b \in Applications : \A j \in DOMAIN cases[b] :
           (b # a \/ j # i) => cases'[b][j] = cases[b][j]
      /\ \A b \in Applications : \A k \in DOMAIN overrides[b] :
           k \in DOMAIN overrides'[b] /\ overrides'[b][k] = overrides[b][k]
      /\ new \in DOMAIN overrides'[a]
      /\ overrides'[a][new] = [case |-> i, decision |-> d]
  BY <1>0, <1>1, SubmitOverrideEffect
<1>q. /\ SaveRequestOf(a, i, d).app = a
      /\ SaveRequestOf(a, i, d).index = new
      /\ SaveRequestOf(a, i, d).decision = d
      /\ SaveRequestOf(a, i, d).status = StatusOf(d)
  BY <1>0, <1>1, SaveRequestType
<1> HIDE DEF new
<1>3. RowJustified'
  BY <1>0, <1>1 DEF RowJustified, VerdictsFor
<1>4. CaseJustified'
  <2> SUFFICES ASSUME NEW b \in Applications, NEW j \in DOMAIN cases'[b],
                      cases'[b][j].status \in Reviewed
               PROVE  \/ \E k \in DOMAIN overrides'[b] :
                           /\ overrides'[b][k].case = j
                           /\ overrides'[b][k].decision \in VerdictsFor(cases'[b][j].status)
                      \/ dbOverrides'[b] \cap VerdictsFor(cases'[b][j].status) # {}
    BY DEF CaseJustified, VerdictsFor
  <2>1. CASE b = a /\ j = i
    <3>1. new \in DOMAIN overrides'[a] /\ overrides'[a][new].case = i
          /\ overrides'[a][new].decision = d
      BY <1>e
    <3>2. d \in VerdictsFor(cases'[a][i].status)
      BY <1>2, StatusOfVerdict
    <3>. QED
      BY <2>1, <3>1, <3>2
  <2>2. CASE b # a \/ j # i
    <3>1. j \in DOMAIN cases[b] /\ cases'[b][j] = cases[b][j]
      BY <1>e, <2>2
    <3>2. \A k \in DOMAIN overrides[b] :
            k \in DOMAIN overrides'[b] /\ overrides'[b][k] = overrides[b][k]
      BY <1>e
    <3>. QED
      BY <1>0, <1>1, <3>1, <3>2 DEF CaseJustified
  <2>. QED
    BY <2>1, <2>2
<1>5. SavesMatchOverrides'
  <2> SUFFICES ASSUME NEW s \in saving'
               PROVE  /\ s.index \in DOMAIN overrides'[s.app]
                      /\ overrides'[s.app][s.index].decision = s.decision
                      /\ s.status = StatusOf(s.decision)
    BY DEF SavesMatchOverrides, StatusOf
  <2>1. CASE s \in saving
    <3>1. s.app \in Applications
      BY <1>0, <2>1 DEF TypeOK, SaveRequest
    <3>2. s.index \in DOMAIN overrides[s.app]
          /\ overrides[s.app][s.index].decision = s.decision
          /\ s.status = StatusOf(s.decision)
      BY <1>0, <2>1 DEF SavesMatchOverrides
    <3>. QED
      BY <1>e, <3>1, <3>2
  <2>2. CASE s = SaveRequestOf(a, i, d)
    BY <1>e, <1>q, <2>2
  <2>. QED
    BY <1>1, <2>1, <2>2
<1>. QED
  BY <1>3, <1>4, <1>5

\* Every step of the console preserves the invariant, given its type
\* correctness after the step.
LEMMA JustifiedStep ==
  ASSUME Justified, TypeOK', [Next]_vars
  PROVE  Justified'
<1>0. TypeOK /\ RowJustified /\ CaseJustified /\ SavesMatchOverrides
  BY DEF Justified
<1> SUFFICES RowJustified' /\ CaseJustified' /\ SavesMatchOverrides'
  BY DEF Justified
<1>1. CASE Rehydrate
  <2>1. UNCHANGED <<overrides, saving, row, dbOverrides>>
    BY <1>1 DEF Rehydrate, durable
  <2>2. ASSUME NEW a \in Applications, NEW i \in DOMAIN cases'[a],
               cases'[a][i].status \in Reviewed
        PROVE  cases'[a][i].status = row[a]
    <3>1. cases'[a] = IF a \in Registered
                        THEN <<[NewCase EXCEPT !.status = ToReviewStatus(row[a])]>>
                        ELSE <<>>
      BY <1>1 DEF Rehydrate
    <3>2. cases'[a] # <<>> /\ i = 1 /\ a \in Registered
      BY <3>1, <2>2
    <3>3. cases'[a][i].status = ToReviewStatus(row[a])
      BY <3>1, <3>2 DEF NewCase
    <3>4. ToReviewStatus(row[a]) = row[a]
      BY <1>0, <3>2 DEF Registered, TypeOK, ToReviewStatus
    <3>. QED
      BY <3>3, <3>4
  <2>3. CaseJustified'
    BY <1>0, <2>1, <2>2 DEF CaseJustified, RowJustified, VerdictsFor
  <2>. QED
    BY <1>0, <2>1, <2>3 DEF RowJustified, SavesMatchOverrides, VerdictsFor
<1>2. CASE BeginSeeding \/ FinishSeeding
  <2>1. UNCHANGED <<cases, overrides, saving, row, dbOverrides>>
    BY <1>2 DEF BeginSeeding, FinishSeeding, memory, durable
  <2>. QED
    BY <1>0, <2>1, CasesStayJustified DEF RowJustified, SavesMatchOverrides, VerdictsFor
<1>3. CASE SeedScenario
  <2> DEFINE a == Scenarios[seeded + 1]
  <2>1. a \in Applications
    BY <1>0, <1>3, ConsoleAssumption, ElementOfSeq, LenProperties DEF SeedScenario, TypeOK
  <2>2. /\ cases' = [cases EXCEPT ![a] = Append(@, NewCase)]
        /\ row' = [row EXCEPT ![a] = "pending"] \/ row' = row
        /\ UNCHANGED <<overrides, saving, dbOverrides>>
    BY <1>3 DEF SeedScenario, SaveDecision
  <2> HIDE DEF a
  <2>3. CaseJustified'
    BY <1>0, <2>1, <2>2, NewCaseJustified
  <2>4. RowJustified'
    BY <1>0, <2>1, <2>2 DEF RowJustified, TypeOK, Reviewed, VerdictsFor
  <2>. QED
    BY <1>0, <2>2, <2>3, <2>4 DEF SavesMatchOverrides
<1>4. ASSUME NEW a \in Applications, CreateReviewCase(a)
      PROVE  RowJustified' /\ CaseJustified' /\ SavesMatchOverrides'
  <2>1. /\ cases' = [cases EXCEPT ![a] = Append(@, NewCase)]
        /\ UNCHANGED <<overrides, saving, row, dbOverrides>>
    BY <1>4 DEF CreateReviewCase, durable
  <2>. QED
    BY <1>0, <2>1, NewCaseJustified DEF RowJustified, SavesMatchOverrides, VerdictsFor
<1>5. ASSUME NEW a \in Applications, NEW i \in DOMAIN cases[a],
             NEW r \in Reviewers, AssignCase(a, i, r)
      PROVE  RowJustified' /\ CaseJustified' /\ SavesMatchOverrides'
  <2>1. /\ cases' = [cases EXCEPT ![a][i] = [status |-> "in_progress", assigned_to |-> r]]
        /\ UNCHANGED <<overrides, saving, row, dbOverrides>>
    BY <1>5 DEF AssignCase, durable
  <2>2. \A b \in Applications : \A j \in DOMAIN cases'[b] :
          cases'[b][j].status \in Reviewed =>
            j \in DOMAIN cases[b] /\ cases'[b][j] = cases[b][j]
    BY <1>0, <2>1 DEF TypeOK, Reviewed
  <2>3. CaseJustified'
    BY <1>0, <2>1, <2>2 DEF CaseJustified, VerdictsFor
  <2>. QED
    BY <1>0, <2>1, <2>3 DEF RowJustified, SavesMatchOverrides, VerdictsFor
<1>6. ASSUME NEW a \in Applications, NEW i \in DOMAIN cases[a],
             NEW d \in OverrideDecision, Override(a, i, d)
      PROVE  RowJustified' /\ CaseJustified' /\ SavesMatchOverrides'
  BY <1>6, OverrideKeepsJustified
<1>7. ASSUME NEW s \in saving, CommitOverride(s)
      PROVE  RowJustified' /\ CaseJustified' /\ SavesMatchOverrides'
  <2>1. s.app \in Applications /\ s.decision \in OverrideDecision
        /\ s.status = StatusOf(s.decision)
    BY <1>0 DEF TypeOK, SaveRequest, SavesMatchOverrides
  <2>2. /\ dbOverrides' = [dbOverrides EXCEPT ![s.app] = @ \cup {s.decision}]
        /\ row' = row \/ row' = [row EXCEPT ![s.app] = s.status]
        /\ saving' \subseteq saving
        /\ UNCHANGED <<cases, overrides>>
    BY <1>7 DEF CommitOverride
  <2>3. \A a \in Applications : dbOverrides[a] \subseteq dbOverrides'[a]
    BY <1>0, <2>1, <2>2 DEF TypeOK
  <2>4. CaseJustified'
    BY <1>0, <2>2, <2>3, CasesStayJustified
  <2>5. RowJustified'
    <3> SUFFICES ASSUME NEW a \in Applications, row'[a] \in Reviewed
                 PROVE  dbOverrides'[a] \cap VerdictsFor(row'[a]) # {}
      BY DEF RowJustified, VerdictsFor
    <3>1. CASE row'[a] = row[a]
      BY <1>0, <2>3, <3>1 DEF RowJustified
    <3>2. CASE a = s.app /\ row'[a] = s.status
      BY <1>0, <2>1, <2>2, <3>2, StatusOfVerdict DEF TypeOK
    <3>. QED
      BY <1>0, <2>1, <2>2, <3>1, <3>2 DEF TypeOK
  <2>. QED
    BY <1>0, <2>2, <2>4, <2>5 DEF SavesMatchOverrides
<1>8. ASSUME NEW s \in saving, DropOverride(s)
      PROVE  RowJustified' /\ CaseJustified' /\ SavesMatchOverrides'
  <2>1. saving' \subseteq saving /\ UNCHANGED <<cases, overrides, row, dbOverrides>>
    BY <1>8 DEF DropOverride, durable
  <2>. QED
    BY <1>0, <2>1, CasesStayJustified DEF RowJustified, SavesMatchOverrides, VerdictsFor
<1>9. CASE Crash
  <2>1. /\ cases' = [a \in Applications |-> <<>>] /\ saving' = {}
        /\ UNCHANGED <<row, dbOverrides>>
    BY <1>9 DEF Crash, durable
  <2>. QED
    BY <1>0, <2>1 DEF RowJustified, CaseJustified, SavesMatchOverrides, VerdictsFor
<1>10. CASE UNCHANGED vars
  BY <1>0, <1>10, CasesStayJustified
     DEF vars, memory, durable, RowJustified, SavesMatchOverrides, VerdictsFor
<1>. QED
  BY <1>1, <1>2, <1>3, <1>4, <1>5, <1>6, <1>7, <1>8, <1>9, <1>10, EndpointsOverride
     DEF Next, Startup, Request, SettleSave

\* No status without a verdict: what Postgres and the console show as completed
\* or escalated always rests on a recorded reviewer verdict of that kind.
THEOREM StatusJustified == Spec => [](RowJustified /\ CaseJustified)
<1>1. Init => Justified
  <2> SUFFICES ASSUME Init PROVE RowJustified /\ CaseJustified /\ SavesMatchOverrides /\ TypeOK
    BY DEF Justified
  <2>. QED
    BY ConsoleAssumption DEF Init, TypeOK, RowJustified, CaseJustified,
       SavesMatchOverrides, Reviewed
<1>2. Justified /\ TypeOK' /\ [Next]_vars => Justified'
  BY JustifiedStep
<1>3. Justified => RowJustified /\ CaseJustified
  BY DEF Justified
<1>. QED
  BY <1>1, <1>2, <1>3, TypeCorrect, PTL DEF Spec

\* The same for what the console shows, whether the case was ruled on in this
\* process or read back from Postgres by _rehydrate_from_db.
THEOREM CasesAreBacked == Spec => []CaseJustified
  BY StatusJustified, PTL

\* The saves that are pending always agree with the overrides they belong to.
THEOREM SavesMatch == Spec => []SavesMatchOverrides
<1>1. Init => Justified
  BY ConsoleAssumption DEF Init, TypeOK, RowJustified, CaseJustified,
     SavesMatchOverrides, Reviewed, Justified
<1>2. Justified /\ TypeOK' /\ [Next]_vars => Justified'
  BY JustifiedStep
<1>3. Justified => SavesMatchOverrides
  BY DEF Justified
<1>. QED
  BY <1>1, <1>2, <1>3, TypeCorrect, PTL DEF Spec

-----------------------------------------------------------------------------

\* The durable state of the console implements the review ledger: a start-up
\* that seeds registers, a committed save records its verdict together with the
\* status of that verdict, everything else leaves the ledger alone.
THEOREM ImplementsLedger == Spec => LedgerSpec
<1>1. Init => Ledger!Init
  BY DEF Init, Ledger!Init
<1>2. TypeOK /\ SavesMatchOverrides /\ [Next]_vars => [Ledger!Next]_(Ledger!vars)
  <2> SUFFICES ASSUME TypeOK, SavesMatchOverrides, [Next]_vars
               PROVE  Ledger!Next \/ UNCHANGED durable
    BY DEF Ledger!vars, durable
  <2>1. CASE SeedScenario
    <3>1. Scenarios[seeded + 1] \in Applications
      BY <2>1, ConsoleAssumption, ElementOfSeq, LenProperties DEF SeedScenario, TypeOK
    <3>2. Ledger!Register(Scenarios[seeded + 1]) \/ UNCHANGED durable
      BY <2>1 DEF SeedScenario, SaveDecision, durable, Ledger!Register
    <3>. QED
      BY <3>1, <3>2 DEF Ledger!Next
  <2>2. ASSUME NEW s \in saving, CommitOverride(s)
        PROVE  Ledger!Next
    <3>1. s.app \in Applications /\ s.decision \in Ledger!Verdict
      BY DEF TypeOK, SaveRequest, OverrideDecision, Ledger!Verdict
    <3>2. s.status = Ledger!StatusOf(s.decision)
      BY DEF SavesMatchOverrides, StatusOf, Ledger!StatusOf
    <3>3. Ledger!Record(s.app, s.decision)
      BY <2>2, <3>2 DEF CommitOverride, Ledger!Record
    <3>. QED
      BY <3>1, <3>3 DEF Ledger!Next
  <2>3. ASSUME NEW s \in saving, DropOverride(s)
        PROVE  UNCHANGED durable
    BY <2>3 DEF DropOverride
  <2>4. CASE Request
    BY <2>4, EndpointsOverride DEF Request, CreateReviewCase, AssignCase, Override
  <2>5. CASE Rehydrate \/ BeginSeeding \/ FinishSeeding \/ Crash \/ UNCHANGED vars
    BY <2>5 DEF Rehydrate, BeginSeeding, FinishSeeding, Crash, vars
  <2>. QED
    BY <2>1, <2>2, <2>3, <2>4, <2>5 DEF Next, Startup, SettleSave
<1>. QED
  BY <1>1, <1>2, TypeCorrect, SavesMatch, PTL DEF Spec, LedgerSpec, Ledger!Spec

-----------------------------------------------------------------------------
(* Start-up is over before a request can be saved; and where the database  *)
(* answers at start-up, seeding only ever runs on a store without reviews. *)
StartupSafe ==
  /\ phase # "serving" => saving = {}
  /\ ~LoadMayFail /\ phase = "seeding" => \A a \in Applications : row[a] \notin Reviewed

LEMMA StartupSafeStep ==
  ASSUME TypeOK, StartupSafe, [Next]_vars
  PROVE  StartupSafe'
<1> USE DEF StartupSafe
<1>1. CASE Rehydrate \/ FinishSeeding
  BY <1>1 DEF Rehydrate, FinishSeeding
<1>2. CASE BeginSeeding
  BY <1>2 DEF BeginSeeding, memory, durable, Registered, Reviewed
<1>3. CASE SeedScenario
  BY <1>3 DEF SeedScenario, SaveDecision, TypeOK, Reviewed
<1>4. CASE Request
  <2>1. phase = "serving" /\ phase' = phase
    BY <1>4, EndpointsOverride
       DEF Request, CreateReviewCase, AssignCase, OverrideByApi, OverrideByUi
  <2>. QED
    BY <2>1
<1>5. ASSUME NEW s \in saving, CommitOverride(s) \/ DropOverride(s)
      PROVE  StartupSafe'
  BY <1>5 DEF CommitOverride, DropOverride
<1>6. CASE Crash
  BY <1>6 DEF Crash
<1>7. CASE UNCHANGED vars
  BY <1>7 DEF vars, memory, durable, Reviewed
<1>. QED
  BY <1>1, <1>2, <1>3, <1>4, <1>5, <1>6, <1>7 DEF Next, Startup, SettleSave

\* Where the database can be reached at start-up, no restart and no later save
\* takes a reviewed application back to pending.
THEOREM ReviewIsKept ==
  ASSUME ~LoadMayFail
  PROVE  Spec => ReviewSurvives
<1>1. Init => StartupSafe
  BY DEF Init, StartupSafe
<1>2. TypeOK /\ StartupSafe /\ [Next]_vars => StartupSafe'
  BY StartupSafeStep
<1>3. TypeOK /\ SavesMatchOverrides /\ StartupSafe /\ [Next]_vars
        => [\A a \in Applications : row[a] \in Reviewed => row'[a] \in Reviewed]_vars
  <2> SUFFICES ASSUME TypeOK, SavesMatchOverrides, StartupSafe, Next,
                      NEW a \in Applications, row[a] \in Reviewed
               PROVE  row'[a] \in Reviewed
    OBVIOUS
  <2>1. CASE SeedScenario
    BY <2>1 DEF SeedScenario, SaveDecision, StartupSafe
  <2>2. ASSUME NEW s \in saving, CommitOverride(s)
        PROVE  row'[a] \in Reviewed
    <3>1. s.status \in Reviewed
      BY StatusOfVerdict DEF TypeOK, SaveRequest, SavesMatchOverrides
    <3>. QED
      BY <2>2, <3>1 DEF CommitOverride, TypeOK
  <2>3. CASE row' = row
    BY <2>3
  <2>. QED
    BY <2>1, <2>2, <2>3, EndpointsOverride
       DEF Next, Startup, Request, SettleSave, Rehydrate, BeginSeeding, FinishSeeding,
           CreateReviewCase, AssignCase, Override, DropOverride, Crash, durable
<1>. QED
  BY <1>1, <1>2, <1>3, TypeCorrect, SavesMatch, PTL DEF Spec, ReviewSurvives

-----------------------------------------------------------------------------

\* A new case is pending, so the queue keeps a reviewer on each case in
\* progress.
LEMMA QueueStaysOwned ==
  ASSUME TypeOK, InProgressHasReviewer, NEW a \in Applications,
         cases' = [cases EXCEPT ![a] = Append(@, NewCase)]
  PROVE  InProgressHasReviewer'
<1> SUFFICES ASSUME NEW b \in Applications, NEW i \in DOMAIN cases'[b],
                    cases'[b][i].status = "in_progress"
             PROVE  i \in DOMAIN cases[b] /\ cases'[b][i] = cases[b][i]
  BY DEF InProgressHasReviewer
<1>1. CASE b # a
  BY <1>1 DEF TypeOK
<1>2. CASE b = a
  <2>1. cases'[b] = Append(cases[b], NewCase) /\ cases[b] \in Seq(ReviewCase)
    BY <1>2 DEF TypeOK
  <2>2. /\ Len(cases[b]) \in Nat
        /\ DOMAIN cases[b] = 1..Len(cases[b])
        /\ DOMAIN cases'[b] = 1..(Len(cases[b]) + 1)
        /\ \A j \in 1..Len(cases[b]) : cases'[b][j] = cases[b][j]
        /\ cases'[b][Len(cases[b]) + 1] = NewCase
    BY <2>1, NewCaseType, AppendProperties, LenProperties
  <2>3. NewCase.status # "in_progress"
    BY DEF NewCase
  <2>. QED
    BY <2>2, <2>3
<1>. QED
  BY <1>1, <1>2

\* No restart, seeding or verdict brings up a case in progress without a
\* reviewer: the status is only ever set together with one, and Postgres never
\* holds it, since rows get their status from verdicts.
THEOREM InProgressIsOwned == Spec => []InProgressHasReviewer
<1> DEFINE Stored == \A a \in Applications : row[a] # "in_progress"
           Inv == InProgressHasReviewer /\ Stored
<1>1. Init => Inv
  BY DEF Init, InProgressHasReviewer
<1>2. TypeOK /\ SavesMatchOverrides /\ Inv /\ [Next]_vars => Inv'
  <2> SUFFICES ASSUME TypeOK, SavesMatchOverrides, Inv, [Next]_vars
               PROVE  InProgressHasReviewer' /\ Stored'
    OBVIOUS
  <2>1. CASE Rehydrate
    <3>1. ASSUME NEW a \in Applications, NEW i \in DOMAIN cases'[a]
          PROVE  cases'[a][i].status # "in_progress"
      <4>1. cases'[a] = IF a \in Registered
                          THEN <<[NewCase EXCEPT !.status = ToReviewStatus(row[a])]>>
                          ELSE <<>>
        BY <2>1 DEF Rehydrate
      <4>2. cases'[a] # <<>> /\ i = 1
        BY <4>1, <3>1
      <4>3. cases'[a][i].status = ToReviewStatus(row[a])
        BY <4>1, <4>2 DEF NewCase
      <4>. QED
        BY <4>3 DEF ToReviewStatus
    <3>. QED
      BY <2>1, <3>1 DEF InProgressHasReviewer, Rehydrate, durable
  <2>2. CASE SeedScenario
    <3> DEFINE a == Scenarios[seeded + 1]
    <3>1. a \in Applications
      BY <2>2, ConsoleAssumption, ElementOfSeq, LenProperties DEF SeedScenario, TypeOK
    <3>2. /\ cases' = [cases EXCEPT ![a] = Append(@, NewCase)]
          /\ row' = [row EXCEPT ![a] = "pending"] \/ row' = row
      BY <2>2 DEF SeedScenario, SaveDecision
    <3> HIDE DEF a
    <3>. QED
      BY <3>1, <3>2, QueueStaysOwned DEF TypeOK
  <2>3. ASSUME NEW a \in Applications, CreateReviewCase(a)
        PROVE  InProgressHasReviewer' /\ Stored'
    BY <2>3, QueueStaysOwned DEF CreateReviewCase, durable
  <2>4. ASSUME NEW a \in Applications, NEW i \in DOMAIN cases[a],
               NEW r \in Reviewers, AssignCase(a, i, r)
        PROVE  InProgressHasReviewer' /\ Stored'
    <3>1. r # NoOne
      BY ConsoleAssumption
    <3>. QED
      BY <2>4, <3>1 DEF AssignCase, InProgressHasReviewer, TypeOK, durable
  <2>5. ASSUME NEW a \in Applications, NEW i \in DOMAIN cases[a],
               NEW d \in OverrideDecision, Override(a, i, d)
        PROVE  InProgressHasReviewer' /\ Stored'
    <3>1. SubmitOverride(a, i, d) /\ row' = row
      BY <2>5 DEF Override, durable
    <3>2. cases'[a][i].status # "in_progress"
      BY <3>1, SubmitOverrideType, StatusOfVerdict DEF Reviewed
    <3>e. /\ \A b \in Applications : DOMAIN cases'[b] = DOMAIN cases[b]
          /\ \A b \in Applications : \A j \in DOMAIN cases[b] :
               (b # a \/ j # i) => cases'[b][j] = cases[b][j]
      BY <3>1, SubmitOverrideEffect
    <3>3. \A b \in Applications : \A j \in DOMAIN cases'[b] :
            \/ b = a /\ j = i
            \/ j \in DOMAIN cases[b] /\ cases'[b][j] = cases[b][j]
      BY <3>e
    <3>. QED
      BY <3>1, <3>2, <3>3 DEF InProgressHasReviewer
  <2>6. ASSUME NEW s \in saving, CommitOverride(s)
        PROVE  InProgressHasReviewer' /\ Stored'
    <3>1. s.status # "in_progress" /\ s.app \in Applications
      BY StatusOfVerdict DEF TypeOK, SaveRequest, SavesMatchOverrides, Reviewed
    <3>. QED
      BY <2>6, <3>1 DEF CommitOverride, TypeOK, InProgressHasReviewer
  <2>7. CASE Crash
    BY <2>7 DEF Crash, InProgressHasReviewer, durable
  <2>8. CASE UNCHANGED <<cases, row>>
    BY <2>8 DEF InProgressHasReviewer
  <2>. QED
    BY <2>1, <2>2, <2>3, <2>4, <2>5, <2>6, <2>7, <2>8, EndpointsOverride
       DEF Next, Startup, Request, SettleSave, BeginSeeding, FinishSeeding,
           DropOverride, vars, memory, durable
<1>3. Inv => InProgressHasReviewer
  OBVIOUS
<1>. QED
  BY <1>1, <1>2, <1>3, TypeCorrect, SavesMatch, PTL DEF Spec

-----------------------------------------------------------------------------
(* The latest verdict.  A new case is pending and a verdict only touches   *)
(* the case it is recorded for; the records of a process are gone when the *)
(* statuses are read back.                                                 *)
FreshStart == phase # "serving" => \A a \in Applications : overrides[a] = <<>>
LatestInv  == FreshStart /\ StatusFollowsLatestOverride

\* Where the records are unchanged and every reviewed case is as before, the
\* statuses still follow the latest verdicts.
LEMMA LatestStays ==
  ASSUME StatusFollowsLatestOverride, UNCHANGED overrides,
         \A a \in Applications : \A i \in DOMAIN cases'[a] :
           cases'[a][i].status \in Reviewed =>
             i \in DOMAIN cases[a] /\ cases'[a][i] = cases[a][i]
  PROVE  StatusFollowsLatestOverride'
BY DEF StatusFollowsLatestOverride, StatusOf

\* Appending a new case adds nothing that was reviewed.
LEMMA NewCaseUnreviewed ==
  ASSUME TypeOK, NEW a \in Applications,
         cases' = [cases EXCEPT ![a] = Append(@, NewCase)],
         NEW b \in Applications, NEW i \in DOMAIN cases'[b],
         cases'[b][i].status \in Reviewed
  PROVE  i \in DOMAIN cases[b] /\ cases'[b][i] = cases[b][i]
<1>1. CASE b # a
  BY <1>1 DEF TypeOK
<1>2. CASE b = a
  <2>1. cases'[b] = Append(cases[b], NewCase) /\ cases[b] \in Seq(ReviewCase)
    BY <1>2 DEF TypeOK
  <2>2. /\ Len(cases[b]) \in Nat
        /\ DOMAIN cases[b] = 1..Len(cases[b])
        /\ DOMAIN cases'[b] = 1..(Len(cases[b]) + 1)
        /\ \A j \in 1..Len(cases[b]) : cases'[b][j] = cases[b][j]
        /\ cases'[b][Len(cases[b]) + 1] = NewCase
    BY <2>1, NewCaseType, AppendProperties, LenProperties
  <2>3. NewCase.status \notin Reviewed
    BY DEF NewCase, Reviewed
  <2>. QED
    BY <2>2, <2>3
<1>. QED
  BY <1>1, <1>2

\* A verdict becomes the latest of its case and gives it its status; the other
\* cases keep their records and their statuses.
LEMMA OverrideIsLatest ==
  ASSUME TypeOK, StatusFollowsLatestOverride, NEW a \in Applications,
         NEW i \in DOMAIN cases[a], NEW d \in OverrideDecision, SubmitOverride(a, i, d)
  PROVE  StatusFollowsLatestOverride'
<1> DEFINE n == Len(overrides[a])
<1>n. n \in Nat
  BY LenProperties DEF TypeOK
<1>e. /\ \A b \in Applications : DOMAIN cases'[b] = DOMAIN cases[b]
      /\ \A b \in Applications : \A j \in DOMAIN cases[b] :
           (b # a \/ j # i) => cases'[b][j] = cases[b][j]
      /\ \A k \in DOMAIN overrides[a] :
           k \in DOMAIN overrides'[a] /\ overrides'[a][k] = overrides[a][k]
      /\ n + 1 \in DOMAIN overrides'[a]
      /\ overrides'[a][n + 1] = [case |-> i, decision |-> d]
      /\ \A k \in DOMAIN overrides'[a] : k \in DOMAIN overrides[a] \/ k = n + 1
      /\ DOMAIN overrides[a] = 1..n
      /\ \A b \in Applications : b # a => overrides'[b] = overrides[b]
  BY SubmitOverrideEffect
<1>s. cases'[a][i].status = StatusOf(d)
  BY SubmitOverrideType
<1> HIDE DEF n
<1> SUFFICES ASSUME NEW b \in Applications, NEW j \in DOMAIN cases'[b],
                    {k \in DOMAIN overrides'[b] : overrides'[b][k].case = j} # {},
                    cases'[b][j].status \in Reviewed
             PROVE  \E k \in {k \in DOMAIN overrides'[b] : overrides'[b][k].case = j} :
                      /\ \A l \in {l \in DOMAIN overrides'[b] : overrides'[b][l].case = j} : l <= k
                      /\ cases'[b][j].status = StatusOf(overrides'[b][k].decision)
  BY DEF StatusFollowsLatestOverride, StatusOf
<1>1. CASE b = a /\ j = i
  <2>1. \A l \in DOMAIN overrides'[a] : l <= n + 1
    BY <1>e, <1>n
  <2>. QED
    BY <1>1, <1>e, <1>s, <2>1
<1>2. CASE b # a \/ j # i
  <2>1. {k \in DOMAIN overrides'[b] : overrides'[b][k].case = j}
          = {k \in DOMAIN overrides[b] : overrides[b][k].case = j}
    <3>1. CASE b # a
      BY <1>e, <3>1
    <3>2. CASE b = a /\ j # i
      <4>1. \A k \in DOMAIN overrides'[a] : overrides'[a][k].case = j =>
              k \in DOMAIN overrides[a] /\ overrides[a][k].case = j
        BY <1>e, <3>2
      <4>. QED
        BY <1>e, <3>2, <4>1
    <3>. QED
      BY <1>2, <3>1, <3>2
  <2>2. \A k \in DOMAIN overrides[b] : overrides'[b][k] = overrides[b][k]
    BY <1>e
  <2>3. j \in DOMAIN cases[b] /\ cases'[b][j] = cases[b][j]
    BY <1>2, <1>e
  <2>4. PICK k \in {k \in DOMAIN overrides[b] : overrides[b][k].case = j} :
             /\ \A l \in {l \in DOMAIN overrides[b] : overrides[b][l].case = j} : l <= k
             /\ cases[b][j].status = StatusOf(overrides[b][k].decision)
    BY <2>1, <2>3 DEF StatusFollowsLatestOverride
  <2>. QED
    BY <2>1, <2>2, <2>3, <2>4
<1>. QED
  BY <1>1, <1>2

\* However the two endpoints, assignments, duplicated ids and restarts mix, a
\* case that reads reviewed reads as its latest verdict says.
THEOREM LatestVerdictCounts == Spec => []StatusFollowsLatestOverride
<1>1. Init => LatestInv
  BY DEF Init, LatestInv, FreshStart, StatusFollowsLatestOverride
<1>2. TypeOK /\ LatestInv /\ [Next]_vars => LatestInv'
  <2> SUFFICES ASSUME TypeOK, FreshStart, StatusFollowsLatestOverride, [Next]_vars
               PROVE  FreshStart' /\ StatusFollowsLatestOverride'
    BY DEF LatestInv
  <2>1. CASE Rehydrate
    <3>1. \A a \in Applications : overrides'[a] = <<>>
      BY <2>1 DEF Rehydrate, FreshStart
    <3>. QED
      BY <3>1 DEF FreshStart, StatusFollowsLatestOverride
  <2>2. CASE BeginSeeding \/ FinishSeeding
    <3>1. UNCHANGED <<cases, overrides>> /\ phase # "serving"
      BY <2>2 DEF BeginSeeding, FinishSeeding, memory
    <3>. QED
      BY <3>1, LatestStays DEF FreshStart
  <2>3. CASE SeedScenario
    <3> DEFINE a == Scenarios[seeded + 1]
    <3>1. a \in Applications
      BY <2>3, ConsoleAssumption, ElementOfSeq, LenProperties DEF SeedScenario, TypeOK
    <3>2. cases' = [cases EXCEPT ![a] = Append(@, NewCase)] /\ UNCHANGED <<phase, overrides>>
      BY <2>3 DEF SeedScenario
    <3> HIDE DEF a
    <3>3. StatusFollowsLatestOverride'
      BY <3>1, <3>2, NewCaseUnreviewed, LatestStays
    <3>. QED
      BY <3>2, <3>3 DEF FreshStart
  <2>4. ASSUME NEW a \in Applications, CreateReviewCase(a)
        PROVE  FreshStart' /\ StatusFollowsLatestOverride'
    <3>1. cases' = [cases EXCEPT ![a] = Append(@, NewCase)] /\ UNCHANGED <<phase, overrides>>
      BY <2>4 DEF CreateReviewCase
    <3>2. StatusFollowsLatestOverride'
      BY <3>1, NewCaseUnreviewed, LatestStays
    <3>. QED
      BY <3>1, <3>2 DEF FreshStart
  <2>5. ASSUME NEW a \in Applications, NEW i \in DOMAIN cases[a],
               NEW r \in Reviewers, AssignCase(a, i, r)
        PROVE  FreshStart' /\ StatusFollowsLatestOverride'
    <3>1. /\ cases' = [cases EXCEPT ![a][i] = [status |-> "in_progress", assigned_to |-> r]]
          /\ UNCHANGED <<phase, overrides>>
      BY <2>5 DEF AssignCase
    <3>2. \A b \in Applications : \A j \in DOMAIN cases'[b] :
            cases'[b][j].status \in Reviewed =>
              j \in DOMAIN cases[b] /\ cases'[b][j] = cases[b][j]
      BY <3>1 DEF TypeOK, Reviewed
    <3>3. StatusFollowsLatestOverride'
      BY <3>1, <3>2, LatestStays
    <3>. QED
      BY <3>1, <3>3 DEF FreshStart
  <2>6. ASSUME NEW a \in Applications, NEW i \in DOMAIN cases[a],
               NEW d \in OverrideDecision, OverrideByApi(a, i, d) \/ OverrideByUi(a, i, d)
        PROVE  FreshStart' /\ StatusFollowsLatestOverride'
    <3>1. SubmitOverride(a, i, d) /\ phase = "serving" /\ phase' = phase
      BY <2>6 DEF OverrideByApi, OverrideByUi
    <3>. QED
      BY <3>1, OverrideIsLatest DEF FreshStart
  <2>7. ASSUME NEW s \in saving, CommitOverride(s) \/ DropOverride(s)
        PROVE  FreshStart' /\ StatusFollowsLatestOverride'
    <3>1. UNCHANGED <<phase, cases, overrides>>
      BY <2>7 DEF CommitOverride, DropOverride
    <3>. QED
      BY <3>1, LatestStays DEF FreshStart
  <2>8. CASE Crash
    BY <2>8 DEF Crash, FreshStart, StatusFollowsLatestOverride
  <2>9. CASE UNCHANGED vars
    <3>1. UNCHANGED <<phase, cases, overrides>>
      BY <2>9 DEF vars, memory
    <3>. QED
      BY <3>1, LatestStays DEF FreshStart
  <2>. QED
    BY <2>1, <2>2, <2>3, <2>4, <2>5, <2>6, <2>7, <2>8, <2>9
       DEF Next, Startup, Request, SettleSave
<1>3. LatestInv => StatusFollowsLatestOverride
  BY DEF LatestInv
<1>. QED
  BY <1>1, <1>2, <1>3, TypeCorrect, PTL DEF Spec

-----------------------------------------------------------------------------
(* Nothing registered is lost.  From the moment the queue is being built,  *)
(* every row has a case: seeding starts on an empty table and queues before *)
(* it saves, and a saved verdict makes no row.                             *)
Queued == phase # "down" => \A a \in Registered : cases[a] # <<>>

\* Where cases are only ever added and no row appears, everything registered
\* stays queued.
LEMMA QueuedStays ==
  ASSUME Queued, phase # "down", Registered' \subseteq Registered,
         \A a \in Applications : cases[a] # <<>> => cases'[a] # <<>>
  PROVE  Queued'
BY DEF Queued, Registered

\* Where the database answers at start-up, whatever is registered in Postgres
\* is in the queue that is served.
THEOREM NothingRegisteredIsLost ==
  ASSUME ~LoadMayFail
  PROVE  Spec => []RegisteredIsQueued
<1>1. Init => Queued
  BY DEF Init, Queued
<1>2. TypeOK /\ StartupSafe /\ Queued /\ [Next]_vars => Queued'
  <2> SUFFICES ASSUME TypeOK, StartupSafe, Queued, [Next]_vars PROVE Queued'
    OBVIOUS
  <2>1. CASE Rehydrate
    <3>1. \A a \in Registered : cases'[a] # <<>> /\ a \in Applications
      BY <2>1 DEF Rehydrate, Registered
    <3>2. Registered' = Registered
      BY <2>1 DEF Rehydrate, durable, Registered
    <3>. QED
      BY <3>1, <3>2 DEF Queued
  <2>2. CASE BeginSeeding
    BY <2>2 DEF BeginSeeding, Queued, Registered, durable, memory
  <2>3. CASE FinishSeeding
    BY <2>3 DEF FinishSeeding, Queued, Registered, durable, memory
  <2>4. CASE SeedScenario
    <3> DEFINE a == Scenarios[seeded + 1]
    <3>1. a \in Applications
      BY <2>4, ConsoleAssumption, ElementOfSeq, LenProperties DEF SeedScenario, TypeOK
    <3>2. /\ cases' = [cases EXCEPT ![a] = Append(@, NewCase)]
          /\ row' = [row EXCEPT ![a] = "pending"] \/ row' = row
          /\ phase # "down"
      BY <2>4 DEF SeedScenario, SaveDecision
    <3> HIDE DEF a
    <3>3. cases'[a] # <<>> /\ \A b \in Applications : b # a => cases'[b] = cases[b]
      <4>1. cases'[a] = Append(cases[a], NewCase) /\ cases[a] \in Seq(ReviewCase)
        BY <3>1, <3>2 DEF TypeOK
      <4>2. Append(cases[a], NewCase) # <<>>
        BY <4>1, NewCaseType, AppendProperties
      <4>. QED
        BY <3>1, <3>2, <4>1, <4>2 DEF TypeOK
    <3>4. \A b \in Registered' : b = a \/ b \in Registered
      BY <3>1, <3>2 DEF Registered, TypeOK
    <3>. QED
      BY <3>2, <3>3, <3>4 DEF Queued, Registered
  <2>5. ASSUME NEW a \in Applications, CreateReviewCase(a)
        PROVE  Queued'
    <3>1. /\ cases' = [cases EXCEPT ![a] = Append(@, NewCase)]
          /\ UNCHANGED row /\ phase = "serving"
      BY <2>5 DEF CreateReviewCase, durable
    <3>2. \A b \in Applications : cases[b] # <<>> => cases'[b] # <<>>
      BY <3>1, NewCaseType, AppendProperties, LenProperties DEF TypeOK
    <3>. QED
      BY <3>1, <3>2, QueuedStays DEF Registered
  <2>6. ASSUME NEW a \in Applications, NEW i \in DOMAIN cases[a],
               NEW r \in Reviewers, AssignCase(a, i, r)
        PROVE  Queued'
    <3>1. /\ cases' = [cases EXCEPT ![a][i] = [status |-> "in_progress", assigned_to |-> r]]
          /\ UNCHANGED row /\ phase = "serving"
      BY <2>6 DEF AssignCase, durable
    <3>2. \A b \in Applications : DOMAIN cases'[b] = DOMAIN cases[b]
      BY <3>1 DEF TypeOK
    <3>3. \A b \in Applications : cases[b] # <<>> => cases'[b] # <<>>
      BY <3>2, EmptySeq, LenProperties DEF TypeOK
    <3>. QED
      BY <3>1, <3>3, QueuedStays DEF Registered
  <2>7. ASSUME NEW a \in Applications, NEW i \in DOMAIN cases[a],
               NEW d \in OverrideDecision, OverrideByApi(a, i, d) \/ OverrideByUi(a, i, d)
        PROVE  Queued'
    <3>1. SubmitOverride(a, i, d) /\ UNCHANGED row /\ phase = "serving"
      BY <2>7 DEF OverrideByApi, OverrideByUi, durable
    <3>2. \A b \in Applications : DOMAIN cases'[b] = DOMAIN cases[b]
      BY <3>1, SubmitOverrideEffect
    <3>3. \A b \in Applications : cases[b] # <<>> => cases'[b] # <<>>
      BY <3>2, EmptySeq, LenProperties DEF TypeOK
    <3>. QED
      BY <3>1, <3>3, QueuedStays DEF Registered
  <2>8. ASSUME NEW s \in saving, CommitOverride(s) \/ DropOverride(s)
        PROVE  Queued'
    <3>1. s.app \in Applications
      BY DEF TypeOK, SaveRequest
    <3>2. Registered' \subseteq Registered /\ UNCHANGED <<cases, phase>>
      BY <2>8, <3>1 DEF CommitOverride, DropOverride, durable, Registered, TypeOK
    <3>. QED
      BY <3>2, QueuedStays DEF StartupSafe
  <2>9. CASE Crash
    BY <2>9 DEF Crash, Queued
  <2>10. CASE UNCHANGED vars
    BY <2>10 DEF vars, memory, durable, Queued, Registered
  <2>. QED
    BY <2>1, <2>2, <2>3, <2>4, <2>5, <2>6, <2>7, <2>8, <2>9, <2>10
       DEF Next, Startup, Request, SettleSave
<1>3. Init => StartupSafe
  BY DEF Init, StartupSafe
<1>4. TypeOK /\ StartupSafe /\ [Next]_vars => StartupSafe'
  BY StartupSafeStep
<1>5. Queued => RegisteredIsQueued
  BY DEF Queued, RegisteredIsQueued
<1>. QED
  BY <1>1, <1>2, <1>3, <1>4, <1>5, TypeCorrect, PTL DEF Spec
=============================================================================
