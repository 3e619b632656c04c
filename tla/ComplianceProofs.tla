-------------------------- MODULE ComplianceProofs --------------------------
(***************************************************************************)
(* Theorems about what compliance/processor.py does.                       *)
(*                                                                         *)
(* Compliance, for any applications and purposes and any number of consent *)
(* records.                                                                *)
(*                                                                         *)
(* Masking, as Algorithms calls it, for texts of any length with any       *)
(* numbers and addresses in them.                                          *)
(***************************************************************************)
EXTENDS Compliance, Algorithms, SequenceTheorems, FiniteSetTheorems, TLAPS

-----------------------------------------------------------------------------
(* Compliance: the records                                                 *)

\* A consent record is active or withdrawn, and of one purpose.
LEMMA RecordsTyped ==
  ASSUME TypeOK, NEW a \in Applications
  PROVE  /\ records[a] \in Seq(ConsentRecord)
         /\ Len(records[a]) \in Nat
         /\ \A i \in 1..Len(records[a]) :
              /\ records[a][i].purpose \in Purposes
              /\ records[a][i].status \in {"active", "withdrawn"}
<1>1. records[a] \in Seq(ConsentRecord)
  BY DEF TypeOK
<1>2. Len(records[a]) \in Nat /\ \A i \in 1..Len(records[a]) : records[a][i] \in ConsentRecord
  BY <1>1
<1> QED BY <1>1, <1>2 DEF ConsentRecord

\* What recording a consent does to the list of the application.
LEMMA Recorded ==
  ASSUME TypeOK, NEW a \in Applications, NEW p \in Purposes, RecordConsent(a, p)
  PROVE  /\ records' \in [Applications -> Seq(ConsentRecord)]
         /\ \A b \in Applications : b # a => records'[b] = records[b]
         /\ Len(records'[a]) = Len(records[a]) + 1
         /\ \A i \in 1..Len(records[a]) : records'[a][i] = records[a][i]
         /\ records'[a][Len(records[a]) + 1] = [purpose |-> p, status |-> "active"]
<1> DEFINE r == [purpose |-> p, status |-> "active"]
<1>1. records' = [records EXCEPT ![a] = Append(records[a], r)]
  BY DEF RecordConsent
<1>2. r \in ConsentRecord
  BY DEF ConsentRecord
<1> HIDE DEF r
<1>3. records \in [Applications -> Seq(ConsentRecord)] /\ records[a] \in Seq(ConsentRecord)
  BY DEF TypeOK
<1>4. Append(records[a], r) \in Seq(ConsentRecord)
  BY <1>2, <1>3
<1>5. /\ records'[a] = Append(records[a], r)
      /\ \A b \in Applications : b # a => records'[b] = records[b]
  BY <1>1, <1>3
<1>6. /\ Len(Append(records[a], r)) = Len(records[a]) + 1
      /\ \A i \in 1..Len(records[a]) : Append(records[a], r)[i] = records[a][i]
      /\ Append(records[a], r)[Len(records[a]) + 1] = r
  BY <1>2, <1>3
<1>7. records' \in [Applications -> Seq(ConsentRecord)]
  BY <1>1, <1>3, <1>4
<1> QED BY <1>5, <1>6, <1>7 DEF r

\* What withdrawing does to it: the records keep their places and purposes, and
\* none of the purpose is active any more.
LEMMA Withdrawn ==
  ASSUME TypeOK, NEW a \in Applications, NEW p \in Purposes, WithdrawConsent(a, p)
  PROVE  /\ records' \in [Applications -> Seq(ConsentRecord)]
         /\ \A b \in Applications : b # a => records'[b] = records[b]
         /\ Len(records'[a]) = Len(records[a])
         /\ \A i \in 1..Len(records[a]) :
              /\ records'[a][i].purpose = records[a][i].purpose
              /\ records[a][i].purpose # p => records'[a][i] = records[a][i]
              /\ records[a][i].purpose = p => records'[a][i].status = "withdrawn"
<1> DEFINE n == Len(records[a])
           w(i) == IF InForce(records[a][i], p)
                     THEN [records[a][i] EXCEPT !.status = "withdrawn"] ELSE records[a][i]
           list == [i \in 1..n |-> w(i)]
<1>1. records' = [records EXCEPT ![a] = list]
  BY DEF WithdrawConsent
<1>2. /\ n \in Nat
      /\ \A i \in 1..n : records[a][i] \in ConsentRecord
      /\ records \in [Applications -> Seq(ConsentRecord)]
  <2>1. records[a] \in Seq(ConsentRecord)
    BY DEF TypeOK
  <2> QED BY <2>1 DEF TypeOK
<1>3. ASSUME NEW i \in 1..n
      PROVE  /\ w(i) \in ConsentRecord
             /\ w(i).purpose = records[a][i].purpose
             /\ records[a][i].purpose # p => w(i) = records[a][i]
             /\ records[a][i].purpose = p => w(i).status = "withdrawn"
  <2>1. records[a][i] \in ConsentRecord
    BY <1>2
  <2> QED BY <2>1 DEF ConsentRecord, InForce
<1> HIDE DEF n, w
<1>4. list \in Seq(ConsentRecord) /\ Len(list) = n
  BY <1>2, <1>3
<1>5. /\ records'[a] = list
      /\ \A b \in Applications : b # a => records'[b] = records[b]
  BY <1>1, <1>2
<1>6. records' \in [Applications -> Seq(ConsentRecord)]
  BY <1>1, <1>2, <1>4
<1>7. \A i \in 1..n : list[i] = w(i)
  OBVIOUS
<1> HIDE DEF list
<1> QED BY <1>3, <1>4, <1>5, <1>6, <1>7 DEF n

-----------------------------------------------------------------------------
(* Type correctness                                                        *)

LEMMA TypeKept == TypeOK /\ [Next]_vars => TypeOK'
<1> SUFFICES ASSUME TypeOK, [Next]_vars PROVE TypeOK'
  OBVIOUS
<1>1. CASE UNCHANGED vars
  BY <1>1 DEF vars, TypeOK
<1>2. ASSUME NEW a \in Applications, NEW p \in Purposes, RecordConsent(a, p) \/ WithdrawConsent(a, p)
      PROVE  TypeOK'
  <2>1. records' \in [Applications -> Seq(ConsentRecord)]
    BY <1>2, Recorded, Withdrawn
  <2>2. UNCHANGED <<kfs, cooling, erasures, asked>>
    BY <1>2 DEF RecordConsent, WithdrawConsent
  <2> QED BY <2>1, <2>2 DEF TypeOK
<1>3. ASSUME NEW a \in Applications, GenerateKfs(a) \/ DiscloseKfs(a) \/ AcceptKfs(a)
      PROVE  TypeOK'
  <2>0. kfs[a] \in KeyFactStatement /\ kfs \in [Applications -> KeyFactStatement]
    BY DEF TypeOK
  <2>1. \E k \in KeyFactStatement : kfs' = [kfs EXCEPT ![a] = k]
    <3>1. CASE GenerateKfs(a)
      BY <3>1 DEF GenerateKfs, KeyFactStatement, NoStatement
    <3>2. CASE DiscloseKfs(a)
      <4>1. kfs' = [kfs EXCEPT ![a] = [kfs[a] EXCEPT !.status = "disclosed", !.disclosed_at = TRUE]]
        BY <3>2 DEF DiscloseKfs
      <4> QED BY <2>0, <4>1 DEF KeyFactStatement
    <3>3. CASE AcceptKfs(a)
      <4>1. kfs' = [kfs EXCEPT ![a] = [kfs[a] EXCEPT !.status = "accepted", !.accepted_at = TRUE]]
        BY <3>3 DEF AcceptKfs
      <4> QED BY <2>0, <4>1 DEF KeyFactStatement
    <3> QED BY <1>3, <3>1, <3>2, <3>3
  <2>2. UNCHANGED <<records, cooling, erasures, asked>>
    BY <1>3 DEF GenerateKfs, DiscloseKfs, AcceptKfs
  <2> QED BY <2>0, <2>1, <2>2 DEF TypeOK
<1>4. ASSUME NEW a \in Applications,
             StartCoolingOff(a) \/ CancelWithinCoolingOff(a) \/ CloseWindow(a)
      PROVE  TypeOK'
  <2>1. cooling[a] \in CoolingOffRecord /\ cooling \in [Applications -> CoolingOffRecord]
    BY DEF TypeOK
  <2>2. \E c \in CoolingOffRecord : cooling' = [cooling EXCEPT ![a] = c]
    <3>1. CASE StartCoolingOff(a)
      BY <3>1 DEF StartCoolingOff, CoolingOffRecord, NoCoolingOff
    <3>2. CASE CancelWithinCoolingOff(a)
      BY <2>1, <3>2 DEF CancelWithinCoolingOff, CoolingOffRecord
    <3>3. CASE CloseWindow(a)
      BY <2>1, <3>3 DEF CloseWindow, CoolingOffRecord
    <3> QED BY <1>4, <3>1, <3>2, <3>3
  <2>3. UNCHANGED <<records, kfs, erasures>>
    BY <1>4 DEF StartCoolingOff, CancelWithinCoolingOff, CloseWindow
  <2>4. asked' \in [Applications -> SUBSET {"in_time", "late"}]
    BY <1>4 DEF StartCoolingOff, CancelWithinCoolingOff, CloseWindow, Ask, TypeOK
  <2> QED BY <2>1, <2>2, <2>3, <2>4 DEF TypeOK
<1>5. ASSUME NEW a \in Applications, DeletePersonalData(a)
      PROVE  TypeOK'
  <2>1. UNCHANGED <<records, kfs, cooling, asked>>
    BY <1>5 DEF DeletePersonalData
  <2>2. erasures \in Seq(Applications)
    BY DEF TypeOK
  <2>3. erasures' \in Seq(Applications)
    <3>1. Append(erasures, a) \in Seq(Applications)
      BY <2>2
    <3> QED BY <1>5, <2>2, <3>1 DEF DeletePersonalData
  <2> QED BY <2>1, <2>3 DEF TypeOK
<1> QED BY <1>1, <1>2, <1>3, <1>4, <1>5 DEF Next

\* The stores have their types.
THEOREM TypeCorrect == Spec => []TypeOK
<1>1. Init => TypeOK
  BY DEF Init, TypeOK, NoStatement, KeyFactStatement, NoCoolingOff, CoolingOffRecord
<1> QED BY <1>1, TypeKept, PTL DEF Spec

-----------------------------------------------------------------------------
(* The consent records implement the consent ledger                        *)

\* The consent as a function of the subject, which the ledger's variable is.
Consents == [k \in Applications \X Purposes |-> ConsentOf(k[1], k[2])]

\* Only the list of an application matters to its consents.
LEMMA SameList ==
  ASSUME NEW a \in Applications, NEW p \in Purposes, records'[a] = records[a]
  PROVE  ConsentOf(a, p)' = ConsentOf(a, p)
  BY DEF ConsentOf, VerifyConsent, InForce

\* Recording a consent puts it in force and changes no other.
LEMMA RecordGives ==
  ASSUME TypeOK, NEW a \in Applications, NEW p \in Purposes, RecordConsent(a, p)
  PROVE  /\ ConsentOf(a, p)' = "active"
         /\ \A q \in Purposes : q # p => ConsentOf(a, q)' = ConsentOf(a, q)
<1>0. Len(records[a]) \in Nat
  BY RecordsTyped
<1>1. /\ Len(records'[a]) = Len(records[a]) + 1
      /\ \A i \in 1..Len(records[a]) : records'[a][i] = records[a][i]
      /\ records'[a][Len(records[a]) + 1] = [purpose |-> p, status |-> "active"]
  BY Recorded
<1>2. Len(records[a]) + 1 \in 1..Len(records'[a])
  BY <1>0, <1>1
<1>3. ConsentOf(a, p)' = "active"
  BY <1>1, <1>2 DEF ConsentOf, VerifyConsent, InForce
<1>4. ASSUME NEW q \in Purposes, q # p
      PROVE  ConsentOf(a, q)' = ConsentOf(a, q)
  <2>1. \A i \in 1..Len(records'[a]) : records'[a][i].purpose = q => i \in 1..Len(records[a])
    <3> SUFFICES ASSUME NEW i \in 1..Len(records'[a]), i \notin 1..Len(records[a])
                 PROVE  records'[a][i].purpose # q
      OBVIOUS
    <3>1. i = Len(records[a]) + 1
      BY <1>0, <1>1
    <3> QED BY <1>1, <1>4, <3>1
  <2>2. \A i \in 1..Len(records[a]) : i \in 1..Len(records'[a])
    BY <1>0, <1>1
  <2>3. VerifyConsent(a, q)' <=> VerifyConsent(a, q)
    BY <1>1, <2>1, <2>2 DEF VerifyConsent, InForce
  <2>4. (\E i \in 1..Len(records'[a]) : records'[a][i].purpose = q)
          <=> (\E i \in 1..Len(records[a]) : records[a][i].purpose = q)
    BY <1>1, <2>1, <2>2
  <2> QED BY <2>3, <2>4 DEF ConsentOf
<1> QED BY <1>3, <1>4

\* Withdrawing one ends it and changes no other.
LEMMA WithdrawEnds ==
  ASSUME TypeOK, NEW a \in Applications, NEW p \in Purposes, WithdrawConsent(a, p)
  PROVE  /\ ConsentOf(a, p) = "active"
         /\ ConsentOf(a, p)' = "withdrawn"
         /\ \A q \in Purposes : q # p => ConsentOf(a, q)' = ConsentOf(a, q)
<1>1. /\ Len(records'[a]) = Len(records[a])
      /\ \A i \in 1..Len(records[a]) :
           /\ records'[a][i].purpose = records[a][i].purpose
           /\ records[a][i].purpose # p => records'[a][i] = records[a][i]
           /\ records[a][i].purpose = p => records'[a][i].status = "withdrawn"
  BY Withdrawn
<1>2. VerifyConsent(a, p)
  BY DEF WithdrawConsent
<1>3. \E i \in 1..Len(records[a]) : records[a][i].purpose = p
  BY <1>2 DEF VerifyConsent, InForce
<1>4. ~VerifyConsent(a, p)'
  BY <1>1 DEF VerifyConsent, InForce
<1>5. \E i \in 1..Len(records'[a]) : records'[a][i].purpose = p
  BY <1>1, <1>3
<1>6. ConsentOf(a, p)' = "withdrawn"
  BY <1>4, <1>5 DEF ConsentOf
<1>7. ASSUME NEW q \in Purposes, q # p
      PROVE  ConsentOf(a, q)' = ConsentOf(a, q)
  <2>1. VerifyConsent(a, q)' <=> VerifyConsent(a, q)
    BY <1>1, <1>7 DEF VerifyConsent, InForce
  <2>2. (\E i \in 1..Len(records'[a]) : records'[a][i].purpose = q)
          <=> (\E i \in 1..Len(records[a]) : records[a][i].purpose = q)
    BY <1>1
  <2> QED BY <2>1, <2>2 DEF ConsentOf
<1> QED BY <1>2, <1>6, <1>7 DEF ConsentOf

LEMMA LedgerStep == TypeOK /\ [Next]_vars => [Ledger!Next]_Consents
<1> SUFFICES ASSUME TypeOK, [Next]_vars PROVE [Ledger!Next]_Consents
  OBVIOUS
<1>1. ASSUME records' = records
      PROVE  Consents' = Consents
  BY <1>1 DEF Consents, ConsentOf, VerifyConsent, InForce
<1>2. ASSUME NEW a \in Applications, NEW p \in Purposes, NEW v,
             ConsentOf(a, p)' = v,
             \A q \in Purposes : q # p => ConsentOf(a, q)' = ConsentOf(a, q),
             \A b \in Applications : b # a => records'[b] = records[b]
      PROVE  Consents' = [Consents EXCEPT ![<<a, p>>] = v]
  <2>1. ASSUME NEW k \in Applications \X Purposes
        PROVE  ConsentOf(k[1], k[2])' = IF k = <<a, p>> THEN v ELSE ConsentOf(k[1], k[2])
    <3>1. k[1] \in Applications /\ k[2] \in Purposes /\ k = <<k[1], k[2]>>
      OBVIOUS
    <3>2. CASE k[1] # a
      BY <1>2, <3>1, <3>2, SameList
    <3>3. CASE k[1] = a /\ k[2] # p
      BY <1>2, <3>1, <3>3
    <3>4. CASE k = <<a, p>>
      BY <1>2, <3>4
    <3> QED BY <3>1, <3>2, <3>3, <3>4
  <2> QED BY <2>1 DEF Consents
<1>3. ASSUME NEW a \in Applications, NEW p \in Purposes, RecordConsent(a, p)
      PROVE  Ledger!Next
  <2>1. Consents' = [Consents EXCEPT ![<<a, p>>] = "active"]
    BY <1>2, <1>3, RecordGives, Recorded
  <2> QED BY <2>1 DEF Ledger!Next, Ledger!Give, Consents
<1>4. ASSUME NEW a \in Applications, NEW p \in Purposes, WithdrawConsent(a, p)
      PROVE  Ledger!Next
  <2>1. Consents' = [Consents EXCEPT ![<<a, p>>] = "withdrawn"]
    BY <1>2, <1>4, WithdrawEnds, Withdrawn
  <2>2. Consents[<<a, p>>] = "active"
    BY <1>4, WithdrawEnds DEF Consents
  <2> QED BY <2>1, <2>2 DEF Ledger!Next, Ledger!Withdraw, Consents
<1>5. CASE records' = records
  BY <1>1, <1>5
<1>6. CASE records' # records
  <2>1. \E a \in Applications, p \in Purposes : RecordConsent(a, p) \/ WithdrawConsent(a, p)
    BY <1>6 DEF Next, vars, GenerateKfs, DiscloseKfs, AcceptKfs, StartCoolingOff,
                CancelWithinCoolingOff, CloseWindow, DeletePersonalData
  <2> QED BY <1>3, <1>4, <2>1
<1> QED BY <1>5, <1>6

\* The lists of consent records implement the ledger that VideoKyc is built on,
\* with any number of records and purposes.
THEOREM ImplementsLedger == Spec => LedgerSpec
<1>1. Init => Ledger!Init
  BY DEF Init, Ledger!Init, ConsentOf, VerifyConsent, InForce
<1>2. TypeOK /\ [Next]_vars => [Ledger!Next]_Consents
  BY LedgerStep
<1> QED BY <1>1, <1>2, TypeCorrect, PTL DEF Spec, LedgerSpec, Ledger!Spec, Consents

-----------------------------------------------------------------------------
(* Withdrawals, statements and cancellations                               *)

\* A withdrawal leaves no active record of the purpose behind.
THEOREM WithdrawalsAreComplete == Spec => WithdrawnAtOnce
<1>1. ASSUME TypeOK, [Next]_vars, NEW a \in Applications, NEW p \in Purposes,
             NEW i \in 1..Len(records[a]),
             InForce(records[a][i], p), ~InForce(records'[a][i], p)
      PROVE  ~VerifyConsent(a, p)'
  <2>1. records'[a] # records[a]
    BY <1>1
  <2>2. \E b \in Applications, q \in Purposes : RecordConsent(b, q) \/ WithdrawConsent(b, q)
    BY <1>1, <2>1, Zenon DEF Next, vars, GenerateKfs, DiscloseKfs, AcceptKfs, StartCoolingOff,
                CancelWithinCoolingOff, CloseWindow, DeletePersonalData
  <2>3. PICK b \in Applications, q \in Purposes : RecordConsent(b, q) \/ WithdrawConsent(b, q)
    BY <2>2
  <2>4. b = a
    BY <1>1, <2>1, <2>3, Recorded, Withdrawn
  <2>5. ~RecordConsent(a, q)
    BY <1>1, Recorded
  <2>6. WithdrawConsent(a, q)
    BY <2>3, <2>4, <2>5
  <2>7. q = p
    BY <1>1, <2>6, Withdrawn DEF InForce
  <2>8. /\ Len(records'[a]) = Len(records[a])
        /\ \A j \in 1..Len(records[a]) :
             /\ records'[a][j].purpose = records[a][j].purpose
             /\ records[a][j].purpose = p => records'[a][j].status = "withdrawn"
    BY <1>1, <2>6, <2>7, Withdrawn
  <2> QED BY <2>8 DEF VerifyConsent, InForce
<1>2. TypeOK /\ [Next]_vars =>
        [\A a \in Applications, p \in Purposes :
           (\E i \in 1..Len(records[a]) : InForce(records[a][i], p) /\ ~InForce(records'[a][i], p))
             => ~VerifyConsent(a, p)']_vars
  BY <1>1
<1> QED BY <1>2, TypeCorrect, PTL DEF Spec, WithdrawnAtOnce

\* The stamps on a Key Fact Statement are those of the current statement.
THEOREM StampsOfCurrent == Spec => []StampsAreCurrent
<1>1. Init => StampsAreCurrent
  <2> SUFFICES ASSUME Init, NEW a \in Applications
               PROVE  kfs[a].status = "none" /\ ~kfs[a].disclosed_at /\ ~kfs[a].accepted_at
    BY DEF StampsAreCurrent
  <2>1. kfs[a] = NoStatement
    BY DEF Init
  <2> QED BY <2>1 DEF NoStatement
<1>2. TypeOK /\ StampsAreCurrent /\ [Next]_vars => StampsAreCurrent'
  <2> SUFFICES ASSUME TypeOK, StampsAreCurrent, [Next]_vars PROVE StampsAreCurrent'
    OBVIOUS
  <2>1. CASE kfs' = kfs
    BY <2>1 DEF StampsAreCurrent
  <2>2. ASSUME NEW a \in Applications, GenerateKfs(a) \/ DiscloseKfs(a) \/ AcceptKfs(a)
        PROVE  StampsAreCurrent'
    <3>1. kfs \in [Applications -> KeyFactStatement] /\ kfs[a] \in KeyFactStatement
      BY DEF TypeOK
    <3> DEFINE Current(k) == /\ k.status \in {"none", "generated"} => ~k.disclosed_at /\ ~k.accepted_at
                             /\ k.status = "disclosed" => k.disclosed_at
                             /\ k.status = "accepted" => k.accepted_at
    <3>2. \E k : kfs' = [kfs EXCEPT ![a] = k] /\ Current(k)
      <4>1. CASE GenerateKfs(a)
        <5>1. kfs' = [kfs EXCEPT ![a] = [NoStatement EXCEPT !.status = "generated"]]
          BY <4>1 DEF GenerateKfs
        <5>2. Current([NoStatement EXCEPT !.status = "generated"])
          BY DEF NoStatement
        <5> HIDE DEF Current
        <5> QED BY <5>1, <5>2
      <4>2. CASE DiscloseKfs(a)
        <5>1. kfs' = [kfs EXCEPT ![a] = [kfs[a] EXCEPT !.status = "disclosed", !.disclosed_at = TRUE]]
          BY <4>2 DEF DiscloseKfs
        <5>2. Current([kfs[a] EXCEPT !.status = "disclosed", !.disclosed_at = TRUE])
          BY <3>1 DEF KeyFactStatement
        <5> HIDE DEF Current
        <5> QED BY <5>1, <5>2
      <4>3. CASE AcceptKfs(a)
        <5>1. kfs' = [kfs EXCEPT ![a] = [kfs[a] EXCEPT !.status = "accepted", !.accepted_at = TRUE]]
          BY <4>3 DEF AcceptKfs
        <5>2. Current([kfs[a] EXCEPT !.status = "accepted", !.accepted_at = TRUE])
          BY <3>1 DEF KeyFactStatement
        <5> HIDE DEF Current
        <5> QED BY <5>1, <5>2
      <4> QED BY <2>2, <4>1, <4>2, <4>3
    <3>3. \A b \in Applications : Current(kfs[b])
      BY DEF StampsAreCurrent
    <3>4. \A b \in Applications : Current(kfs'[b])
      BY <3>1, <3>2, <3>3
    <3> QED BY <3>4 DEF StampsAreCurrent
  <2> QED BY <2>1, <2>2 DEF Next, vars, RecordConsent, WithdrawConsent, StartCoolingOff,
             CancelWithinCoolingOff, CloseWindow, DeletePersonalData
<1> QED BY <1>1, <1>2, TypeCorrect, PTL DEF Spec

\* While the window is open nobody can have asked too late.
OnTime == \A a \in Applications : "late" \in asked[a] => cooling[a].over

LEMMA PeriodsAgree ==
  TypeOK /\ CancelledInTime /\ OnTime /\ [Next]_vars => CancelledInTime' /\ OnTime'
<1> DEFINE Agree(c, s) == /\ c.cancelled_at <=> "in_time" \in s
                          /\ c.status = "cancelled" <=> s = {"in_time"}
                          /\ c.status = "expired" <=> "late" \in s
                          /\ "late" \in s => c.over
<1> SUFFICES ASSUME TypeOK, CancelledInTime, OnTime, [Next]_vars,
                    NEW a \in Applications
             PROVE  Agree(cooling'[a], asked'[a])
  BY DEF CancelledInTime, OnTime
<1>1. /\ cooling \in [Applications -> CoolingOffRecord] /\ cooling[a] \in CoolingOffRecord
      /\ asked \in [Applications -> SUBSET {"in_time", "late"}]
      /\ asked[a] \subseteq {"in_time", "late"}
  BY DEF TypeOK
<1>2. Agree(cooling[a], asked[a])
  BY DEF CancelledInTime, OnTime
<1>3. CASE cooling'[a] = cooling[a] /\ asked'[a] = asked[a]
  BY <1>2, <1>3
<1>4. CASE StartCoolingOff(a)
  <2>1. cooling'[a] = [NoCoolingOff EXCEPT !.status = "eligible"] /\ asked'[a] = {}
    BY <1>1, <1>4 DEF StartCoolingOff
  <2> QED BY <2>1 DEF NoCoolingOff
<1>5. CASE CancelWithinCoolingOff(a)
  <2>1. /\ cooling'[a] = IF cooling[a].over THEN [cooling[a] EXCEPT !.status = "expired"]
                         ELSE [cooling[a] EXCEPT !.status = "cancelled", !.cancelled_at = TRUE]
        /\ asked'[a] = asked[a] \cup {IF cooling[a].over THEN "late" ELSE "in_time"}
    BY <1>1, <1>5 DEF CancelWithinCoolingOff, Ask
  <2>2. CASE cooling[a].over
    <3>1. cooling'[a] = [cooling[a] EXCEPT !.status = "expired"] /\ asked'[a] = asked[a] \cup {"late"}
      BY <2>1, <2>2
    <3>2. /\ cooling'[a].status = "expired" /\ cooling'[a].over = cooling[a].over
          /\ cooling'[a].cancelled_at = cooling[a].cancelled_at
      BY <1>1, <3>1 DEF CoolingOffRecord
    <3> QED BY <1>2, <2>2, <3>1, <3>2
  <2>3. CASE ~cooling[a].over
    <3>1. /\ cooling'[a] = [cooling[a] EXCEPT !.status = "cancelled", !.cancelled_at = TRUE]
          /\ asked'[a] = asked[a] \cup {"in_time"}
      BY <2>1, <2>3
    <3>2. cooling'[a].status = "cancelled" /\ cooling'[a].cancelled_at = TRUE
      BY <1>1, <3>1 DEF CoolingOffRecord
    <3>3. "late" \notin asked[a]
      BY <1>2, <2>3
    <3>4. asked'[a] = {"in_time"}
      BY <1>1, <3>1, <3>3
    <3> QED BY <3>2, <3>4
  <2> QED BY <2>2, <2>3
<1>6. CASE CloseWindow(a)
  <2>1. cooling'[a] = [cooling[a] EXCEPT !.over = TRUE] /\ asked'[a] = asked[a]
    BY <1>1, <1>6 DEF CloseWindow
  <2>2. /\ cooling'[a].status = cooling[a].status /\ cooling'[a].over = TRUE
        /\ cooling'[a].cancelled_at = cooling[a].cancelled_at
    BY <1>1, <2>1 DEF CoolingOffRecord
  <2> QED BY <1>2, <2>1, <2>2
<1>7. ASSUME NEW b \in Applications, b # a,
             StartCoolingOff(b) \/ CancelWithinCoolingOff(b) \/ CloseWindow(b)
      PROVE  cooling'[a] = cooling[a] /\ asked'[a] = asked[a]
  BY <1>1, <1>7 DEF StartCoolingOff, CancelWithinCoolingOff, CloseWindow, Ask
<1> HIDE DEF Agree
<1>8. CASE \E b \in Applications : StartCoolingOff(b) \/ CancelWithinCoolingOff(b) \/ CloseWindow(b)
  BY <1>3, <1>4, <1>5, <1>6, <1>7, <1>8
<1>9. CASE UNCHANGED <<cooling, asked>>
  BY <1>3, <1>9
<1> QED BY <1>8, <1>9 DEF Next, vars, RecordConsent, WithdrawConsent, GenerateKfs, DiscloseKfs,
                          AcceptKfs, DeletePersonalData

\* A record bears the cancellation stamp exactly when a cancellation of its period
\* was asked for in time, and its status tells whether one was asked for late.
THEOREM CancelsInTime == Spec => []CancelledInTime
<1>1. Init => CancelledInTime /\ OnTime
  BY DEF Init, CancelledInTime, OnTime, NoCoolingOff
<1> QED BY <1>1, PeriodsAgree, TypeCorrect, PTL DEF Spec

-----------------------------------------------------------------------------
(* Induction over the natural numbers, recursive functions, sequences      *)

\* A set of natural numbers that is not empty has a least element.
LEMMA Least ==
  ASSUME NEW T \in SUBSET Nat, T # {}
  PROVE  \E x \in T : \A y \in T : x <= y
<1> DEFINE F == {0..x : x \in T}
           R == StrictSubsetOrdering(Nat)
<1>1. F \subseteq FiniteSubsetsOf(Nat) /\ F # {}
  <2>1. ASSUME NEW x \in T PROVE 0..x \in SUBSET Nat /\ IsFiniteSet(0..x)
    <3>1. x \in Int /\ 0 \in Int  OBVIOUS
    <3> QED BY <3>1, FS_Interval
  <2>2. \A x \in T : 0..x \in FiniteSubsetsOf(Nat)
    BY <2>1 DEF FiniteSubsetsOf
  <2> QED BY <2>2
<1>2. IsWellFoundedOn(R, FiniteSubsetsOf(Nat))
  BY FS_StrictSubsetOrderingWellFounded
<1>3. \E X \in F : \A Y \in F : <<Y, X>> \notin R
  <2> HIDE DEF F, R
  <2> QED BY <1>1, <1>2, WFMin
<1>4. PICK x \in T : \A Y \in F : <<Y, 0..x>> \notin R
  BY <1>3
<1>5. ASSUME NEW y \in T, y < x PROVE FALSE
  <2>1. x \in Nat /\ y \in Nat OBVIOUS
  <2>2. 0..y \subseteq 0..x /\ x \in 0..x /\ x \notin 0..y
    BY <1>5, <2>1
  <2>3. <<0..y, 0..x>> \in R
    BY <2>1, <2>2 DEF StrictSubsetOrdering
  <2> QED BY <1>4, <2>3
<1> QED BY <1>5

\* Induction over the natural numbers, as a fact about a set.
LEMMA Induction ==
  ASSUME NEW S, 0 \in S, \A n \in Nat : n \in S => n + 1 \in S
  PROVE  Nat \subseteq S
<1> SUFFICES ASSUME Nat \ S # {} PROVE FALSE
  OBVIOUS
<1>1. PICK x \in Nat \ S : \A y \in Nat \ S : x <= y
  BY Least
<1>2. x - 1 \in Nat /\ x - 1 \notin Nat \ S
  BY <1>1
<1> QED BY <1>2

\* Induction from one number to another.
LEMMA InductionUpTo ==
  ASSUME NEW S, NEW k \in Nat, NEW n \in Nat, k \in S,
         \A i \in k..n : i < n /\ i \in S => i + 1 \in S
  PROVE  \A i \in k..n : i \in S
<1> DEFINE T == {i \in Nat : k + i <= n => k + i \in S}
<1>1. 0 \in T  OBVIOUS
<1>2. \A i \in Nat : i \in T => i + 1 \in T
  <2> SUFFICES ASSUME NEW i \in Nat, i \in T, k + (i + 1) <= n PROVE k + (i + 1) \in S
    OBVIOUS
  <2>1. k + i \in S /\ k + i \in k..n /\ k + i < n  OBVIOUS
  <2> QED BY <2>1
<1> HIDE DEF T
<1>3. Nat \subseteq T  BY <1>1, <1>2, Induction
<1> SUFFICES ASSUME NEW i \in k..n PROVE i \in S  OBVIOUS
<1>4. i - k \in T  BY <1>3
<1> QED BY <1>4 DEF T

\* f starts with c, and each element is g of the one before it.
Follows(f, n, c, g) == f[0] = c /\ \A i \in 1..n : f[i] = g[<<i, f[i - 1]>>]

\* There is such a function: what lets a recursive definition be unfolded.
LEMMA Recursion ==
  ASSUME NEW n \in Nat, NEW S, NEW c \in S, NEW g \in [(1..n) \X S -> S]
  PROVE  \E f \in [0..n -> S] : Follows(f, n, c, g)
<1> DEFINE Good(f, m) == f \in [0..m -> S] /\ f[0] = c /\ \A i \in 1..m : f[i] = g[<<i, f[i - 1]>>]
           T == {m \in Nat : m <= n => \E f : Good(f, m)}
<1>1. 0 \in T
  <2>1. Good([i \in 0..0 |-> c], 0)  OBVIOUS
  <2> QED BY <2>1
<1>2. \A m \in Nat : m \in T => m + 1 \in T
  <2> SUFFICES ASSUME NEW m \in Nat, m \in T, m + 1 <= n PROVE \E f : Good(f, m + 1)
    OBVIOUS
  <2>1. PICK f : Good(f, m)  OBVIOUS
  <2> DEFINE h == [i \in 0..m + 1 |-> IF i = m + 1 THEN g[<<m + 1, f[m]>>] ELSE f[i]]
  <2>2. f[m] \in S /\ <<m + 1, f[m]>> \in (1..n) \X S  BY <2>1
  <2>3. h \in [0..m + 1 -> S] /\ h[0] = c  BY <2>1, <2>2
  <2>4. ASSUME NEW i \in 1..m + 1 PROVE h[i] = g[<<i, h[i - 1]>>]
    <3>1. CASE i = m + 1
      <4>1. h[m + 1] = g[<<m + 1, f[m]>>] /\ h[m] = f[m]  OBVIOUS
      <4>2. i - 1 = m  BY <3>1
      <4> QED BY <3>1, <4>1, <4>2
    <3>2. CASE i \in 1..m
      <4>1. h[i] = f[i] /\ h[i - 1] = f[i - 1]  BY <3>2
      <4> QED BY <4>1, <3>2, <2>1
    <3> QED BY <3>1, <3>2
  <2> HIDE DEF h
  <2> QED BY <2>3, <2>4
<1> HIDE DEF T
<1>3. n \in T  BY <1>1, <1>2, Induction
<1> QED BY <1>3 DEF T, Follows

\* A function on 1..n is a sequence.
LEMMA SequenceOf ==
  ASSUME NEW n \in Nat, NEW S, NEW s \in [1..n -> S]
  PROVE  s \in Seq(S) /\ Len(s) = n
<1>1. s \in Seq(S)  BY SeqDef
<1>2. Len(s) \in Nat /\ 1..Len(s) = 1..n  BY <1>1, LenProperties
<1>3. Len(s) = n
  <2>1. CASE n = 0  BY <1>2, <2>1
  <2>2. CASE n > 0
    <3>1. n \in 1..Len(s)  BY <1>2, <2>2
    <3>2. Len(s) \in 1..n  BY <1>2, <3>1
    <3> QED BY <1>2, <3>1, <3>2
  <2> QED BY <2>1, <2>2
<1> QED BY <1>1, <1>3

-----------------------------------------------------------------------------
(* Masking: str.replace and finditer                                       *)

\* The value G gives for a position depends on those further on alone; f has the
\* values of G, and c behind the last.
LooksOn(G, n, S) ==
  \A i \in 1..n : \A u, v \in [1..n + 1 -> S] :
    (\A k \in i + 1..n + 1 : u[k] = v[k]) => G[<<i, u>>] = G[<<i, v>>]
Unfolds(f, n, c, G) == f[n + 1] = c /\ \A i \in 1..n : f[i] = G[<<i, f>>]

\* A function of the positions up to n + 1 that is defined from its values
\* further on, as the matches of a text and what is replaced in it are.
LEMMA FromTheEnd ==
  ASSUME NEW n \in Nat, NEW S, NEW c \in S, NEW G \in [(1..n) \X [1..n + 1 -> S] -> S], LooksOn(G, n, S)
  PROVE  \E f \in [1..n + 1 -> S] : Unfolds(f, n, c, G)
<1> DEFINE H == [1..n + 1 -> S]
           start == [i \in 1..n + 1 |-> c]
           g == [x \in (1..n) \X H |-> [x[2] EXCEPT ![n + 1 - x[1]] = G[<<n + 1 - x[1], x[2]>>]]]
<1>1. start \in H  OBVIOUS
<1>2. \A j \in 1..n : n + 1 - j \in 1..n  OBVIOUS
<1>3. \A i \in 1..n : \A h \in H : G[<<i, h>>] \in S  OBVIOUS
<1>4. g \in [(1..n) \X H -> H]
  <2>1. ASSUME NEW j \in 1..n, NEW h \in H
        PROVE  [h EXCEPT ![n + 1 - j] = G[<<n + 1 - j, h>>]] \in H
    <3>1. n + 1 - j \in 1..n + 1 /\ G[<<n + 1 - j, h>>] \in S  BY <1>2, <1>3
    <3> QED BY <3>1
  <2> HIDE DEF H
  <2>2. ASSUME NEW x \in (1..n) \X H
        PROVE  [x[2] EXCEPT ![n + 1 - x[1]] = G[<<n + 1 - x[1], x[2]>>]] \in H
    <3>1. x[1] \in 1..n /\ x[2] \in H  OBVIOUS
    <3> QED BY <3>1, <2>1
  <2> QED BY <2>2
<1> HIDE DEF H
<1>5. PICK F \in [0..n -> H] : F[0] = start /\ \A j \in 1..n : F[j] = g[<<j, F[j - 1]>>]
  <2> HIDE DEF g
  <2>1. \A s \in H : \E f \in [0..n -> H] : Follows(f, n, s, g)
    BY <1>4, Recursion, Zenon
  <2> QED BY <2>1, <1>1 DEF Follows
<1>6. \A j \in 1..n : F[j] = [F[j - 1] EXCEPT ![n + 1 - j] = G[<<n + 1 - j, F[j - 1]>>]]
  <2> SUFFICES ASSUME NEW j \in 1..n
               PROVE  F[j] = [F[j - 1] EXCEPT ![n + 1 - j] = G[<<n + 1 - j, F[j - 1]>>]]
    OBVIOUS
  <2>1. j - 1 \in 0..n  OBVIOUS
  <2>2. <<j, F[j - 1]>> \in (1..n) \X H  BY <2>1
  <2> QED BY <2>2, <1>5
<1> HIDE DEF g
<1>7. \A j \in 0..n : F[j] \in [1..n + 1 -> S]  BY DEF H
<1>8. ASSUME NEW a \in 0..n PROVE \A b \in a..n : \A k \in n + 1 - a..n + 1 : F[b][k] = F[a][k]
  <2> DEFINE T == {b \in a..n : \A k \in n + 1 - a..n + 1 : F[b][k] = F[a][k]}
  <2>1. a \in T  OBVIOUS
  <2>2. \A b \in a..n : b < n /\ b \in T => b + 1 \in T
    <3> SUFFICES ASSUME NEW b \in a..n, b < n, b \in T, NEW k \in n + 1 - a..n + 1
                 PROVE  F[b + 1][k] = F[a][k]
      OBVIOUS
    <3>1. b + 1 \in 1..n /\ b \in 0..n /\ (b + 1) - 1 = b  OBVIOUS
    <3>2. F[b + 1] = [F[b] EXCEPT ![n + 1 - (b + 1)] = G[<<n + 1 - (b + 1), F[b]>>]]  BY <3>1, <1>6
    <3>3. k \in 1..n + 1 /\ k # n + 1 - (b + 1)  OBVIOUS
    <3>4. F[b + 1][k] = F[b][k]  BY <3>1, <3>2, <3>3, <1>7
    <3> QED BY <3>4
  <2> HIDE DEF T
  <2>3. a \in Nat  OBVIOUS
  <2>4. \A b \in a..n : b \in T  BY <2>1, <2>2, <2>3, InductionUpTo
  <2> QED BY <2>4 DEF T
<1>9. F[n] \in [1..n + 1 -> S] /\ F[n][n + 1] = c
  <2>1. 0 \in 0..n /\ n \in 0..n /\ n + 1 \in n + 1 - 0..n + 1  OBVIOUS
  <2>2. F[n][n + 1] = F[0][n + 1]  BY <2>1, <1>8
  <2> QED BY <2>1, <2>2, <1>5, <1>7
<1>10. \A i \in 1..n : F[n][i] = G[<<i, F[n]>>]
  <2> SUFFICES ASSUME NEW i \in 1..n PROVE F[n][i] = G[<<i, F[n]>>]  OBVIOUS
  <2> DEFINE j == n + 1 - i
  <2>1. j \in 1..n /\ j \in 0..n /\ j - 1 \in 0..n /\ n + 1 - j = i /\ i \in n + 1 - j..n + 1 /\ i \in 1..n + 1
    OBVIOUS
  <2> HIDE DEF j
  <2>2. n \in j..n /\ n \in (j - 1)..n  BY <2>1
  <2>3. F[n][i] = F[j][i]  BY <2>1, <2>2, <1>8
  <2>4. F[j] = [F[j - 1] EXCEPT ![i] = G[<<i, F[j - 1]>>]]  BY <2>1, <1>6
  <2>5. F[j][i] = G[<<i, F[j - 1]>>]  BY <2>1, <2>4, <1>7
  <2>6. \A k \in i + 1..n + 1 : F[j - 1][k] = F[n][k]
    <3> SUFFICES ASSUME NEW k \in i + 1..n + 1 PROVE F[j - 1][k] = F[n][k]  OBVIOUS
    <3>1. k \in n + 1 - (j - 1)..n + 1  BY DEF j
    <3> QED BY <2>1, <2>2, <3>1, <1>8
  <2>7. F[j - 1] \in [1..n + 1 -> S] /\ F[n] \in [1..n + 1 -> S]  BY <2>1, <1>7, <1>9
  <2> QED BY <2>3, <2>5, <2>6, <2>7 DEF LooksOn
<1> QED BY <1>9, <1>10 DEF Unfolds

\* m is in t from position i on.
Occurs(t, m, i) ==
  i \in 1..Len(t) /\ i + Len(m) - 1 <= Len(t) /\ \A j \in 1..Len(m) : t[i + j - 1] = m[j]

\* str.replace looks for the occurrences of a match.
LEMMA OccursIs ==
  ASSUME NEW U, NEW t \in Seq(U), NEW m \in Seq(U), NEW i \in 1..Len(t)
  PROVE  IsPrefix(m, SubSeq(t, i, Len(t))) <=> Occurs(t, m, i)
<1> DEFINE n == Len(t)
           l == Len(m)
           s == SubSeq(t, i, n)
<1>1. n \in Nat /\ l \in Nat  BY LenProperties
<1>2. \A k \in 1..n : t[k] \in U  BY ElementOfSeq
<1>3. \A k \in 1..l : m[k] \in U  BY ElementOfSeq
<1>4. s \in Seq(U) /\ Len(s) = n - i + 1 /\ \A j \in 1..n - i + 1 : s[j] = t[i + j - 1]
  <2>1. i \in Int /\ n \in Int /\ \A k \in i..n : t[k] \in U  BY <1>1, <1>2
  <2>2. i <= n  BY <1>1
  <2> HIDE DEF n
  <2> QED BY <2>1, <2>2, SubSeqProperties
<1>5. SubSeq(m, 1, l) \in Seq(U) /\ Len(SubSeq(m, 1, l)) = l /\ \A j \in 1..l : SubSeq(m, 1, l)[j] = m[j]
  <2>1. 1 \in Int /\ l \in Int /\ \A k \in 1..l : m[k] \in U  BY <1>1, <1>3
  <2> HIDE DEF l
  <2>2. /\ SubSeq(m, 1, l) \in Seq(U) /\ Len(SubSeq(m, 1, l)) = (IF 1 <= l THEN l - 1 + 1 ELSE 0)
        /\ \A j \in 1..l - 1 + 1 : SubSeq(m, 1, l)[j] = m[1 + j - 1]
    BY <2>1, SubSeqProperties
  <2> QED BY <2>2, <1>1
<1> HIDE DEF s, l, n
<1>6. ASSUME l <= n - i + 1
      PROVE  /\ SubSeq(s, 1, l) \in Seq(U) /\ Len(SubSeq(s, 1, l)) = l
             /\ \A j \in 1..l : SubSeq(s, 1, l)[j] = t[i + j - 1]
  <2>1. \A k \in 1..l : s[k] \in U
    <3> SUFFICES ASSUME NEW k \in 1..l PROVE s[k] \in U  OBVIOUS
    <3>1. k \in 1..Len(s)  BY <1>1, <1>4, <1>6
    <3> QED BY <3>1, <1>4, ElementOfSeq
  <2>2. 1 \in Int /\ l \in Int  BY <1>1
  <2>3. /\ SubSeq(s, 1, l) \in Seq(U) /\ Len(SubSeq(s, 1, l)) = (IF 1 <= l THEN l - 1 + 1 ELSE 0)
        /\ \A j \in 1..l - 1 + 1 : SubSeq(s, 1, l)[j] = s[1 + j - 1]
    BY <2>1, <2>2, SubSeqProperties
  <2> QED BY <2>3, <1>1, <1>4, <1>6
<1>7. IsPrefix(m, s) <=> l <= Len(s) /\ SubSeq(m, 1, l) = SubSeq(s, 1, l)  BY DEF IsPrefix, l
<1>8. Occurs(t, m, i) <=> l <= n - i + 1 /\ \A j \in 1..l : t[i + j - 1] = m[j]
  BY <1>1 DEF Occurs, l, n
<1>9. ASSUME IsPrefix(m, s) PROVE Occurs(t, m, i)
  <2>1. l <= n - i + 1  BY <1>4, <1>7, <1>9
  <2>2. \A j \in 1..l : t[i + j - 1] = m[j]  BY <1>5, <1>6, <1>7, <1>9, <2>1
  <2> QED BY <2>1, <2>2, <1>8
<1>10. ASSUME Occurs(t, m, i) PROVE IsPrefix(m, s)
  <2>1. l <= n - i + 1 /\ \A j \in 1..l : t[i + j - 1] = m[j]  BY <1>8, <1>10
  <2> DEFINE a == SubSeq(m, 1, l)
             b == SubSeq(s, 1, l)
  <2>2. a \in Seq(U) /\ b \in Seq(U) /\ Len(a) = Len(b) /\ \A j \in 1..Len(a) : a[j] = b[j]
    BY <1>5, <1>6, <2>1
  <2> HIDE DEF a, b
  <2>3. a = b  BY <2>2, SeqEqual
  <2> QED BY <2>1, <2>3, <1>4, <1>7 DEF a, b
<1> QED BY <1>9, <1>10 DEF s, n

\* What is made of a text t from its position i on: o[q] is where the symbol q
\* of u comes from, c[q] is 0 where it was copied, and otherwise its place in
\* what was put for an occurrence of m at o[q].
Origin(t, m, new, i, u, o, c) ==
  /\ o \in [1..Len(u) -> 1..Len(t)] /\ c \in [1..Len(u) -> 0..Len(new)]
  /\ \A q \in 1..Len(u) :
       /\ c[q] = 0 => u[q] = t[o[q]] /\ ~Occurs(t, m, o[q])
       /\ c[q] # 0 => u[q] = new[c[q]] /\ Occurs(t, m, o[q])
  /\ \A q \in 1..Len(u) - 1 :
       /\ c[q] = 0 => o[q + 1] = o[q] + 1 /\ c[q + 1] \in {0, 1}
       /\ c[q] \in 1..Len(new) - 1 => o[q + 1] = o[q] /\ c[q + 1] = c[q] + 1
       /\ c[q] = Len(new) => o[q + 1] = o[q] + Len(m) /\ c[q + 1] \in {0, 1}
  /\ IF Len(u) = 0 THEN i = Len(t) + 1
     ELSE /\ o[1] = i /\ c[1] \in {0, 1}
          /\ LET l == Len(u)
             IN  IF c[l] = 0 THEN o[l] = Len(t) ELSE c[l] = Len(new) /\ o[l] + Len(m) = Len(t) + 1

\* A step of str.replace where m does not begin, and one where it does.
LEMMA OneCopied ==
  ASSUME NEW U, NEW t \in Seq(U), NEW m \in Seq(U), NEW new \in Seq(U), Len(new) > 0,
         NEW i \in 1..Len(t), ~Occurs(t, m, i),
         NEW u \in Seq(U), NEW o, NEW c, Origin(t, m, new, i + 1, u, o, c)
  PROVE  \E p, d : Origin(t, m, new, i, <<t[i]>> \o u, p, d)
<1> DEFINE v == <<t[i]>> \o u
           l == Len(u)
           p == [q \in 1..l + 1 |-> IF q = 1 THEN i ELSE o[q - 1]]
           d == [q \in 1..l + 1 |-> IF q = 1 THEN 0 ELSE c[q - 1]]
<1>1. l \in Nat /\ Len(t) \in Nat /\ Len(m) \in Nat /\ Len(new) \in Nat  BY LenProperties
<1>2. v \in Seq(U) /\ Len(v) = l + 1 /\ v[1] = t[i] /\ \A q \in 2..l + 1 : v[q] = u[q - 1]
  <2>1. t[i] \in U  BY ElementOfSeq
  <2>2. <<t[i]>> \in Seq(U) /\ Len(<<t[i]>>) = 1 /\ <<t[i]>>[1] = t[i]  BY <2>1
  <2>3. \A w \in Seq(U) : /\ w \o u \in Seq(U) /\ Len(w \o u) = Len(w) + Len(u)
                          /\ \A j \in 1..Len(w) + Len(u) :
                               (w \o u)[j] = IF j <= Len(w) THEN w[j] ELSE u[j - Len(w)]
    BY ConcatProperties
  <2>4. /\ v \in Seq(U) /\ Len(v) = 1 + l
        /\ \A j \in 1..1 + l : v[j] = IF j <= 1 THEN t[i] ELSE u[j - 1]
    <3> HIDE DEF v, l
    <3> DEFINE w == <<t[i]>>
    <3>1. w \in Seq(U) /\ Len(w) = 1 /\ w[1] = t[i]  BY <2>2
    <3> HIDE DEF w
    <3>2. /\ w \o u \in Seq(U) /\ Len(w \o u) = 1 + Len(u)
          /\ \A j \in 1..1 + Len(u) : (w \o u)[j] = IF j <= 1 THEN w[j] ELSE u[j - 1]
      BY <2>3, <3>1
    <3>3. v = w \o u  BY DEF v, w
    <3>4. \A j \in 1..1 + l : j <= 1 => w[j] = t[i]  BY <1>1, <3>1
    <3> QED BY <3>2, <3>3, <3>4 DEF l
  <2> HIDE DEF v, l
  <2> QED BY <2>4, <1>1
<1> HIDE DEF v
<1>3. /\ o \in [1..l -> 1..Len(t)] /\ c \in [1..l -> 0..Len(new)]
      /\ \A q \in 1..l : /\ c[q] = 0 => u[q] = t[o[q]] /\ ~Occurs(t, m, o[q])
                         /\ c[q] # 0 => u[q] = new[c[q]] /\ Occurs(t, m, o[q])
  BY DEF Origin
<1>4. \A q \in 1..l - 1 : /\ c[q] = 0 => o[q + 1] = o[q] + 1 /\ c[q + 1] \in {0, 1}
                          /\ c[q] \in 1..Len(new) - 1 => o[q + 1] = o[q] /\ c[q + 1] = c[q] + 1
                          /\ c[q] = Len(new) => o[q + 1] = o[q] + Len(m) /\ c[q + 1] \in {0, 1}
  BY DEF Origin
<1>5. /\ l = 0 => i = Len(t)
      /\ l # 0 => /\ o[1] = i + 1 /\ c[1] \in {0, 1}
                  /\ c[l] = 0 => o[l] = Len(t)
                  /\ c[l] # 0 => c[l] = Len(new) /\ o[l] + Len(m) = Len(t) + 1
  BY <1>1 DEF Origin
<1> HIDE DEF l
<1>6. p \in [1..l + 1 -> 1..Len(t)] /\ d \in [1..l + 1 -> 0..Len(new)]
  <2>1. \A q \in 1..l + 1 : q # 1 => q - 1 \in 1..l  BY <1>1
  <2> QED BY <2>1, <1>1, <1>3
<1>7. p[1] = i /\ d[1] = 0 /\ \A q \in 2..l + 1 : p[q] = o[q - 1] /\ d[q] = c[q - 1]
  BY <1>1
<1> HIDE DEF p, d
<1>8. ASSUME NEW q \in 1..l + 1
      PROVE  /\ d[q] = 0 => v[q] = t[p[q]] /\ ~Occurs(t, m, p[q])
             /\ d[q] # 0 => v[q] = new[d[q]] /\ Occurs(t, m, p[q])
  <2>1. CASE q = 1  BY <2>1, <1>2, <1>7
  <2>2. CASE q \in 2..l + 1
    <3>1. q - 1 \in 1..l  BY <1>1, <2>2
    <3> QED BY <2>2, <3>1, <1>2, <1>3, <1>7
  <2> QED BY <2>1, <2>2, <1>1
<1>9. ASSUME NEW q \in 1..l
      PROVE  /\ d[q] = 0 => p[q + 1] = p[q] + 1 /\ d[q + 1] \in {0, 1}
             /\ d[q] \in 1..Len(new) - 1 => p[q + 1] = p[q] /\ d[q + 1] = d[q] + 1
             /\ d[q] = Len(new) => p[q + 1] = p[q] + Len(m) /\ d[q + 1] \in {0, 1}
  <2>0. q + 1 \in 2..l + 1 /\ (q + 1) - 1 = q  BY <1>1
  <2>1. p[q + 1] = o[q] /\ d[q + 1] = c[q]  BY <2>0, <1>7
  <2>2. CASE q = 1
    <3>1. l # 0  BY <1>1
    <3> QED BY <2>1, <2>2, <3>1, <1>1, <1>5, <1>7
  <2>3. CASE q \in 2..l
    <3>1. q - 1 \in 1..l - 1 /\ (q - 1) + 1 = q /\ q \in 2..l + 1  BY <1>1, <2>3
    <3>2. p[q] = o[q - 1] /\ d[q] = c[q - 1]  BY <3>1, <1>7
    <3> QED BY <2>1, <3>1, <3>2, <1>4
  <2> QED BY <2>2, <2>3, <1>1
<1>10. /\ d[l + 1] = 0 => p[l + 1] = Len(t)
       /\ d[l + 1] # 0 => d[l + 1] = Len(new) /\ p[l + 1] + Len(m) = Len(t) + 1
  <2>1. CASE l = 0  BY <2>1, <1>5, <1>7
  <2>2. CASE l # 0
    <3>1. l + 1 \in 2..l + 1 /\ (l + 1) - 1 = l  BY <1>1, <2>2
    <3>2. p[l + 1] = o[l] /\ d[l + 1] = c[l]  BY <3>1, <1>7
    <3> QED BY <2>2, <3>2, <1>5
  <2> QED BY <2>1, <2>2
<1>11. Origin(t, m, new, i, v, p, d)
  <2>1. Len(v) = l + 1 /\ Len(v) # 0 /\ (l + 1) - 1 = l  BY <1>1, <1>2
  <2>2. \A q \in 1..(l + 1) - 1 :
             /\ d[q] = 0 => p[q + 1] = p[q] + 1 /\ d[q + 1] \in {0, 1}
             /\ d[q] \in 1..Len(new) - 1 => p[q + 1] = p[q] /\ d[q + 1] = d[q] + 1
             /\ d[q] = Len(new) => p[q + 1] = p[q] + Len(m) /\ d[q + 1] \in {0, 1}
    BY <2>1, <1>9
  <2>3. p[1] = i /\ d[1] \in {0, 1}  BY <1>7
  <2> QED BY <2>1, <2>2, <2>3, <1>6, <1>8, <1>10 DEF Origin
<1> QED BY <1>11 DEF v

LEMMA OneReplaced ==
  ASSUME NEW U, NEW t \in Seq(U), NEW m \in Seq(U), NEW new \in Seq(U), Len(new) > 0,
         NEW i \in 1..Len(t), Occurs(t, m, i),
         NEW u \in Seq(U), NEW o, NEW c, Origin(t, m, new, i + Len(m), u, o, c)
  PROVE  \E p, d : Origin(t, m, new, i, new \o u, p, d)
<1> DEFINE v == new \o u
           l == Len(u)
           k == Len(new)
           p == [q \in 1..k + l |-> IF q <= k THEN i ELSE o[q - k]]
           d == [q \in 1..k + l |-> IF q <= k THEN q ELSE c[q - k]]
<1>1. l \in Nat /\ Len(t) \in Nat /\ Len(m) \in Nat /\ k \in Nat \ {0}  BY LenProperties
<1>2. v \in Seq(U) /\ Len(v) = k + l /\ \A q \in 1..k + l : v[q] = IF q <= k THEN new[q] ELSE u[q - k]
  <2> HIDE DEF v, k, l
  <2>1. /\ new \o u \in Seq(U) /\ Len(new \o u) = Len(new) + Len(u)
        /\ \A j \in 1..Len(new) + Len(u) :
             (new \o u)[j] = IF j <= Len(new) THEN new[j] ELSE u[j - Len(new)]
    BY ConcatProperties
  <2> QED BY <2>1 DEF v, k, l
<1> HIDE DEF v
<1>3. /\ o \in [1..l -> 1..Len(t)] /\ c \in [1..l -> 0..k]
      /\ \A q \in 1..l : /\ c[q] = 0 => u[q] = t[o[q]] /\ ~Occurs(t, m, o[q])
                         /\ c[q] # 0 => u[q] = new[c[q]] /\ Occurs(t, m, o[q])
  BY DEF Origin
<1>4. \A q \in 1..l - 1 : /\ c[q] = 0 => o[q + 1] = o[q] + 1 /\ c[q + 1] \in {0, 1}
                          /\ c[q] \in 1..k - 1 => o[q + 1] = o[q] /\ c[q + 1] = c[q] + 1
                          /\ c[q] = k => o[q + 1] = o[q] + Len(m) /\ c[q + 1] \in {0, 1}
  BY DEF Origin
<1>5. /\ l = 0 => i + Len(m) = Len(t) + 1
      /\ l # 0 => /\ o[1] = i + Len(m) /\ c[1] \in {0, 1}
                  /\ c[l] = 0 => o[l] = Len(t)
                  /\ c[l] # 0 => c[l] = k /\ o[l] + Len(m) = Len(t) + 1
  BY <1>1 DEF Origin
<1> HIDE DEF l, k
<1>6. p \in [1..k + l -> 1..Len(t)] /\ d \in [1..k + l -> 0..k]
  <2>1. \A q \in 1..k + l : ~(q <= k) => q - k \in 1..l  BY <1>1
  <2>2. \A q \in 1..k + l : q <= k => q \in 0..k  BY <1>1
  <2> QED BY <2>1, <2>2, <1>1, <1>3
<1>7. /\ \A q \in 1..k : p[q] = i /\ d[q] = q
      /\ \A q \in k + 1..k + l : p[q] = o[q - k] /\ d[q] = c[q - k] /\ q - k \in 1..l
  BY <1>1
<1> HIDE DEF p, d
<1>8. ASSUME NEW q \in 1..k + l
      PROVE  /\ d[q] = 0 => v[q] = t[p[q]] /\ ~Occurs(t, m, p[q])
             /\ d[q] # 0 => v[q] = new[d[q]] /\ Occurs(t, m, p[q])
  <2>1. CASE q \in 1..k
    <3>1. q <= k /\ q # 0  BY <1>1, <2>1
    <3> QED BY <2>1, <3>1, <1>2, <1>7
  <2>2. CASE q \in k + 1..k + l
    <3>1. q - k \in 1..l /\ ~(q <= k)  BY <1>1, <2>2
    <3>2. v[q] = u[q - k] /\ p[q] = o[q - k] /\ d[q] = c[q - k]  BY <2>2, <3>1, <1>2, <1>7
    <3> QED BY <3>1, <3>2, <1>3
  <2> QED BY <2>1, <2>2, <1>1
<1>9. ASSUME NEW q \in 1..(k + l) - 1
      PROVE  /\ d[q] = 0 => p[q + 1] = p[q] + 1 /\ d[q + 1] \in {0, 1}
             /\ d[q] \in 1..k - 1 => p[q + 1] = p[q] /\ d[q + 1] = d[q] + 1
             /\ d[q] = k => p[q + 1] = p[q] + Len(m) /\ d[q + 1] \in {0, 1}
  <2>1. CASE q \in 1..k - 1
    <3>1. q \in 1..k /\ q + 1 \in 1..k /\ q # 0 /\ q # k  BY <1>1, <2>1
    <3> QED BY <3>1, <1>7
  <2>2. CASE q = k
    <3>1. q \in 1..k /\ q + 1 \in k + 1..k + l /\ (q + 1) - k = 1 /\ l # 0 /\ k # 0 /\ q \notin 1..k - 1
      BY <1>1, <2>2
    <3>2. p[q] = i /\ d[q] = k /\ p[q + 1] = o[1] /\ d[q + 1] = c[1]  BY <3>1, <2>2, <1>7
    <3> QED BY <3>1, <3>2, <2>2, <1>5
  <2>3. CASE q \in k + 1..k + l
    <3>1. q - k \in 1..l - 1 /\ (q + 1) - k = (q - k) + 1 /\ q + 1 \in k + 1..k + l  BY <1>1, <2>3
    <3>2. p[q] = o[q - k] /\ d[q] = c[q - k] /\ p[q + 1] = o[(q - k) + 1] /\ d[q + 1] = c[(q - k) + 1]
      BY <2>3, <3>1, <1>7
    <3> QED BY <3>1, <3>2, <1>4
  <2> QED BY <2>1, <2>2, <2>3, <1>1
<1>10. /\ d[k + l] = 0 => p[k + l] = Len(t)
       /\ d[k + l] # 0 => d[k + l] = k /\ p[k + l] + Len(m) = Len(t) + 1
  <2>1. CASE l = 0
    <3>1. k + l \in 1..k /\ k + l = k /\ k # 0  BY <1>1, <2>1
    <3> QED BY <2>1, <3>1, <1>5, <1>7
  <2>2. CASE l # 0
    <3>1. k + l \in k + 1..k + l /\ (k + l) - k = l  BY <1>1, <2>2
    <3>2. p[k + l] = o[l] /\ d[k + l] = c[l]  BY <3>1, <1>7
    <3> QED BY <2>2, <3>2, <1>5
  <2> QED BY <2>1, <2>2
<1>11. p[1] = i /\ d[1] = 1
  <2>1. 1 \in 1..k  BY <1>1
  <2> QED BY <2>1, <1>7
<1>12. Origin(t, m, new, i, v, p, d)
  <2>1. Len(v) = k + l /\ Len(v) # 0  BY <1>1, <1>2
  <2> QED BY <2>1, <1>6, <1>8, <1>9, <1>10, <1>11 DEF Origin, k
<1> QED BY <1>12 DEF v

\* What str.replace makes of a text.
LEMMA ReplaceIs ==
  ASSUME NEW U, NEW t \in Seq(U), NEW m \in Seq(U), m # <<>>, NEW new \in Seq(U), new # <<>>
  PROVE  /\ Replace(t, m, new) \in Seq(U)
         /\ \E o, c : Origin(t, m, new, 1, Replace(t, m, new), o, c)
<1> DEFINE n == Len(t)
           l == Len(m)
           S == Seq(U)
           At(i) == IsPrefix(m, SubSeq(t, i, Len(t)))
           G == [x \in (1..n) \X [1..n + 1 -> S] |->
                   IF At(x[1]) THEN new \o x[2][x[1] + l] ELSE <<t[x[1]]>> \o x[2][x[1] + 1]]
           Eq(f) == f = [i \in 1..n + 1 |->
                           IF i > n THEN <<>> ELSE IF At(i) THEN new \o f[i + l] ELSE <<t[i]>> \o f[i + 1]]
           from == CHOOSE f : Eq(f)
<1>1. n \in Nat /\ l \in Nat \ {0} /\ Len(new) > 0  BY LenProperties, EmptySeq
<1>2. Replace(t, m, new) = from[1]  BY DEF Replace
<1>3. \A i \in 1..n : At(i) <=> Occurs(t, m, i)  BY OccursIs
<1>4. \A i \in 1..n : At(i) => i + l \in 2..n + 1 /\ i + l > i
  <2> SUFFICES ASSUME NEW i \in 1..n, At(i) PROVE i + l \in 2..n + 1 /\ i + l > i  OBVIOUS
  <2>1. i + l - 1 <= n  BY <1>3 DEF Occurs
  <2> QED BY <1>1, <2>1
<1> HIDE DEF n, l, At
<1>5. \A w \in S, v \in S : w \o v \in S  BY ConcatProperties
<1>6. \A i \in 1..n : <<t[i]>> \in S
  <2> SUFFICES ASSUME NEW i \in 1..n PROVE <<t[i]>> \in Seq(U)  OBVIOUS
  <2>1. t[i] \in U  BY ElementOfSeq DEF n
  <2> QED BY <2>1
<1>7. ASSUME NEW i \in 1..n, NEW f \in [1..n + 1 -> S]
      PROVE  (IF At(i) THEN new \o f[i + l] ELSE <<t[i]>> \o f[i + 1]) \in S
  <2> HIDE DEF S
  <2>0. new \in S  BY DEF S
  <2>1. CASE At(i)
    <3>1. f[i + l] \in S  BY <2>1, <1>1, <1>4
    <3> QED BY <2>0, <2>1, <3>1, <1>5
  <2>2. CASE ~At(i)
    <3>1. f[i + 1] \in S  BY <1>1
    <3> QED BY <2>2, <3>1, <1>5, <1>6
  <2> QED BY <2>1, <2>2
<1>8. <<>> \in S  OBVIOUS
<1> HIDE DEF S
<1>9. G \in [(1..n) \X [1..n + 1 -> S] -> S]
  <2>1. ASSUME NEW x \in (1..n) \X [1..n + 1 -> S]
        PROVE  (IF At(x[1]) THEN new \o x[2][x[1] + l] ELSE <<t[x[1]]>> \o x[2][x[1] + 1]) \in S
    <3>1. x[1] \in 1..n /\ x[2] \in [1..n + 1 -> S]  OBVIOUS
    <3> QED BY <3>1, <1>7
  <2> QED BY <2>1
<1>10. \A i \in 1..n : \A f \in [1..n + 1 -> S] :
          G[<<i, f>>] = IF At(i) THEN new \o f[i + l] ELSE <<t[i]>> \o f[i + 1]
  OBVIOUS
<1> HIDE DEF G
<1>11. LooksOn(G, n, S)
  <2> SUFFICES ASSUME NEW i \in 1..n, NEW u \in [1..n + 1 -> S], NEW v \in [1..n + 1 -> S],
                      \A k \in i + 1..n + 1 : u[k] = v[k]
               PROVE  G[<<i, u>>] = G[<<i, v>>]
    BY DEF LooksOn
  <2>1. CASE At(i)
    <3>1. i + l \in i + 1..n + 1  BY <1>1, <1>4, <2>1
    <3>2. u[i + l] = v[i + l]  BY <3>1
    <3> QED BY <2>1, <3>2, <1>10
  <2>2. CASE ~At(i)
    <3>1. i + 1 \in i + 1..n + 1  BY <1>1
    <3>2. u[i + 1] = v[i + 1]  BY <3>1
    <3> QED BY <2>2, <3>2, <1>10
  <2> QED BY <2>1, <2>2
<1>12. PICK f \in [1..n + 1 -> S] : f[n + 1] = <<>> /\ \A i \in 1..n : f[i] = G[<<i, f>>]
  <2>1. n \in Nat  BY <1>1
  <2>2. \A c \in S : \E f \in [1..n + 1 -> S] : Unfolds(f, n, c, G)
    BY <2>1, <1>9, <1>11, FromTheEnd, Zenon
  <2> QED BY <2>2, <1>8 DEF Unfolds
<1>13. Eq(f)
  <2>1. \A i \in 1..n + 1 :
          f[i] = IF i > n THEN <<>> ELSE IF At(i) THEN new \o f[i + l] ELSE <<t[i]>> \o f[i + 1]
    <3> SUFFICES ASSUME NEW i \in 1..n + 1
                 PROVE  f[i] = IF i > n THEN <<>> ELSE IF At(i) THEN new \o f[i + l] ELSE <<t[i]>> \o f[i + 1]
      OBVIOUS
    <3>1. CASE i > n
      <4>1. i = n + 1  BY <1>1, <3>1
      <4> QED BY <3>1, <4>1, <1>12
    <3>2. CASE ~(i > n)
      <4>1. i \in 1..n  BY <1>1, <3>2
      <4>2. f[i] = G[<<i, f>>]  BY <4>1, <1>12
      <4> QED BY <3>2, <4>1, <4>2, <1>10
    <3> QED BY <3>1, <3>2
  <2> QED BY <2>1
<1>14. Eq(from)
  <2> HIDE DEF Eq
  <2> QED BY <1>13
<1> HIDE DEF from
<1>15. /\ from[n + 1] = <<>>
       /\ \A i \in 1..n : from[i] = IF At(i) THEN new \o from[i + l] ELSE <<t[i]>> \o from[i + 1]
  <2>1. n + 1 \in 1..n + 1 /\ n + 1 > n  BY <1>1
  <2>2. \A i \in 1..n : i \in 1..n + 1 /\ ~(i > n)  BY <1>1
  <2> QED BY <2>1, <2>2, <1>14
<1> HIDE DEF Eq
<1> DEFINE Good(i) == from[i] \in Seq(U) /\ \E o, c : Origin(t, m, new, i, from[i], o, c)
           T == {j \in 0..n : \A i \in n + 1 - j..n + 1 : Good(i)}
<1>16. 0 \in T
  <2>1. Origin(t, m, new, n + 1, <<>>, <<>>, <<>>)
    <3>1. Len(<<>>) = 0 /\ 1..0 = {}  BY EmptySeq
    <3>2. <<>> \in [1..0 -> 1..Len(t)] /\ <<>> \in [1..0 -> 0..Len(new)]
      <4>1. <<>> = [x \in {} |-> 0]  OBVIOUS
      <4> QED BY <4>1, <3>1
    <3>3. 1..0 - 1 = {}  OBVIOUS
    <3> QED BY <3>1, <3>2, <3>3 DEF Origin, n
  <2>2. Good(n + 1)  BY <2>1, <1>15
  <2> HIDE DEF Good
  <2>3. \A i \in n + 1 - 0..n + 1 : i = n + 1  BY <1>1
  <2> QED BY <2>2, <2>3, <1>1
<1>17. ASSUME NEW i \in 1..n, \A k \in i + 1..n + 1 : Good(k) PROVE Good(i)
  <2>1. CASE At(i)
    <3>1. Occurs(t, m, i)  BY <2>1, <1>3
    <3>2. i + l \in i + 1..n + 1  BY <1>1, <1>4, <2>1
    <3>3. Good(i + l)  BY <3>2, <1>17
    <3>4. PICK o, c : Origin(t, m, new, i + Len(m), from[i + l], o, c)  BY <3>3 DEF l
    <3>5. \E p, d : Origin(t, m, new, i, new \o from[i + l], p, d)
      BY <1>1, <3>1, <3>3, <3>4, OneReplaced DEF n
    <3>6. new \o from[i + l] \in Seq(U)  BY <3>3, <1>5 DEF S
    <3>7. from[i] = new \o from[i + l]  BY <2>1, <1>15
    <3> QED BY <3>5, <3>6, <3>7
  <2>2. CASE ~At(i)
    <3>1. ~Occurs(t, m, i)  BY <2>2, <1>3
    <3>2. i + 1 \in i + 1..n + 1  BY <1>1
    <3>3. Good(i + 1)  BY <3>2, <1>17
    <3>4. PICK o, c : Origin(t, m, new, i + 1, from[i + 1], o, c)  BY <3>3
    <3>5. \E p, d : Origin(t, m, new, i, <<t[i]>> \o from[i + 1], p, d)
      BY <1>1, <3>1, <3>3, <3>4, OneCopied DEF n
    <3>6. <<t[i]>> \o from[i + 1] \in Seq(U)  BY <3>3, <1>5, <1>6 DEF S
    <3>7. from[i] = <<t[i]>> \o from[i + 1]  BY <2>2, <1>15
    <3> QED BY <3>5, <3>6, <3>7
  <2> QED BY <2>1, <2>2
<1> HIDE DEF Good
<1>18. \A j \in 0..n : j < n /\ j \in T => j + 1 \in T
  <2> SUFFICES ASSUME NEW j \in 0..n, j < n, j \in T PROVE j + 1 \in T  OBVIOUS
  <2> DEFINE i == n - j
  <2>1. i \in 1..n /\ j + 1 \in 0..n /\ n + 1 - (j + 1) = i /\ n + 1 - j = i + 1  BY <1>1
  <2> HIDE DEF i
  <2>2. \A k \in i + 1..n + 1 : Good(k)  BY <2>1
  <2>3. Good(i)  BY <2>1, <2>2, <1>17
  <2>4. \A k \in i..n + 1 : k = i \/ k \in i + 1..n + 1  BY <1>1, <2>1
  <2>5. \A k \in i..n + 1 : Good(k)  BY <2>2, <2>3, <2>4
  <2> QED BY <2>1, <2>5
<1> HIDE DEF T
<1>19. \A j \in 0..n : j \in T  BY <1>1, <1>16, <1>18, InductionUpTo
<1>20. Good(1)
  <2>1. n \in T /\ 1 \in n + 1 - n..n + 1  BY <1>1, <1>19
  <2> QED BY <2>1 DEF T
<1> QED BY <1>2, <1>20 DEF Good

\* Only the last symbol of a match is one that ends matches of its pattern.
Ended(m, E) == Len(m) > 0 /\ m[Len(m)] \in E /\ \A r \in 1..Len(m) - 1 : m[r] \notin E

\* u is t with new for every occurrence of m; all of them texts of symbols in U.
Replaced(U, t, m, new, u, o, c) ==
  /\ t \in Seq(U) /\ m \in Seq(U) /\ new \in Seq(U) /\ u \in Seq(U)
  /\ Len(m) > 0 /\ Len(new) > 0 /\ Origin(t, m, new, 1, u, o, c)

\* The facts of a replacement, position by position.
LEMMA PlacesAre ==
  ASSUME NEW U, NEW t, NEW m, NEW new, NEW u, NEW o, NEW c, Replaced(U, t, m, new, u, o, c)
  PROVE  /\ Len(t) \in Nat /\ Len(m) \in Nat \ {0} /\ Len(new) \in Nat \ {0} /\ Len(u) \in Nat
         /\ \A q \in 1..Len(u) :
              /\ o[q] \in 1..Len(t) /\ c[q] \in 0..Len(new)
              /\ c[q] = 0 => u[q] = t[o[q]] /\ ~Occurs(t, m, o[q])
              /\ c[q] # 0 => u[q] = new[c[q]] /\ Occurs(t, m, o[q])
<1> QED BY LenProperties DEF Replaced, Origin

\* Where the next symbol, and the one before, comes from.
LEMMA NextIs ==
  ASSUME NEW U, NEW t, NEW m, NEW new, NEW u, NEW o, NEW c, Replaced(U, t, m, new, u, o, c),
         NEW q \in 1..Len(u), c[q] = 0
  PROVE  /\ q = Len(u) => o[q] = Len(t)
         /\ q < Len(u) => /\ q + 1 \in 1..Len(u) /\ o[q + 1] = o[q] + 1 /\ o[q] + 1 \in 1..Len(t)
                          /\ c[q + 1] = 0 => u[q + 1] = t[o[q] + 1]
                          /\ c[q + 1] # 0 => c[q + 1] = 1 /\ u[q + 1] = new[1] /\ t[o[q] + 1] = m[1]
<1>1. /\ Len(t) \in Nat /\ Len(m) \in Nat \ {0} /\ Len(new) \in Nat \ {0} /\ Len(u) \in Nat
      /\ \A x \in 1..Len(u) :
              /\ o[x] \in 1..Len(t) /\ c[x] \in 0..Len(new)
              /\ c[x] = 0 => u[x] = t[o[x]] /\ ~Occurs(t, m, o[x])
              /\ c[x] # 0 => u[x] = new[c[x]] /\ Occurs(t, m, o[x])
  BY PlacesAre
<1>2. CASE q = Len(u)
  <2>1. Len(u) # 0  BY <1>1
  <2>2. o[q] = Len(t)  BY <1>2, <2>1 DEF Replaced, Origin
  <2> QED BY <1>1, <1>2, <2>2
<1>3. CASE q < Len(u)
  <2>1. q \in 1..Len(u) - 1 /\ q + 1 \in 1..Len(u)  BY <1>1, <1>3
  <2>2. o[q + 1] = o[q] + 1 /\ c[q + 1] \in {0, 1}  BY <2>1 DEF Replaced, Origin
  <2>3. c[q + 1] = 0 => u[q + 1] = t[o[q] + 1]  BY <1>1, <2>1, <2>2
  <2>4. c[q + 1] # 0 => c[q + 1] = 1 /\ u[q + 1] = new[1] /\ t[o[q] + 1] = m[1]
    <3> SUFFICES ASSUME c[q + 1] # 0 PROVE c[q + 1] = 1 /\ u[q + 1] = new[1] /\ t[o[q] + 1] = m[1]
      OBVIOUS
    <3>1. c[q + 1] = 1  BY <2>2
    <3>2. u[q + 1] = new[1] /\ Occurs(t, m, o[q + 1])  BY <1>1, <2>1, <3>1
    <3>3. 1 \in 1..Len(m) /\ (o[q] + 1) + 1 - 1 = o[q] + 1  BY <1>1
    <3>4. t[(o[q] + 1) + 1 - 1] = m[1]  BY <2>2, <3>2, <3>3 DEF Occurs
    <3> QED BY <3>1, <3>2, <3>3, <3>4
  <2> QED BY <1>1, <1>3, <2>1, <2>2, <2>3, <2>4
<1> QED BY <1>1, <1>2, <1>3

LEMMA PreviousIs ==
  ASSUME NEW U, NEW t, NEW m, NEW new, NEW u, NEW o, NEW c, Replaced(U, t, m, new, u, o, c),
         NEW q \in 1..Len(u), c[q] = 0
  PROVE  /\ q = 1 => o[q] = 1
         /\ q > 1 => /\ q - 1 \in 1..Len(u) /\ o[q] - 1 \in 1..Len(t)
                     /\ c[q - 1] = 0 => o[q - 1] = o[q] - 1 /\ u[q - 1] = t[o[q] - 1]
                     /\ c[q - 1] # 0 => /\ c[q - 1] = Len(new) /\ u[q - 1] = new[Len(new)]
                                        /\ t[o[q] - 1] = m[Len(m)]
<1>1. /\ Len(t) \in Nat /\ Len(m) \in Nat \ {0} /\ Len(new) \in Nat \ {0} /\ Len(u) \in Nat
      /\ \A x \in 1..Len(u) :
              /\ o[x] \in 1..Len(t) /\ c[x] \in 0..Len(new)
              /\ c[x] = 0 => u[x] = t[o[x]] /\ ~Occurs(t, m, o[x])
              /\ c[x] # 0 => u[x] = new[c[x]] /\ Occurs(t, m, o[x])
  BY PlacesAre
<1>2. CASE q = 1
  <2>1. Len(u) # 0  BY <1>1
  <2>2. o[1] = 1  BY <2>1 DEF Replaced, Origin
  <2> QED BY <1>2, <2>2
<1>3. CASE q > 1
  <2> DEFINE r == q - 1
  <2>1. r \in 1..Len(u) - 1 /\ r + 1 = q /\ r \in 1..Len(u)  BY <1>1, <1>3
  <2> HIDE DEF r
  <2>2. /\ c[r] = 0 => o[r + 1] = o[r] + 1 /\ c[r + 1] \in {0, 1}
        /\ c[r] \in 1..Len(new) - 1 => o[r + 1] = o[r] /\ c[r + 1] = c[r] + 1
        /\ c[r] = Len(new) => o[r + 1] = o[r] + Len(m) /\ c[r + 1] \in {0, 1}
    BY <2>1 DEF Replaced, Origin
  <2>3. c[r] = 0 \/ c[r] = Len(new)  BY <1>1, <2>1, <2>2
  <2>4. CASE c[r] = 0
    <3>1. o[r] = o[q] - 1 /\ o[r] \in 1..Len(t) /\ u[r] = t[o[r]]  BY <1>1, <2>1, <2>2, <2>4
    <3> QED BY <1>2, <1>3, <2>1, <2>4, <3>1 DEF r
  <2>5. CASE c[r] = Len(new)
    <3>1. Occurs(t, m, o[r]) /\ u[r] = new[Len(new)] /\ c[r] # 0  BY <1>1, <2>1, <2>5
    <3>2. o[q] = o[r] + Len(m)  BY <2>1, <2>2, <2>5
    <3>3. Len(m) \in 1..Len(m) /\ o[r] \in 1..Len(t) /\ o[r] + Len(m) - 1 <= Len(t)
      BY <1>1, <2>1, <3>1 DEF Occurs
    <3>4. t[o[r] + Len(m) - 1] = m[Len(m)]  BY <3>1, <3>3 DEF Occurs
    <3>5. o[q] - 1 = o[r] + Len(m) - 1 /\ o[q] - 1 \in 1..Len(t)  BY <1>1, <3>2, <3>3
    <3> QED BY <1>3, <2>1, <2>5, <3>1, <3>4, <3>5 DEF r
  <2> QED BY <2>3, <2>4, <2>5
<1> QED BY <1>1, <1>2, <1>3

\* From a copied symbol on, all is copied up to where new begins.
LEMMA CopiedOn ==
  ASSUME NEW U, NEW t, NEW m, NEW new, NEW u, NEW o, NEW c, Replaced(U, t, m, new, u, o, c),
         NEW a \in 1..Len(u), NEW b \in a..Len(u), c[a] = 0, \A r \in a..b : u[r] # new[1]
  PROVE  \A r \in a..b : c[r] = 0 /\ o[r] = o[a] + (r - a) /\ u[r] = t[o[a] + (r - a)]
<1>1. /\ Len(t) \in Nat /\ Len(u) \in Nat
      /\ \A x \in 1..Len(u) : o[x] \in 1..Len(t) /\ (c[x] = 0 => u[x] = t[o[x]])
  BY PlacesAre
<1> DEFINE T == {r \in a..b : c[r] = 0 /\ o[r] = o[a] + (r - a)}
<1>2. a \in T  BY <1>1
<1>3. \A r \in a..b : r < b /\ r \in T => r + 1 \in T
  <2> SUFFICES ASSUME NEW r \in a..b, r < b, r \in T PROVE r + 1 \in T  OBVIOUS
  <2>1. r \in 1..Len(u) /\ r < Len(u) /\ r + 1 \in a..b /\ c[r] = 0  BY <1>1
  <2>2. o[r + 1] = o[r] + 1 /\ (c[r + 1] # 0 => u[r + 1] = new[1])  BY <2>1, NextIs
  <2>3. c[r + 1] = 0  BY <2>1, <2>2
  <2>4. o[r + 1] = o[a] + ((r + 1) - a)
    <3>1. o[r] = o[a] + (r - a) /\ o[a] \in Int /\ r \in Int /\ a \in Int  BY <1>1
    <3> HIDE DEF T
    <3> QED BY <2>2, <3>1
  <2> QED BY <2>1, <2>3, <2>4
<1> HIDE DEF T
<1>4. a \in Nat /\ b \in Nat  BY <1>1
<1>5. \A r \in a..b : r \in T  BY <1>2, <1>3, <1>4, InductionUpTo
<1> SUFFICES ASSUME NEW r \in a..b
             PROVE  c[r] = 0 /\ o[r] = o[a] + (r - a) /\ u[r] = t[o[a] + (r - a)]
  OBVIOUS
<1>6. r \in 1..Len(u)  BY <1>1
<1> QED BY <1>1, <1>5, <1>6 DEF T

\* Before a copied symbol all is copied back to where a match may have ended.
LEMMA CopiedBack ==
  ASSUME NEW U, NEW t, NEW m, NEW new, NEW u, NEW o, NEW c, Replaced(U, t, m, new, u, o, c),
         NEW E, Ended(m, E),
         NEW q \in 1..Len(u), c[q] = 0, NEW a \in 1..o[q], \A r \in a..o[q] - 1 : t[r] \notin E
  PROVE  \A r \in 0..o[q] - a : q - r \in 1..Len(u) /\ c[q - r] = 0 /\ o[q - r] = o[q] - r
<1>1. /\ Len(t) \in Nat /\ Len(u) \in Nat /\ Len(m) \in Nat \ {0} /\ Len(new) \in Nat \ {0}
      /\ \A x \in 1..Len(u) : o[x] \in 1..Len(t)
  BY PlacesAre
<1> DEFINE n == o[q] - a
           T == {r \in 0..n : q - r \in 1..Len(u) /\ c[q - r] = 0 /\ o[q - r] = o[q] - r}
<1>2. n \in Nat /\ o[q] \in Nat /\ a \in Nat  BY <1>1
<1>3. 0 \in T  BY <1>1, <1>2
<1>4. \A r \in 0..n : r < n /\ r \in T => r + 1 \in T
  <2> SUFFICES ASSUME NEW r \in 0..n, r < n, r \in T PROVE r + 1 \in T  OBVIOUS
  <2> DEFINE p == q - r
  <2>1. p \in 1..Len(u) /\ c[p] = 0 /\ o[p] = o[q] - r  OBVIOUS
  <2>2. p - 1 = q - (r + 1) /\ r + 1 \in 0..n  BY <1>1, <1>2
  <2>3. o[p] - 1 \in a..o[q] - 1 /\ o[p] # 1  BY <1>2, <2>1
  <2>r. r \in Int  OBVIOUS
  <2> HIDE DEF p, n, T
  <2>4. o[p] - 1 = o[q] - (r + 1)  BY <1>2, <2>1, <2>r
  <2>5. /\ p = 1 => o[p] = 1
        /\ p > 1 => /\ p - 1 \in 1..Len(u)
                    /\ c[p - 1] = 0 => o[p - 1] = o[p] - 1
                    /\ c[p - 1] # 0 => t[o[p] - 1] = m[Len(m)]
    BY <2>1, PreviousIs
  <2>6. p > 1  BY <1>1, <2>1, <2>3, <2>5
  <2>7. c[p - 1] = 0  BY <2>3, <2>5, <2>6 DEF Ended
  <2> QED BY <2>2, <2>4, <2>5, <2>6, <2>7 DEF T
<1> HIDE DEF T
<1>5. 0 \in Nat /\ n \in Nat  BY <1>2
<1> HIDE DEF n
<1>6. \A r \in 0..n : r \in T  BY <1>3, <1>4, <1>5, InductionUpTo
<1> QED BY <1>6 DEF T, n

\* What was copied is in no occurrence of what was replaced.
LEMMA CopiedOutside ==
  ASSUME NEW U, NEW t, NEW m, NEW new, NEW u, NEW o, NEW c, Replaced(U, t, m, new, u, o, c),
         NEW E, Ended(m, E), NEW q \in 1..Len(u), c[q] = 0, NEW a, Occurs(t, m, a),
         a <= o[q], o[q] <= a + Len(m) - 1
  PROVE  FALSE
<1>1. /\ Len(t) \in Nat /\ Len(u) \in Nat /\ Len(m) \in Nat \ {0}
      /\ \A x \in 1..Len(u) : o[x] \in 1..Len(t) /\ (c[x] = 0 => ~Occurs(t, m, o[x]))
  BY PlacesAre
<1>2. a \in 1..o[q] /\ o[q] \in Nat  BY <1>1 DEF Occurs
<1>3. ASSUME NEW r \in a..o[q] - 1 PROVE t[r] \notin E
  <2>1. r - a + 1 \in 1..Len(m) - 1 /\ a + (r - a + 1) - 1 = r /\ r - a + 1 \in 1..Len(m)  BY <1>1, <1>2
  <2>2. t[a + (r - a + 1) - 1] = m[r - a + 1]  BY <2>1 DEF Occurs
  <2> QED BY <2>1, <2>2 DEF Ended
<1>4. o[q] - a \in 0..o[q] - a  BY <1>2
<1>5. /\ q - (o[q] - a) \in 1..Len(u) /\ c[q - (o[q] - a)] = 0
      /\ o[q - (o[q] - a)] = o[q] - (o[q] - a)
  <2>1. \A r \in 0..o[q] - a : q - r \in 1..Len(u) /\ c[q - r] = 0 /\ o[q - r] = o[q] - r
    BY <1>2, <1>3, CopiedBack
  <2> QED BY <1>4, <2>1
<1>6. o[q] - (o[q] - a) = a  BY <1>2
<1> QED BY <1>1, <1>5, <1>6

\* The pattern finds a match from p to e.
Matches(pattern, t, p, e) == e # 0 /\ MatchEnd(pattern, t, p) = e

\* A match at q of u is one wherever t has the same symbols.
Moves(pattern, u, t) ==
  \A q \in 1..Len(u), p \in 1..Len(t) : \A e \in q..Len(u) :
    /\ Matches(pattern, u, q, e)
    /\ p + (e - q) <= Len(t)
    /\ \A r \in 0..e - q : t[p + r] = u[q + r]
    => Matches(pattern, t, p, p + (e - q))

\* A match does not end before it begins nor behind the text.
Bounded(pattern, t) == \A p \in 1..Len(t) : \A e : Matches(pattern, t, p, e) => e \in p..Len(t)

\* No match in u touches what was put into it.
Clean(pattern, u, c, new) ==
  \A q \in 1..Len(u) : \A e \in q..Len(u) :
    Matches(pattern, u, q, e) => c[q] = 0 /\ \A r \in q..e : u[r] # new[1]

\* What is still to be done with the first k matches replaced: a match that is
\* left in t ends an occurrence of one that comes later.
Open(pattern, t, found, k) ==
  \A p \in 1..Len(t) : \A e \in p..Len(t) : Matches(pattern, t, p, e) =>
    \E j \in k + 1..Len(found) : \E a \in 1..p :
      Occurs(t, found[j], a) /\ a + Len(found[j]) - 1 = e

\* Every match found ends with such a symbol.
AllEnded(found, E) == \A j \in 1..Len(found) : Ended(found[j], E)

\* A match that is left in u was there in t, and another match that ended where
\* it did still occurs.
LEMMA MatchWasThere ==
  ASSUME NEW U, NEW pattern, NEW E, NEW t, NEW m, NEW new, NEW u, NEW o, NEW c,
         Replaced(U, t, m, new, u, o, c), Ended(m, E),
         Moves(pattern, u, t), Clean(pattern, u, c, new),
         NEW q \in 1..Len(u), NEW e \in q..Len(u), Matches(pattern, u, q, e)
  PROVE  \E p \in 1..Len(t) : \E f \in p..Len(t) :
           /\ Matches(pattern, t, p, f)
           /\ \A other \in Seq(U) : \A a \in 1..p :
                Ended(other, E) /\ Occurs(t, other, a) /\ a + Len(other) - 1 = f
                => /\ other # m
                   /\ \E b \in 1..q : Occurs(u, other, b) /\ b + Len(other) - 1 = e
<1> DEFINE p == o[q]
           f == o[e]
<1>1. /\ Len(t) \in Nat /\ Len(u) \in Nat
      /\ \A x \in 1..Len(u) : o[x] \in 1..Len(t) /\ (c[x] = 0 => u[x] = t[o[x]])
  BY PlacesAre
<1>2. \A x \in 1..Len(u) : \A y \in 1..o[x] :
        c[x] = 0 /\ (\A r \in y..o[x] - 1 : t[r] \notin E)
        => \A r \in 0..o[x] - y : x - r \in 1..Len(u) /\ c[x - r] = 0 /\ o[x - r] = o[x] - r
  BY CopiedBack
<1>3. e \in q..Len(u) /\ e \in 1..Len(u)  BY <1>1
<1>4. c[q] = 0 /\ \A r \in q..e : u[r] # new[1]  BY <1>3 DEF Clean
<1>5. \A r \in q..e : c[r] = 0 /\ o[r] = p + (r - q) /\ u[r] = t[p + (r - q)]
  BY <1>3, <1>4, CopiedOn
<1>6. p \in 1..Len(t) /\ f = p + (e - q) /\ f \in 1..Len(t) /\ c[e] = 0
  <2>1. e \in q..e  BY <1>3
  <2> QED BY <2>1, <1>1, <1>3, <1>5
<1>7. Matches(pattern, t, p, f)
  <2>1. \A r \in 0..e - q : t[p + r] = u[q + r]
    <3> SUFFICES ASSUME NEW r \in 0..e - q PROVE t[p + r] = u[q + r]  OBVIOUS
    <3>1. q + r \in q..e /\ (q + r) - q = r  BY <1>1, <1>3
    <3> HIDE DEF p
    <3>2. u[q + r] = t[p + ((q + r) - q)]  BY <3>1, <1>5
    <3> QED BY <3>1, <3>2
  <2>2. p + (e - q) <= Len(t)  BY <1>1, <1>6
  <2> HIDE DEF p, f
  <2> QED BY <2>1, <2>2, <1>3, <1>6 DEF Moves
<1>8. o[e] = f /\ f \in p..Len(t) /\ e \in Int /\ f \in Int /\ p \in Int /\ q \in Int
  BY <1>1, <1>3, <1>6
<1> HIDE DEF p, f
<1>9. ASSUME NEW other \in Seq(U), NEW a \in 1..p, Ended(other, E), Occurs(t, other, a),
             a + Len(other) - 1 = f
      PROVE  /\ other # m
             /\ \E b \in 1..q : Occurs(u, other, b) /\ b + Len(other) - 1 = e
  <2>1. other # m
    <3> SUFFICES ASSUME other = m PROVE FALSE  OBVIOUS
    <3>1. Occurs(t, m, a) /\ a <= o[e] /\ o[e] <= a + Len(m) - 1  BY <1>8, <1>9
    <3> QED BY <1>3, <1>6, <3>1, CopiedOutside
  <2> DEFINE L == Len(other)
             b == e - (f - a)
  <2>2. L \in Nat /\ a + L - 1 = f /\ a \in 1..f /\ a \in Int  BY <1>8, <1>9, LenProperties
  <2> HIDE DEF L
  <2>3. \A r \in a..f - 1 : t[r] \notin E
    <3> SUFFICES ASSUME NEW r \in a..f - 1 PROVE t[r] \notin E  OBVIOUS
    <3> DEFINE x == r - a + 1
    <3>1. x \in 1..L - 1 /\ x \in 1..L /\ a + x - 1 = r  BY <1>8, <2>2
    <3> HIDE DEF x
    <3>2. t[a + x - 1] = other[x]  BY <1>9, <3>1 DEF Occurs, L
    <3>3. other[x] \notin E  BY <1>9, <3>1 DEF Ended, L
    <3> QED BY <3>1, <3>2, <3>3
  <2>4. \A r \in 0..f - a : e - r \in 1..Len(u) /\ c[e - r] = 0 /\ o[e - r] = f - r
    <3>1. a \in 1..o[e] /\ \A r \in a..o[e] - 1 : t[r] \notin E  BY <1>8, <2>2, <2>3
    <3>2. \A r \in 0..o[e] - a : e - r \in 1..Len(u) /\ c[e - r] = 0 /\ o[e - r] = o[e] - r
      BY <1>2, <1>3, <1>6, <3>1
    <3> QED BY <3>2, <1>8
  <2>5. f - a \in 0..f - a /\ b \in 1..Len(u) /\ b \in Int  BY <1>8, <2>2, <2>4
  <2>6. b <= q  BY <1>6, <1>8, <2>2
  <2>7. b + L - 1 = e  BY <1>8, <2>2
  <2>8. Occurs(u, other, b)
    <3>1. ASSUME NEW x \in 1..L PROVE u[b + x - 1] = other[x]
      <4> DEFINE r == f - (a + x - 1)
      <4>1. r \in 0..f - a /\ e - r = b + x - 1 /\ f - r = a + x - 1  BY <1>8, <2>2
      <4> HIDE DEF r, b
      <4>2. e - r \in 1..Len(u) /\ c[e - r] = 0 /\ o[e - r] = f - r  BY <4>1, <2>4
      <4>3. u[e - r] = t[f - r]  BY <4>2, <1>1
      <4>4. t[a + x - 1] = other[x]  BY <1>9 DEF Occurs, L
      <4> QED BY <4>1, <4>3, <4>4
    <3>2. b + L - 1 <= Len(u)  BY <2>7, <1>1, <1>3
    <3> QED BY <2>5, <3>1, <3>2 DEF Occurs, L
  <2>9. b \in 1..q  BY <2>5, <2>6
  <2> HIDE DEF b
  <2> QED BY <2>1, <2>7, <2>8, <2>9 DEF L
<1>10. \A other \in Seq(U) : \A a \in 1..p :
         Ended(other, E) /\ Occurs(t, other, a) /\ a + Len(other) - 1 = f
         => /\ other # m
            /\ \E b \in 1..q : Occurs(u, other, b) /\ b + Len(other) - 1 = e
  BY <1>9
<1>11. p \in 1..Len(t)  BY <1>6
<1>12. f \in p..Len(t)  BY <1>8
<1> WITNESS p \in 1..Len(t)
<1> WITNESS f \in p..Len(t)
<1> QED BY <1>7, <1>10

\* With the next match replaced the matches that are left still end one that comes
\* later: the one replaced has no occurrence left, and its mask makes no match.
LEMMA OpenStep ==
  ASSUME NEW U, NEW pattern, NEW found \in Seq(Seq(U)), NEW E, AllEnded(found, E),
         NEW k \in 1..Len(found),
         NEW t, NEW new, NEW u, NEW o, NEW c, Replaced(U, t, found[k], new, u, o, c),
         Moves(pattern, u, t), Clean(pattern, u, c, new), Open(pattern, t, found, k - 1)
  PROVE  Open(pattern, u, found, k)
<1> SUFFICES ASSUME NEW q \in 1..Len(u), NEW e \in q..Len(u), Matches(pattern, u, q, e)
             PROVE  \E j \in k + 1..Len(found) : \E a \in 1..q :
                      Occurs(u, found[j], a) /\ a + Len(found[j]) - 1 = e
  BY DEF Open
<1>1. PICK p \in 1..Len(t) : \E f \in p..Len(t) :
           /\ Matches(pattern, t, p, f)
           /\ \A other \in Seq(U) : \A a \in 1..p :
                Ended(other, E) /\ Occurs(t, other, a) /\ a + Len(other) - 1 = f
                => /\ other # found[k]
                   /\ \E b \in 1..q : Occurs(u, other, b) /\ b + Len(other) - 1 = e
  BY MatchWasThere, SMTT(20) DEF AllEnded
<1>2. PICK f \in p..Len(t) :
           /\ Matches(pattern, t, p, f)
           /\ \A other \in Seq(U) : \A a \in 1..p :
                Ended(other, E) /\ Occurs(t, other, a) /\ a + Len(other) - 1 = f
                => /\ other # found[k]
                   /\ \E b \in 1..q : Occurs(u, other, b) /\ b + Len(other) - 1 = e
  BY <1>1
<1>3. PICK j \in (k - 1) + 1..Len(found) : \E a \in 1..p :
         Occurs(t, found[j], a) /\ a + Len(found[j]) - 1 = f
  BY <1>2 DEF Open
<1>4. PICK a \in 1..p : Occurs(t, found[j], a) /\ a + Len(found[j]) - 1 = f
  BY <1>3
<1>5. Len(found) \in Nat  BY LenProperties
<1>6. j \in k..Len(found) /\ j \in 1..Len(found)  BY <1>5
<1>7. found[j] \in Seq(U)  BY <1>6, ElementOfSeq
<1>8. Ended(found[j], E)  BY <1>6 DEF AllEnded
<1>9. found[j] # found[k] /\ \E b \in 1..q : Occurs(u, found[j], b) /\ b + Len(found[j]) - 1 = e
  BY <1>2, <1>4, <1>7, <1>8
<1>10. j \in k + 1..Len(found)  BY <1>5, <1>6, <1>9
<1> QED BY <1>9, <1>10

\* The matches of a pattern in t from its position i on: match j is from pos[j]
\* to last[j], they are apart, and every match begins inside one of them.
FoundFrom(pattern, t, i, found, pos, last) ==
  /\ pos \in [1..Len(found) -> 1..Len(t)] /\ last \in [1..Len(found) -> 1..Len(t)]
  /\ \A j \in 1..Len(found) :
       /\ i <= pos[j] /\ pos[j] <= last[j]
       /\ Matches(pattern, t, pos[j], last[j])
       /\ found[j] = SubSeq(t, pos[j], last[j])
  /\ \A j, k \in 1..Len(found) : j < k => last[j] < pos[k]
  /\ \A p \in 1..Len(t) : \A e : i <= p /\ Matches(pattern, t, p, e) =>
       \E j \in 1..Len(found) : pos[j] <= p /\ p <= last[j]

\* A step of finditer where a match begins.
LEMMA OneFound ==
  ASSUME NEW U, NEW t \in Seq(U), NEW pattern, NEW i \in 1..Len(t), NEW e \in i..Len(t),
         Matches(pattern, t, i, e),
         NEW found \in Seq(Seq(U)), NEW pos, NEW last, FoundFrom(pattern, t, e + 1, found, pos, last)
  PROVE  /\ <<SubSeq(t, i, e)>> \o found \in Seq(Seq(U))
         /\ \E p, l : FoundFrom(pattern, t, i, <<SubSeq(t, i, e)>> \o found, p, l)
<1> DEFINE s == SubSeq(t, i, e)
           n == Len(found)
           v == <<s>> \o found
           p == [j \in 1..n + 1 |-> IF j = 1 THEN i ELSE pos[j - 1]]
           l == [j \in 1..n + 1 |-> IF j = 1 THEN e ELSE last[j - 1]]
<1>1. n \in Nat /\ Len(t) \in Nat /\ i \in Nat /\ e \in 1..Len(t)  BY LenProperties
<1>2. s \in Seq(U)
  <2>1. \A k \in i..e : t[k] \in U
    <3> SUFFICES ASSUME NEW k \in i..e PROVE t[k] \in U  OBVIOUS
    <3>1. k \in 1..Len(t)  BY <1>1
    <3> QED BY <3>1, ElementOfSeq
  <2>2. i \in Int /\ e \in Int  BY <1>1
  <2> QED BY <2>1, <2>2, SubSeqProperties
<1> HIDE DEF s
<1>3. v \in Seq(Seq(U)) /\ Len(v) = n + 1 /\ v[1] = s /\ \A j \in 2..n + 1 : v[j] = found[j - 1]
  <2> DEFINE w == <<s>>
  <2>1. w \in Seq(Seq(U)) /\ Len(w) = 1 /\ w[1] = s  BY <1>2
  <2> HIDE DEF w
  <2>2. /\ w \o found \in Seq(Seq(U)) /\ Len(w \o found) = Len(w) + Len(found)
        /\ \A j \in 1..Len(w) + Len(found) :
             (w \o found)[j] = IF j <= Len(w) THEN w[j] ELSE found[j - Len(w)]
    BY <2>1, ConcatProperties
  <2>3. /\ Len(w \o found) = 1 + n
        /\ \A j \in 1..1 + n : (w \o found)[j] = IF j <= 1 THEN w[j] ELSE found[j - 1]
    BY <2>1, <2>2
  <2> HIDE DEF n
  <2>4. (w \o found)[1] = s  BY <1>1, <2>1, <2>3
  <2>5. \A j \in 2..n + 1 : (w \o found)[j] = found[j - 1]  BY <1>1, <2>3
  <2> QED BY <1>1, <2>2, <2>3, <2>4, <2>5 DEF w
<1> HIDE DEF v
<1>4. /\ pos \in [1..n -> 1..Len(t)] /\ last \in [1..n -> 1..Len(t)]
      /\ \A j \in 1..n : /\ e + 1 <= pos[j] /\ pos[j] <= last[j]
                         /\ Matches(pattern, t, pos[j], last[j])
                         /\ found[j] = SubSeq(t, pos[j], last[j])
      /\ \A j, k \in 1..n : j < k => last[j] < pos[k]
      /\ \A x \in 1..Len(t) : \A f : e + 1 <= x /\ Matches(pattern, t, x, f) =>
           \E j \in 1..n : pos[j] <= x /\ x <= last[j]
  BY DEF FoundFrom
<1> HIDE DEF n
<1>5. \A j \in 2..n + 1 : j - 1 \in 1..n /\ j # 1 /\ j \in 1..n + 1  BY <1>1
<1>6. p \in [1..n + 1 -> 1..Len(t)] /\ l \in [1..n + 1 -> 1..Len(t)]
  <2>1. \A j \in 1..n + 1 : j # 1 => j - 1 \in 1..n  BY <1>1
  <2> QED BY <2>1, <1>1, <1>4
<1>7. p[1] = i /\ l[1] = e /\ \A j \in 2..n + 1 : p[j] = pos[j - 1] /\ l[j] = last[j - 1]
  BY <1>1, <1>5
<1> HIDE DEF p, l
<1>8. \A j \in 1..n + 1 : j = 1 \/ j \in 2..n + 1  BY <1>1
<1>9. ASSUME NEW j \in 1..n + 1
      PROVE  /\ i <= p[j] /\ p[j] <= l[j] /\ Matches(pattern, t, p[j], l[j])
             /\ v[j] = SubSeq(t, p[j], l[j])
  <2>1. CASE j = 1  BY <2>1, <1>1, <1>3, <1>7 DEF s
  <2>2. CASE j \in 2..n + 1
    <3> DEFINE h == j - 1
    <3>1. h \in 1..n /\ p[j] = pos[h] /\ l[j] = last[h] /\ v[j] = found[h]  BY <2>2, <1>3, <1>5, <1>7
    <3> HIDE DEF h
    <3>2. /\ pos[h] \in 1..Len(t) /\ e + 1 <= pos[h] /\ pos[h] <= last[h]
          /\ Matches(pattern, t, pos[h], last[h]) /\ found[h] = SubSeq(t, pos[h], last[h])
      BY <3>1, <1>4
    <3>3. i <= pos[h]  BY <3>2, <1>1
    <3> QED BY <3>1, <3>2, <3>3
  <2> QED BY <2>1, <2>2, <1>8
<1>10. ASSUME NEW j \in 1..n + 1, NEW k \in 1..n + 1, j < k PROVE l[j] < p[k]
  <2>1. k \in 2..n + 1 /\ k - 1 \in 1..n  BY <1>1, <1>10
  <2>2. p[k] = pos[k - 1] /\ e + 1 <= pos[k - 1] /\ pos[k - 1] \in 1..Len(t)  BY <2>1, <1>4, <1>7
  <2>3. CASE j = 1  BY <2>2, <2>3, <1>1, <1>7
  <2>4. CASE j \in 2..n + 1
    <3>1. j - 1 \in 1..n /\ j - 1 < k - 1  BY <2>4, <1>1, <1>10
    <3>2. l[j] = last[j - 1]  BY <2>4, <1>7
    <3> QED BY <2>1, <2>2, <3>1, <3>2, <1>4
  <2> QED BY <2>3, <2>4, <1>8
<1>11. ASSUME NEW x \in 1..Len(t), NEW f, i <= x, Matches(pattern, t, x, f)
       PROVE  \E j \in 1..n + 1 : p[j] <= x /\ x <= l[j]
  <2>1. CASE x <= e
    <3>1. 1 \in 1..n + 1  BY <1>1
    <3> QED BY <2>1, <3>1, <1>7, <1>11
  <2>2. CASE e + 1 <= x
    <3>1. PICK j \in 1..n : pos[j] <= x /\ x <= last[j]  BY <2>2, <1>4, <1>11
    <3>2. j + 1 \in 2..n + 1 /\ (j + 1) - 1 = j /\ j + 1 \in 1..n + 1  BY <1>1
    <3>3. p[j + 1] = pos[j] /\ l[j + 1] = last[j]  BY <3>2, <1>7
    <3> QED BY <3>1, <3>2, <3>3
  <2> QED BY <2>1, <2>2, <1>1
<1>12. FoundFrom(pattern, t, i, v, p, l)
  <2>1. Len(v) = n + 1  BY <1>3
  <2> QED BY <2>1, <1>6, <1>9, <1>10, <1>11 DEF FoundFrom
<1> QED BY <1>3, <1>12 DEF v, s

\* What finditer finds in a text.
LEMMA FindAllIs ==
  ASSUME NEW U, NEW t \in Seq(U), NEW pattern, Bounded(pattern, t)
  PROVE  /\ FindAll(pattern, t) \in Seq(Seq(U))
         /\ \E pos, last : FoundFrom(pattern, t, 1, FindAll(pattern, t), pos, last)
<1> DEFINE n == Len(t)
           S == Seq(Seq(U))
           Ending(i) == MatchEnd(pattern, t, i)
           Rest(i, f) == IF Ending(i) = 0 THEN f[i + 1] ELSE <<SubSeq(t, i, Ending(i))>> \o f[Ending(i) + 1]
           G == [x \in (1..n) \X [1..n + 1 -> S] |-> Rest(x[1], x[2])]
           Eq(f) == f = [i \in 1..n + 1 |-> IF i > n THEN <<>> ELSE Rest(i, f)]
           from == CHOOSE f : Eq(f)
<1>1. n \in Nat  BY LenProperties
<1>2. FindAll(pattern, t) = from[1]  BY DEF FindAll
<1>3. ASSUME NEW i \in 1..n, Ending(i) # 0
      PROVE  Matches(pattern, t, i, Ending(i)) /\ Ending(i) \in i..n
  <2>1. Matches(pattern, t, i, Ending(i))  BY <1>3 DEF Matches
  <2> QED BY <2>1 DEF Bounded
<1>4. \A i \in 1..n : \A e : Matches(pattern, t, i, e) => e = Ending(i) /\ Ending(i) # 0  BY DEF Matches
<1> HIDE DEF n, Ending
<1>5. \A i \in 1..n : Ending(i) # 0 => Ending(i) + 1 \in i + 1..n + 1 /\ Ending(i) + 1 \in 1..n + 1
  BY <1>1, <1>3
<1>6. \A w \in S, v \in S : w \o v \in S  BY ConcatProperties
<1>7. \A i \in 1..n : Ending(i) # 0 => <<SubSeq(t, i, Ending(i))>> \in S
  <2> SUFFICES ASSUME NEW i \in 1..n, Ending(i) # 0 PROVE <<SubSeq(t, i, Ending(i))>> \in Seq(Seq(U))  OBVIOUS
  <2>1. \A k \in i..Ending(i) : t[k] \in U
    <3> SUFFICES ASSUME NEW k \in i..Ending(i) PROVE t[k] \in U  OBVIOUS
    <3>1. k \in 1..Len(t)  BY <1>1, <1>3 DEF n
    <3> QED BY <3>1, ElementOfSeq
  <2>2. i \in Int /\ Ending(i) \in Int  BY <1>1, <1>3
  <2>3. SubSeq(t, i, Ending(i)) \in Seq(U)  BY <2>1, <2>2, SubSeqProperties
  <2> QED BY <2>3
<1>8. <<>> \in S  OBVIOUS
<1> HIDE DEF S
<1>9. ASSUME NEW i \in 1..n, NEW f \in [1..n + 1 -> S] PROVE Rest(i, f) \in S
  <2>1. CASE Ending(i) = 0
    <3>1. i + 1 \in 1..n + 1  BY <1>1
    <3> QED BY <2>1, <3>1
  <2>2. CASE Ending(i) # 0
    <3>1. f[Ending(i) + 1] \in S  BY <2>2, <1>5
    <3> QED BY <2>2, <3>1, <1>6, <1>7
  <2> QED BY <2>1, <2>2
<1>10. ASSUME NEW i \in 1..n, NEW u \in [1..n + 1 -> S], NEW v \in [1..n + 1 -> S],
              \A k \in i + 1..n + 1 : u[k] = v[k]
       PROVE  Rest(i, u) = Rest(i, v)
  <2>1. CASE Ending(i) = 0
    <3>1. i + 1 \in i + 1..n + 1  BY <1>1
    <3>2. u[i + 1] = v[i + 1]  BY <3>1, <1>10
    <3> QED BY <2>1, <3>2
  <2>2. CASE Ending(i) # 0
    <3>1. u[Ending(i) + 1] = v[Ending(i) + 1]  BY <2>2, <1>5, <1>10
    <3> QED BY <2>2, <3>1
  <2> QED BY <2>1, <2>2
<1>11. \A i \in 1..n : \A f : Rest(i, f) = IF Ending(i) = 0 THEN f[i + 1]
                                          ELSE <<SubSeq(t, i, Ending(i))>> \o f[Ending(i) + 1]
  OBVIOUS
<1> HIDE DEF Rest
<1>12. G \in [(1..n) \X [1..n + 1 -> S] -> S]
  <2>1. ASSUME NEW x \in (1..n) \X [1..n + 1 -> S] PROVE Rest(x[1], x[2]) \in S
    <3>1. x[1] \in 1..n /\ x[2] \in [1..n + 1 -> S]  OBVIOUS
    <3> QED BY <3>1, <1>9
  <2> QED BY <2>1
<1>13. \A i \in 1..n : \A f \in [1..n + 1 -> S] : G[<<i, f>>] = Rest(i, f)  OBVIOUS
<1> HIDE DEF G
<1>14. LooksOn(G, n, S)
  <2> SUFFICES ASSUME NEW i \in 1..n, NEW u \in [1..n + 1 -> S], NEW v \in [1..n + 1 -> S],
                      \A k \in i + 1..n + 1 : u[k] = v[k]
               PROVE  G[<<i, u>>] = G[<<i, v>>]
    BY DEF LooksOn
  <2>1. Rest(i, u) = Rest(i, v)  BY <1>10
  <2> QED BY <2>1, <1>13
<1>15. PICK f \in [1..n + 1 -> S] : Unfolds(f, n, <<>>, G)
  <2>1. n \in Nat  BY <1>1
  <2>2. \A c \in S : \E f \in [1..n + 1 -> S] : Unfolds(f, n, c, G)
    BY <2>1, <1>12, <1>14, FromTheEnd, Zenon
  <2> QED BY <2>2, <1>8
<1>16. Eq(f)
  <2>1. \A i \in 1..n + 1 : f[i] = IF i > n THEN <<>> ELSE Rest(i, f)
    <3> SUFFICES ASSUME NEW i \in 1..n + 1 PROVE f[i] = IF i > n THEN <<>> ELSE Rest(i, f)  OBVIOUS
    <3>1. CASE i > n
      <4>1. i = n + 1  BY <1>1, <3>1
      <4> QED BY <3>1, <4>1, <1>15 DEF Unfolds
    <3>2. CASE ~(i > n)
      <4>1. i \in 1..n  BY <1>1, <3>2
      <4>2. f[i] = G[<<i, f>>]  BY <4>1, <1>15 DEF Unfolds
      <4> QED BY <3>2, <4>1, <4>2, <1>13
    <3> QED BY <3>1, <3>2
  <2> QED BY <2>1
<1>17. Eq(from)
  <2> HIDE DEF Eq
  <2> QED BY <1>16
<1> HIDE DEF from
<1>18. from[n + 1] = <<>> /\ \A i \in 1..n : from[i] = Rest(i, from)
  <2>1. n + 1 \in 1..n + 1 /\ n + 1 > n  BY <1>1
  <2>2. \A i \in 1..n : i \in 1..n + 1 /\ ~(i > n)  BY <1>1
  <2> QED BY <2>1, <2>2, <1>17
<1> HIDE DEF Eq
<1> DEFINE Good(i) == from[i] \in Seq(Seq(U)) /\ \E p, l : FoundFrom(pattern, t, i, from[i], p, l)
           T == {j \in 0..n : \A i \in n + 1 - j..n + 1 : Good(i)}
<1>19. 0 \in T
  <2>1. FoundFrom(pattern, t, n + 1, <<>>, <<>>, <<>>)
    <3>1. Len(<<>>) = 0 /\ 1..0 = {}  BY EmptySeq
    <3>2. <<>> \in [1..0 -> 1..Len(t)]
      <4>1. <<>> = [x \in {} |-> 0]  OBVIOUS
      <4> QED BY <4>1, <3>1
    <3>3. \A p \in 1..Len(t) : ~(n + 1 <= p)  BY <1>1 DEF n
    <3> QED BY <3>1, <3>2, <3>3 DEF FoundFrom
  <2>2. Good(n + 1)  BY <2>1, <1>8, <1>18 DEF S
  <2> HIDE DEF Good
  <2>3. \A i \in n + 1 - 0..n + 1 : i = n + 1  BY <1>1
  <2> QED BY <2>2, <2>3, <1>1
<1>20. ASSUME NEW i \in 1..n, \A k \in i + 1..n + 1 : Good(k) PROVE Good(i)
  <2>1. CASE Ending(i) # 0
    <3>1. Ending(i) \in i..n /\ Matches(pattern, t, i, Ending(i)) /\ Ending(i) + 1 \in i + 1..n + 1
      BY <2>1, <1>3, <1>5
    <3>2. Good(Ending(i) + 1)  BY <3>1, <1>20
    <3>3. PICK p, l : FoundFrom(pattern, t, Ending(i) + 1, from[Ending(i) + 1], p, l)  BY <3>2
    <3>4. from[i] = <<SubSeq(t, i, Ending(i))>> \o from[Ending(i) + 1]  BY <2>1, <1>11, <1>18
    <3>5. i \in 1..Len(t) /\ Ending(i) \in i..Len(t) /\ from[Ending(i) + 1] \in Seq(Seq(U))
      BY <3>1, <3>2 DEF n
    <3>6. /\ <<SubSeq(t, i, Ending(i))>> \o from[Ending(i) + 1] \in Seq(Seq(U))
          /\ \E q, e : FoundFrom(pattern, t, i, <<SubSeq(t, i, Ending(i))>> \o from[Ending(i) + 1], q, e)
      BY <3>1, <3>3, <3>5, OneFound
    <3> QED BY <3>4, <3>6
  <2>2. CASE Ending(i) = 0
    <3>1. i + 1 \in i + 1..n + 1  BY <1>1
    <3>2. Good(i + 1)  BY <3>1, <1>20
    <3>3. PICK p, l : FoundFrom(pattern, t, i + 1, from[i + 1], p, l)  BY <3>2
    <3>4. from[i] = from[i + 1]  BY <2>2, <1>11, <1>18
    <3>5. FoundFrom(pattern, t, i, from[i + 1], p, l)
      <4>1. \A j \in 1..Len(from[i + 1]) : p[j] \in 1..Len(t) /\ i + 1 <= p[j]  BY <3>3 DEF FoundFrom
      <4>2. \A j \in 1..Len(from[i + 1]) : i <= p[j]  BY <4>1, <1>1
      <4>3. \A x \in 1..Len(t) : \A e : i <= x /\ Matches(pattern, t, x, e) => i + 1 <= x
        <5> SUFFICES ASSUME NEW x \in 1..Len(t), NEW e, i <= x, Matches(pattern, t, x, e) PROVE i + 1 <= x
          OBVIOUS
        <5>1. x # i  BY <2>2, <1>4
        <5> QED BY <5>1, <1>1 DEF n
      <4> QED BY <3>3, <4>2, <4>3 DEF FoundFrom
    <3> QED BY <3>2, <3>4, <3>5
  <2> QED BY <2>1, <2>2
<1> HIDE DEF Good
<1>21. \A j \in 0..n : j < n /\ j \in T => j + 1 \in T
  <2> SUFFICES ASSUME NEW j \in 0..n, j < n, j \in T PROVE j + 1 \in T  OBVIOUS
  <2> DEFINE i == n - j
  <2>1. i \in 1..n /\ j + 1 \in 0..n /\ n + 1 - (j + 1) = i /\ n + 1 - j = i + 1  BY <1>1
  <2> HIDE DEF i
  <2>2. \A k \in i + 1..n + 1 : Good(k)  BY <2>1
  <2>3. Good(i)  BY <2>1, <2>2, <1>20
  <2>4. \A k \in i..n + 1 : k = i \/ k \in i + 1..n + 1  BY <1>1, <2>1
  <2>5. \A k \in i..n + 1 : Good(k)  BY <2>2, <2>3, <2>4
  <2> QED BY <2>1, <2>5
<1> HIDE DEF T
<1>22. \A j \in 0..n : j \in T  BY <1>1, <1>19, <1>21, InductionUpTo
<1>23. Good(1)
  <2>1. n \in T /\ 1 \in n + 1 - n..n + 1  BY <1>1, <1>22
  <2> QED BY <2>1 DEF T
<1> QED BY <1>2, <1>23 DEF Good

-----------------------------------------------------------------------------
(* Masking: one pattern                                                    *)

\* The steps of masking: what is left after the first k matches are replaced.
Steps(left, text, found, pattern) ==
  left[0] = text /\ \A k \in 1..Len(found) : left[k] = Replace(left[k - 1], found[k], Mask(pattern, found[k]))

\* What is found can be replaced: no match and no mask is empty.
Replaceable(U, pattern, found) ==
  \A k \in 1..Len(found) : /\ found[k] \in Seq(U) /\ Mask(pattern, found[k]) \in Seq(U)
                           /\ Len(found[k]) > 0 /\ Len(Mask(pattern, found[k])) > 0

\* One pattern's replacements, one after the other.
LEMMA MaskedIs ==
  ASSUME NEW U, NEW text \in Seq(U), NEW pattern, FindAll(pattern, text) \in Seq(Seq(U)),
         Replaceable(U, pattern, FindAll(pattern, text))
  PROVE  \E left \in [0..Len(FindAll(pattern, text)) -> Seq(U)] :
           /\ Steps(left, text, FindAll(pattern, text), pattern)
           /\ Masked(text, pattern) = left[Len(FindAll(pattern, text))]
<1> DEFINE found == FindAll(pattern, text)
           n == Len(found)
           S == Seq(U)
           W(k, t) == Replace(t, found[k], Mask(pattern, found[k]))
           g == [x \in (1..n) \X S |-> W(x[1], x[2])]
           Eq(f) == f = [k \in 0..n |-> IF k = 0 THEN text ELSE W(k, f[k - 1])]
           left == CHOOSE f : Eq(f)
<1>1. n \in Nat  BY LenProperties
<1>2. \A k \in 1..n : \A t \in S : W(k, t) \in S
  <2> SUFFICES ASSUME NEW k \in 1..n, NEW t \in S PROVE W(k, t) \in S  OBVIOUS
  <2> DEFINE m == found[k]
             new == Mask(pattern, m)
  <2>1. m \in Seq(U) /\ new \in Seq(U) /\ Len(m) > 0 /\ Len(new) > 0  BY DEF Replaceable
  <2>2. m # <<>> /\ new # <<>>  BY <2>1, EmptySeq
  <2> HIDE DEF m, new
  <2>3. Replace(t, m, new) \in Seq(U)  BY <2>1, <2>2, ReplaceIs
  <2> QED BY <2>3 DEF m, new
<1>3. Masked(text, pattern) = left[n]  BY DEF Masked
<1> HIDE DEF n, W
<1>4. g \in [(1..n) \X S -> S]
  <2>1. ASSUME NEW x \in (1..n) \X S PROVE W(x[1], x[2]) \in S
    <3>1. x[1] \in 1..n /\ x[2] \in S  OBVIOUS
    <3> QED BY <3>1, <1>2
  <2> HIDE DEF S
  <2> QED BY <2>1
<1>5. text \in S  OBVIOUS
<1> HIDE DEF S
<1>6. PICK f \in [0..n -> S] : f[0] = text /\ \A i \in 1..n : f[i] = g[<<i, f[i - 1]>>]
  <2> HIDE DEF g
  <2>1. \A c \in S : \E f \in [0..n -> S] : Follows(f, n, c, g)
    BY <1>1, <1>4, Recursion, Zenon
  <2> QED BY <2>1, <1>5 DEF Follows
<1>7. \A i \in 1..n : f[i] = W(i, f[i - 1])
  <2> SUFFICES ASSUME NEW i \in 1..n PROVE f[i] = W(i, f[i - 1])  OBVIOUS
  <2>1. <<i, f[i - 1]>> \in (1..n) \X S  BY <1>1
  <2> QED BY <2>1, <1>6
<1>8. Eq(f)  BY <1>1, <1>6, <1>7
<1>9. Eq(left)
  <2> HIDE DEF Eq
  <2> QED BY <1>8
<1> HIDE DEF left
<1>10. left[0] = text /\ \A i \in 1..n : left[i] = W(i, left[i - 1])
  <2>1. 0 \in 0..n  BY <1>1
  <2>2. left[0] = text  BY <1>9, <2>1
  <2>3. ASSUME NEW i \in 1..n PROVE left[i] = W(i, left[i - 1])
    <3>1. i \in 0..n /\ i # 0  BY <1>1
    <3> QED BY <1>9, <3>1
  <2> QED BY <2>2, <2>3
<1> DEFINE T == {i \in 0..n : left[i] \in S}
<1>11. 0 \in T  BY <1>1, <1>5, <1>10
<1>12. \A i \in 0..n : i < n /\ i \in T => i + 1 \in T
  <2> SUFFICES ASSUME NEW i \in 0..n, i < n, i \in T PROVE i + 1 \in T  OBVIOUS
  <2>1. i + 1 \in 1..n /\ (i + 1) - 1 = i  BY <1>1
  <2>2. left[i + 1] = W(i + 1, left[i])  BY <2>1, <1>10
  <2>4. left[i + 1] \in S  BY <2>1, <2>2, <1>2
  <2> QED BY <2>1, <2>4
<1> HIDE DEF T
<1>13. \A i \in 0..n : i \in T  BY <1>1, <1>11, <1>12, InductionUpTo
<1>14. \A i \in 0..n : left[i] \in Seq(U)  BY <1>13 DEF T, S
<1> DEFINE h == [i \in 0..n |-> left[i]]
<1>15. h \in [0..n -> Seq(U)]  BY <1>14
<1>16. h[0] = text /\ h[n] = left[n]  BY <1>1, <1>10
<1>17. \A i \in 1..n : h[i] = left[i] /\ h[i - 1] = left[i - 1]  BY <1>1
<1> HIDE DEF h
<1>18. Steps(h, text, found, pattern)  BY <1>10, <1>16, <1>17 DEF Steps, W, n
<1> QED BY <1>3, <1>15, <1>16, <1>18 DEF n

\* Texts in G stay in it while matches are replaced one by one, and nothing new
\* is found in them.
Keeps(pattern, U, G, found) ==
  \A k \in 1..Len(found) : \A t \in G : Open(pattern, t, found, k - 1) =>
    \A u \in Seq(U) : \A o, c : Replaced(U, t, found[k], Mask(pattern, found[k]), u, o, c) =>
      u \in G /\ Moves(pattern, u, t) /\ Clean(pattern, u, c, Mask(pattern, found[k]))

\* A match ends with the only symbol of it that ends matches.
Ends(pattern, t, E) ==
  \A p \in 1..Len(t) : \A e : Matches(pattern, t, p, e) => t[e] \in E /\ \A r \in p..e - 1 : t[r] \notin E

\* Before the first of them every match is in one that was found.
LEMMA NothingDone ==
  ASSUME NEW U, NEW x \in Seq(U), NEW pattern, NEW E, Bounded(pattern, x), Ends(pattern, x, E),
         NEW found \in Seq(Seq(U)), NEW pos, NEW last, FoundFrom(pattern, x, 1, found, pos, last)
  PROVE  AllEnded(found, E) /\ Open(pattern, x, found, 0)
<1>1. Len(found) \in Nat /\ Len(x) \in Nat  BY LenProperties
<1>2. /\ \A j \in 1..Len(found) : /\ pos[j] \in 1..Len(x) /\ last[j] \in 1..Len(x) /\ pos[j] <= last[j]
                                  /\ Matches(pattern, x, pos[j], last[j])
                                  /\ found[j] = SubSeq(x, pos[j], last[j])
      /\ \A p \in 1..Len(x) : \A e : 1 <= p /\ Matches(pattern, x, p, e) =>
           \E j \in 1..Len(found) : pos[j] <= p /\ p <= last[j]
  BY DEF FoundFrom
<1>3. \A j \in 1..Len(found) : x[last[j]] \in E /\ \A r \in pos[j]..last[j] - 1 : x[r] \notin E
  BY <1>2 DEF Ends
<1>4. ASSUME NEW j \in 1..Len(found)
      PROVE  /\ Len(found[j]) = last[j] - pos[j] + 1
             /\ \A r \in 1..Len(found[j]) : found[j][r] = x[pos[j] + r - 1]
  <2> DEFINE a == pos[j]
             b == last[j]
             n == Len(x)
  <2>1. a \in 1..n /\ b \in 1..n /\ a <= b /\ found[j] = SubSeq(x, a, b)  BY <1>2
  <2>2. \A k \in a..b : x[k] \in U
    <3> SUFFICES ASSUME NEW k \in a..b PROVE x[k] \in U  OBVIOUS
    <3>1. k \in 1..Len(x)  BY <1>1, <2>1
    <3> QED BY <3>1, ElementOfSeq
  <2> HIDE DEF a, b, n
  <2>3. a \in Int /\ b \in Int  BY <2>1
  <2>4. Len(SubSeq(x, a, b)) = b - a + 1 /\ \A k \in 1..b - a + 1 : SubSeq(x, a, b)[k] = x[a + k - 1]
    BY <2>1, <2>2, <2>3, SubSeqProperties
  <2> QED BY <2>1, <2>4 DEF a, b
<1>5. AllEnded(found, E)
  <2> SUFFICES ASSUME NEW j \in 1..Len(found) PROVE Ended(found[j], E)  BY DEF AllEnded
  <2> DEFINE L == Len(found[j])
             a == pos[j]
             b == last[j]
  <2>1. a \in Nat /\ b \in Nat /\ a <= b /\ L = b - a + 1  BY <1>2, <1>4
  <2>2. x[b] \in E /\ \A r \in a..b - 1 : x[r] \notin E  BY <1>3
  <2>3. \A r \in 1..L : found[j][r] = x[a + r - 1]  BY <1>4
  <2> HIDE DEF L, a, b
  <2>4. L > 0 /\ L \in 1..L /\ a + L - 1 = b  BY <2>1
  <2>5. \A r \in 1..L - 1 : r \in 1..L /\ a + r - 1 \in a..b - 1  BY <2>1
  <2>6. found[j][L] \in E /\ \A r \in 1..L - 1 : found[j][r] \notin E  BY <2>2, <2>3, <2>4, <2>5
  <2> QED BY <2>4, <2>6 DEF Ended, L
<1>6. Open(pattern, x, found, 0)
  <2> SUFFICES ASSUME NEW p \in 1..Len(x), NEW e \in p..Len(x), Matches(pattern, x, p, e)
               PROVE  \E j \in 0 + 1..Len(found) : \E a \in 1..p :
                        Occurs(x, found[j], a) /\ a + Len(found[j]) - 1 = e
    BY DEF Open
  <2>1. PICK j \in 1..Len(found) : pos[j] <= p /\ p <= last[j]  BY <1>1, <1>2
  <2>2. x[e] \in E /\ \A r \in p..e - 1 : x[r] \notin E  BY DEF Ends
  <2>3. /\ pos[j] \in 1..Len(x) /\ last[j] \in 1..Len(x)
        /\ x[last[j]] \in E /\ \A r \in pos[j]..last[j] - 1 : x[r] \notin E
    BY <1>2, <1>3
  <2>4. last[j] = e
    <3>1. ~(last[j] < e)
      <4> SUFFICES ASSUME last[j] < e PROVE FALSE  OBVIOUS
      <4>1. last[j] \in p..e - 1  BY <1>1, <2>1, <2>3
      <4> QED BY <4>1, <2>2, <2>3
    <3>2. ~(e < last[j])
      <4> SUFFICES ASSUME e < last[j] PROVE FALSE  OBVIOUS
      <4>1. e \in pos[j]..last[j] - 1  BY <1>1, <2>1, <2>3
      <4> QED BY <4>1, <2>2, <2>3
    <3> QED BY <3>1, <3>2, <1>1, <2>3
  <2>5. Len(found[j]) = e - pos[j] + 1 /\ \A r \in 1..Len(found[j]) : found[j][r] = x[pos[j] + r - 1]
    BY <1>4, <2>4
  <2>6. pos[j] + Len(found[j]) - 1 = e  BY <1>1, <2>3, <2>5
  <2>7. Occurs(x, found[j], pos[j])  BY <1>1, <2>3, <2>5, <2>6 DEF Occurs
  <2>8. j \in 0 + 1..Len(found) /\ pos[j] \in 1..p  BY <1>1, <2>1, <2>3
  <2> QED BY <2>6, <2>7, <2>8
<1> QED BY <1>5, <1>6

\* What one pattern makes of a text: it is still one of the texts in G, and
\* nothing the pattern matches is left.
LEMMA AllMasked ==
  ASSUME NEW U, NEW pattern, NEW E, NEW x \in Seq(U), NEW G \in SUBSET Seq(U), x \in G,
         Bounded(pattern, x), Ends(pattern, x, E),
         Replaceable(U, pattern, FindAll(pattern, x)), Keeps(pattern, U, G, FindAll(pattern, x))
  PROVE  /\ Masked(x, pattern) \in G
         /\ \A p \in 1..Len(Masked(x, pattern)) : \A e \in p..Len(Masked(x, pattern)) :
              ~Matches(pattern, Masked(x, pattern), p, e)
<1> DEFINE found == FindAll(pattern, x)
           n == Len(found)
<1>1. found \in Seq(Seq(U)) /\ n \in Nat  BY FindAllIs, LenProperties
<1>2. PICK pos, last : FoundFrom(pattern, x, 1, found, pos, last)  BY FindAllIs
<1>3. AllEnded(found, E) /\ Open(pattern, x, found, 0)
  <2> HIDE DEF found
  <2> QED BY <1>1, <1>2, NothingDone
<1>4. PICK left \in [0..n -> Seq(U)] :
        Steps(left, x, found, pattern) /\ Masked(x, pattern) = left[n]
  BY <1>1, MaskedIs
<1>r. Replaceable(U, pattern, found) /\ Keeps(pattern, U, G, found)  OBVIOUS
<1> HIDE DEF found
<1> DEFINE T == {k \in 0..n : left[k] \in G /\ Open(pattern, left[k], found, k)}
<1>5. 0 \in T  BY <1>1, <1>3, <1>4 DEF Steps
<1>6. \A k \in 0..n : k < n /\ k \in T => k + 1 \in T
  <2> SUFFICES ASSUME NEW k \in 0..n, k < n, k \in T PROVE k + 1 \in T  OBVIOUS
  <2> DEFINE j == k + 1
             t == left[k]
             m == found[j]
             new == Mask(pattern, m)
             u == Replace(t, m, new)
  <2>1. j \in 1..n /\ j - 1 = k /\ j \in 0..n  BY <1>1
  <2>2. left[j] = u  BY <1>4, <2>1 DEF Steps
  <2>3. t \in G /\ t \in Seq(U) /\ Open(pattern, t, found, j - 1)  BY <2>1
  <2>4. m \in Seq(U) /\ new \in Seq(U) /\ Len(m) > 0 /\ Len(new) > 0  BY <1>r, <2>1 DEF Replaceable
  <2>5. m # <<>> /\ new # <<>>  BY <2>4, EmptySeq
  <2> HIDE DEF m, new, t, j
  <2>6. u \in Seq(U) /\ \E o, c : Origin(t, m, new, 1, u, o, c)  BY <2>3, <2>4, <2>5, ReplaceIs
  <2> HIDE DEF u
  <2>7. PICK o, c : Replaced(U, t, m, new, u, o, c)  BY <2>3, <2>4, <2>6 DEF Replaced
  <2>8. u \in G /\ Moves(pattern, u, t) /\ Clean(pattern, u, c, new)
    BY <1>r, <2>1, <2>3, <2>6, <2>7 DEF Keeps, m, new
  <2>9. Replaced(U, t, found[j], new, u, o, c)  BY <2>7 DEF m
  <2>10. Open(pattern, u, found, j)  BY <1>1, <1>3, <2>1, <2>3, <2>8, <2>9, OpenStep
  <2> QED BY <2>1, <2>2, <2>8, <2>10 DEF j
<1> HIDE DEF T, n
<1>7. \A k \in 0..n : k \in T  BY <1>1, <1>5, <1>6, InductionUpTo
<1>8. n \in T  BY <1>1, <1>7
<1>9. Masked(x, pattern) \in G /\ Open(pattern, Masked(x, pattern), found, n)  BY <1>4, <1>8 DEF T
<1>10. n + 1..n = {}  BY <1>1
<1> QED BY <1>9, <1>10 DEF Open, n

-----------------------------------------------------------------------------
(* Masking: a text in which numbers are masked                             *)

\* The first and the fourth last symbol of a number that is masked.
Opens(s) == s[1] = "plus" \/ (s[1] = "digit" /\ s[3] \in {1, -1})
Shows(s) == s[1] = "digit" /\ s[3] = Lengths[s[2]] - 3
Whole(m) == Len(m) > 4 /\ Opens(m[1]) /\ Shows(m[Len(m) - 3])

\* u is t with a star for the beginnings of some numbers, at the places in W;
\* its other symbols are those of t at g.
Shorter(t, u, g, W) ==
  /\ g \in [1..Len(u) -> 1..Len(t)] /\ W \subseteq 1..Len(u)
  /\ Len(u) = 0 => Len(t) = 0
  /\ Len(u) > 0 => g[1] = 1 /\ g[Len(u)] = Len(t) /\ Len(u) \notin W
  /\ \A q \in 1..Len(u) - 1 : /\ q \notin W => g[q + 1] = g[q] + 1
                              /\ q \in W => g[q] < g[q + 1]
  /\ \A q \in 1..Len(u) : q \notin W => u[q] = t[g[q]]
  /\ \A q \in W : /\ u[q] = <<"star">> /\ Opens(t[g[q]])
                  /\ q + 1 \in 1..Len(u) /\ q + 1 \notin W /\ Shows(u[q + 1])

\* mask_aadhaar and mask_phone: a star and the last four symbols.
LEMMA NumberMask ==
  ASSUME NEW U, NEW m \in Seq(U), Len(m) > 4, <<"star">> \in U
  PROVE  /\ MaskNumber(m) \in Seq(U) /\ Len(MaskNumber(m)) = 5
         /\ MaskNumber(m)[1] = <<"star">>
         /\ \A i \in 2..5 : MaskNumber(m)[i] = m[Len(m) - 5 + i]
<1> DEFINE L == Len(m)
           s == SubSeq(m, L - 3, L)
           w == <<<<"star">>>>
<1>1. L \in Nat /\ L > 4  BY LenProperties
<1>2. \A k \in L - 3..L : m[k] \in U
  <2> SUFFICES ASSUME NEW k \in L - 3..L PROVE m[k] \in U  OBVIOUS
  <2>1. k \in 1..Len(m)  BY <1>1
  <2> QED BY <2>1, ElementOfSeq
<1>3. s \in Seq(U) /\ Len(s) = 4 /\ \A j \in 1..4 : s[j] = m[L - 4 + j]
  <2> HIDE DEF L
  <2>1. L - 3 \in Int /\ L \in Int /\ L - 3 <= L  BY <1>1
  <2>2. /\ s \in Seq(U) /\ Len(s) = L - (L - 3) + 1
        /\ \A j \in 1..L - (L - 3) + 1 : s[j] = m[(L - 3) + j - 1]
    BY <1>2, <2>1, SubSeqProperties
  <2>3. L - (L - 3) + 1 = 4 /\ \A j \in 1..4 : (L - 3) + j - 1 = L - 4 + j  BY <1>1
  <2> QED BY <2>2, <2>3
<1>4. w \in Seq(U) /\ Len(w) = 1 /\ w[1] = <<"star">>  OBVIOUS
<1>5. MaskNumber(m) = w \o s  BY DEF MaskNumber
<1> HIDE DEF s, w, L
<1>6. /\ w \o s \in Seq(U) /\ Len(w \o s) = Len(w) + Len(s)
      /\ \A j \in 1..Len(w) + Len(s) : (w \o s)[j] = IF j <= Len(w) THEN w[j] ELSE s[j - Len(w)]
  BY <1>3, <1>4, ConcatProperties
<1>7. \A j \in 1..5 : (w \o s)[j] = IF j <= 1 THEN w[j] ELSE s[j - 1]  BY <1>3, <1>4, <1>6
<1>8. ASSUME NEW i \in 2..5 PROVE (w \o s)[i] = m[L - 5 + i]
  <2>1. i - 1 \in 1..4 /\ L - 4 + (i - 1) = L - 5 + i /\ i \in 1..5 /\ ~(i <= 1)  BY <1>1
  <2> QED BY <2>1, <1>3, <1>7
<1>9. (w \o s)[1] = <<"star">>  BY <1>4, <1>7
<1>10. w \o s \in Seq(U) /\ Len(w \o s) = 5  BY <1>3, <1>4, <1>6
<1> QED BY <1>5, <1>8, <1>9, <1>10 DEF L

\* Replacing a number by its mask does that.
LEMMA ShorterIs ==
  ASSUME NEW U, NEW t, NEW m, NEW u, NEW o, NEW c, Replaced(U, t, m, MaskNumber(m), u, o, c),
         Whole(m), <<"star">> \in U
  PROVE  \E g, W : Shorter(t, u, g, W)
<1> DEFINE new == MaskNumber(m)
           L == Len(m)
           n == Len(u)
           g == [q \in 1..n |-> IF c[q] <= 1 THEN o[q] ELSE o[q] + L - 6 + c[q]]
           W == {q \in 1..n : c[q] = 1}
<1>1. /\ Len(new) = 5 /\ new[1] = <<"star">> /\ \A i \in 2..5 : new[i] = m[L - 5 + i]
  BY NumberMask DEF Replaced, Whole
<1>2. /\ Len(t) \in Nat /\ L \in Nat /\ L > 4 /\ n \in Nat
      /\ \A q \in 1..n : /\ o[q] \in 1..Len(t) /\ c[q] \in 0..5
                         /\ c[q] = 0 => u[q] = t[o[q]]
                         /\ c[q] # 0 => u[q] = new[c[q]] /\ Occurs(t, m, o[q])
  <2>1. /\ Len(t) \in Nat /\ L \in Nat \ {0} /\ n \in Nat
        /\ \A q \in 1..n : /\ o[q] \in 1..Len(t) /\ c[q] \in 0..Len(new)
                           /\ c[q] = 0 => u[q] = t[o[q]] /\ ~Occurs(t, m, o[q])
                           /\ c[q] # 0 => u[q] = new[c[q]] /\ Occurs(t, m, o[q])
    BY PlacesAre
  <2> QED BY <2>1, <1>1 DEF Whole
<1>3. /\ \A q \in 1..n - 1 :
          /\ c[q] = 0 => o[q + 1] = o[q] + 1 /\ c[q + 1] \in {0, 1}
          /\ c[q] \in 1..4 => o[q + 1] = o[q] /\ c[q + 1] = c[q] + 1
          /\ c[q] = 5 => o[q + 1] = o[q] + L /\ c[q + 1] \in {0, 1}
      /\ n = 0 => Len(t) = 0
      /\ n # 0 => o[1] = 1 /\ c[1] \in {0, 1}
      /\ n # 0 /\ c[n] = 0 => o[n] = Len(t)
      /\ n # 0 /\ c[n] # 0 => c[n] = 5 /\ o[n] + L = Len(t) + 1
  <2>1. 5 - 1 = 4 /\ (1 = Len(t) + 1 => Len(t) = 0)  BY <1>2
  <2>2. /\ \A q \in 1..n - 1 :
            /\ c[q] = 0 => o[q + 1] = o[q] + 1 /\ c[q + 1] \in {0, 1}
            /\ c[q] \in 1..Len(new) - 1 => o[q + 1] = o[q] /\ c[q + 1] = c[q] + 1
            /\ c[q] = Len(new) => o[q + 1] = o[q] + L /\ c[q + 1] \in {0, 1}
        /\ n = 0 => 1 = Len(t) + 1
        /\ n # 0 => o[1] = 1 /\ c[1] \in {0, 1}
        /\ n # 0 /\ c[n] = 0 => o[n] = Len(t)
        /\ n # 0 /\ c[n] # 0 => c[n] = Len(new) /\ o[n] + L = Len(t) + 1
    BY DEF Replaced, Origin
  <2> QED BY <1>1, <2>1, <2>2
<1>4. \A q \in 1..n : c[q] # 0 => /\ o[q] + L - 1 <= Len(t)
                                  /\ \A j \in 1..L : t[o[q] + j - 1] = m[j]
  BY <1>2 DEF Occurs
<1>5. Opens(m[1]) /\ Shows(m[L - 3])  BY DEF Whole
<1> HIDE DEF new, L, n
<1>6. \A q \in 1..n : (c[q] = 0 \/ c[q] = 1) \/ c[q] \in 2..5  BY <1>2
<1>7. /\ \A q \in 1..n : c[q] = 0 \/ c[q] = 1 => g[q] = o[q]
      /\ \A q \in 1..n : c[q] \in 2..5 => g[q] = o[q] + L - 6 + c[q]
  BY <1>2
<1>8. \A q \in 1..n : g[q] \in 1..Len(t)
  <2> SUFFICES ASSUME NEW q \in 1..n PROVE g[q] \in 1..Len(t)  OBVIOUS
  <2> HIDE DEF g
  <2>1. CASE c[q] = 0 \/ c[q] = 1
    <3>1. g[q] = o[q] /\ o[q] \in 1..Len(t)  BY <2>1, <1>2, <1>7
    <3> QED BY <3>1
  <2>2. CASE c[q] \in 2..5
    <3>1. g[q] = o[q] + L - 6 + c[q] /\ o[q] \in 1..Len(t) /\ c[q] # 0  BY <2>2, <1>2, <1>7
    <3>2. o[q] + L - 1 <= Len(t)  BY <3>1, <1>4
    <3> QED BY <2>2, <3>1, <3>2, <1>2
  <2>3. (c[q] = 0 \/ c[q] = 1) \/ c[q] \in 2..5  BY <1>6
  <2> QED BY <2>1, <2>2, <2>3
<1>9. g \in [1..n -> 1..Len(t)]
  <2>1. g = [q \in 1..n |-> g[q]]  OBVIOUS
  <2> HIDE DEF g
  <2> QED BY <2>1, <1>8
<1>w. \A q \in 1..n : q \in W <=> c[q] = 1  OBVIOUS
<1>x. W \subseteq 1..n  OBVIOUS
<1> HIDE DEF g, W
<1>10. n > 0 => g[1] = 1 /\ g[n] = Len(t) /\ n \notin W
  <2> SUFFICES ASSUME n > 0 PROVE g[1] = 1 /\ g[n] = Len(t) /\ n \notin W  OBVIOUS
  <2>1. n # 0 /\ 1 \in 1..n /\ n \in 1..n  BY <1>2
  <2>2. g[1] = 1  BY <2>1, <1>3, <1>7
  <2>3. g[n] = Len(t) /\ c[n] # 1
    <3>1. CASE c[n] = 0  BY <2>1, <3>1, <1>3, <1>7
    <3>2. CASE c[n] # 0
      <4>1. c[n] = 5 /\ o[n] + L = Len(t) + 1  BY <2>1, <3>2, <1>3
      <4>2. g[n] = o[n] + L - 6 + 5  BY <2>1, <4>1, <1>7
      <4> QED BY <2>1, <4>1, <4>2, <1>2
    <3> QED BY <3>1, <3>2
  <2> QED BY <2>1, <2>2, <2>3, <1>w
<1>11. ASSUME NEW q \in 1..n - 1
       PROVE  (q \notin W => g[q + 1] = g[q] + 1) /\ (q \in W => g[q] < g[q + 1])
  <2>1. q \in 1..n /\ q + 1 \in 1..n /\ o[q] \in Int /\ o[q + 1] \in Int  BY <1>2
  <2>2. CASE c[q] = 0
    <3>1. g[q + 1] = o[q + 1] /\ g[q] = o[q] /\ o[q + 1] = o[q] + 1  BY <2>1, <2>2, <1>3, <1>7
    <3> QED BY <2>1, <2>2, <3>1, <1>w
  <2>3. CASE c[q] = 1
    <3>1. c[q + 1] = 2 /\ o[q + 1] = o[q]  BY <2>3, <1>3
    <3>2. g[q] = o[q] /\ g[q + 1] = o[q] + L - 6 + 2  BY <2>1, <2>3, <3>1, <1>7
    <3> QED BY <2>1, <2>3, <3>2, <1>2, <1>w
  <2>4. CASE c[q] \in 2..4
    <3>1. c[q + 1] = c[q] + 1 /\ o[q + 1] = o[q] /\ c[q] \in 1..4  BY <2>4, <1>3
    <3>2. c[q + 1] \in 2..5 /\ c[q] \in 2..5 /\ c[q] # 1  BY <2>4, <3>1
    <3>3. g[q] = o[q] + L - 6 + c[q] /\ g[q + 1] = o[q] + L - 6 + (c[q] + 1)  BY <2>1, <3>1, <3>2, <1>7
    <3> QED BY <2>1, <2>4, <3>2, <3>3, <1>2, <1>w
  <2>5. CASE c[q] = 5
    <3>1. c[q + 1] \in {0, 1} /\ o[q + 1] = o[q] + L  BY <2>5, <1>3
    <3>2. g[q] = o[q] + L - 6 + 5 /\ g[q + 1] = o[q] + L  BY <2>1, <2>5, <3>1, <1>7
    <3>3. q \notin W  BY <2>1, <2>5, <1>w
    <3>4. \A x \in Int : x + L = (x + L - 6 + 5) + 1  BY <1>2
    <3>5. g[q + 1] = g[q] + 1
      <4>1. o[q] + L = (o[q] + L - 6 + 5) + 1  BY <2>1, <3>4
      <4> QED BY <3>2, <4>1
    <3> QED BY <3>3, <3>5
  <2>6. c[q] = 0 \/ c[q] = 1 \/ c[q] \in 2..4 \/ c[q] = 5
    <3>1. c[q] \in 0..5  BY <2>1, <1>2
    <3> QED BY <3>1
  <2> QED BY <2>2, <2>3, <2>4, <2>5, <2>6, Zenon
<1>12. ASSUME NEW q \in 1..n, q \notin W PROVE u[q] = t[g[q]]
  <2>1. c[q] # 1  BY <1>12, <1>w
  <2>2. CASE c[q] = 0  BY <2>2, <1>2, <1>7
  <2>3. CASE c[q] \in 2..5
    <3>1. u[q] = new[c[q]] /\ new[c[q]] = m[L - 5 + c[q]] /\ c[q] # 0  BY <2>3, <1>1, <1>2 DEF L
    <3>0. \A x \in Int, d \in 2..5 : L - 5 + d \in 1..L /\ x + (L - 5 + d) - 1 = x + L - 6 + d  BY <1>2
    <3>2. L - 5 + c[q] \in 1..L /\ o[q] + (L - 5 + c[q]) - 1 = o[q] + L - 6 + c[q]
      <4>1. o[q] \in Int  BY <1>2
      <4> QED BY <2>3, <3>0, <4>1
    <3>3. t[o[q] + (L - 5 + c[q]) - 1] = m[L - 5 + c[q]]  BY <3>1, <3>2, <1>4
    <3>4. g[q] = o[q] + L - 6 + c[q]  BY <2>3, <1>7
    <3> QED BY <3>1, <3>2, <3>3, <3>4
  <2> QED BY <2>1, <2>2, <2>3, <1>6
<1>13. ASSUME NEW q \in W
       PROVE  /\ u[q] = <<"star">> /\ Opens(t[g[q]])
              /\ q + 1 \in 1..n /\ q + 1 \notin W /\ Shows(u[q + 1])
  <2>1. q \in 1..n /\ c[q] = 1  BY <1>w, <1>x
  <2>2. u[q] = <<"star">>  BY <2>1, <1>1, <1>2
  <2>3. Opens(t[g[q]])
    <3>1. 1 \in 1..L /\ o[q] + 1 - 1 = o[q]  BY <2>1, <1>2
    <3>2. t[o[q] + 1 - 1] = m[1] /\ g[q] = o[q]  BY <2>1, <3>1, <1>4, <1>7
    <3>3. t[g[q]] = m[1]  BY <3>1, <3>2
    <3> QED BY <3>3, <1>5
  <2>4. q # n
    <3> SUFFICES ASSUME q = n PROVE FALSE  OBVIOUS
    <3>1. n # 0 /\ c[n] = 1  BY <2>1, <1>2
    <3> QED BY <3>1, <1>3
  <2>5. q \in 1..n - 1 /\ q + 1 \in 1..n  BY <2>1, <2>4, <1>2
  <2>6. c[q + 1] = 2  BY <2>1, <2>5, <1>3
  <2>7. u[q + 1] = new[2] /\ new[2] = m[L - 5 + 2]  BY <2>5, <2>6, <1>1, <1>2, SMTT(20) DEF L
  <2>8. L - 5 + 2 = L - 3  BY <1>2
  <2>9. u[q + 1] = m[L - 3]  BY <2>7, <2>8
  <2> QED BY <2>2, <2>3, <2>5, <2>6, <2>9, <1>5, <1>w
<1>14. n = 0 => Len(t) = 0  BY <1>3
<1>15. Shorter(t, u, g, W)
  BY <1>9, <1>10, <1>11, <1>12, <1>13, <1>14, <1>x DEF Shorter, n
<1> QED BY <1>15

\* The symbol at p, where there is one, is of kind k.
Has(t, p, k) == p \in 1..Len(t) /\ t[p][1] = k

LEMMA KindIs ==
  ASSUME NEW U, NEW t \in Seq(U), NEW k, k # "end", NEW p
  PROVE  Kind(t, p) = k <=> Has(t, p, k)
<1>1. DOMAIN t = 1..Len(t)  BY LenProperties
<1> QED BY <1>1 DEF Kind, Has

\* r is the next digit of the number of s; a space is allowed behind s.
IsNext(s, r) == r[2] = s[2] /\ r[3] = s[3] + 1
Breaks(s) == s[3] \in IF Lengths[s[2]] = 12 THEN {4, 8} ELSE {0}

\* The digits a number may have.
DigitOk(s) ==
  /\ s[2] \in DOMAIN Lengths /\ Lengths[s[2]] \in {10, 12}
  /\ s[3] \in (IF Lengths[s[2]] = 12 THEN 1 ELSE -1)..Lengths[s[2]]
  /\ Lengths[s[2]] = 10 /\ s[3] = 1 => s[4]
Digits(t) == \A p \in 1..Len(t) : Has(t, p, "digit") => DigitOk(t[p])

\* Digits side by side, or with a space between them, follow each other in
\* their number.
Runs(t) ==
  \A p \in 1..Len(t) : Has(t, p, "digit") =>
    /\ Has(t, p + 1, "digit") => IsNext(t[p], t[p + 1])
    /\ Has(t, p + 1, "space") /\ Has(t, p + 2, "digit") => IsNext(t[p], t[p + 2])

\* A digit is followed by the next one and comes after the one before, unless
\* those are hidden.
Onwards(t) ==
  \A p \in 1..Len(t) : Has(t, p, "digit") /\ t[p][3] # 0 /\ t[p][3] < Lengths[t[p][2]] =>
    \/ Has(t, p + 1, "digit")
    \/ Breaks(t[p]) /\ Has(t, p + 1, "space") /\ Has(t, p + 2, "digit")
Backwards(t) ==
  \A p \in 1..Len(t) : Has(t, p, "digit") /\ t[p][3] \notin {-1, 1} =>
    \/ Has(t, p - 1, "digit")
    \/ Has(t, p - 1, "space") /\ Has(t, p - 2, "digit")
    \/ Has(t, p - 1, "star") /\ Shows(t[p])

\* What a plus and a star stand before.
Marks(t) ==
  \A p \in 1..Len(t) :
    /\ Has(t, p, "plus") => \/ Has(t, p + 1, "digit") /\ t[p + 1][3] = -1
                            \/ Has(t, p + 1, "star")
    /\ Has(t, p, "star") => Has(t, p + 1, "digit") /\ Shows(t[p + 1])

\* Letters end in the "@" of their address, and no number stands before one.
Letters(t) ==
  \A p \in 1..Len(t) :
    /\ Has(t, p, "word") => Has(t, p + 1, "word") \/ Has(t, p + 1, "at")
    /\ Has(t, p, "digit") => ~Has(t, p + 1, "word") /\ ~Has(t, p + 1, "at")

\* A text whose numbers are written in full, or are masked but for their tails.
Legible(t) == Digits(t) /\ Runs(t) /\ Onwards(t) /\ Backwards(t) /\ Marks(t) /\ Letters(t)

\* What comes behind a symbol of the longer text comes behind it in the shorter
\* one, but for the beginning of a number.
LEMMA Onward ==
  ASSUME NEW t, NEW u, NEW g, NEW W, Shorter(t, u, g, W), Len(t) \in Nat, Len(u) \in Nat,
         NEW q \in 1..Len(u), q \notin W, g[q] + 1 \in 1..Len(t)
  PROVE  /\ q + 1 \in 1..Len(u) /\ g[q + 1] = g[q] + 1
         /\ q + 1 \notin W => u[q + 1] = t[g[q] + 1]
         /\ q + 1 \in W => u[q + 1] = <<"star">> /\ Opens(t[g[q] + 1])
<1>1. q # Len(u)
  <2> SUFFICES ASSUME q = Len(u) PROVE FALSE  OBVIOUS
  <2>1. g[q] = Len(t)  BY DEF Shorter
  <2> QED BY <2>1
<1>2. q \in 1..Len(u) - 1 /\ q + 1 \in 1..Len(u)  BY <1>1
<1>3. g[q + 1] = g[q] + 1  BY <1>2 DEF Shorter
<1>4. q + 1 \notin W => u[q + 1] = t[g[q + 1]]  BY <1>2 DEF Shorter
<1>5. q + 1 \in W => u[q + 1] = <<"star">> /\ Opens(t[g[q + 1]])  BY DEF Shorter
<1> QED BY <1>2, <1>3, <1>4, <1>5

\* And in the shorter text behind a symbol comes what is behind it in the
\* longer one, or the star of a mask.
LEMMA Behind ==
  ASSUME NEW t, NEW u, NEW g, NEW W, Shorter(t, u, g, W), Len(t) \in Nat, Len(u) \in Nat,
         NEW q \in 1..Len(u), q \notin W, q + 1 \in 1..Len(u)
  PROVE  /\ g[q] + 1 \in 1..Len(t) /\ g[q + 1] = g[q] + 1
         /\ q + 1 \notin W => u[q + 1] = t[g[q] + 1]
         /\ q + 1 \in W => u[q + 1] = <<"star">> /\ Opens(t[g[q] + 1])
<1>1. q \in 1..Len(u) - 1  OBVIOUS
<1>2. g[q + 1] = g[q] + 1  BY <1>1 DEF Shorter
<1>3. g[q + 1] \in 1..Len(t)  BY DEF Shorter
<1>4. q + 1 \notin W => u[q + 1] = t[g[q + 1]]  BY DEF Shorter
<1>5. q + 1 \in W => u[q + 1] = <<"star">> /\ Opens(t[g[q + 1]])  BY DEF Shorter
<1> QED BY <1>2, <1>3, <1>4, <1>5

\* And before a symbol of the longer text comes, in the shorter one, what was
\* before it, or the star of a mask.
LEMMA Before ==
  ASSUME NEW t, NEW u, NEW g, NEW W, Shorter(t, u, g, W), Len(t) \in Nat, Len(u) \in Nat,
         NEW q \in 1..Len(u), q \notin W, g[q] - 1 \in 1..Len(t)
  PROVE  /\ q - 1 \in 1..Len(u)
         /\ q - 1 \notin W => g[q - 1] = g[q] - 1 /\ u[q - 1] = t[g[q] - 1]
         /\ q - 1 \in W => u[q - 1] = <<"star">> /\ Shows(u[q])
<1>1. q # 1
  <2> SUFFICES ASSUME q = 1 PROVE FALSE  OBVIOUS
  <2>1. g[q] = 1  BY DEF Shorter
  <2> QED BY <2>1
<1>2. q - 1 \in 1..Len(u) - 1 /\ q - 1 \in 1..Len(u) /\ (q - 1) + 1 = q  BY <1>1
<1>3. q - 1 \notin W => g[q] = g[q - 1] + 1 /\ u[q - 1] = t[g[q - 1]]  BY <1>2 DEF Shorter
<1>4. q - 1 \in W => u[q - 1] = <<"star">> /\ Shows(u[q])  BY <1>2 DEF Shorter
<1>5. g[q - 1] \in 1..Len(t) /\ g[q] \in 1..Len(t)  BY <1>2 DEF Shorter
<1>6. q - 1 \notin W => g[q - 1] = g[q] - 1
  <2> SUFFICES ASSUME q - 1 \notin W PROVE g[q - 1] = g[q] - 1  OBVIOUS
  <2>1. g[q] = g[q - 1] + 1  BY <1>3
  <2> QED BY <2>1, <1>5
<1> QED BY <1>2, <1>3, <1>4, <1>6

\* A symbol that is no star is one of the longer text.
LEMMA Unmasked ==
  ASSUME NEW t, NEW u, NEW g, NEW W, Shorter(t, u, g, W), NEW q, NEW k, k # "star", Has(u, q, k)
  PROVE  q \in 1..Len(u) /\ q \notin W /\ u[q] = t[g[q]] /\ Has(t, g[q], k) /\ g[q] \in 1..Len(t)
<1>1. q \in 1..Len(u) /\ u[q][1] = k  BY DEF Has
<1>2. q \notin W
  <2> SUFFICES ASSUME q \in W PROVE FALSE  OBVIOUS
  <2>1. u[q] = <<"star">>  BY DEF Shorter
  <2>2. u[q][1] = "star"  BY <2>1
  <2> QED BY <1>1, <2>2
<1>3. u[q] = t[g[q]] /\ g[q] \in 1..Len(t)  BY <1>1, <1>2 DEF Shorter
<1> QED BY <1>1, <1>2, <1>3 DEF Has

\* Two symbols side by side, no star among them, were so before.
LEMMA SideBySide ==
  ASSUME NEW t, NEW u, NEW g, NEW W, Shorter(t, u, g, W), Len(t) \in Nat, Len(u) \in Nat,
         NEW q, NEW k, k # "star", Has(u, q, k), NEW l, l # "star", Has(u, q + 1, l)
  PROVE  /\ g[q + 1] = g[q] + 1 /\ u[q] = t[g[q]] /\ u[q + 1] = t[g[q] + 1]
         /\ Has(t, g[q], k) /\ Has(t, g[q] + 1, l)
<1>1. q \in 1..Len(u) /\ q \notin W /\ u[q] = t[g[q]] /\ Has(t, g[q], k)  BY Unmasked
<1>2. q + 1 \in 1..Len(u) /\ q + 1 \notin W /\ Has(t, g[q + 1], l)  BY Unmasked
<1>3. g[q] + 1 \in 1..Len(t) /\ g[q + 1] = g[q] + 1 /\ u[q + 1] = t[g[q] + 1]  BY <1>1, <1>2, Behind
<1> QED BY <1>1, <1>2, <1>3

\* What a digit k of a number that is not a beginning comes after.
LEMMA NotOpening ==
  ASSUME NEW s, DigitOk(s), NEW r, r[1] = "digit", IsNext(s, r), s[3] # 0
  PROVE  ~Opens(r)
<1>1. s[3] \in Int /\ s[3] >= -1  BY DEF DigitOk
<1>2. r[3] = s[3] + 1  BY DEF IsNext
<1>3. r[3] # 1 /\ r[3] # -1  BY <1>1, <1>2
<1> QED BY <1>3 DEF Opens

\* All of Legible is kept when numbers are masked.
LEMMA DigitsRuns ==
  ASSUME NEW t, NEW u, NEW g, NEW W, Shorter(t, u, g, W), Len(t) \in Nat, Len(u) \in Nat,
         Digits(t), Runs(t)
  PROVE  Digits(u) /\ Runs(u)
<1>1. Digits(u)
  <2> SUFFICES ASSUME NEW q \in 1..Len(u), Has(u, q, "digit") PROVE DigitOk(u[q])  BY DEF Digits
  <2>1. u[q] = t[g[q]] /\ Has(t, g[q], "digit") /\ g[q] \in 1..Len(t)  BY Unmasked
  <2> QED BY <2>1 DEF Digits
<1>0. \A x, k, l : k # "star" /\ l # "star" /\ Has(u, x, k) /\ Has(u, x + 1, l) =>
        /\ g[x + 1] = g[x] + 1 /\ u[x] = t[g[x]] /\ u[x + 1] = t[g[x] + 1]
        /\ Has(t, g[x], k) /\ Has(t, g[x] + 1, l)
  BY SideBySide
<1>s. "digit" # "star" /\ "space" # "star"  OBVIOUS
<1>2. Runs(u)
  <2> SUFFICES ASSUME NEW q \in 1..Len(u), Has(u, q, "digit")
               PROVE  /\ Has(u, q + 1, "digit") => IsNext(u[q], u[q + 1])
                      /\ Has(u, q + 1, "space") /\ Has(u, q + 2, "digit") => IsNext(u[q], u[q + 2])
    BY DEF Runs
  <2>1. u[q] = t[g[q]] /\ Has(t, g[q], "digit") /\ g[q] \in 1..Len(t)  BY Unmasked
  <2>2. ASSUME Has(u, q + 1, "digit") PROVE IsNext(u[q], u[q + 1])
    <3>1. u[q + 1] = t[g[q] + 1] /\ Has(t, g[q] + 1, "digit")  BY <1>0, <1>s, <2>2, Zenon
    <3> QED BY <2>1, <3>1 DEF Runs
  <2>3. ASSUME Has(u, q + 1, "space"), Has(u, q + 2, "digit") PROVE IsNext(u[q], u[q + 2])
    <3>1. Has(t, g[q] + 1, "space") /\ g[q + 1] = g[q] + 1  BY <1>0, <1>s, <2>3, Zenon
    <3>2. (q + 1) + 1 = q + 2 /\ Has(u, (q + 1) + 1, "digit")  BY <2>3
    <3>3. u[(q + 1) + 1] = t[g[q + 1] + 1] /\ Has(t, g[q + 1] + 1, "digit")  BY <1>0, <1>s, <2>3, <3>2, Zenon
    <3>4. g[q + 1] + 1 = g[q] + 2  BY <2>1, <3>1
    <3>5. u[q + 2] = t[g[q] + 2] /\ Has(t, g[q] + 2, "digit")  BY <3>2, <3>3, <3>4
    <3> QED BY <2>1, <3>1, <3>5 DEF Runs
  <2> QED BY <2>2, <2>3
<1> QED BY <1>1, <1>2

LEMMA OnwardsKept ==
  ASSUME NEW t, NEW u, NEW g, NEW W, Shorter(t, u, g, W), Len(t) \in Nat, Len(u) \in Nat,
         Digits(t), Runs(t), Onwards(t)
  PROVE  Onwards(u)
<1> SUFFICES ASSUME NEW q \in 1..Len(u), Has(u, q, "digit"), u[q][3] # 0, u[q][3] < Lengths[u[q][2]]
             PROVE  \/ Has(u, q + 1, "digit")
                    \/ Breaks(u[q]) /\ Has(u, q + 1, "space") /\ Has(u, q + 2, "digit")
  BY DEF Onwards
<1>1. q \notin W /\ u[q] = t[g[q]] /\ Has(t, g[q], "digit") /\ g[q] \in 1..Len(t)  BY Unmasked
<1>2. DigitOk(t[g[q]])  BY <1>1 DEF Digits
<1>3. CASE Has(t, g[q] + 1, "digit")
  <2>1. g[q] + 1 \in 1..Len(t) /\ t[g[q] + 1][1] = "digit"  BY <1>3 DEF Has
  <2>2. IsNext(t[g[q]], t[g[q] + 1])  BY <1>1, <1>3 DEF Runs
  <2>3. ~Opens(t[g[q] + 1])  BY <1>1, <1>2, <2>1, <2>2, NotOpening
  <2>4. q + 1 \in 1..Len(u) /\ u[q + 1] = t[g[q] + 1]  BY <1>1, <2>1, <2>3, Onward
  <2> QED BY <2>1, <2>4 DEF Has
<1>4. CASE Breaks(t[g[q]]) /\ Has(t, g[q] + 1, "space") /\ Has(t, g[q] + 2, "digit")
  <2>1. g[q] + 1 \in 1..Len(t) /\ t[g[q] + 1][1] = "space"  BY <1>4 DEF Has
  <2>2. g[q] + 2 \in 1..Len(t) /\ t[g[q] + 2][1] = "digit"  BY <1>4 DEF Has
  <2>3. ~Opens(t[g[q] + 1])  BY <2>1 DEF Opens
  <2>4. /\ q + 1 \in 1..Len(u) /\ q + 1 \notin W /\ u[q + 1] = t[g[q] + 1]
        /\ g[q + 1] = g[q] + 1
    BY <1>1, <2>1, <2>3, Onward
  <2>5. IsNext(t[g[q]], t[g[q] + 2])  BY <1>1, <1>4 DEF Runs
  <2>6. ~Opens(t[g[q] + 2])  BY <1>1, <1>2, <2>2, <2>5, NotOpening
  <2>7. g[q + 1] + 1 = g[q] + 2 /\ (q + 1) + 1 = q + 2  BY <1>1, <2>4
  <2>8. g[q + 1] + 1 \in 1..Len(t) /\ ~Opens(t[g[q + 1] + 1])  BY <2>2, <2>6, <2>7
  <2>9. (q + 1) + 1 \in 1..Len(u) /\ u[(q + 1) + 1] = t[g[q + 1] + 1]  BY <2>4, <2>8, Onward
  <2>10. q + 2 \in 1..Len(u) /\ u[q + 2] = t[g[q] + 2]  BY <2>7, <2>9
  <2> QED BY <1>1, <1>4, <2>1, <2>2, <2>4, <2>10 DEF Has
<1> QED BY <1>1, <1>3, <1>4 DEF Onwards

LEMMA BackwardsKept ==
  ASSUME NEW t, NEW u, NEW g, NEW W, Shorter(t, u, g, W), Len(t) \in Nat, Len(u) \in Nat,
         Backwards(t)
  PROVE  Backwards(u)
<1> SUFFICES ASSUME NEW q \in 1..Len(u), Has(u, q, "digit"), u[q][3] \notin {-1, 1}
             PROVE  \/ Has(u, q - 1, "digit")
                    \/ Has(u, q - 1, "space") /\ Has(u, q - 2, "digit")
                    \/ Has(u, q - 1, "star") /\ Shows(u[q])
  BY DEF Backwards
<1>1. q \notin W /\ u[q] = t[g[q]] /\ Has(t, g[q], "digit") /\ g[q] \in 1..Len(t)  BY Unmasked
<1>2. \/ Has(t, g[q] - 1, "digit")
      \/ Has(t, g[q] - 1, "space") /\ Has(t, g[q] - 2, "digit")
      \/ Has(t, g[q] - 1, "star") /\ Shows(t[g[q]])
  BY <1>1 DEF Backwards
<1>3. g[q] - 1 \in 1..Len(t)  BY <1>2 DEF Has
<1>4. /\ q - 1 \in 1..Len(u)
      /\ q - 1 \notin W => g[q - 1] = g[q] - 1 /\ u[q - 1] = t[g[q] - 1]
      /\ q - 1 \in W => u[q - 1] = <<"star">> /\ Shows(u[q])
  BY <1>1, <1>3, Before
<1>5. CASE q - 1 \in W
  <2>1. u[q - 1][1] = "star"  BY <1>4, <1>5
  <2> QED BY <1>4, <1>5, <2>1 DEF Has
<1>6. CASE q - 1 \notin W
  <2>1. g[q - 1] = g[q] - 1 /\ u[q - 1] = t[g[q] - 1]  BY <1>4, <1>6
  <2>2. CASE Has(t, g[q] - 1, "digit")  BY <1>4, <2>1, <2>2 DEF Has
  <2>3. CASE Has(t, g[q] - 1, "star") /\ Shows(t[g[q]])  BY <1>1, <1>4, <2>1, <2>3 DEF Has
  <2>4. CASE Has(t, g[q] - 1, "space") /\ Has(t, g[q] - 2, "digit")
    <3>1. u[q - 1][1] = "space"  BY <2>1, <2>4 DEF Has
    <3>2. g[q - 1] - 1 = g[q] - 2 /\ (q - 1) - 1 = q - 2  BY <1>1, <2>1
    <3>3. g[q - 1] - 1 \in 1..Len(t) /\ t[g[q - 1] - 1][1] = "digit"  BY <2>4, <3>2 DEF Has
    <3>4. /\ (q - 1) - 1 \in 1..Len(u)
          /\ (q - 1) - 1 \notin W => u[(q - 1) - 1] = t[g[q - 1] - 1]
          /\ (q - 1) - 1 \in W => Shows(u[q - 1])
      BY <1>4, <1>6, <3>3, Before
    <3>5. ~Shows(u[q - 1])  BY <3>1 DEF Shows
    <3>6. q - 2 \in 1..Len(u) /\ u[q - 2][1] = "digit"  BY <3>2, <3>3, <3>4, <3>5
    <3> QED BY <1>4, <3>1, <3>6 DEF Has
  <2> QED BY <1>2, <2>2, <2>3, <2>4
<1> QED BY <1>5, <1>6

LEMMA MarksLetters ==
  ASSUME NEW t, NEW u, NEW g, NEW W, Shorter(t, u, g, W), Len(t) \in Nat, Len(u) \in Nat,
         Digits(t), Marks(t), Letters(t)
  PROVE  Marks(u) /\ Letters(u)
<1>0. \A q, k : k # "star" /\ Has(u, q, k) =>
        q \in 1..Len(u) /\ q \notin W /\ u[q] = t[g[q]] /\ Has(t, g[q], k) /\ g[q] \in 1..Len(t)
  BY Unmasked
<1>1. ASSUME NEW q \in 1..Len(u), q \notin W, NEW k, Has(t, g[q] + 1, k), ~Opens(t[g[q] + 1])
      PROVE  Has(u, q + 1, k) /\ u[q + 1] = t[g[q] + 1]
  <2>1. g[q] + 1 \in 1..Len(t) /\ t[g[q] + 1][1] = k  BY <1>1 DEF Has
  <2>2. q + 1 \in 1..Len(u) /\ u[q + 1] = t[g[q] + 1]  BY <1>1, <2>1, Onward
  <2> QED BY <2>1, <2>2 DEF Has
<1>2. ASSUME NEW q \in 1..Len(u), Has(u, q, "plus")
      PROVE  (Has(u, q + 1, "digit") /\ u[q + 1][3] = -1) \/ Has(u, q + 1, "star")
  <2>1. q \notin W /\ Has(t, g[q], "plus") /\ g[q] \in 1..Len(t)  BY <1>0, <1>2
  <2>2. CASE Has(t, g[q] + 1, "digit") /\ t[g[q] + 1][3] = -1
    <3>1. g[q] + 1 \in 1..Len(t) /\ t[g[q] + 1][1] = "digit"  BY <2>2 DEF Has
    <3>2. /\ q + 1 \in 1..Len(u)
          /\ q + 1 \notin W => u[q + 1] = t[g[q] + 1]
          /\ q + 1 \in W => u[q + 1] = <<"star">>
      BY <2>1, <3>1, Onward
    <3> QED BY <2>2, <3>1, <3>2 DEF Has
  <2>3. CASE Has(t, g[q] + 1, "star")
    <3>1. ~Opens(t[g[q] + 1])  BY <2>3 DEF Has, Opens
    <3> QED BY <1>1, <2>1, <2>3, <3>1
  <2> QED BY <2>1, <2>2, <2>3 DEF Marks
<1>3. ASSUME NEW q \in 1..Len(u), Has(u, q, "star")
      PROVE  Has(u, q + 1, "digit") /\ Shows(u[q + 1])
  <2>1. CASE q \in W
    <3>1. q + 1 \in 1..Len(u) /\ Shows(u[q + 1])  BY <2>1 DEF Shorter
    <3> QED BY <3>1 DEF Has, Shows
  <2>2. CASE q \notin W
    <3>1. u[q] = t[g[q]] /\ g[q] \in 1..Len(t)  BY <2>2 DEF Shorter
    <3>2. Has(t, g[q], "star")  BY <1>3, <3>1 DEF Has
    <3>3. Has(t, g[q] + 1, "digit") /\ Shows(t[g[q] + 1])  BY <3>1, <3>2 DEF Marks
    <3>4. ~Opens(t[g[q] + 1])
      <4>1. DigitOk(t[g[q] + 1])  BY <3>3 DEF Digits, Has
      <4>2. t[g[q] + 1][3] \in {7, 9}  BY <3>3, <4>1 DEF DigitOk, Shows
      <4>3. t[g[q] + 1][1] = "digit" /\ t[g[q] + 1][3] \notin {1, -1}  BY <3>3, <4>2 DEF Has
      <4> QED BY <4>3 DEF Opens
    <3> QED BY <1>1, <2>2, <3>3, <3>4
  <2> QED BY <2>1, <2>2
<1>4. Marks(u)  BY <1>2, <1>3 DEF Marks
<1>5. ASSUME NEW q \in 1..Len(u), Has(u, q, "word")
      PROVE  Has(u, q + 1, "word") \/ Has(u, q + 1, "at")
  <2>1. q \notin W /\ Has(t, g[q], "word") /\ g[q] \in 1..Len(t)  BY <1>0, <1>5
  <2>2. Has(t, g[q] + 1, "word") \/ Has(t, g[q] + 1, "at")  BY <2>1 DEF Letters
  <2>3. ~Opens(t[g[q] + 1])  BY <2>2 DEF Has, Opens
  <2> QED BY <1>1, <2>1, <2>2, <2>3
<1>6. ASSUME NEW q \in 1..Len(u), Has(u, q, "digit"), NEW k, k = "word" \/ k = "at", Has(u, q + 1, k)
      PROVE  FALSE
  <2>1. q \notin W /\ Has(t, g[q], "digit") /\ g[q] \in 1..Len(t)  BY <1>0, <1>6
  <2>2. k # "star"  BY <1>6
  <2>3. q + 1 \in 1..Len(u) /\ q + 1 \notin W /\ Has(t, g[q + 1], k)  BY <1>0, <1>6, <2>2
  <2>4. g[q + 1] = g[q] + 1  BY <2>1, <2>3, Behind
  <2> QED BY <1>6, <2>1, <2>3, <2>4 DEF Letters
<1>7. Letters(u)  BY <1>5, <1>6 DEF Letters
<1> QED BY <1>4, <1>7

\* The digits of a country code have none behind them: a number that is written
\* with its country code in one piece has been masked.
CodesApart(t) ==
  \A p \in 1..Len(t) : Has(t, p, "digit") /\ t[p][3] = 0 => ~Has(t, p + 1, "digit")

LEMMA CodesKept ==
  ASSUME NEW t, NEW u, NEW g, NEW W, Shorter(t, u, g, W), Len(t) \in Nat, Len(u) \in Nat, CodesApart(t)
  PROVE  CodesApart(u)
<1> SUFFICES ASSUME NEW q \in 1..Len(u), Has(u, q, "digit"), u[q][3] = 0, Has(u, q + 1, "digit")
             PROVE  FALSE
  BY DEF CodesApart
<1>0. \A x, k : k # "star" /\ Has(u, x, k) =>
        x \in 1..Len(u) /\ x \notin W /\ u[x] = t[g[x]] /\ Has(t, g[x], k) /\ g[x] \in 1..Len(t)
  BY Unmasked
<1>1. q \notin W /\ u[q] = t[g[q]] /\ Has(t, g[q], "digit") /\ g[q] \in 1..Len(t)  BY <1>0
<1>2. q + 1 \in 1..Len(u) /\ q + 1 \notin W /\ Has(t, g[q + 1], "digit")  BY <1>0
<1>3. g[q + 1] = g[q] + 1  BY <1>1, <1>2, Behind
<1> QED BY <1>1, <1>2, <1>3 DEF CodesApart

\* Masking numbers leaves a legible text.
LEMMA LegibleKept ==
  ASSUME NEW t, NEW u, NEW g, NEW W, Shorter(t, u, g, W), Len(t) \in Nat, Len(u) \in Nat, Legible(t)
  PROVE  Legible(u)
<1>1. Digits(u) /\ Runs(u)  BY DigitsRuns DEF Legible
<1>2. Onwards(u)  BY OnwardsKept DEF Legible
<1>3. Backwards(u)  BY BackwardsKept DEF Legible
<1>4. Marks(u) /\ Letters(u)  BY MarksLetters DEF Legible
<1> QED BY <1>1, <1>2, <1>3, <1>4 DEF Legible

\* An address: letters up to an "@", with none before them.
Address(t, p, e) ==
  /\ e \in 1..Len(t) /\ p \in 1..e - 1 /\ ~Has(t, p - 1, "word")
  /\ \A r \in p..e - 1 : Has(t, r, "word")
  /\ Has(t, e, "at")

\* No address is the end of a longer one further on.
Endless(t) ==
  \A p, q \in 1..Len(t) : \A e, f : p < q /\ Address(t, p, e) /\ Address(t, q, f)
    /\ e - p <= f - q /\ (\A k \in 0..e - p : t[f - k] = t[e - k]) => f - q = e - p

\* Between two stars the text is in one piece; it stays in its order.
LEMMA InOnePiece ==
  ASSUME NEW t, NEW u, NEW g, NEW W, Shorter(t, u, g, W), Len(t) \in Nat, Len(u) \in Nat,
         NEW a \in 1..Len(u), NEW b \in a..Len(u), \A r \in a..b - 1 : r \notin W
  PROVE  \A r \in a..b : g[r] = g[a] + (r - a)
<1> DEFINE T == {r \in a..b : g[r] = g[a] + (r - a)}
<1>1. a \in Nat /\ b \in Nat /\ g[a] \in Nat
  <2>1. g[a] \in 1..Len(t)  BY DEF Shorter
  <2> QED BY <2>1
<1>2. a \in T  BY <1>1
<1>3. \A r \in a..b : r < b /\ r \in T => r + 1 \in T
  <2> SUFFICES ASSUME NEW r \in a..b, r < b, r \in T PROVE r + 1 \in T  OBVIOUS
  <2>1. r \in 1..Len(u) - 1 /\ r \in a..b - 1 /\ r + 1 \in a..b  BY <1>1
  <2>2. g[r + 1] = g[r] + 1  BY <2>1 DEF Shorter
  <2>3. g[r] = g[a] + (r - a) /\ r \in Nat  BY <1>1
  <2> HIDE DEF T
  <2>4. g[r + 1] = g[a] + ((r + 1) - a)  BY <1>1, <2>2, <2>3
  <2> QED BY <2>1, <2>4 DEF T
<1> HIDE DEF T
<1>4. \A r \in a..b : r \in T  BY <1>1, <1>2, <1>3, InductionUpTo
<1> QED BY <1>4 DEF T

LEMMA InOrder ==
  ASSUME NEW t, NEW u, NEW g, NEW W, Shorter(t, u, g, W), Len(t) \in Nat, Len(u) \in Nat,
         NEW a \in 1..Len(u), NEW b \in a + 1..Len(u)
  PROVE  g[a] < g[b]
<1> DEFINE n == Len(u)
           T == {r \in a + 1..n : g[a] < g[r]}
<1>1. \A r \in 1..n : g[r] \in Nat
  <2>1. \A r \in 1..n : g[r] \in 1..Len(t)  BY DEF Shorter
  <2> QED BY <2>1
<1>2. \A r \in 1..n - 1 : g[r] < g[r + 1]
  <2> SUFFICES ASSUME NEW r \in 1..n - 1 PROVE g[r] < g[r + 1]  OBVIOUS
  <2>1. (r \notin W => g[r + 1] = g[r] + 1) /\ (r \in W => g[r] < g[r + 1])  BY DEF Shorter
  <2>2. r \in 1..n  OBVIOUS
  <2> QED BY <2>1, <2>2, <1>1
<1>3. n \in Nat /\ a + 1 \in Nat /\ a \in 1..n - 1 /\ a + 1 \in a + 1..n  OBVIOUS
<1>4. a + 1 \in T  BY <1>2, <1>3
<1> HIDE DEF n
<1>5. \A r \in a + 1..n : r < n /\ r \in T => r + 1 \in T
  <2> SUFFICES ASSUME NEW r \in a + 1..n, r < n, r \in T PROVE r + 1 \in T  OBVIOUS
  <2>1. r \in 1..n - 1 /\ r \in 1..n /\ r + 1 \in 1..n /\ a \in 1..n /\ r + 1 \in a + 1..n  BY <1>3
  <2>2. g[a] < g[r] /\ g[r] < g[r + 1]  BY <1>2, <2>1
  <2>3. g[a] < g[r + 1]  BY <1>1, <2>1, <2>2
  <2> QED BY <2>1, <2>3
<1> HIDE DEF T
<1>6. \A r \in a + 1..n : r \in T  BY <1>3, <1>4, <1>5, InductionUpTo
<1> QED BY <1>6 DEF T, n

\* An address is one of the longer text; so none becomes the end of another.
LEMMA AddressKept ==
  ASSUME NEW t, NEW u, NEW g, NEW W, Shorter(t, u, g, W), Len(t) \in Nat, Len(u) \in Nat,
         NEW q, NEW e, Address(u, q, e)
  PROVE  /\ Address(t, g[q], g[e]) /\ g[e] - g[q] = e - q
         /\ g[q] \in 1..Len(t) /\ q \in 1..Len(u)
         /\ \A k \in 0..e - q : u[e - k] = t[g[e] - k]
<1>0. \A x, k : k # "star" /\ Has(u, x, k) =>
        x \in 1..Len(u) /\ x \notin W /\ u[x] = t[g[x]] /\ Has(t, g[x], k) /\ g[x] \in 1..Len(t)
  BY Unmasked
<1>1. q \in 1..Len(u) /\ e \in q..Len(u) /\ q \in q..e - 1  BY DEF Address
<1>2. /\ \A r \in q..e - 1 : r \notin W /\ u[r] = t[g[r]] /\ Has(t, g[r], "word")
      /\ e \notin W /\ u[e] = t[g[e]] /\ Has(t, g[e], "at") /\ g[e] \in 1..Len(t)
  BY <1>0 DEF Address
<1>3. \A r \in q..e : g[r] = g[q] + (r - q)  BY <1>1, <1>2, InOnePiece
<1>4. g[q] \in 1..Len(t) /\ q \notin W  BY <1>0, <1>1, <1>2 DEF Has
<1>5. g[e] = g[q] + (e - q)
  <2>1. e \in q..e  BY <1>1
  <2> QED BY <1>3, <2>1
<1>6. g[e] - g[q] = e - q /\ g[q] \in 1..g[e] - 1  BY <1>1, <1>4, <1>5
<1>7. ~Has(t, g[q] - 1, "word")
  <2> SUFFICES ASSUME Has(t, g[q] - 1, "word") PROVE FALSE  OBVIOUS
  <2>1. g[q] - 1 \in 1..Len(t) /\ t[g[q] - 1][1] = "word"  BY DEF Has
  <2>2. /\ q - 1 \in 1..Len(u)
        /\ q - 1 \notin W => u[q - 1] = t[g[q] - 1]
        /\ q - 1 \in W => Shows(u[q])
    BY <1>1, <1>4, <2>1, Before
  <2>3. u[q][1] = "word"  BY <1>1 DEF Address, Has
  <2>4. u[q - 1] = t[g[q] - 1]  BY <2>2, <2>3 DEF Shows
  <2> QED BY <2>1, <2>2, <2>4 DEF Address, Has
<1>8. \A r \in g[q]..g[e] - 1 : Has(t, r, "word")
  <2> SUFFICES ASSUME NEW r \in g[q]..g[e] - 1 PROVE Has(t, r, "word")  OBVIOUS
  <2> DEFINE x == q + (r - g[q])
  <2>1. x \in q..e - 1 /\ x \in q..e /\ g[q] + (x - q) = r  BY <1>1, <1>4, <1>5
  <2> HIDE DEF x
  <2>2. g[x] = r  BY <1>3, <2>1
  <2> QED BY <1>2, <2>1, <2>2
<1>9. ASSUME NEW k \in 0..e - q PROVE u[e - k] = t[g[e] - k]
  <2>1. e - k \in q..e /\ g[q] + ((e - k) - q) = g[e] - k  BY <1>1, <1>4, <1>5
  <2>2. g[e - k] = g[e] - k  BY <1>3, <2>1
  <2>3. u[e - k] = t[g[e - k]]
    <3>1. CASE k = 0  BY <3>1, <1>1, <1>2
    <3>2. CASE k # 0
      <4>1. e - k \in q..e - 1  BY <1>1, <3>2
      <4> QED BY <4>1, <1>2
    <3> QED BY <3>1, <3>2
  <2> QED BY <2>2, <2>3
<1> QED BY <1>1, <1>2, <1>4, <1>6, <1>7, <1>8, <1>9 DEF Address

LEMMA EndlessKept ==
  ASSUME NEW t, NEW u, NEW g, NEW W, Shorter(t, u, g, W), Len(t) \in Nat, Len(u) \in Nat, Endless(t)
  PROVE  Endless(u)
<1> SUFFICES ASSUME NEW p \in 1..Len(u), NEW q \in 1..Len(u), NEW e, NEW f, p < q,
                    Address(u, p, e), Address(u, q, f), e - p <= f - q,
                    \A k \in 0..e - p : u[f - k] = u[e - k]
             PROVE  f - q = e - p
  BY DEF Endless
<1>0. \A x, y : Address(u, x, y) =>
         /\ Address(t, g[x], g[y]) /\ g[y] - g[x] = y - x
         /\ g[x] \in 1..Len(t) /\ x \in 1..Len(u)
         /\ \A k \in 0..y - x : u[y - k] = t[g[y] - k]
  BY AddressKept
<1>1. /\ Address(t, g[p], g[e]) /\ g[e] - g[p] = e - p /\ g[p] \in 1..Len(t)
      /\ \A k \in 0..e - p : u[e - k] = t[g[e] - k]
  BY <1>0
<1>2. /\ Address(t, g[q], g[f]) /\ g[f] - g[q] = f - q /\ g[q] \in 1..Len(t)
      /\ \A k \in 0..f - q : u[f - k] = t[g[f] - k]
  BY <1>0
<1>3. g[p] < g[q]
  <2>1. q \in p + 1..Len(u)  OBVIOUS
  <2> QED BY <2>1, InOrder
<1>4. e \in Int /\ f \in Int  BY DEF Address
<1>5. \A k \in 0..e - p : k \in 0..f - q  BY <1>4
<1>6. \A k \in 0..g[e] - g[p] : t[g[f] - k] = t[g[e] - k]  BY <1>1, <1>2, <1>5
<1>7. g[f] - g[q] = g[e] - g[p]  BY <1>1, <1>2, <1>3, <1>6 DEF Endless
<1> QED BY <1>1, <1>2, <1>7

-----------------------------------------------------------------------------
(* Masking: the patterns of numbers                                        *)

\* The end of a match, pattern by pattern.
LEMMA EndOf ==
  /\ \A t, i : MatchEnd("pan", t, i) = PanEnd(t, i)
  /\ \A t, i : MatchEnd("aadhaar", t, i) = AadhaarEnd(t, i)
  /\ \A t, i : MatchEnd("phone", t, i) = PhoneEnd(t, i)
  /\ \A t, i : MatchEnd("email", t, i) = EmailEnd(t, i)
BY DEF MatchEnd

\* Three groups of four digits from p, b and d on, the last up to e.
Groups(t, p, b, d, e) ==
  /\ b = p + 4 \/ (b = p + 5 /\ Has(t, p + 4, "space"))
  /\ d = b + 4 \/ (d = b + 5 /\ Has(t, b + 4, "space"))
  /\ \A k \in 0..3 : Has(t, p + k, "digit") /\ Has(t, b + k, "digit") /\ Has(t, d + k, "digit")
  /\ e = d + 3

\* Ten digits from s on, behind a country code or not.
Dialled(t, p, s, e) ==
  /\ \/ s = p
     \/ Has(t, p, "plus") /\ (s = p + 3 \/ (s = p + 4 /\ Has(t, p + 3, "space")))
  /\ \A k \in 0..9 : Has(t, s + k, "digit")
  /\ t[s][4]
  /\ e = s + 9

\* What the two patterns of numbers find.
LEMMA DigitsAre ==
  ASSUME NEW U, NEW t \in Seq(U), NEW i \in Int, NEW n \in Nat
  PROVE  AreDigits(t, i, n) <=> \A k \in 0..n - 1 : Has(t, i + k, "digit")
<1>1. \A k : Kind(t, k) = "digit" <=> Has(t, k, "digit")  BY KindIs
<1>2. ASSUME AreDigits(t, i, n), NEW k \in 0..n - 1 PROVE Has(t, i + k, "digit")
  <2>1. i + k \in i..(i + n - 1)  OBVIOUS
  <2> QED BY <2>1, <1>1, <1>2 DEF AreDigits
<1>3. ASSUME \A k \in 0..n - 1 : Has(t, i + k, "digit") PROVE AreDigits(t, i, n)
  <2> SUFFICES ASSUME NEW k \in i..(i + n - 1) PROVE Kind(t, k) = "digit"  BY DEF AreDigits
  <2>1. k - i \in 0..n - 1 /\ i + (k - i) = k  OBVIOUS
  <2>2. Has(t, i + (k - i), "digit")  BY <2>1, <1>3
  <2> QED BY <2>1, <2>2, <1>1
<1> QED BY <1>2, <1>3

LEMMA GroupsAre ==
  ASSUME NEW U, NEW t \in Seq(U), NEW p \in Nat \ {0}, NEW e
  PROVE  Matches("aadhaar", t, p, e) <=> \E b, d \in Nat : Groups(t, p, b, d, e)
<1>1. \A k : Kind(t, k) = "digit" <=> Has(t, k, "digit")  BY KindIs
<1>2. \A k : Kind(t, k) = "space" <=> Has(t, k, "space")  BY KindIs
<1>3. \A i \in Int : AreDigits(t, i, 4) <=> \A k \in 0..3 : Has(t, i + k, "digit")
  <2> SUFFICES ASSUME NEW i \in Int
               PROVE  AreDigits(t, i, 4) <=> \A k \in 0..3 : Has(t, i + k, "digit")
    OBVIOUS
  <2>1. AreDigits(t, i, 4) <=> \A k \in 0..4 - 1 : Has(t, i + k, "digit")  BY DigitsAre
  <2> QED BY <2>1
<1> DEFINE group(k) == IF Kind(t, k) = "space" THEN k + 1 ELSE k
           second == group(p + 4)
           third == group(second + 4)
           All == \A k \in {p, second, third} : AreDigits(t, k, 4)
<1>4. AadhaarEnd(t, p) = IF All THEN third + 3 ELSE 0  BY DEF AadhaarEnd
<1>5. second \in Nat /\ third \in Nat  OBVIOUS
<1>6. \A k : Has(t, k, "digit") => ~Has(t, k, "space")  BY DEF Has
<1>7. All <=> AreDigits(t, p, 4) /\ AreDigits(t, second, 4) /\ AreDigits(t, third, 4)  OBVIOUS
<1>8. Matches("aadhaar", t, p, e) <=> All /\ e = third + 3
  <2>1. third + 3 # 0  BY <1>5
  <2> HIDE DEF All, third
  <2> QED BY <1>4, <2>1, EndOf DEF Matches
<1>9. ASSUME All, e = third + 3 PROVE Groups(t, p, second, third, e)
  <2>1. \A k \in 0..3 : Has(t, p + k, "digit") /\ Has(t, second + k, "digit") /\ Has(t, third + k, "digit")
    <3>1. AreDigits(t, p, 4) /\ AreDigits(t, second, 4) /\ AreDigits(t, third, 4)  BY <1>7, <1>9
    <3>2. p \in Int /\ second \in Int /\ third \in Int  BY <1>5
    <3> HIDE DEF second, third, All
    <3> QED BY <3>1, <3>2, <1>3
  <2>2. second = p + 4 \/ (second = p + 5 /\ Has(t, p + 4, "space"))  BY <1>2
  <2>3. third = second + 4 \/ (third = second + 5 /\ Has(t, second + 4, "space"))
    <3> HIDE DEF second
    <3> QED BY <1>2, <1>5
  <2> HIDE DEF second, third
  <2> QED BY <2>1, <2>2, <2>3, <1>9 DEF Groups
<1>10. ASSUME NEW b \in Nat, NEW d \in Nat, Groups(t, p, b, d, e) PROVE All /\ e = third + 3
  <2>1. \A k \in 0..3 : Has(t, p + k, "digit") /\ Has(t, b + k, "digit") /\ Has(t, d + k, "digit")
    BY <1>10 DEF Groups
  <2>2. Has(t, b, "digit") /\ Has(t, d, "digit")
    <3>1. b + 0 = b /\ d + 0 = d /\ 0 \in 0..3  OBVIOUS
    <3>2. Has(t, b + 0, "digit") /\ Has(t, d + 0, "digit")  BY <2>1
    <3> QED BY <3>1, <3>2
  <2>3. second = b
    <3>1. CASE b = p + 4  BY <3>1, <2>2, <1>2, <1>6
    <3>2. CASE b = p + 5 /\ Has(t, p + 4, "space")  BY <3>2, <1>2
    <3> QED BY <3>1, <3>2, <1>10 DEF Groups
  <2>4. third = d
    <3> HIDE DEF second
    <3>1. CASE d = b + 4  BY <3>1, <2>2, <2>3, <1>2, <1>6
    <3>2. CASE d = b + 5 /\ Has(t, b + 4, "space")  BY <3>2, <2>3, <1>2
    <3> QED BY <3>1, <3>2, <1>10 DEF Groups
  <2> HIDE DEF second, third
  <2>5. AreDigits(t, p, 4) /\ AreDigits(t, second, 4) /\ AreDigits(t, third, 4)
    BY <2>1, <2>3, <2>4, <1>3
  <2> QED BY <2>4, <2>5, <1>7, <1>10 DEF Groups
<1> HIDE DEF All, second, third
<1> QED BY <1>5, <1>8, <1>9, <1>10

LEMMA DialledIs ==
  ASSUME NEW U, NEW t \in Seq(U), NEW p \in Nat \ {0}, NEW e
  PROVE  Matches("phone", t, p, e) <=> \E s \in Nat : Dialled(t, p, s, e)
<1>1. \A k : Kind(t, k) = "plus" <=> Has(t, k, "plus")  BY KindIs
<1>2. \A k : Kind(t, k) = "space" <=> Has(t, k, "space")  BY KindIs
<1>3. \A i \in Int : AreDigits(t, i, 10) <=> \A k \in 0..9 : Has(t, i + k, "digit")
  <2> SUFFICES ASSUME NEW i \in Int
               PROVE  AreDigits(t, i, 10) <=> \A k \in 0..9 : Has(t, i + k, "digit")
    OBVIOUS
  <2>1. AreDigits(t, i, 10) <=> \A k \in 0..10 - 1 : Has(t, i + k, "digit")  BY DigitsAre
  <2> QED BY <2>1
<1> DEFINE start == IF Kind(t, p) # "plus" THEN p
                    ELSE IF Kind(t, p + 3) = "space" THEN p + 4 ELSE p + 3
           All == AreDigits(t, start, 10) /\ t[start][4]
<1>4. PhoneEnd(t, p) = IF All THEN start + 9 ELSE 0  BY Zenon DEF PhoneEnd
<1>5. start \in Nat  OBVIOUS
<1>6. \A k : Has(t, k, "digit") => ~Has(t, k, "space") /\ ~Has(t, k, "plus")  BY DEF Has
<1>7. Matches("phone", t, p, e) <=> All /\ e = start + 9
  <2>1. start + 9 # 0  BY <1>5
  <2> HIDE DEF All, start
  <2> QED BY <1>4, <2>1, EndOf DEF Matches
<1>8. ASSUME All, e = start + 9 PROVE Dialled(t, p, start, e)
  <2>1. \A k \in 0..9 : Has(t, start + k, "digit")  BY <1>3, <1>5, <1>8
  <2>2. \/ start = p
        \/ Has(t, p, "plus") /\ (start = p + 3 \/ (start = p + 4 /\ Has(t, p + 3, "space")))
    BY <1>1, <1>2
  <2>3. t[start][4]  BY <1>8
  <2> HIDE DEF start, All
  <2> QED BY <2>1, <2>2, <2>3, <1>8, Zenon DEF Dialled
<1>9. ASSUME NEW s \in Nat, Dialled(t, p, s, e) PROVE All /\ e = start + 9
  <2>1. \A k \in 0..9 : Has(t, s + k, "digit")  BY <1>9, Zenon DEF Dialled
  <2>2. Has(t, s, "digit")
    <3>1. s + 0 = s /\ 0 \in 0..9  OBVIOUS
    <3>2. Has(t, s + 0, "digit")  BY <2>1, <3>1
    <3> QED BY <3>1, <3>2
  <2>3. /\ \/ s = p
           \/ Has(t, p, "plus") /\ (s = p + 3 \/ (s = p + 4 /\ Has(t, p + 3, "space")))
        /\ e = s + 9
    BY <1>9, Zenon DEF Dialled
  <2>4. start = s
    <3>1. CASE s = p  BY <3>1, <2>2, <1>1, <1>6
    <3>2. CASE Has(t, p, "plus") /\ s = p + 3  BY <3>2, <2>2, <1>1, <1>2, <1>6
    <3>3. CASE Has(t, p, "plus") /\ s = p + 4 /\ Has(t, p + 3, "space")  BY <3>3, <1>1, <1>2
    <3> QED BY <3>1, <3>2, <3>3, <2>3
  <2>5. t[s][4]  BY <1>9, Zenon DEF Dialled
  <2>6. AreDigits(t, s, 10)  BY <2>1, <1>3
  <2> HIDE DEF start
  <2> QED BY <2>3, <2>4, <2>5, <2>6, Zenon
<1> HIDE DEF All, start
<1> QED BY <1>5, <1>7, <1>8, <1>9, Zenon

\* n + 1 digits in a row follow each other in one number.
LEMMA InARow ==
  ASSUME NEW t, Digits(t), Runs(t), NEW a \in Nat, NEW n \in Nat, \A k \in 0..n : Has(t, a + k, "digit")
  PROVE  \A k \in 0..n : t[a + k][2] = t[a][2] /\ t[a + k][3] = t[a][3] + k /\ t[a][3] \in Int
<1> DEFINE T == {k \in 0..n : t[a + k][2] = t[a][2] /\ t[a + k][3] = t[a][3] + k}
<1>1. Has(t, a, "digit")
  <2>1. 0 \in 0..n /\ a + 0 = a  OBVIOUS
  <2>2. Has(t, a + 0, "digit")  BY <2>1
  <2> QED BY <2>1, <2>2
<1>2. DigitOk(t[a])  BY <1>1 DEF Digits, Has
<1>3. t[a][3] \in Int  BY <1>2 DEF DigitOk
<1>4. 0 \in T
  <2>1. a + 0 = a /\ t[a][3] + 0 = t[a][3] /\ 0 \in 0..n  BY <1>3
  <2>2. t[a + 0] = t[a]  BY <2>1
  <2> QED BY <2>1, <2>2
<1>5. \A k \in 0..n : k < n /\ k \in T => k + 1 \in T
  <2> SUFFICES ASSUME NEW k \in 0..n, k < n, k \in T PROVE k + 1 \in T  OBVIOUS
  <2>1. k + 1 \in 0..n /\ (a + k) + 1 = a + (k + 1)  OBVIOUS
  <2>2. Has(t, a + k, "digit") /\ Has(t, a + (k + 1), "digit")  BY <2>1
  <2>3. Has(t, (a + k) + 1, "digit") /\ a + k \in 1..Len(t)  BY <2>1, <2>2 DEF Has
  <2>4. IsNext(t[a + k], t[(a + k) + 1])  BY <2>2, <2>3 DEF Runs
  <2>5. t[a + (k + 1)][2] = t[a + k][2] /\ t[a + (k + 1)][3] = t[a + k][3] + 1
    BY <2>1, <2>4 DEF IsNext
  <2>6. t[a + (k + 1)][3] = t[a][3] + (k + 1)  BY <1>3, <2>5
  <2> QED BY <2>1, <2>5, <2>6
<1> HIDE DEF T
<1>6. 0 \in Nat /\ n \in Nat  OBVIOUS
<1>7. \A k \in 0..n : k \in T  BY <1>4, <1>5, <1>6, InductionUpTo
<1> QED BY <1>3, <1>7 DEF T

\* A number from its beginning to its last digit.
NumberAt(t, p, e) ==
  /\ p \in 1..Len(t) /\ e \in p + 4..Len(t)
  /\ Opens(t[p])
  /\ \A i \in 0..3 : /\ Has(t, e - i, "digit") /\ Lengths[t[e - i][2]] \in {10, 12}
                     /\ t[e - i][3] = Lengths[t[e - i][2]] - i
  /\ \A r \in p..e - 1 : ~(Has(t, r, "digit") /\ t[r][3] = Lengths[t[r][2]])
  /\ \A r \in p..e : Has(t, r, "digit") \/ Has(t, r, "space") \/ Has(t, r, "plus")

\* A group of four digits, and that one follows another.
LEMMA Group ==
  ASSUME NEW t, Digits(t), Runs(t), NEW a \in Nat, \A k \in 0..3 : Has(t, a + k, "digit")
  PROVE  /\ \A k \in 0..3 : t[a + k][2] = t[a][2] /\ t[a + k][3] = t[a][3] + k
         /\ t[a][3] \in Int
         /\ \A b \in Nat : Has(t, b, "digit") /\ (b = a + 4 \/ (b = a + 5 /\ Has(t, a + 4, "space")))
              => t[b][2] = t[a][2] /\ t[b][3] = t[a][3] + 4
<1>1. \A k \in 0..3 : t[a + k][2] = t[a][2] /\ t[a + k][3] = t[a][3] + k /\ t[a][3] \in Int  BY InARow
<1>2. 3 \in 0..3  OBVIOUS
<1>3. t[a + 3][2] = t[a][2] /\ t[a + 3][3] = t[a][3] + 3 /\ t[a][3] \in Int  BY <1>1, <1>2
<1>4. Has(t, a + 3, "digit") /\ a + 3 \in 1..Len(t)  BY <1>2 DEF Has
<1>5. ASSUME NEW b \in Nat, Has(t, b, "digit"), b = a + 4 \/ (b = a + 5 /\ Has(t, a + 4, "space"))
      PROVE  t[b][2] = t[a][2] /\ t[b][3] = t[a][3] + 4
  <2>1. (a + 3) + 1 = a + 4 /\ (a + 3) + 2 = a + 5  OBVIOUS
  <2>2. IsNext(t[a + 3], t[b])
    <3>1. CASE b = a + 4  BY <3>1, <2>1, <1>4, <1>5 DEF Runs
    <3>2. CASE b = a + 5 /\ Has(t, a + 4, "space")
      <4>1. Has(t, (a + 3) + 1, "space") /\ Has(t, (a + 3) + 2, "digit")  BY <3>2, <2>1, <1>5
      <4>2. IsNext(t[a + 3], t[(a + 3) + 2])  BY <4>1, <1>4 DEF Runs
      <4> QED BY <4>2, <3>2, <2>1
    <3> QED BY <3>1, <3>2, <1>5
  <2> QED BY <2>2, <1>3 DEF IsNext
<1> QED BY <1>1, <1>3, <1>5

\* What AADHAAR_PATTERN finds begins where a number, or the part behind its country
\* code, does, and ends where that number ends.
LEMMA AadhaarNumber ==
  ASSUME NEW t, Len(t) \in Nat, Digits(t), Runs(t), NEW p \in Nat \ {0}, NEW b \in Nat, NEW d \in Nat, NEW e,
         Groups(t, p, b, d, e)
  PROVE  NumberAt(t, p, e)
<1>1. /\ b = p + 4 \/ (b = p + 5 /\ Has(t, p + 4, "space"))
      /\ d = b + 4 \/ (d = b + 5 /\ Has(t, b + 4, "space"))
      /\ \A k \in 0..3 : Has(t, p + k, "digit")
      /\ \A k \in 0..3 : Has(t, b + k, "digit")
      /\ \A k \in 0..3 : Has(t, d + k, "digit")
      /\ e = d + 3
  BY DEF Groups
<1>2. 0 \in 0..3 /\ 3 \in 0..3 /\ p + 0 = p /\ b + 0 = b /\ d + 0 = d  OBVIOUS
<1>3. Has(t, p, "digit") /\ Has(t, b, "digit") /\ Has(t, d, "digit") /\ Has(t, e, "digit")
  <2>1. Has(t, p + 0, "digit") /\ Has(t, b + 0, "digit") /\ Has(t, d + 0, "digit") /\ Has(t, d + 3, "digit")
    BY <1>1, <1>2
  <2> QED BY <2>1, <1>1, <1>2
<1> DEFINE n == t[p][2]
           k0 == t[p][3]
           L == Lengths[n]
<1>4. /\ \A k \in 0..3 : t[p + k][2] = n /\ t[p + k][3] = k0 + k
      /\ k0 \in Int
      /\ t[b][2] = n /\ t[b][3] = k0 + 4
  BY <1>1, <1>3, Group
<1>5. /\ \A k \in 0..3 : t[b + k][2] = t[b][2] /\ t[b + k][3] = t[b][3] + k
      /\ t[d][2] = t[b][2] /\ t[d][3] = t[b][3] + 4
  BY <1>1, <1>3, Group
<1>6. \A k \in 0..3 : t[d + k][2] = t[d][2] /\ t[d + k][3] = t[d][3] + k
  BY <1>1, Group, ZenonT(20)
<1>7. /\ \A k \in 0..3 : t[b + k][2] = n /\ t[b + k][3] = k0 + 4 + k
      /\ \A k \in 0..3 : t[d + k][2] = n /\ t[d + k][3] = k0 + 8 + k
  <2>1. \A k \in 0..3 : (k0 + 4) + k = k0 + 4 + k /\ ((k0 + 4) + 4) + k = k0 + 8 + k  BY <1>4
  <2> HIDE DEF n, k0
  <2> QED BY <1>4, <1>5, <1>6, <2>1
<1>8. DigitOk(t[p]) /\ DigitOk(t[e])  BY <1>3 DEF Digits, Has
<1>9. t[e][2] = n /\ t[e][3] = k0 + 11
  <2>1. t[d + 3][2] = n /\ t[d + 3][3] = k0 + 8 + 3  BY <1>2, <1>7
  <2>2. k0 + 8 + 3 = k0 + 11  BY <1>4
  <2> QED BY <1>1, <2>1, <2>2
<1>10. L \in {10, 12} /\ k0 \in {1, -1} /\ k0 + 11 = L
  <2>1. /\ L \in {10, 12} /\ k0 \in (IF L = 12 THEN 1 ELSE -1)..L
    BY <1>8 DEF DigitOk
  <2>2. k0 + 11 \in (IF L = 12 THEN 1 ELSE -1)..L  BY <1>8, <1>9 DEF DigitOk
  <2> HIDE DEF L, k0
  <2>3. CASE L = 12  BY <2>1, <2>2, <2>3
  <2>4. CASE L = 10  BY <2>1, <2>2, <2>4
  <2> QED BY <2>1, <2>3, <2>4
<1>a. \A x \in 0..3 : /\ k0 + x < L /\ k0 + 4 + x < L /\ (x # 3 => k0 + 8 + x < L)
                      /\ k0 + 8 + (3 - x) = L - x
  <2>1. k0 \in Int  BY <1>4
  <2> HIDE DEF k0, L
  <2>2. L \in Int  BY <1>10
  <2> QED BY <2>1, <2>2, <1>10
<1>11. Opens(t[p])  BY <1>3, <1>10 DEF Opens, Has
<1>12. p \in 1..Len(t) /\ e \in 1..Len(t)  BY <1>3 DEF Has
<1>13. b \in {p + 4, p + 5} /\ d \in {b + 4, b + 5} /\ e = d + 3  BY <1>1
<1>14. e \in p + 4..Len(t)  BY <1>12, <1>13
<1>15. ASSUME NEW i \in 0..3
       PROVE  /\ Has(t, e - i, "digit") /\ Lengths[t[e - i][2]] \in {10, 12}
              /\ t[e - i][3] = Lengths[t[e - i][2]] - i
  <2>1. 3 - i \in 0..3 /\ d + (3 - i) = e - i  BY <1>13
  <2>2. t[d + (3 - i)][2] = n /\ t[d + (3 - i)][3] = k0 + 8 + (3 - i) /\ Has(t, d + (3 - i), "digit")
    BY <1>1, <1>7, <2>1
  <2>3. t[e - i][2] = n /\ t[e - i][3] = k0 + 8 + (3 - i) /\ Has(t, e - i, "digit")  BY <2>1, <2>2
  <2>4. k0 + 8 + (3 - i) = L - i  BY <1>a
  <2> QED BY <1>10, <2>3, <2>4
<1>16. ASSUME NEW r \in p..e
       PROVE  \/ r = e
              \/ Has(t, r, "space")
              \/ Has(t, r, "digit") /\ t[r][2] = n /\ t[r][3] < L
  <2>1. r \in Int /\ (r \in p..p + 3 \/ r \in b..b + 3 \/ r \in d..d + 3 \/ (r = p + 4 /\ b = p + 5) \/ (r = b + 4 /\ d = b + 5))
    BY <1>13
  <2>2. CASE r \in p..p + 3
    <3>1. r - p \in 0..3 /\ p + (r - p) = r  BY <2>2
    <3>2. Has(t, p + (r - p), "digit") /\ t[p + (r - p)][2] = n /\ t[p + (r - p)][3] = k0 + (r - p)
      BY <1>1, <1>4, <3>1
    <3>3. k0 + (r - p) < L  BY <1>a, <3>1
    <3> QED BY <3>1, <3>2, <3>3
  <2>3. CASE r \in b..b + 3
    <3>1. r - b \in 0..3 /\ b + (r - b) = r  BY <2>3
    <3>2. Has(t, b + (r - b), "digit") /\ t[b + (r - b)][2] = n /\ t[b + (r - b)][3] = k0 + 4 + (r - b)
      BY <1>1, <1>7, <3>1
    <3>3. k0 + 4 + (r - b) < L  BY <1>a, <3>1
    <3> QED BY <3>1, <3>2, <3>3
  <2>4. CASE r \in d..d + 3 /\ r # e
    <3>1. r - d \in 0..3 /\ d + (r - d) = r /\ r - d # 3  BY <2>4, <1>13
    <3>2. Has(t, d + (r - d), "digit") /\ t[d + (r - d)][2] = n /\ t[d + (r - d)][3] = k0 + 8 + (r - d)
      BY <1>1, <1>7, <3>1
    <3>3. k0 + 8 + (r - d) < L  BY <1>a, <3>1
    <3> QED BY <3>1, <3>2, <3>3
  <2>5. CASE r = p + 4 /\ b = p + 5  BY <2>5, <1>1
  <2>6. CASE r = b + 4 /\ d = b + 5  BY <2>6, <1>1
  <2> HIDE DEF n, L
  <2> QED BY <2>1, <2>2, <2>3, <2>4, <2>5, <2>6
<1>17. ASSUME NEW r \in p..e - 1 PROVE ~(Has(t, r, "digit") /\ t[r][3] = Lengths[t[r][2]])
  <2>1. r \in p..e /\ r # e  BY <1>12
  <2>2. Has(t, r, "space") \/ (Has(t, r, "digit") /\ t[r][2] = n /\ t[r][3] < L)  BY <1>16, <2>1
  <2>3. CASE Has(t, r, "space")  BY <2>3 DEF Has
  <2>4. CASE Has(t, r, "digit") /\ t[r][2] = n /\ t[r][3] < L
    <3>1. t[r][3] \in Int
      <4>1. DigitOk(t[r])  BY <2>4 DEF Digits, Has
      <4> QED BY <4>1 DEF DigitOk
    <3>2. L \in Int /\ Lengths[t[r][2]] = L /\ t[r][3] < L  BY <2>4, <1>10
    <3> HIDE DEF L
    <3> QED BY <3>1, <3>2
  <2> QED BY <2>2, <2>3, <2>4
<1>18. ASSUME NEW r \in p..e PROVE Has(t, r, "digit") \/ Has(t, r, "space") \/ Has(t, r, "plus")
  BY <1>3, <1>16
<1> QED BY <1>11, <1>12, <1>14, <1>15, <1>17, <1>18 DEF NumberAt

\* Of the Aadhaar numbers only the tails are left.
AadhaarHidden(t) == \A p \in 1..Len(t) : Has(t, p, "digit") /\ Lengths[t[p][2]] = 12 => t[p][3] >= 9

\* A country code has two digits; no mask comes behind a plus that a telephone
\* number follows.
LEMMA CountryCode ==
  ASSUME NEW t, Len(t) \in Nat, Legible(t), NEW p \in Nat \ {0}, Has(t, p, "plus"),
         NEW s \in Nat, s = p + 3 \/ (s = p + 4 /\ Has(t, p + 3, "space")),
         Has(t, s, "digit"), t[s][3] = 1
  PROVE  \A r \in {p + 1, p + 2} : Has(t, r, "digit") /\ t[r][3] # Lengths[t[r][2]]
<1>1. p \in 1..Len(t)  BY DEF Has
<1>2. CASE Has(t, p + 1, "digit") /\ t[p + 1][3] = -1
  <2>1. p + 1 \in 1..Len(t) /\ DigitOk(t[p + 1])  BY <1>2 DEF Legible, Digits, Has
  <2>2. Lengths[t[p + 1][2]] = 10  BY <1>2, <2>1 DEF DigitOk
  <2>3. ~Breaks(t[p + 1])  BY <1>2, <2>2 DEF Breaks
  <2>4. Has(t, (p + 1) + 1, "digit")  BY <1>2, <2>1, <2>2, <2>3 DEF Legible, Onwards
  <2>5. IsNext(t[p + 1], t[(p + 1) + 1])  BY <1>2, <2>1, <2>4 DEF Legible, Runs
  <2>6. (p + 1) + 1 = p + 2  OBVIOUS
  <2>7. t[p + 2][3] = 0 /\ t[p + 2][2] = t[p + 1][2] /\ Has(t, p + 2, "digit")
    BY <1>2, <2>4, <2>5, <2>6 DEF IsNext
  <2>8. t[p + 1][3] # Lengths[t[p + 1][2]] /\ t[p + 2][3] # Lengths[t[p + 2][2]]  BY <1>2, <2>2, <2>7
  <2> QED BY <1>2, <2>7, <2>8
<1>3. CASE Has(t, p + 1, "star")
  <2>1. p + 1 \in 1..Len(t) /\ (p + 1) + 1 = p + 2 /\ (p + 2) + 1 = p + 3 /\ (p + 2) + 2 = p + 4  BY <1>3 DEF Has
  <2>2. Has(t, (p + 1) + 1, "digit") /\ Shows(t[(p + 1) + 1])  BY <1>3, <2>1 DEF Legible, Marks
  <2>3. Has(t, p + 2, "digit") /\ Shows(t[p + 2])  BY <2>1, <2>2
  <2>4. p + 2 \in 1..Len(t) /\ DigitOk(t[p + 2])  BY <2>3 DEF Legible, Digits, Has
  <2>5. t[p + 2][3] \in {7, 9}  BY <2>3, <2>4 DEF Shows, DigitOk
  <2>6. IsNext(t[p + 2], t[s])
    <3>1. CASE s = p + 3
      <4>1. Has(t, (p + 2) + 1, "digit")  BY <2>1, <3>1
      <4>2. IsNext(t[p + 2], t[(p + 2) + 1])  BY <2>3, <2>4, <4>1 DEF Legible, Runs
      <4> QED BY <2>1, <3>1, <4>2
    <3>2. CASE s = p + 4 /\ Has(t, p + 3, "space")
      <4>1. Has(t, (p + 2) + 1, "space") /\ Has(t, (p + 2) + 2, "digit")  BY <2>1, <3>2
      <4>2. IsNext(t[p + 2], t[(p + 2) + 2])  BY <2>3, <2>4, <4>1 DEF Legible, Runs
      <4> QED BY <2>1, <3>2, <4>2
    <3> QED BY <3>1, <3>2
  <2>7. t[s][3] = t[p + 2][3] + 1  BY <2>6 DEF IsNext
  <2> QED BY <2>5, <2>7
<1> QED BY <1>1, <1>2, <1>3 DEF Legible, Marks

\* So does what PHONE_PATTERN finds, once there are no Aadhaar numbers left.
LEMMA PhoneNumber ==
  ASSUME NEW t, Len(t) \in Nat, Legible(t), CodesApart(t), AadhaarHidden(t),
         NEW p \in Nat \ {0}, NEW s \in Nat, NEW e, Dialled(t, p, s, e)
  PROVE  NumberAt(t, p, e)
<1>1. /\ s = p \/ (Has(t, p, "plus") /\ (s = p + 3 \/ (s = p + 4 /\ Has(t, p + 3, "space"))))
      /\ \A k \in 0..9 : Has(t, s + k, "digit")
      /\ e = s + 9
  BY Zenon DEF Dialled
<1>2. Digits(t) /\ Runs(t)  BY DEF Legible
<1> DEFINE n == t[s][2]
           k0 == t[s][3]
           L == Lengths[n]
<1>3. \A k \in 0..9 : t[s + k][2] = n /\ t[s + k][3] = k0 + k /\ k0 \in Int
  <2>1. 9 \in Nat /\ \A k \in 0..9 : Has(t, s + k, "digit")  BY <1>1
  <2> QED BY <2>1, <1>2, InARow
<1>4. 0 \in 0..9 /\ 1 \in 0..9 /\ 2 \in 0..9 /\ 9 \in 0..9 /\ s + 0 = s  OBVIOUS
<1>5. Has(t, s, "digit") /\ Has(t, s + 1, "digit") /\ Has(t, s + 2, "digit") /\ Has(t, e, "digit")
  <2>1. Has(t, s + 0, "digit") /\ Has(t, s + 1, "digit") /\ Has(t, s + 2, "digit") /\ Has(t, s + 9, "digit")
    BY <1>1, <1>4
  <2> QED BY <2>1, <1>1, <1>4
<1>6. k0 \in Int /\ t[e][2] = n /\ t[e][3] = k0 + 9  BY <1>1, <1>3, <1>4
<1>7. DigitOk(t[s]) /\ DigitOk(t[e])  BY <1>2, <1>5 DEF Digits, Has
<1>8. L \in {10, 12} /\ (L = 12 => k0 >= 9 /\ k0 + 9 <= 12) /\ (L = 10 => k0 >= -1 /\ k0 + 9 <= 10)
  <2>1. L \in {10, 12} /\ k0 \in (IF L = 12 THEN 1 ELSE -1)..L  BY <1>7 DEF DigitOk
  <2>2. k0 + 9 \in (IF L = 12 THEN 1 ELSE -1)..L  BY <1>6, <1>7 DEF DigitOk
  <2>3. L = 12 => k0 >= 9  BY <1>5 DEF AadhaarHidden, Has
  <2> HIDE DEF L, k0
  <2> QED BY <2>1, <2>2, <2>3, <1>6
<1>9. k0 # 0
  <2> SUFFICES ASSUME k0 = 0 PROVE FALSE  OBVIOUS
  <2> QED BY <1>5 DEF CodesApart, Has
<1>10. k0 # -1
  <2> SUFFICES ASSUME k0 = -1 PROVE FALSE  OBVIOUS
  <2>1. t[s + 1][3] = 0
    <3>1. t[s + 1][3] = k0 + 1  BY <1>3, <1>4
    <3> QED BY <3>1
  <2>2. (s + 1) + 1 = s + 2  OBVIOUS
  <2>3. Has(t, (s + 1) + 1, "digit") /\ s + 1 \in 1..Len(t)  BY <1>5, <2>2 DEF Has
  <2> QED BY <1>5, <2>1, <2>3 DEF CodesApart
<1>11. L = 10 /\ k0 = 1
  <2> HIDE DEF L, k0
  <2> QED BY <1>6, <1>8, <1>9, <1>10
<1>12. Opens(t[p])
  <2>1. CASE s = p  BY <2>1, <1>5, <1>11 DEF Opens, Has
  <2>2. CASE Has(t, p, "plus")  BY <2>2 DEF Opens, Has
  <2> QED BY <2>1, <2>2, <1>1
<1>13. p \in 1..Len(t)
  <2>1. Has(t, p, "digit") \/ Has(t, p, "plus")  BY <1>1, <1>5
  <2> QED BY <2>1 DEF Has
<1>14. s \in {p, p + 3, p + 4} /\ e = s + 9  BY <1>1
<1>15. e \in p + 4..Len(t)
  <2>1. e \in 1..Len(t)  BY <1>5 DEF Has
  <2> QED BY <2>1, <1>14
<1>16. ASSUME NEW i \in 0..3
       PROVE  /\ Has(t, e - i, "digit") /\ Lengths[t[e - i][2]] \in {10, 12}
              /\ t[e - i][3] = Lengths[t[e - i][2]] - i
  <2>1. 9 - i \in 0..9 /\ s + (9 - i) = e - i /\ 1 + (9 - i) = 10 - i  BY <1>14
  <2>2. t[s + (9 - i)][2] = n /\ t[s + (9 - i)][3] = k0 + (9 - i) /\ Has(t, s + (9 - i), "digit")
    BY <1>1, <1>3, <2>1
  <2>3. t[e - i][2] = n /\ t[e - i][3] = k0 + (9 - i) /\ Has(t, e - i, "digit")  BY <2>1, <2>2
  <2>4. k0 + (9 - i) = 10 - i  BY <1>11, <2>1
  <2>5. Lengths[t[e - i][2]] = 10  BY <1>11, <2>3
  <2> QED BY <2>3, <2>4, <2>5
<1>17. ASSUME NEW r \in p..e
       PROVE  \/ r = e
              \/ Has(t, r, "space") \/ Has(t, r, "plus")
              \/ Has(t, r, "digit") /\ t[r][3] # Lengths[t[r][2]]
  <2>1. CASE r \in s..s + 9 /\ r # e
    <3>1. r - s \in 0..9 /\ s + (r - s) = r /\ r - s # 9  BY <2>1, <1>14
    <3>2. t[s + (r - s)][2] = n /\ t[s + (r - s)][3] = k0 + (r - s) /\ Has(t, s + (r - s), "digit")
      BY <1>1, <1>3, <3>1
    <3>3. t[r][2] = n /\ t[r][3] = k0 + (r - s) /\ Has(t, r, "digit")  BY <3>1, <3>2
    <3>4. k0 + (r - s) # 10  BY <1>11, <3>1
    <3>5. Lengths[t[r][2]] = 10  BY <1>11, <3>3
    <3> QED BY <3>3, <3>4, <3>5
  <2>2. CASE Has(t, p, "plus") /\ (s = p + 3 \/ (s = p + 4 /\ Has(t, p + 3, "space"))) /\ r \in p..s - 1
    <3>1. \A x \in {p + 1, p + 2} : Has(t, x, "digit") /\ t[x][3] # Lengths[t[x][2]]
      BY <2>2, <1>5, <1>11, CountryCode
    <3>2. r = p \/ r \in {p + 1, p + 2} \/ (r = p + 3 /\ s = p + 4)  BY <2>2
    <3>3. CASE r = p  BY <3>3, <2>2
    <3>4. CASE r \in {p + 1, p + 2}  BY <3>4, <3>1
    <3>5. CASE r = p + 3 /\ s = p + 4
      <4>1. Has(t, p + 3, "space")  BY <2>2, <3>5
      <4> QED BY <4>1, <3>5
    <3> QED BY <3>2, <3>3, <3>4, <3>5
  <2>3. r = e \/ (r \in s..s + 9 /\ r # e) \/ r \in p..s - 1  BY <1>14
  <2>4. r \in p..s - 1 => s # p  BY <1>14
  <2> HIDE DEF n, L, k0
  <2> QED BY <2>1, <2>2, <2>3, <2>4, <1>1
<1>18. ASSUME NEW r \in p..e - 1 PROVE ~(Has(t, r, "digit") /\ t[r][3] = Lengths[t[r][2]])
  <2>1. r \in p..e /\ r # e  BY <1>14
  <2>2. Has(t, r, "space") \/ Has(t, r, "plus") \/ (Has(t, r, "digit") /\ t[r][3] # Lengths[t[r][2]])
    BY <1>17, <2>1
  <2>3. CASE Has(t, r, "space") \/ Has(t, r, "plus")  BY <2>3 DEF Has
  <2> QED BY <2>2, <2>3
<1>19. ASSUME NEW r \in p..e PROVE Has(t, r, "digit") \/ Has(t, r, "space") \/ Has(t, r, "plus")
  BY <1>5, <1>17
<1> QED BY <1>12, <1>13, <1>15, <1>16, <1>18, <1>19 DEF NumberAt

\* The two patterns look at nothing but the symbols of a match.
LEMMA NumbersMove ==
  ASSUME NEW U, NEW t \in Seq(U), NEW u \in Seq(U)
  PROVE  Moves("aadhaar", u, t) /\ Moves("phone", u, t)
<1>1. Len(t) \in Nat /\ Len(u) \in Nat  BY LenProperties
<1>2. ASSUME NEW q \in 1..Len(u), NEW p \in 1..Len(t), NEW e \in q..Len(u),
             p + (e - q) <= Len(t), \A r \in 0..e - q : t[p + r] = u[q + r],
             NEW x \in q..e
      PROVE  /\ p + (x - q) \in 1..Len(t) /\ t[p + (x - q)] = u[x]
             /\ \A k : Has(u, x, k) => Has(t, p + (x - q), k)
  <2>1. x - q \in 0..e - q /\ q + (x - q) = x /\ p + (x - q) \in 1..Len(t)  BY <1>1, <1>2
  <2>2. t[p + (x - q)] = u[q + (x - q)]  BY <2>1, <1>2
  <2>3. t[p + (x - q)] = u[x]  BY <2>1, <2>2
  <2> QED BY <2>1, <2>3 DEF Has
<1>3. Moves("aadhaar", u, t)
  <2> SUFFICES ASSUME NEW q \in 1..Len(u), NEW p \in 1..Len(t), NEW e \in q..Len(u),
                      Matches("aadhaar", u, q, e),
                      p + (e - q) <= Len(t), \A r \in 0..e - q : t[p + r] = u[q + r]
               PROVE  Matches("aadhaar", t, p, p + (e - q))
    BY DEF Moves
  <2>1. q \in Nat \ {0} /\ p \in Nat \ {0}  BY <1>1
  <2>2. PICK b \in Nat, d \in Nat : Groups(u, q, b, d, e)  BY <2>1, GroupsAre
  <2>3. /\ b = q + 4 \/ (b = q + 5 /\ Has(u, q + 4, "space"))
        /\ d = b + 4 \/ (d = b + 5 /\ Has(u, b + 4, "space"))
        /\ \A k \in 0..3 : Has(u, q + k, "digit") /\ Has(u, b + k, "digit") /\ Has(u, d + k, "digit")
        /\ e = d + 3
    BY <2>2 DEF Groups
  <2>4. \A x \in q..e : \A k : Has(u, x, k) => Has(t, p + (x - q), k)  BY <1>2
  <2> DEFINE b1 == p + (b - q)
             d1 == p + (d - q)
  <2>5. /\ b \in {q + 4, q + 5} /\ d \in {b + 4, b + 5} /\ e = d + 3
    BY <2>3
  <2>6. q + 4 \in q..e /\ b + 4 \in q..e /\ p + ((q + 4) - q) = p + 4 /\ p + ((b + 4) - q) = b1 + 4
    BY <2>1, <2>5
  <2>7. /\ b1 = p + 4 \/ (b1 = p + 5 /\ Has(t, p + 4, "space"))
    <3>1. CASE b = q + 4
      <4>1. b1 = p + 4  BY <3>1, <2>1
      <4> QED BY <4>1
    <3>2. CASE b = q + 5 /\ Has(u, q + 4, "space")
      <4>1. b1 = p + 5  BY <3>2, <2>1
      <4>2. Has(t, p + ((q + 4) - q), "space")  BY <3>2, <2>4, <2>6
      <4>3. Has(t, p + 4, "space")  BY <4>2, <2>6
      <4> QED BY <4>1, <4>3
    <3> QED BY <2>3, <3>1, <3>2
  <2>8. /\ d1 = b1 + 4 \/ (d1 = b1 + 5 /\ Has(t, b1 + 4, "space"))
    <3>1. CASE d = b + 4
      <4>1. d1 = b1 + 4  BY <3>1, <2>1
      <4> QED BY <4>1
    <3>2. CASE d = b + 5 /\ Has(u, b + 4, "space")
      <4>1. d1 = b1 + 5  BY <3>2, <2>1
      <4>2. Has(t, p + ((b + 4) - q), "space")  BY <3>2, <2>4, <2>6
      <4>3. Has(t, b1 + 4, "space")  BY <4>2, <2>6
      <4> QED BY <4>1, <4>3
    <3> QED BY <2>3, <3>1, <3>2
  <2>9. ASSUME NEW k \in 0..3
        PROVE  Has(t, p + k, "digit") /\ Has(t, b1 + k, "digit") /\ Has(t, d1 + k, "digit")
    <3>1. q + k \in q..e /\ b + k \in q..e /\ d + k \in q..e  BY <2>1, <2>5
    <3>2. p + ((q + k) - q) = p + k /\ p + ((b + k) - q) = b1 + k /\ p + ((d + k) - q) = d1 + k  BY <2>1
    <3>3. Has(u, q + k, "digit") /\ Has(u, b + k, "digit") /\ Has(u, d + k, "digit")  BY <2>3
    <3>4. Has(t, p + ((q + k) - q), "digit") /\ Has(t, p + ((b + k) - q), "digit") /\ Has(t, p + ((d + k) - q), "digit")
      BY <2>4, <3>1, <3>3
    <3> QED BY <3>2, <3>4
  <2>10. p + (e - q) = d1 + 3 /\ b1 \in Nat /\ d1 \in Nat  BY <2>1, <2>5
  <2> HIDE DEF b1, d1
  <2>11. Groups(t, p, b1, d1, p + (e - q))  BY <2>7, <2>8, <2>9, <2>10 DEF Groups
  <2> QED BY <2>1, <2>10, <2>11, GroupsAre
<1>4. Moves("phone", u, t)
  <2> SUFFICES ASSUME NEW q \in 1..Len(u), NEW p \in 1..Len(t), NEW e \in q..Len(u),
                      Matches("phone", u, q, e),
                      p + (e - q) <= Len(t), \A r \in 0..e - q : t[p + r] = u[q + r]
               PROVE  Matches("phone", t, p, p + (e - q))
    BY DEF Moves
  <2>1. q \in Nat \ {0} /\ p \in Nat \ {0}  BY <1>1
  <2>2. PICK s \in Nat : Dialled(u, q, s, e)  BY <2>1, DialledIs
  <2>3. /\ s = q \/ (Has(u, q, "plus") /\ (s = q + 3 \/ (s = q + 4 /\ Has(u, q + 3, "space"))))
        /\ \A k \in 0..9 : Has(u, s + k, "digit")
        /\ e = s + 9
    BY <2>2, Zenon DEF Dialled
  <2>4. \A x \in q..e : t[p + (x - q)] = u[x] /\ \A k : Has(u, x, k) => Has(t, p + (x - q), k)  BY <1>2
  <2> DEFINE s1 == p + (s - q)
  <2>5. s \in {q, q + 3, q + 4} /\ e = s + 9  BY <2>3
  <2>6. q \in q..e /\ q + 3 \in q..e /\ p + (q - q) = p /\ p + ((q + 3) - q) = p + 3 /\ s \in q..e
    BY <2>1, <2>5
  <2>7. s1 = p \/ (Has(t, p, "plus") /\ (s1 = p + 3 \/ (s1 = p + 4 /\ Has(t, p + 3, "space"))))
    <3>1. CASE s = q
      <4>1. s1 = p  BY <3>1, <2>1
      <4> QED BY <4>1
    <3>2. CASE Has(u, q, "plus") /\ (s = q + 3 \/ (s = q + 4 /\ Has(u, q + 3, "space")))
      <4>1. Has(t, p + (q - q), "plus")  BY <3>2, <2>4, <2>6
      <4>2. Has(t, p, "plus")  BY <4>1, <2>6
      <4>3. CASE s = q + 3
        <5>1. s1 = p + 3  BY <4>3, <2>1
        <5> QED BY <4>2, <5>1
      <4>4. CASE s = q + 4 /\ Has(u, q + 3, "space")
        <5>1. s1 = p + 4  BY <4>4, <2>1
        <5>2. Has(t, p + ((q + 3) - q), "space")  BY <4>4, <2>4, <2>6
        <5>3. Has(t, p + 3, "space")  BY <5>2, <2>6
        <5> QED BY <4>2, <5>1, <5>3
      <4> QED BY <3>2, <4>3, <4>4
    <3> QED BY <2>3, <3>1, <3>2
  <2>8. ASSUME NEW k \in 0..9 PROVE Has(t, s1 + k, "digit")
    <3>1. s + k \in q..e /\ p + ((s + k) - q) = s1 + k  BY <2>1, <2>5
    <3>2. Has(t, p + ((s + k) - q), "digit")  BY <2>3, <2>4, <3>1
    <3> QED BY <3>1, <3>2
  <2>9. t[s1][4]
    <3>1. t[s1] = u[s]  BY <2>4, <2>6
    <3>2. u[s][4]  BY <2>2, Zenon DEF Dialled
    <3> HIDE DEF s1
    <3> QED BY <3>1, <3>2, Zenon
  <2>10. p + (e - q) = s1 + 9 /\ s1 \in Nat  BY <2>1, <2>5
  <2> HIDE DEF s1
  <2>11. Dialled(t, p, s1, p + (e - q))  BY <2>7, <2>8, <2>9, <2>10, Zenon DEF Dialled
  <2> QED BY <2>1, <2>10, <2>11, DialledIs
<1> QED BY <1>3, <1>4

\* A match that is a number: its last four digits are the last ones.
Numeral(m) ==
  /\ Len(m) > 4 /\ Opens(m[1])
  /\ \A i \in 0..3 : LET s == m[Len(m) - i]
                     IN  s[1] = "digit" /\ Lengths[s[2]] \in {10, 12} /\ s[3] = Lengths[s[2]] - i

\* A match is such a number.
LEMMA NumeralIs ==
  ASSUME NEW U, NEW t \in Seq(U), NEW p, NEW e, NumberAt(t, p, e)
  PROVE  Numeral(SubSeq(t, p, e)) /\ SubSeq(t, p, e) \in Seq(U)
<1> DEFINE m == SubSeq(t, p, e)
<1>1. /\ p \in 1..Len(t) /\ e \in p + 4..Len(t) /\ Opens(t[p])
      /\ \A i \in 0..3 : /\ Has(t, e - i, "digit") /\ Lengths[t[e - i][2]] \in {10, 12}
                         /\ t[e - i][3] = Lengths[t[e - i][2]] - i
  BY DEF NumberAt
<1>2. Len(t) \in Nat  BY LenProperties
<1>3. \A k \in p..e : t[k] \in U
  <2> SUFFICES ASSUME NEW k \in p..e PROVE t[k] \in U  OBVIOUS
  <2>1. k \in 1..Len(t)  BY <1>1, <1>2
  <2> QED BY <2>1, ElementOfSeq
<1>4. p \in Int /\ e \in Int /\ p <= e  BY <1>1, <1>2
<1>5. m \in Seq(U) /\ Len(m) = e - p + 1 /\ \A j \in 1..e - p + 1 : m[j] = t[p + j - 1]
  BY <1>3, <1>4, SubSeqProperties
<1> HIDE DEF m
<1>6. Len(m) > 4 /\ 1 \in 1..e - p + 1 /\ p + 1 - 1 = p
  <2>1. e >= p + 4  BY <1>1, <1>2
  <2>2. Len(m) = e - p + 1  BY <1>5
  <2> QED BY <2>1, <2>2, <1>4
<1>7. m[1] = t[p]  BY <1>5, <1>6
<1>8. ASSUME NEW i \in 0..3 PROVE m[Len(m) - i] = t[e - i]
  <2>a. Len(m) = e - p + 1 /\ Len(m) > 4  BY <1>5, <1>6
  <2>1. Len(m) - i \in 1..e - p + 1 /\ p + (Len(m) - i) - 1 = e - i  BY <2>a, <1>4, SMTT(20)
  <2>2. m[Len(m) - i] = t[p + (Len(m) - i) - 1]  BY <2>1, <1>5
  <2> QED BY <2>1, <2>2
<1>9. ASSUME NEW i \in 0..3
      PROVE  LET s == m[Len(m) - i]
             IN  s[1] = "digit" /\ Lengths[s[2]] \in {10, 12} /\ s[3] = Lengths[s[2]] - i
  <2>1. /\ Has(t, e - i, "digit") /\ Lengths[t[e - i][2]] \in {10, 12}
        /\ t[e - i][3] = Lengths[t[e - i][2]] - i
    BY <1>1
  <2> QED BY <2>1, <1>8 DEF Has
<1> QED BY <1>1, <1>5, <1>6, <1>7, <1>9 DEF Numeral, m

\* No symbol of a mask is the beginning of a number.
LEMMA MaskIsNoBeginning ==
  ASSUME NEW U, NEW m \in Seq(U), Numeral(m), <<"star">> \in U, NEW i \in 1..5
  PROVE  ~Opens(MaskNumber(m)[i])
<1>1. Len(m) \in Nat /\ Len(m) > 4  BY LenProperties DEF Numeral
<1>2. /\ MaskNumber(m)[1] = <<"star">>
      /\ \A j \in 2..5 : MaskNumber(m)[j] = m[Len(m) - 5 + j]
  BY <1>1, NumberMask
<1>3. CASE i = 1
  <2>1. <<"star">>[1] # "plus" /\ <<"star">>[1] # "digit"  OBVIOUS
  <2> QED BY <1>2, <1>3, <2>1 DEF Opens
<1>4. CASE i \in 2..5
  <2>1. 5 - i \in 0..3 /\ Len(m) - (5 - i) = Len(m) - 5 + i  BY <1>1, <1>4
  <2> DEFINE s == m[Len(m) - (5 - i)]
  <2>2. s[1] = "digit" /\ Lengths[s[2]] \in {10, 12} /\ s[3] = Lengths[s[2]] - (5 - i)
    BY <2>1 DEF Numeral
  <2>3. MaskNumber(m)[i] = s  BY <1>2, <1>4, <2>1
  <2> HIDE DEF s
  <2>4. s[3] # 1 /\ s[3] # -1  BY <2>1, <2>2, SMTT(20)
  <2> QED BY <2>2, <2>3, <2>4 DEF Opens
<1> QED BY <1>3, <1>4

\* A pattern all of whose matches are numbers is done once it has replaced them.
LEMMA NumbersMasked ==
  ASSUME NEW U, <<"star">> \in U, NEW pattern, NEW G \in SUBSET Seq(U), NEW x \in G,
         \A m : Mask(pattern, m) = MaskNumber(m),
         \A t \in G : \A p \in 1..Len(t) : \A e : Matches(pattern, t, p, e) => NumberAt(t, p, e),
         \A t, u \in Seq(U) : Moves(pattern, u, t),
         \A t \in G : \A u \in Seq(U) : \A g, W : Shorter(t, u, g, W) => u \in G
  PROVE  /\ Masked(x, pattern) \in G
         /\ \A p \in 1..Len(Masked(x, pattern)) : \A e \in p..Len(Masked(x, pattern)) :
              ~Matches(pattern, Masked(x, pattern), p, e)
<1> DEFINE E == {s \in U : s[1] = "digit" /\ s[3] = Lengths[s[2]]}
           found == FindAll(pattern, x)
<1>1. x \in Seq(U) /\ Len(x) \in Nat  BY LenProperties
<1>2. Bounded(pattern, x)
  <2> SUFFICES ASSUME NEW p \in 1..Len(x), NEW e, Matches(pattern, x, p, e) PROVE e \in p..Len(x)
    BY DEF Bounded
  <2>1. NumberAt(x, p, e)  OBVIOUS
  <2>2. e \in p + 4..Len(x)  BY <2>1 DEF NumberAt
  <2> QED BY <2>2, <1>1
<1>3. Ends(pattern, x, E)
  <2> SUFFICES ASSUME NEW p \in 1..Len(x), NEW e, Matches(pattern, x, p, e)
               PROVE  x[e] \in E /\ \A r \in p..e - 1 : x[r] \notin E
    BY DEF Ends
  <2>1. NumberAt(x, p, e)  OBVIOUS
  <2>2. e \in p + 4..Len(x)  BY <2>1 DEF NumberAt
  <2>3. e \in 1..Len(x) /\ 0 \in 0..3 /\ e - 0 = e /\ e \in Int  BY <2>2, <1>1
  <2>4. Has(x, e - 0, "digit") /\ x[e - 0][3] = Lengths[x[e - 0][2]] - 0 /\ Lengths[x[e - 0][2]] \in {10, 12}
    BY <2>1, <2>3 DEF NumberAt
  <2>5. Has(x, e, "digit") /\ x[e][3] = Lengths[x[e][2]]
    <3>1. \A l \in {10, 12} : l - 0 = l  OBVIOUS
    <3> QED BY <2>3, <2>4, <3>1
  <2>6. x[e] \in U  BY <2>3, ElementOfSeq
  <2>7. ASSUME NEW r \in p..e - 1 PROVE x[r] \notin E
    <3>1. ~(Has(x, r, "digit") /\ x[r][3] = Lengths[x[r][2]])  BY <2>1 DEF NumberAt
    <3>2. r \in 1..Len(x)  BY <2>3, <1>1
    <3> QED BY <3>1, <3>2 DEF Has
  <2> QED BY <2>5, <2>6, <2>7 DEF Has
<1>4. found \in Seq(Seq(U)) /\ \E pos, last : FoundFrom(pattern, x, 1, found, pos, last)
  BY <1>1, <1>2, FindAllIs
<1>5. \A k \in 1..Len(found) : found[k] \in Seq(U) /\ Numeral(found[k])
  <2> SUFFICES ASSUME NEW k \in 1..Len(found) PROVE found[k] \in Seq(U) /\ Numeral(found[k])  OBVIOUS
  <2> HIDE DEF found
  <2>1. PICK pos, last : FoundFrom(pattern, x, 1, found, pos, last)  BY <1>4
  <2>2. pos[k] \in 1..Len(x) /\ Matches(pattern, x, pos[k], last[k]) /\ found[k] = SubSeq(x, pos[k], last[k])
    BY <2>1 DEF FoundFrom
  <2>3. NumberAt(x, pos[k], last[k])  BY <2>2
  <2> DEFINE a == pos[k]
             b == last[k]
  <2>4. NumberAt(x, a, b)  BY <2>3
  <2> HIDE DEF a, b
  <2>5. Numeral(SubSeq(x, a, b)) /\ SubSeq(x, a, b) \in Seq(U)  BY <1>1, <2>4, NumeralIs
  <2> QED BY <2>2, <2>5 DEF a, b
<1>6. \A m \in Seq(U) : Numeral(m) =>
        /\ Mask(pattern, m) = MaskNumber(m) /\ MaskNumber(m) \in Seq(U) /\ Len(MaskNumber(m)) = 5
        /\ MaskNumber(m)[1] = <<"star">> /\ Len(m) > 4 /\ Whole(m)
  <2> SUFFICES ASSUME NEW m \in Seq(U), Numeral(m)
               PROVE  /\ Mask(pattern, m) = MaskNumber(m) /\ MaskNumber(m) \in Seq(U)
                      /\ Len(MaskNumber(m)) = 5 /\ MaskNumber(m)[1] = <<"star">>
                      /\ Len(m) > 4 /\ Whole(m)
    OBVIOUS
  <2>1. Len(m) > 4 /\ Opens(m[1])  BY DEF Numeral
  <2>2. Shows(m[Len(m) - 3])
    <3>1. 3 \in 0..3  OBVIOUS
    <3> QED BY <3>1 DEF Numeral, Shows
  <2>3. MaskNumber(m) \in Seq(U) /\ Len(MaskNumber(m)) = 5 /\ MaskNumber(m)[1] = <<"star">>
    BY <2>1, NumberMask
  <2> QED BY <2>1, <2>2, <2>3 DEF Whole
<1>7. Replaceable(U, pattern, found)
  <2> SUFFICES ASSUME NEW k \in 1..Len(found)
               PROVE  /\ found[k] \in Seq(U) /\ Mask(pattern, found[k]) \in Seq(U)
                      /\ Len(found[k]) > 0 /\ Len(Mask(pattern, found[k])) > 0
    BY DEF Replaceable
  <2>1. found[k] \in Seq(U) /\ Numeral(found[k])  BY <1>5
  <2> HIDE DEF found
  <2>2. /\ Mask(pattern, found[k]) \in Seq(U) /\ Len(Mask(pattern, found[k])) = 5 /\ Len(found[k]) > 4
    BY <1>6, <2>1
  <2>3. Len(found[k]) \in Nat  BY <2>1, LenProperties
  <2> QED BY <2>1, <2>2, <2>3
<1>8. Keeps(pattern, U, G, found)
  <2> SUFFICES ASSUME NEW k \in 1..Len(found), NEW t \in G, NEW u \in Seq(U), NEW o, NEW c,
                      Replaced(U, t, found[k], Mask(pattern, found[k]), u, o, c)
               PROVE  u \in G /\ Moves(pattern, u, t) /\ Clean(pattern, u, c, Mask(pattern, found[k]))
    BY DEF Keeps
  <2> DEFINE m == found[k]
             new == MaskNumber(m)
  <2>1. m \in Seq(U) /\ Numeral(m)  BY <1>5
  <2>2. /\ Mask(pattern, m) = new /\ Len(new) = 5 /\ new[1] = <<"star">> /\ Whole(m)  BY <1>6, <2>1
  <2>3. Replaced(U, t, m, new, u, o, c)  BY <2>2
  <2> HIDE DEF m
  <2>4. \E g, W : Shorter(t, u, g, W)  BY <2>2, <2>3, ShorterIs
  <2>5. u \in G  BY <2>4
  <2>6. Moves(pattern, u, t)  OBVIOUS
  <2>7. \A i \in 1..5 : ~Opens(new[i])  BY <2>1, MaskIsNoBeginning
  <2> HIDE DEF new
  <2>8. Clean(pattern, u, c, new)
    <3> SUFFICES ASSUME NEW q \in 1..Len(u), NEW e \in q..Len(u), Matches(pattern, u, q, e)
                 PROVE  c[q] = 0 /\ \A r \in q..e : u[r] # new[1]
      BY DEF Clean
    <3>1. NumberAt(u, q, e)  BY <2>5
    <3>2. \A x1 \in 1..Len(u) : c[x1] \in 0..Len(new) /\ (c[x1] # 0 => u[x1] = new[c[x1]])
      BY <2>3, PlacesAre
    <3>3. c[q] = 0
      <4> SUFFICES ASSUME c[q] # 0 PROVE FALSE  OBVIOUS
      <4>1. c[q] \in 1..5 /\ u[q] = new[c[q]]  BY <2>2, <3>2
      <4>2. ~Opens(u[q])  BY <2>7, <4>1
      <4> QED BY <3>1, <4>2 DEF NumberAt
    <3>4. ASSUME NEW r \in q..e PROVE u[r] # new[1]
      <4>1. Has(u, r, "digit") \/ Has(u, r, "space") \/ Has(u, r, "plus")  BY <3>1 DEF NumberAt
      <4>2. u[r][1] # "star"  BY <4>1 DEF Has
      <4>3. new[1][1] = "star"  BY <2>2
      <4> QED BY <4>2, <4>3
    <3> QED BY <3>3, <3>4
  <2> QED BY <2>2, <2>5, <2>6, <2>8 DEF m
<1> HIDE DEF E
<1> QED BY <1>1, <1>2, <1>3, <1>7, <1>8, AllMasked

-----------------------------------------------------------------------------
(* Masking: no number is left                                              *)

\* The digit before one that is neither the first of its number nor the first that
\* a mask shows, and the one behind one that is not the last.
LEMMA ThePrevious ==
  ASSUME NEW t, Len(t) \in Nat, Legible(t), NEW p, Has(t, p, "digit"), t[p][3] \notin {-1, 1}, ~Shows(t[p])
  PROVE  \E r \in {p - 1, p - 2} : /\ Has(t, r, "digit") /\ IsNext(t[r], t[p])
                                   /\ r = p - 2 => Has(t, p - 1, "space")
<1>1. p \in 1..Len(t)  BY DEF Has
<1>2. Has(t, p - 1, "digit") \/ (Has(t, p - 1, "space") /\ Has(t, p - 2, "digit"))
  BY <1>1 DEF Legible, Backwards
<1>3. (p - 1) + 1 = p /\ (p - 2) + 1 = p - 1 /\ (p - 2) + 2 = p /\ p - 1 # p - 2  BY <1>1
<1>4. CASE Has(t, p - 1, "digit")
  <2>1. p - 1 \in 1..Len(t) /\ Has(t, (p - 1) + 1, "digit")  BY <1>3, <1>4 DEF Has
  <2>2. IsNext(t[p - 1], t[(p - 1) + 1])  BY <1>4, <2>1 DEF Legible, Runs
  <2> QED BY <1>3, <1>4, <2>2
<1>5. CASE Has(t, p - 1, "space") /\ Has(t, p - 2, "digit")
  <2>1. p - 2 \in 1..Len(t) /\ Has(t, (p - 2) + 1, "space") /\ Has(t, (p - 2) + 2, "digit")
    BY <1>3, <1>5 DEF Has
  <2>2. IsNext(t[p - 2], t[(p - 2) + 2])  BY <1>5, <2>1 DEF Legible, Runs
  <2> QED BY <1>3, <1>5, <2>2
<1> QED BY <1>2, <1>4, <1>5

LEMMA TheNext ==
  ASSUME NEW t, Len(t) \in Nat, Legible(t), NEW p, Has(t, p, "digit"), t[p][3] # 0, t[p][3] < Lengths[t[p][2]]
  PROVE  \/ Has(t, p + 1, "digit") /\ IsNext(t[p], t[p + 1])
         \/ Breaks(t[p]) /\ Has(t, p + 1, "space") /\ Has(t, p + 2, "digit") /\ IsNext(t[p], t[p + 2])
<1>1. p \in 1..Len(t)  BY DEF Has
<1>2. \/ Has(t, p + 1, "digit")
      \/ Breaks(t[p]) /\ Has(t, p + 1, "space") /\ Has(t, p + 2, "digit")
  BY <1>1 DEF Legible, Onwards
<1>3. Has(t, p + 1, "digit") => IsNext(t[p], t[p + 1])  BY <1>1 DEF Legible, Runs
<1>4. Has(t, p + 1, "space") /\ Has(t, p + 2, "digit") => IsNext(t[p], t[p + 2])  BY <1>1 DEF Legible, Runs
<1> QED BY <1>2, <1>3, <1>4

\* The digit k of a number of n digits.
DigitAt(t, p, n, k) == Has(t, p, "digit") /\ t[p][2] = n /\ t[p][3] = k

LEMMA OneOn ==
  ASSUME NEW t, Len(t) \in Nat, Legible(t), NEW p, NEW n, NEW k \in Int, DigitAt(t, p, n, k),
         k # 0, k < Lengths[n]
  PROVE  \/ DigitAt(t, p + 1, n, k + 1)
         \/ /\ k \in IF Lengths[n] = 12 THEN {4, 8} ELSE {0}
            /\ Has(t, p + 1, "space") /\ DigitAt(t, p + 2, n, k + 1)
<1>1. \/ Has(t, p + 1, "digit") /\ IsNext(t[p], t[p + 1])
      \/ Breaks(t[p]) /\ Has(t, p + 1, "space") /\ Has(t, p + 2, "digit") /\ IsNext(t[p], t[p + 2])
  BY TheNext DEF DigitAt
<1> QED BY <1>1 DEF DigitAt, IsNext, Breaks

\* The four digits of a group.
LEMMA GroupOn ==
  ASSUME NEW t, Len(t) \in Nat, Legible(t), NEW p \in Int, NEW n, Lengths[n] = 12,
         NEW k \in {1, 5, 9}, DigitAt(t, p, n, k)
  PROVE  \A i \in 0..3 : DigitAt(t, p + i, n, k + i)
<1>0. \A x, y : x \in Int /\ DigitAt(t, y, n, x) /\ x \in {k, k + 1, k + 2} => DigitAt(t, y + 1, n, x + 1)
  <2> SUFFICES ASSUME NEW x \in Int, NEW y, DigitAt(t, y, n, x), x \in {k, k + 1, k + 2}
               PROVE  DigitAt(t, y + 1, n, x + 1)
    OBVIOUS
  <2>1. x # 0 /\ x < Lengths[n] /\ x \notin {4, 8}  OBVIOUS
  <2>2. \/ DigitAt(t, y + 1, n, x + 1)
        \/ /\ x \in IF Lengths[n] = 12 THEN {4, 8} ELSE {0}
           /\ Has(t, y + 1, "space") /\ DigitAt(t, y + 2, n, x + 1)
    BY <2>1, OneOn
  <2> QED BY <2>1, <2>2
<1>1. DigitAt(t, p + 1, n, k + 1)  BY <1>0
<1>2. DigitAt(t, (p + 1) + 1, n, (k + 1) + 1)
  <2>1. k + 1 \in Int /\ k + 1 \in {k, k + 1, k + 2}  OBVIOUS
  <2> QED BY <1>0, <1>1, <2>1
<1>3. (p + 1) + 1 = p + 2 /\ (k + 1) + 1 = k + 2 /\ (p + 2) + 1 = p + 3 /\ (k + 2) + 1 = k + 3 /\ k + 2 \in Int
  OBVIOUS
<1>4. DigitAt(t, p + 2, n, k + 2)  BY <1>2, <1>3
<1>5. DigitAt(t, (p + 2) + 1, n, (k + 2) + 1)
  <2>1. k + 2 \in {k, k + 1, k + 2}  OBVIOUS
  <2> QED BY <1>0, <1>3, <1>4, <2>1
<1>6. DigitAt(t, p + 3, n, k + 3)  BY <1>3, <1>5
<1>7. ASSUME NEW i \in 0..3 PROVE DigitAt(t, p + i, n, k + i)
  <2>1. i = 0 \/ i = 1 \/ i = 2 \/ i = 3  OBVIOUS
  <2>2. CASE i = 0
    <3>1. p + i = p /\ k + i = k  BY <2>2
    <3> QED BY <3>1
  <2> QED BY <2>1, <2>2, <1>1, <1>4, <1>6
<1> QED BY <1>7

\* And the group behind it.
LEMMA GroupBehind ==
  ASSUME NEW t, Len(t) \in Nat, Legible(t), NEW p \in Nat, NEW n, Lengths[n] = 12,
         NEW k \in {1, 5}, DigitAt(t, p, n, k)
  PROVE  \E b \in {p + 4, p + 5} : DigitAt(t, b, n, k + 4) /\ (b = p + 5 => Has(t, p + 4, "space"))
<1>1. \A i \in 0..3 : DigitAt(t, p + i, n, k + i)
  <2>1. k \in {1, 5, 9}  OBVIOUS
  <2> QED BY <2>1, GroupOn
<1>2. 3 \in 0..3 /\ k + 3 \in Int /\ k + 3 # 0 /\ k + 3 < 12  OBVIOUS
<1>3. DigitAt(t, p + 3, n, k + 3)  BY <1>1, <1>2
<1>4. \/ DigitAt(t, (p + 3) + 1, n, (k + 3) + 1)
      \/ Has(t, (p + 3) + 1, "space") /\ DigitAt(t, (p + 3) + 2, n, (k + 3) + 1)
  <2>1. k + 3 < Lengths[n]  BY <1>2
  <2> QED BY <1>2, <1>3, <2>1, OneOn
<1>5. (p + 3) + 1 = p + 4 /\ (p + 3) + 2 = p + 5 /\ (k + 3) + 1 = k + 4 /\ p + 4 # p + 5  OBVIOUS
<1>6. CASE DigitAt(t, p + 4, n, k + 4)  BY <1>5, <1>6
<1>7. CASE Has(t, p + 4, "space") /\ DigitAt(t, p + 5, n, k + 4)  BY <1>7
<1> QED BY <1>4, <1>5, <1>6, <1>7

\* Ten digits in a row.
LEMMA RowOn ==
  ASSUME NEW t, Len(t) \in Nat, Legible(t), NEW p \in Nat, NEW n, Lengths[n] = 10, DigitAt(t, p, n, 1)
  PROVE  \A i \in 0..9 : DigitAt(t, p + i, n, 1 + i)
<1> DEFINE T == {i \in 0..9 : DigitAt(t, p + i, n, 1 + i)}
<1>1. 0 \in T
  <2>1. p + 0 = p /\ 1 + 0 = 1 /\ 0 \in 0..9  OBVIOUS
  <2> QED BY <2>1
<1>2. \A i \in 0..9 : i < 9 /\ i \in T => i + 1 \in T
  <2> SUFFICES ASSUME NEW i \in 0..9, i < 9, i \in T PROVE i + 1 \in T  OBVIOUS
  <2>1. 1 + i \in Int /\ 1 + i # 0 /\ 1 + i < 10 /\ DigitAt(t, p + i, n, 1 + i)  OBVIOUS
  <2>2. 1 + i < Lengths[n] /\ Lengths[n] # 12  BY <2>1
  <2>3. DigitAt(t, (p + i) + 1, n, (1 + i) + 1)  BY <2>1, <2>2, OneOn
  <2>4. (p + i) + 1 = p + (i + 1) /\ (1 + i) + 1 = 1 + (i + 1) /\ i + 1 \in 0..9  OBVIOUS
  <2>5. DigitAt(t, p + (i + 1), n, 1 + (i + 1))  BY <2>3, <2>4
  <2> QED BY <2>4, <2>5
<1> HIDE DEF T
<1>3. 0 \in Nat /\ 9 \in Nat  OBVIOUS
<1>4. \A i \in 0..9 : i \in T  BY <1>1, <1>2, <1>3, InductionUpTo
<1> QED BY <1>4 DEF T

\* A text in which no Aadhaar number is found shows its last group at most.
LEMMA AadhaarHiddenIs ==
  ASSUME NEW U, NEW t \in Seq(U), Legible(t),
         \A p \in 1..Len(t) : \A e \in p..Len(t) : ~Matches("aadhaar", t, p, e)
  PROVE  AadhaarHidden(t)
<1> DEFINE T == {k \in 1..8 : \E p \in 1..Len(t) : \E n : Lengths[n] = 12 /\ DigitAt(t, p, n, k)}
<1>0. Len(t) \in Nat  BY LenProperties
<1>1. SUFFICES ASSUME NEW p \in 1..Len(t), Has(t, p, "digit"), Lengths[t[p][2]] = 12, ~(t[p][3] >= 9)
               PROVE  FALSE
  BY DEF AadhaarHidden
<1>2. t[p][3] \in T
  <2>1. DigitOk(t[p])  BY <1>1 DEF Legible, Digits
  <2>2. t[p][3] \in 1..12  BY <1>1, <2>1 DEF DigitOk
  <2>3. t[p][3] \in 1..8  BY <1>1, <2>2
  <2>4. DigitAt(t, p, t[p][2], t[p][3])  BY <1>1 DEF DigitAt
  <2> QED BY <1>1, <2>3, <2>4
<1>3. PICK k \in T : \A y \in T : k <= y
  <2>1. T \in SUBSET Nat /\ T # {}  BY <1>2
  <2> HIDE DEF T
  <2> QED BY <2>1, Least
<1>4. k \in 1..8  BY <1>3
<1>5. PICK a \in 1..Len(t) : \E n : Lengths[n] = 12 /\ DigitAt(t, a, n, k)  BY <1>3
<1>6. PICK n : Lengths[n] = 12 /\ DigitAt(t, a, n, k)  BY <1>5
<1>7. k = 1
  <2> SUFFICES ASSUME k # 1 PROVE FALSE  OBVIOUS
  <2>1. Has(t, a, "digit") /\ t[a][3] = k /\ t[a][2] = n  BY <1>6 DEF DigitAt
  <2>2. t[a][3] \notin {-1, 1}  BY <1>4, <2>1
  <2>3. ~Shows(t[a])  BY <1>4, <1>6, <2>1 DEF Shows
  <2> HIDE DEF T
  <2>4. PICK r \in {a - 1, a - 2} : /\ Has(t, r, "digit") /\ IsNext(t[r], t[a])
                                    /\ r = a - 2 => Has(t, a - 1, "space")
    BY <1>0, <2>1, <2>2, <2>3, ThePrevious
  <2>5. r \in 1..Len(t) /\ t[r][2] = n /\ k = t[r][3] + 1  BY <2>1, <2>4 DEF Has, IsNext
  <2>6. DigitOk(t[r])  BY <2>4, <2>5 DEF Legible, Digits
  <2>7. t[r][3] \in 1..12  BY <1>6, <2>5, <2>6 DEF DigitOk
  <2>8. t[r][3] \in 1..8 /\ ~(k <= t[r][3])
    <3> DEFINE y == t[r][3]
    <3>1. y \in Int /\ y >= 1 /\ k = y + 1 /\ k <= 8 /\ k \in Int
      <4>1. k \in Int /\ k <= 8  BY <1>4
      <4> QED BY <2>5, <2>7, <4>1
    <3> HIDE DEF y
    <3>2. y \in 1..8 /\ ~(k <= y)  BY <3>1
    <3> QED BY <3>2 DEF y
  <2>9. DigitAt(t, r, n, t[r][3])  BY <2>4, <2>5 DEF DigitAt
  <2>10. t[r][3] \in T  BY <1>6, <2>5, <2>8, <2>9 DEF T
  <2> QED BY <1>3, <2>8, <2>10
<1>8. DigitAt(t, a, n, 1) /\ a \in Nat  BY <1>6, <1>7
<1>9. PICK b \in {a + 4, a + 5} : DigitAt(t, b, n, 5) /\ (b = a + 5 => Has(t, a + 4, "space"))
  <2>1. \E b \in {a + 4, a + 5} : DigitAt(t, b, n, 1 + 4) /\ (b = a + 5 => Has(t, a + 4, "space"))
    <3>1. 1 \in {1, 5}  OBVIOUS
    <3> QED BY <1>0, <1>6, <1>8, <3>1, GroupBehind
  <2> QED BY <2>1
<1>10. PICK d \in {b + 4, b + 5} : DigitAt(t, d, n, 9) /\ (d = b + 5 => Has(t, b + 4, "space"))
  <2>1. \E d \in {b + 4, b + 5} : DigitAt(t, d, n, 5 + 4) /\ (d = b + 5 => Has(t, b + 4, "space"))
    <3>1. 5 \in {1, 5} /\ b \in Nat  BY <1>8
    <3> QED BY <1>0, <1>6, <1>9, <3>1, GroupBehind
  <2> QED BY <2>1
<1>11. /\ \A i \in 0..3 : DigitAt(t, a + i, n, 1 + i)
       /\ \A i \in 0..3 : DigitAt(t, b + i, n, 5 + i)
       /\ \A i \in 0..3 : DigitAt(t, d + i, n, 9 + i)
  <2>1. a \in Int /\ b \in Int /\ d \in Int /\ 1 \in {1, 5, 9} /\ 5 \in {1, 5, 9} /\ 9 \in {1, 5, 9}  BY <1>8
  <2> QED BY <1>0, <1>6, <1>8, <1>9, <1>10, <2>1, GroupOn
<1>12. Groups(t, a, b, d, d + 3)
  <2>1. \A i \in 0..3 : Has(t, a + i, "digit") /\ Has(t, b + i, "digit") /\ Has(t, d + i, "digit")
    BY <1>11 DEF DigitAt
  <2> QED BY <1>9, <1>10, <2>1 DEF Groups
<1>13. Matches("aadhaar", t, a, d + 3)
  <2>1. a \in Nat \ {0} /\ b \in Nat /\ d \in Nat  BY <1>8
  <2> QED BY <1>12, <2>1, GroupsAre
<1>14. d + 3 \in a..Len(t)
  <2>1. Has(t, d + 3, "digit")
    <3>1. 3 \in 0..3  OBVIOUS
    <3> QED BY <1>11, <3>1 DEF DigitAt
  <2>2. d + 3 \in 1..Len(t)  BY <2>1 DEF Has
  <2> QED BY <1>8, <2>2
<1> QED BY <1>13, <1>14, <1>1

\* Nor are there ten digits behind a country code without a space, the last ten of
\* twelve.
LEMMA CodesApartIs ==
  ASSUME NEW U, NEW t \in Seq(U), Legible(t),
         \A p \in 1..Len(t) : \A e \in p..Len(t) : ~Matches("aadhaar", t, p, e)
  PROVE  CodesApart(t)
<1>0. Len(t) \in Nat  BY LenProperties
<1>1. SUFFICES ASSUME NEW p \in 1..Len(t), Has(t, p, "digit"), t[p][3] = 0, Has(t, p + 1, "digit")
               PROVE  FALSE
  BY DEF CodesApart
<1> DEFINE n == t[p][2]
<1>2. DigitOk(t[p])  BY <1>1 DEF Legible, Digits
<1>3. Lengths[n] = 10
  <2>1. Lengths[n] \in {10, 12} /\ (Lengths[n] = 12 => 0 \in 1..12)  BY <1>1, <1>2 DEF DigitOk
  <2> QED BY <2>1
<1>4. DigitAt(t, p + 1, n, 1)
  <2>1. IsNext(t[p], t[p + 1])  BY <1>1 DEF Legible, Runs
  <2> QED BY <1>1, <2>1 DEF IsNext, DigitAt
<1> HIDE DEF n
<1>5. \A i \in 0..9 : DigitAt(t, (p + 1) + i, n, 1 + i)
  <2>1. p + 1 \in Nat  OBVIOUS
  <2> QED BY <1>0, <1>3, <1>4, <2>1, RowOn
<1>6. \A j \in 2..11 : Has(t, (p - 1) + j, "digit")
  <2> SUFFICES ASSUME NEW j \in 2..11 PROVE Has(t, (p - 1) + j, "digit")  OBVIOUS
  <2>1. j - 2 \in 0..9 /\ (p + 1) + (j - 2) = (p - 1) + j  OBVIOUS
  <2>2. Has(t, (p + 1) + (j - 2), "digit")  BY <1>5, <2>1 DEF DigitAt
  <2> QED BY <2>1, <2>2
<1>7. Has(t, p - 1, "digit")
  <2>1. t[p][3] \notin {-1, 1}  BY <1>1
  <2>2. ~Shows(t[p])  BY <1>1, <1>3 DEF Shows, n
  <2>3. PICK r \in {p - 1, p - 2} : /\ Has(t, r, "digit") /\ IsNext(t[r], t[p])
                                    /\ r = p - 2 => Has(t, p - 1, "space")
    BY <1>0, <1>1, <2>1, <2>2, ThePrevious
  <2>4. CASE r = p - 1  BY <2>3, <2>4
  <2>5. CASE r = p - 2
    <3>1. r \in 1..Len(t) /\ t[r][2] = n /\ t[r][3] + 1 = 0  BY <1>1, <2>3 DEF Has, IsNext, n
    <3>2. DigitOk(t[r])  BY <2>3, <3>1 DEF Legible, Digits
    <3>3. t[r][3] \in -1..10  BY <1>3, <3>1, <3>2 DEF DigitOk
    <3>4. t[r][3] = -1  BY <3>1, <3>3
    <3>5. DigitAt(t, r, n, -1)  BY <2>3, <3>1, <3>4 DEF DigitAt
    <3>6. \/ DigitAt(t, r + 1, n, -1 + 1)
          \/ -1 \in IF Lengths[n] = 12 THEN {4, 8} ELSE {0}
      <4>1. -1 \in Int /\ -1 # 0 /\ -1 < Lengths[n]  BY <1>3
      <4> QED BY <1>0, <3>5, <4>1, OneOn
    <3>7. DigitAt(t, r + 1, n, -1 + 1)  BY <1>3, <3>6
    <3>8. r + 1 = p - 1  BY <2>5
    <3> QED BY <3>7, <3>8 DEF DigitAt
  <2> QED BY <2>4, <2>5
<1>8. p - 1 \in Nat \ {0} /\ p - 1 \in 1..Len(t)
  <2>1. p - 1 \in 1..Len(t)  BY <1>7 DEF Has
  <2> QED BY <2>1
<1> DEFINE a == p - 1
<1>9. \A j \in 0..11 : Has(t, a + j, "digit")
  <2> SUFFICES ASSUME NEW j \in 0..11 PROVE Has(t, a + j, "digit")  OBVIOUS
  <2>1. CASE j = 0
    <3>1. a + 0 = p - 1  OBVIOUS
    <3> QED BY <2>1, <3>1, <1>7
  <2>2. CASE j = 1
    <3>1. a + 1 = p  OBVIOUS
    <3> QED BY <2>2, <3>1, <1>1
  <2>3. CASE j \in 2..11  BY <2>3, <1>6
  <2>4. j = 0 \/ j = 1 \/ j \in 2..11  OBVIOUS
  <2> QED BY <2>1, <2>2, <2>3, <2>4
<1>10. a \in Nat \ {0}  BY <1>8
<1> HIDE DEF a
<1>11. Groups(t, a, a + 4, (a + 4) + 4, ((a + 4) + 4) + 3)
  <2>1. \A k \in 0..3 : k \in 0..11 /\ k + 4 \in 0..11 /\ k + 8 \in 0..11
                        /\ (a + 4) + k = a + (k + 4) /\ ((a + 4) + 4) + k = a + (k + 8)
    BY <1>10
  <2>2. \A k \in 0..3 : /\ Has(t, a + k, "digit") /\ Has(t, (a + 4) + k, "digit")
                        /\ Has(t, ((a + 4) + 4) + k, "digit")
    <3> SUFFICES ASSUME NEW k \in 0..3
                 PROVE  /\ Has(t, a + k, "digit") /\ Has(t, (a + 4) + k, "digit")
                        /\ Has(t, ((a + 4) + 4) + k, "digit")
      OBVIOUS
    <3>1. Has(t, a + k, "digit") /\ Has(t, a + (k + 4), "digit") /\ Has(t, a + (k + 8), "digit")
      BY <1>9, <2>1
    <3> QED BY <2>1, <3>1
  <2> QED BY <2>2 DEF Groups
<1>12. Matches("aadhaar", t, a, ((a + 4) + 4) + 3)
  <2>1. a + 4 \in Nat /\ (a + 4) + 4 \in Nat  BY <1>10
  <2> QED BY <1>10, <1>11, <2>1, GroupsAre
<1>13. a \in 1..Len(t) /\ ((a + 4) + 4) + 3 \in a..Len(t)
  <2>1. Has(t, a + 0, "digit") /\ Has(t, a + 11, "digit")
    <3>1. 0 \in 0..11 /\ 11 \in 0..11  OBVIOUS
    <3> QED BY <1>9, <3>1
  <2>2. a + 0 \in 1..Len(t) /\ a + 11 \in 1..Len(t)  BY <2>1 DEF Has
  <2> QED BY <1>0, <1>10, <2>2
<1> QED BY <1>1, <1>12, <1>13

\* Of telephone numbers the country code and the last four digits are shown.
PhonesHidden(t) ==
  \A p \in 1..Len(t) : Has(t, p, "digit") /\ Lengths[t[p][2]] = 10 => t[p][3] <= 0 \/ t[p][3] >= 7

\* A text in which no telephone number is found shows their last four digits.
LEMMA PhonesHiddenIs ==
  ASSUME NEW U, NEW t \in Seq(U), Legible(t),
         \A p \in 1..Len(t) : \A e \in p..Len(t) : ~Matches("phone", t, p, e)
  PROVE  PhonesHidden(t)
<1> DEFINE T == {k \in 1..6 : \E p \in 1..Len(t) : \E n : Lengths[n] = 10 /\ DigitAt(t, p, n, k)}
<1>0. Len(t) \in Nat  BY LenProperties
<1>1. SUFFICES ASSUME NEW p \in 1..Len(t), Has(t, p, "digit"), Lengths[t[p][2]] = 10,
                      ~(t[p][3] <= 0 \/ t[p][3] >= 7)
               PROVE  FALSE
  BY DEF PhonesHidden
<1>2. t[p][3] \in T
  <2>1. DigitOk(t[p])  BY <1>1 DEF Legible, Digits
  <2>2. t[p][3] \in -1..10  BY <1>1, <2>1 DEF DigitOk
  <2>3. t[p][3] \in 1..6  BY <1>1, <2>2
  <2>4. DigitAt(t, p, t[p][2], t[p][3])  BY <1>1 DEF DigitAt
  <2> QED BY <1>1, <2>3, <2>4
<1>3. PICK k \in T : \A y \in T : k <= y
  <2>1. T \in SUBSET Nat /\ T # {}  BY <1>2
  <2> HIDE DEF T
  <2> QED BY <2>1, Least
<1>4. k \in 1..6  BY <1>3
<1>5. PICK a \in 1..Len(t) : \E n : Lengths[n] = 10 /\ DigitAt(t, a, n, k)  BY <1>3
<1>6. PICK n : Lengths[n] = 10 /\ DigitAt(t, a, n, k)  BY <1>5
<1>7. k = 1
  <2> SUFFICES ASSUME k # 1 PROVE FALSE  OBVIOUS
  <2>1. Has(t, a, "digit") /\ t[a][3] = k /\ t[a][2] = n  BY <1>6 DEF DigitAt
  <2>2. t[a][3] \notin {-1, 1}  BY <1>4, <2>1
  <2>3. ~Shows(t[a])  BY <1>4, <1>6, <2>1 DEF Shows
  <2> HIDE DEF T
  <2>4. PICK r \in {a - 1, a - 2} : /\ Has(t, r, "digit") /\ IsNext(t[r], t[a])
                                    /\ r = a - 2 => Has(t, a - 1, "space")
    BY <1>0, <2>1, <2>2, <2>3, ThePrevious
  <2>5. r \in 1..Len(t) /\ t[r][2] = n /\ k = t[r][3] + 1  BY <2>1, <2>4 DEF Has, IsNext
  <2>6. DigitOk(t[r])  BY <2>4, <2>5 DEF Legible, Digits
  <2>7. t[r][3] \in -1..10
    <3>1. t[r][3] \in (IF Lengths[t[r][2]] = 12 THEN 1 ELSE -1)..Lengths[t[r][2]]
      BY <2>6, Zenon DEF DigitOk
    <3>2. Lengths[t[r][2]] = 10  BY <1>6, <2>5
    <3> QED BY <3>1, <3>2
  <2>8. t[r][3] \in 1..6 /\ ~(k <= t[r][3])
    <3> DEFINE y == t[r][3]
    <3>1. y \in Int /\ k = y + 1 /\ k <= 6 /\ k > 1 /\ k \in Int
      <4>1. k \in Int /\ k <= 6 /\ k > 1  BY <1>4
      <4> QED BY <2>5, <2>7, <4>1
    <3> HIDE DEF y
    <3>2. y \in 1..6 /\ ~(k <= y)  BY <3>1
    <3> QED BY <3>2 DEF y
  <2>9. DigitAt(t, r, n, t[r][3])  BY <2>4, <2>5 DEF DigitAt
  <2>10. t[r][3] \in T  BY <1>6, <2>5, <2>8, <2>9 DEF T
  <2> QED BY <1>3, <2>8, <2>10
<1>8. DigitAt(t, a, n, 1) /\ a \in Nat \ {0}  BY <1>6, <1>7
<1>9. \A i \in 0..9 : DigitAt(t, a + i, n, 1 + i)
  <2>1. a \in Nat  OBVIOUS
  <2> QED BY <1>0, <1>6, <1>8, <2>1, RowOn
<1>10. t[a][4]
  <2>1. Has(t, a, "digit") /\ t[a][3] = 1 /\ Lengths[t[a][2]] = 10  BY <1>6, <1>8 DEF DigitAt
  <2>2. DigitOk(t[a])  BY <2>1 DEF Legible, Digits
  <2> QED BY <2>1, <2>2, Zenon DEF DigitOk
<1>11. Dialled(t, a, a, a + 9)
  <2>1. \A i \in 0..9 : Has(t, a + i, "digit")  BY <1>9 DEF DigitAt
  <2> QED BY <1>10, <2>1, Zenon DEF Dialled
<1>12. Matches("phone", t, a, a + 9)
  <2>1. \E s \in Nat : Dialled(t, a, s, a + 9)  BY <1>8, <1>11
  <2> QED BY <1>8, <2>1, DialledIs
<1>13. a + 9 \in a..Len(t)
  <2>1. Has(t, a + 9, "digit")
    <3>1. 9 \in 0..9  OBVIOUS
    <3> QED BY <1>9, <3>1 DEF DigitAt
  <2>2. a + 9 \in 1..Len(t)  BY <2>1 DEF Has
  <2> QED BY <1>8, <2>2
<1> QED BY <1>12, <1>13, <1>1

\* They stay hidden when telephone numbers are masked.
LEMMA HiddenKept ==
  ASSUME NEW t, NEW u, NEW g, NEW W, Shorter(t, u, g, W), AadhaarHidden(t)
  PROVE  AadhaarHidden(u)
<1> SUFFICES ASSUME NEW q \in 1..Len(u), Has(u, q, "digit"), Lengths[u[q][2]] = 12 PROVE u[q][3] >= 9
  BY DEF AadhaarHidden
<1>1. u[q] = t[g[q]] /\ Has(t, g[q], "digit") /\ g[q] \in 1..Len(t)  BY Unmasked
<1> QED BY <1>1 DEF AadhaarHidden

\* mask_aadhaar and mask_phone do the same.
LEMMA MaskOfNumber ==
  \A m : Mask("aadhaar", m) = MaskNumber(m) /\ Mask("phone", m) = MaskNumber(m)
BY DEF Mask

\* The pattern of Aadhaar numbers hides every one of them.
LEMMA AadhaarMasked ==
  ASSUME NEW U, <<"star">> \in U, NEW x \in Seq(U), Legible(x), Endless(x)
  PROVE  /\ Masked(x, "aadhaar") \in Seq(U)
         /\ Legible(Masked(x, "aadhaar")) /\ Endless(Masked(x, "aadhaar"))
         /\ AadhaarHidden(Masked(x, "aadhaar")) /\ CodesApart(Masked(x, "aadhaar"))
<1> DEFINE G == {t \in Seq(U) : Legible(t) /\ Endless(t)}
           y == Masked(x, "aadhaar")
<1>1. \A m : Mask("aadhaar", m) = MaskNumber(m)  BY MaskOfNumber
<1>2. \A t \in G : \A p \in 1..Len(t) : \A e : Matches("aadhaar", t, p, e) => NumberAt(t, p, e)
  <2> SUFFICES ASSUME NEW t \in G, NEW p \in 1..Len(t), NEW e, Matches("aadhaar", t, p, e)
               PROVE  NumberAt(t, p, e)
    OBVIOUS
  <2>1. t \in Seq(U) /\ Len(t) \in Nat /\ Digits(t) /\ Runs(t)  BY LenProperties DEF Legible
  <2>2. p \in Nat \ {0}  BY <2>1
  <2>3. PICK b \in Nat, d \in Nat : Groups(t, p, b, d, e)  BY <2>1, <2>2, GroupsAre
  <2> QED BY <2>1, <2>2, <2>3, AadhaarNumber
<1>3. \A t, u \in Seq(U) : Moves("aadhaar", u, t)  BY NumbersMove
<1>4. \A t \in G : \A u \in Seq(U) : \A g, W : Shorter(t, u, g, W) => u \in G
  <2> SUFFICES ASSUME NEW t \in G, NEW u \in Seq(U), NEW g, NEW W, Shorter(t, u, g, W) PROVE u \in G
    OBVIOUS
  <2>1. t \in Seq(U) /\ Legible(t) /\ Endless(t) /\ Len(t) \in Nat /\ Len(u) \in Nat  BY LenProperties
  <2>2. Legible(u)  BY <2>1, LegibleKept
  <2>3. Endless(u)  BY <2>1, EndlessKept
  <2> QED BY <2>2, <2>3
<1>5. x \in G /\ G \in SUBSET Seq(U)  OBVIOUS
<1>g. \A t : t \in G => t \in Seq(U) /\ Legible(t) /\ Endless(t)  OBVIOUS
<1> HIDE DEF G
<1>6. /\ y \in G
      /\ \A p \in 1..Len(y) : \A e \in p..Len(y) : ~Matches("aadhaar", y, p, e)
  BY <1>1, <1>2, <1>3, <1>4, <1>5, NumbersMasked
<1> HIDE DEF y
<1>7. y \in Seq(U) /\ Legible(y) /\ Endless(y)  BY <1>6, <1>g
<1>8. AadhaarHidden(y)  BY <1>6, <1>7, AadhaarHiddenIs
<1>9. CodesApart(y)  BY <1>6, <1>7, CodesApartIs
<1> QED BY <1>7, <1>8, <1>9 DEF y

\* And the pattern of telephone numbers those that are left.
LEMMA PhonesMasked ==
  ASSUME NEW U, <<"star">> \in U, NEW x \in Seq(U), Legible(x), Endless(x), AadhaarHidden(x), CodesApart(x)
  PROVE  /\ Masked(x, "phone") \in Seq(U)
         /\ Legible(Masked(x, "phone")) /\ Endless(Masked(x, "phone"))
         /\ AadhaarHidden(Masked(x, "phone")) /\ PhonesHidden(Masked(x, "phone"))
<1> DEFINE G == {t \in Seq(U) : Legible(t) /\ Endless(t) /\ AadhaarHidden(t) /\ CodesApart(t)}
           y == Masked(x, "phone")
<1>1. \A m : Mask("phone", m) = MaskNumber(m)  BY MaskOfNumber
<1>2. \A t \in G : \A p \in 1..Len(t) : \A e : Matches("phone", t, p, e) => NumberAt(t, p, e)
  <2> SUFFICES ASSUME NEW t \in G, NEW p \in 1..Len(t), NEW e, Matches("phone", t, p, e)
               PROVE  NumberAt(t, p, e)
    OBVIOUS
  <2>1. t \in Seq(U) /\ Len(t) \in Nat /\ Legible(t) /\ CodesApart(t) /\ AadhaarHidden(t)  BY LenProperties
  <2>2. p \in Nat \ {0}  BY <2>1
  <2>3. PICK s \in Nat : Dialled(t, p, s, e)  BY <2>1, <2>2, DialledIs
  <2> QED BY <2>1, <2>2, <2>3, PhoneNumber
<1>3. \A t, u \in Seq(U) : Moves("phone", u, t)  BY NumbersMove
<1>4. \A t \in G : \A u \in Seq(U) : \A g, W : Shorter(t, u, g, W) => u \in G
  <2> SUFFICES ASSUME NEW t \in G, NEW u \in Seq(U), NEW g, NEW W, Shorter(t, u, g, W) PROVE u \in G
    OBVIOUS
  <2>1. /\ t \in Seq(U) /\ Legible(t) /\ Endless(t) /\ AadhaarHidden(t) /\ CodesApart(t)
        /\ Len(t) \in Nat /\ Len(u) \in Nat
    BY LenProperties
  <2>2. Legible(u)  BY <2>1, LegibleKept
  <2>3. Endless(u)  BY <2>1, EndlessKept
  <2>4. AadhaarHidden(u)  BY <2>1, HiddenKept
  <2>5. CodesApart(u)  BY <2>1, CodesKept
  <2> QED BY <2>2, <2>3, <2>4, <2>5
<1>5. x \in G /\ G \in SUBSET Seq(U)  OBVIOUS
<1>g. \A t : t \in G => t \in Seq(U) /\ Legible(t) /\ Endless(t) /\ AadhaarHidden(t)  OBVIOUS
<1> HIDE DEF G
<1>6. /\ y \in G
      /\ \A p \in 1..Len(y) : \A e \in p..Len(y) : ~Matches("phone", y, p, e)
  BY <1>1, <1>2, <1>3, <1>4, <1>5, NumbersMasked
<1> HIDE DEF y
<1>7. y \in Seq(U) /\ Legible(y) /\ Endless(y) /\ AadhaarHidden(y)  BY <1>6, <1>g
<1>8. PhonesHidden(y)  BY <1>6, <1>7, PhonesHiddenIs
<1> QED BY <1>7, <1>8 DEF y

-----------------------------------------------------------------------------
(* Masking: PANs                                                           *)

\* One symbol is replaced by one: the others stay where they were.
LEMMA OneForOne ==
  ASSUME NEW U, NEW t, NEW m, NEW new, NEW u, NEW o, NEW c, Replaced(U, t, m, new, u, o, c),
         Len(m) = 1, Len(new) = 1
  PROVE  /\ Len(u) = Len(t)
         /\ \A q \in 1..Len(u) : /\ u[q] = t[q] \/ (u[q] = new[1] /\ t[q] = m[1])
                                 /\ c[q] # 0 => u[q] = new[1]
<1> DEFINE n == Len(u)
           T == {q \in 1..n : o[q] = q}
<1>1. /\ n \in Nat /\ Len(t) \in Nat
      /\ \A q \in 1..n : /\ o[q] \in 1..Len(t) /\ c[q] \in 0..Len(new)
                         /\ c[q] = 0 => u[q] = t[o[q]] /\ ~Occurs(t, m, o[q])
                         /\ c[q] # 0 => u[q] = new[c[q]] /\ Occurs(t, m, o[q])
  BY PlacesAre
<1>2. /\ \A q \in 1..n - 1 : /\ c[q] = 0 => o[q + 1] = o[q] + 1
                             /\ c[q] = Len(new) => o[q + 1] = o[q] + Len(m)
      /\ n = 0 => 1 = Len(t) + 1
      /\ n # 0 => o[1] = 1
      /\ n # 0 /\ c[n] = 0 => o[n] = Len(t)
      /\ n # 0 /\ c[n] # 0 => o[n] + Len(m) = Len(t) + 1
  BY DEF Replaced, Origin
<1> HIDE DEF n
<1>3. \A q \in 1..n : c[q] = 0 \/ c[q] = 1  BY <1>1
<1>4. \A q \in 1..n - 1 : o[q + 1] = o[q] + 1
  <2> SUFFICES ASSUME NEW q \in 1..n - 1 PROVE o[q + 1] = o[q] + 1  OBVIOUS
  <2>1. q \in 1..n  BY <1>1
  <2> QED BY <2>1, <1>2, <1>3
<1>5. CASE n = 0
  <2>1. Len(t) = 0  BY <1>1, <1>2, <1>5
  <2> QED BY <2>1, <1>5 DEF n
<1>6. CASE n # 0
  <2>1. 1 \in 1..n /\ 1 \in Nat /\ n \in 1..n  BY <1>1, <1>6
  <2>2. 1 \in T  BY <2>1, <1>2, <1>6
  <2>3. \A q \in 1..n : q < n /\ q \in T => q + 1 \in T
    <3> SUFFICES ASSUME NEW q \in 1..n, q < n, q \in T PROVE q + 1 \in T  OBVIOUS
    <3>1. q \in 1..n - 1 /\ q + 1 \in 1..n /\ o[q] = q  BY <1>1
    <3>2. o[q + 1] = q + 1  BY <3>1, <1>4
    <3> QED BY <3>1, <3>2
  <2> HIDE DEF T
  <2>4. \A q \in 1..n : q \in T  BY <2>1, <2>2, <2>3, <1>1, InductionUpTo
  <2>5. \A q \in 1..n : o[q] = q  BY <2>4 DEF T
  <2>6. n = Len(t)
    <3>1. o[n] = n  BY <2>1, <2>5
    <3>2. CASE c[n] = 0  BY <3>1, <3>2, <1>2, <1>6
    <3>3. CASE c[n] # 0
      <4>1. o[n] + 1 = Len(t) + 1  BY <3>3, <1>2, <1>6
      <4> QED BY <3>1, <4>1, <1>1
    <3> QED BY <3>2, <3>3
  <2>7. ASSUME NEW q \in 1..n
        PROVE  (u[q] = t[q] \/ (u[q] = new[1] /\ t[q] = m[1])) /\ (c[q] # 0 => u[q] = new[1])
    <3>1. o[q] = q  BY <2>5
    <3>2. CASE c[q] = 0  BY <3>1, <3>2, <1>1
    <3>3. CASE c[q] = 1
      <4>1. u[q] = new[1] /\ Occurs(t, m, q)  BY <3>1, <3>3, <1>1
      <4>2. t[q + 1 - 1] = m[1]
        <5>1. 1 \in 1..Len(m)  OBVIOUS
        <5> QED BY <4>1, <5>1 DEF Occurs
      <4>3. q + 1 - 1 = q  BY <1>1
      <4> QED BY <4>1, <4>2, <4>3
    <3> QED BY <3>2, <3>3, <1>3
  <2> QED BY <2>6, <2>7 DEF n
<1> QED BY <1>5, <1>6

\* t is x with masks for some of its PANs.
SameButPans(x, t) ==
  /\ Len(t) = Len(x)
  /\ \A p \in 1..Len(x) : t[p] = x[p] \/ (x[p][1] = "pan" /\ t[p][1] = "panmask")

\* What PAN_PATTERN finds, and what is put for it.
LEMMA PansAre ==
  ASSUME NEW U, NEW t \in Seq(U), NEW p \in 1..Len(t), NEW e
  PROVE  Matches("pan", t, p, e) <=> Has(t, p, "pan") /\ e = p
<1>1. Kind(t, p) = "pan" <=> Has(t, p, "pan")  BY KindIs
<1>2. MatchEnd("pan", t, p) = IF Kind(t, p) = "pan" THEN p ELSE 0  BY EndOf DEF PanEnd
<1>3. p # 0  BY LenProperties
<1> QED BY <1>1, <1>2, <1>3 DEF Matches

LEMMA MaskOfPan ==
  ASSUME NEW U, NEW m, m[1] \in U, <<"panmask", m[1][2]>> \in U
  PROVE  /\ Mask("pan", m) \in Seq(U) /\ Len(Mask("pan", m)) = 1
         /\ Mask("pan", m)[1] = <<"panmask", m[1][2]>>
<1> DEFINE s == <<"panmask", m[1][2]>>
<1>1. Mask("pan", m) = <<s>>  BY DEF Mask, MaskPan
<1> HIDE DEF s
<1>2. s \in U  BY DEF s
<1>3. <<s>> \in Seq(U) /\ Len(<<s>>) = 1 /\ <<s>>[1] = s  BY <1>2
<1> QED BY <1>1, <1>3 DEF s

\* The PANs go first, each for one symbol.
LEMMA PansMasked ==
  ASSUME NEW U, NEW x \in Seq(U), \A s \in U : s[1] = "pan" => <<"panmask", s[2]>> \in U
  PROVE  /\ Masked(x, "pan") \in Seq(U) /\ SameButPans(x, Masked(x, "pan"))
         /\ \A p \in 1..Len(Masked(x, "pan")) : ~Has(Masked(x, "pan"), p, "pan")
<1> DEFINE G == {t \in Seq(U) : SameButPans(x, t)}
           E == {s \in U : s[1] = "pan"}
           found == FindAll("pan", x)
           y == Masked(x, "pan")
<1>0. Len(x) \in Nat /\ \A p \in 1..Len(x) : x[p] \in U  BY LenProperties, ElementOfSeq
<1>1. \A t \in Seq(U) : \A p \in 1..Len(t) : \A e : Matches("pan", t, p, e) <=> Has(t, p, "pan") /\ e = p
  BY PansAre
<1>2. Bounded("pan", x)
  <2> SUFFICES ASSUME NEW p \in 1..Len(x), NEW e, Matches("pan", x, p, e) PROVE e \in p..Len(x)
    BY DEF Bounded
  <2>1. e = p  BY <1>1
  <2> QED BY <2>1, <1>0
<1>3. Ends("pan", x, E)
  <2> SUFFICES ASSUME NEW p \in 1..Len(x), NEW e, Matches("pan", x, p, e)
               PROVE  x[e] \in E /\ \A r \in p..e - 1 : x[r] \notin E
    BY DEF Ends
  <2>1. e = p /\ x[p][1] = "pan" /\ x[p] \in U  BY <1>0, <1>1 DEF Has
  <2>2. p..e - 1 = {}  BY <2>1
  <2> QED BY <2>1, <2>2
<1>4. found \in Seq(Seq(U)) /\ \E pos, last : FoundFrom("pan", x, 1, found, pos, last)
  BY <1>2, FindAllIs
<1>5. PICK pos, last : FoundFrom("pan", x, 1, found, pos, last)  BY <1>4
<1> HIDE DEF found
<1>6. \A k \in 1..Len(found) : found[k] \in Seq(U) /\ Len(found[k]) = 1 /\ found[k][1] \in U /\ found[k][1][1] = "pan"
  <2> SUFFICES ASSUME NEW k \in 1..Len(found)
               PROVE  found[k] \in Seq(U) /\ Len(found[k]) = 1 /\ found[k][1] \in U /\ found[k][1][1] = "pan"
    OBVIOUS
  <2>1. pos[k] \in 1..Len(x) /\ Matches("pan", x, pos[k], last[k]) /\ found[k] = SubSeq(x, pos[k], last[k])
    BY <1>5 DEF FoundFrom
  <2> DEFINE p == pos[k]
  <2>2. p \in 1..Len(x) /\ x[p][1] = "pan" /\ x[p] \in U /\ found[k] = SubSeq(x, p, p)
    BY <2>1, <1>0, <1>1 DEF Has
  <2> HIDE DEF p
  <2>3. p \in Int /\ p <= p /\ p - p + 1 = 1 /\ 1 \in 1..1 /\ p + 1 - 1 = p /\ \A i \in p..p : x[i] \in U
    BY <2>2
  <2>4. /\ SubSeq(x, p, p) \in Seq(U) /\ Len(SubSeq(x, p, p)) = p - p + 1
        /\ \A j \in 1..p - p + 1 : SubSeq(x, p, p)[j] = x[p + j - 1]
    BY <2>3, SubSeqProperties
  <2>5. Len(found[k]) = 1 /\ found[k][1] = x[p]  BY <2>2, <2>3, <2>4
  <2> QED BY <2>2, <2>4, <2>5
<1>7. \A k \in 1..Len(found) :
        /\ Mask("pan", found[k]) \in Seq(U) /\ Len(Mask("pan", found[k])) = 1
        /\ Mask("pan", found[k])[1] = <<"panmask", found[k][1][2]>>
  BY <1>6, MaskOfPan
<1>8. Replaceable(U, "pan", found)
  <2>1. 1 > 0  OBVIOUS
  <2> QED BY <2>1, <1>6, <1>7 DEF Replaceable
<1>9. Keeps("pan", U, G, found)
  <2> SUFFICES ASSUME NEW k \in 1..Len(found), NEW t \in G, NEW u \in Seq(U), NEW o, NEW c,
                      Replaced(U, t, found[k], Mask("pan", found[k]), u, o, c)
               PROVE  u \in G /\ Moves("pan", u, t) /\ Clean("pan", u, c, Mask("pan", found[k]))
    BY DEF Keeps
  <2> DEFINE m == found[k]
             new == Mask("pan", found[k])
  <2>1. Len(m) = 1 /\ m[1][1] = "pan" /\ Len(new) = 1 /\ new[1] = <<"panmask", m[1][2]>>  BY <1>6, <1>7
  <2>2. new[1][1] = "panmask"  BY <2>1
  <2>3. t \in Seq(U) /\ SameButPans(x, t) /\ Len(t) \in Nat /\ Len(u) \in Nat  BY LenProperties
  <2> HIDE DEF m, new
  <2>4. /\ Len(u) = Len(t)
        /\ \A q \in 1..Len(u) : /\ u[q] = t[q] \/ (u[q] = new[1] /\ t[q] = m[1])
                                /\ c[q] # 0 => u[q] = new[1]
    <3>1. Replaced(U, t, m, new, u, o, c)  BY DEF m, new
    <3> QED BY <2>1, <3>1, OneForOne
  <2>5. SameButPans(x, u)
    <3>1. Len(u) = Len(x)  BY <2>3, <2>4 DEF SameButPans
    <3>2. ASSUME NEW p \in 1..Len(x) PROVE u[p] = x[p] \/ (x[p][1] = "pan" /\ u[p][1] = "panmask")
      <4>1. t[p] = x[p] \/ (x[p][1] = "pan" /\ t[p][1] = "panmask")  BY <2>3 DEF SameButPans
      <4>2. u[p] = t[p] \/ (u[p] = new[1] /\ t[p] = m[1])  BY <2>4, <3>1
      <4> QED BY <2>1, <2>2, <4>1, <4>2
    <3> QED BY <3>1, <3>2 DEF SameButPans
  <2>6. Moves("pan", u, t)
    <3> SUFFICES ASSUME NEW q \in 1..Len(u), NEW p \in 1..Len(t), NEW e \in q..Len(u), Matches("pan", u, q, e),
                        p + (e - q) <= Len(t), \A r \in 0..e - q : t[p + r] = u[q + r]
                 PROVE  Matches("pan", t, p, p + (e - q))
      BY DEF Moves
    <3>1. e = q /\ u[q][1] = "pan"  BY <1>1 DEF Has
    <3>2. 0 \in 0..e - q /\ p + 0 = p /\ q + 0 = q /\ p + (e - q) = p  BY <2>3, <3>1
    <3>3. t[p + 0] = u[q + 0]  BY <3>2
    <3>4. Has(t, p, "pan")  BY <3>1, <3>2, <3>3 DEF Has
    <3> QED BY <2>3, <3>2, <3>4, <1>1
  <2>7. Clean("pan", u, c, new)
    <3> SUFFICES ASSUME NEW q \in 1..Len(u), NEW e \in q..Len(u), Matches("pan", u, q, e)
                 PROVE  c[q] = 0 /\ \A r \in q..e : u[r] # new[1]
      BY DEF Clean
    <3>1. e = q /\ u[q][1] = "pan"  BY <1>1 DEF Has
    <3>2. u[q] # new[1]  BY <2>2, <3>1
    <3>3. c[q] = 0  BY <2>4, <3>2
    <3>4. \A r \in q..e : r = q  BY <3>1
    <3> QED BY <3>2, <3>3, <3>4
  <2> QED BY <2>5, <2>6, <2>7 DEF new
<1>10. G \in SUBSET Seq(U)  OBVIOUS
<1>11. x \in G  BY DEF SameButPans
<1>g. \A t : t \in G => t \in Seq(U) /\ SameButPans(x, t)  OBVIOUS
<1> HIDE DEF G, E
<1>12. y \in G /\ \A p \in 1..Len(y) : \A e \in p..Len(y) : ~Matches("pan", y, p, e)
  BY <1>2, <1>3, <1>8, <1>9, <1>10, <1>11, AllMasked DEF found
<1> HIDE DEF y
<1>13. y \in Seq(U) /\ SameButPans(x, y) /\ Len(y) \in Nat  BY <1>12, <1>g, LenProperties
<1>14. ASSUME NEW p \in 1..Len(y) PROVE ~Has(y, p, "pan")
  <2>1. p \in p..Len(y)  BY <1>13
  <2>2. ~Matches("pan", y, p, p)  BY <1>12, <2>1
  <2> QED BY <1>1, <1>13, <2>2
<1> QED BY <1>13, <1>14 DEF y

\* Symbols that are not PANs are untouched, and what is said of them is kept.
LEMMA OtherSymbols ==
  ASSUME NEW x, NEW t, SameButPans(x, t), NEW p, NEW k, k # "pan", k # "panmask"
  PROVE  (Has(t, p, k) <=> Has(x, p, k)) /\ (Has(t, p, k) => t[p] = x[p])
<1>1. CASE p \in 1..Len(x)
  <2>1. t[p] = x[p] \/ (x[p][1] = "pan" /\ t[p][1] = "panmask")  BY <1>1 DEF SameButPans
  <2>2. p \in 1..Len(t)  BY <1>1 DEF SameButPans
  <2> QED BY <1>1, <2>1, <2>2 DEF Has
<1>2. CASE p \notin 1..Len(x)
  <2>1. p \notin 1..Len(t)  BY <1>2 DEF SameButPans
  <2> QED BY <1>2, <2>1 DEF Has
<1> QED BY <1>1, <1>2

LEMMA LegibleButPans ==
  ASSUME NEW x, NEW t, Len(x) \in Nat, SameButPans(x, t), Legible(x)
  PROVE  Legible(t)
<1>1. \A p, k : k # "pan" /\ k # "panmask" => (Has(t, p, k) <=> Has(x, p, k)) /\ (Has(t, p, k) => t[p] = x[p])
  BY OtherSymbols
<1> DEFINE other(k) == k # "pan" /\ k # "panmask"
<1>s. other("digit") /\ other("space") /\ other("star") /\ other("plus") /\ other("word") /\ other("at")
  OBVIOUS
<1> HIDE DEF other
<1>2. \A p, k : other(k) => (Has(t, p, k) <=> Has(x, p, k)) /\ (Has(t, p, k) => t[p] = x[p])  BY <1>1 DEF other
<1>3. Len(t) = Len(x)  BY DEF SameButPans
<1>4. /\ \A p : Has(t, p, "digit") <=> Has(x, p, "digit")
      /\ \A p : Has(t, p, "digit") => t[p] = x[p]
      /\ \A p : Has(t, p, "space") <=> Has(x, p, "space")
      /\ \A p : Has(t, p, "star") <=> Has(x, p, "star")
      /\ \A p : Has(t, p, "plus") <=> Has(x, p, "plus")
      /\ \A p : Has(t, p, "word") <=> Has(x, p, "word")
      /\ \A p : Has(t, p, "at") <=> Has(x, p, "at")
  BY <1>2, <1>s
<1>5. Digits(t)  BY <1>3, <1>4 DEF Legible, Digits
<1>6. Runs(t)  BY <1>3, <1>4 DEF Legible, Runs
<1>7. Onwards(t)  BY <1>3, <1>4 DEF Legible, Onwards
<1>8. Backwards(t)  BY <1>3, <1>4 DEF Legible, Backwards
<1>9. Marks(t)  BY <1>3, <1>4 DEF Legible, Marks
<1>10. Letters(t)  BY <1>3, <1>4 DEF Legible, Letters
<1> QED BY <1>5, <1>6, <1>7, <1>8, <1>9, <1>10 DEF Legible

LEMMA EndlessButPans ==
  ASSUME NEW x, NEW t, Len(x) \in Nat, SameButPans(x, t), Endless(x)
  PROVE  Endless(t)
<1>1. \A p, k : k # "pan" /\ k # "panmask" => (Has(t, p, k) <=> Has(x, p, k)) /\ (Has(t, p, k) => t[p] = x[p])
  BY OtherSymbols
<1> SUFFICES ASSUME NEW p \in 1..Len(t), NEW q \in 1..Len(t), NEW e, NEW f, p < q,
                    Address(t, p, e), Address(t, q, f), e - p <= f - q,
                    \A k \in 0..e - p : t[f - k] = t[e - k]
             PROVE  f - q = e - p
  BY DEF Endless
<1>2. Len(t) = Len(x)  BY DEF SameButPans
<1>3. /\ \A r : Has(t, r, "word") <=> Has(x, r, "word")
      /\ \A r : Has(t, r, "word") => t[r] = x[r]
      /\ \A r : Has(t, r, "at") <=> Has(x, r, "at")
      /\ \A r : Has(t, r, "at") => t[r] = x[r]
  BY <1>1
<1>4. \A a, b : Address(t, a, b) => Address(x, a, b)  BY <1>2, <1>3 DEF Address
<1>5. ASSUME NEW a, NEW b, Address(t, a, b), NEW k \in 0..b - a PROVE t[b - k] = x[b - k]
  <2>1. b \in 1..Len(t) /\ a \in 1..b - 1  BY <1>5 DEF Address
  <2>2. CASE k = 0
    <3>1. b - 0 = b  BY <2>1
    <3> QED BY <2>2, <3>1, <1>3, <1>5 DEF Address
  <2>3. CASE k # 0
    <3>1. b - k \in a..b - 1  BY <2>1, <2>3
    <3> QED BY <3>1, <1>3, <1>5 DEF Address
  <2> QED BY <2>2, <2>3
<1>6. e \in Int /\ f \in Int  BY DEF Address
<1>7. \A k \in 0..e - p : x[f - k] = x[e - k]
  <2> SUFFICES ASSUME NEW k \in 0..e - p PROVE x[f - k] = x[e - k]  OBVIOUS
  <2>1. k \in 0..f - q  BY <1>6
  <2>2. t[e - k] = x[e - k]  BY <1>5
  <2>3. t[f - k] = x[f - k]  BY <1>5, <2>1
  <2> QED BY <2>2, <2>3
<1>8. Address(x, p, e) /\ Address(x, q, f) /\ p \in 1..Len(x) /\ q \in 1..Len(x)  BY <1>2, <1>4
<1> QED BY <1>7, <1>8 DEF Endless

-----------------------------------------------------------------------------
(* Masking: e-mail addresses                                               *)

\* Letters up to an "@".
Mail(t, p, e) ==
  e \in 1..Len(t) /\ p \in 1..e - 1 /\ Has(t, e, "at") /\ \A r \in p..e - 1 : Has(t, r, "word")

\* What the pattern of addresses finds where no number stands before a letter.
LEMMA MailsAre ==
  ASSUME NEW U, NEW t \in Seq(U), Letters(t), NEW p \in 1..Len(t), NEW e
  PROVE  Matches("email", t, p, e) <=> Mail(t, p, e)
<1>1. Len(t) \in Nat  BY LenProperties
<1>2. \A k : Kind(t, k) = "at" <=> Has(t, k, "at")  BY KindIs
<1>3. \A k : Kind(t, k) = "word" <=> Has(t, k, "word")  BY KindIs
<1>4. \A k : Kind(t, k) = "digit" <=> Has(t, k, "digit")  BY KindIs
<1> DEFINE at == {k \in p + 1..Len(t) : /\ Kind(t, k) = "at"
                                        /\ \A j \in p..k - 1 : Kind(t, j) \in {"word", "digit"}}
<1>5. MatchEnd("email", t, p) = IF at = {} THEN 0 ELSE CHOOSE k \in at : TRUE  BY EndOf DEF EmailEnd
<1>6. \A k : k \in at <=> Mail(t, p, k)
  <2>1. ASSUME NEW k, Mail(t, p, k) PROVE k \in at
    <3>1. k \in p + 1..Len(t) /\ Kind(t, k) = "at"  BY <1>1, <1>2, <2>1 DEF Mail
    <3>2. \A j \in p..k - 1 : Kind(t, j) \in {"word", "digit"}  BY <1>3, <2>1 DEF Mail
    <3> QED BY <3>1, <3>2
  <2>2. ASSUME NEW k \in at PROVE Mail(t, p, k)
    <3>1. k \in p + 1..Len(t) /\ Has(t, k, "at")  BY <1>2
    <3>2. \A j \in p..k - 1 : Has(t, j, "word") \/ Has(t, j, "digit")  BY <1>3, <1>4
    <3>3. \A j \in p..k - 1 : j \in 1..Len(t)  BY <1>1, <3>1
    <3> DEFINE n == (k - 1) - p
               T == {i \in 0..n : Has(t, (k - 1) - i, "word")}
    <3>4. n \in Nat /\ 0 \in 0..n /\ k - 1 \in p..k - 1 /\ (k - 1) - 0 = k - 1 /\ (k - 1) + 1 = k /\ 0 \in Nat
      BY <3>1
    <3>5. 0 \in T
      <4>1. Has(t, (k - 1) + 1, "at") /\ k - 1 \in 1..Len(t)  BY <3>1, <3>3, <3>4
      <4>2. ~Has(t, k - 1, "digit")  BY <4>1 DEF Letters
      <4>3. Has(t, k - 1, "word")  BY <3>2, <3>4, <4>2
      <4> QED BY <3>4, <4>3
    <3>6. \A i \in 0..n : i < n /\ i \in T => i + 1 \in T
      <4> SUFFICES ASSUME NEW i \in 0..n, i < n, i \in T PROVE i + 1 \in T  OBVIOUS
      <4>1. Has(t, (k - 1) - i, "word")  OBVIOUS
      <4> DEFINE j == (k - 1) - (i + 1)
      <4>2. j \in p..k - 1 /\ j + 1 = (k - 1) - i /\ i + 1 \in 0..n  BY <3>1
      <4> HIDE DEF j
      <4>3. j \in 1..Len(t) /\ Has(t, j + 1, "word")  BY <3>3, <4>1, <4>2
      <4>4. ~Has(t, j, "digit")  BY <4>3 DEF Letters
      <4>5. Has(t, j, "word")  BY <3>2, <4>2, <4>4
      <4> QED BY <4>2, <4>5 DEF j
    <3> HIDE DEF T
    <3>7. \A i \in 0..n : i \in T
      <4> HIDE DEF n
      <4> QED BY <3>4, <3>5, <3>6, InductionUpTo
    <3>8. \A r \in p..k - 1 : Has(t, r, "word")
      <4> SUFFICES ASSUME NEW r \in p..k - 1 PROVE Has(t, r, "word")  OBVIOUS
      <4>1. (k - 1) - r \in 0..n /\ (k - 1) - ((k - 1) - r) = r  BY <3>1
      <4>2. (k - 1) - r \in T  BY <3>7, <4>1
      <4>3. Has(t, (k - 1) - ((k - 1) - r), "word")  BY <4>2 DEF T
      <4> QED BY <4>1, <4>3
    <3>9. k \in 1..Len(t) /\ p \in 1..k - 1  BY <1>1, <3>1
    <3> QED BY <3>1, <3>8, <3>9 DEF Mail
  <2> QED BY <2>1, <2>2
<1>7. \A k, l : Mail(t, p, k) /\ Mail(t, p, l) => k = l
  <2> SUFFICES ASSUME NEW k, NEW l, Mail(t, p, k), Mail(t, p, l), k # l PROVE FALSE  OBVIOUS
  <2>1. k \in 1..Len(t) /\ l \in 1..Len(t) /\ p \in 1..k - 1 /\ p \in 1..l - 1  BY DEF Mail
  <2>2. CASE k < l
    <3>1. k \in p..l - 1  BY <2>1, <2>2
    <3> QED BY <3>1 DEF Mail, Has
  <2>3. CASE l < k
    <3>1. l \in p..k - 1  BY <2>1, <2>3
    <3> QED BY <3>1 DEF Mail, Has
  <2> QED BY <2>1, <2>2, <2>3
<1>8. \A k : Mail(t, p, k) => k # 0  BY <1>1 DEF Mail
<1> HIDE DEF at
<1>9. CASE at = {}  BY <1>5, <1>6, <1>9 DEF Matches
<1>10. CASE at # {}
  <2>1. (CHOOSE k \in at : TRUE) \in at  BY <1>10
  <2>2. Mail(t, p, MatchEnd("email", t, p))  BY <1>5, <1>6, <1>10, <2>1
  <2> QED BY <1>7, <1>8, <2>2 DEF Matches
<1> QED BY <1>9, <1>10

\* The addresses that are found begin where their letters do.
LEMMA AddressesFound ==
  ASSUME NEW U, NEW x \in Seq(U), Letters(x), NEW found \in Seq(Seq(U)), NEW pos, NEW last,
         FoundFrom("email", x, 1, found, pos, last), NEW j \in 1..Len(found)
  PROVE  Address(x, pos[j], last[j]) /\ found[j] = SubSeq(x, pos[j], last[j])
<1>0. Len(x) \in Nat /\ Len(found) \in Nat  BY LenProperties
<1>1. \A p \in 1..Len(x) : \A e : Matches("email", x, p, e) <=> Mail(x, p, e)  BY MailsAre
<1>2. /\ \A i \in 1..Len(found) : /\ pos[i] \in 1..Len(x) /\ last[i] \in 1..Len(x) /\ pos[i] <= last[i]
                                  /\ Matches("email", x, pos[i], last[i])
                                  /\ found[i] = SubSeq(x, pos[i], last[i])
      /\ \A i, k \in 1..Len(found) : i < k => last[i] < pos[k]
  BY DEF FoundFrom
<1>3. \A p \in 1..Len(x) : \A e : Matches("email", x, p, e) =>
        \E i \in 1..Len(found) : pos[i] <= p /\ p <= last[i]
  <2> SUFFICES ASSUME NEW p \in 1..Len(x), NEW e, Matches("email", x, p, e)
               PROVE  \E i \in 1..Len(found) : pos[i] <= p /\ p <= last[i]
    OBVIOUS
  <2>1. 1 <= p  OBVIOUS
  <2> QED BY <2>1 DEF FoundFrom
<1>4. \A i \in 1..Len(found) : Mail(x, pos[i], last[i])  BY <1>1, <1>2
<1>5. ~Has(x, pos[j] - 1, "word")
  <2> SUFFICES ASSUME Has(x, pos[j] - 1, "word") PROVE FALSE  OBVIOUS
  <2> DEFINE p == pos[j] - 1
             e == last[j]
  <2>1. p \in 1..Len(x) /\ x[p][1] = "word"  BY DEF Has
  <2>2. Mail(x, p, e)
    <3>1. /\ e \in 1..Len(x) /\ pos[j] \in 1..e - 1 /\ Has(x, e, "at")
          /\ \A r \in pos[j]..e - 1 : Has(x, r, "word")
      BY <1>4 DEF Mail
    <3>2. p \in 1..e - 1  BY <2>1, <3>1
    <3>3. \A r \in p..e - 1 : r = p \/ r \in pos[j]..e - 1  BY <2>1, <3>1
    <3>4. \A r \in p..e - 1 : Has(x, r, "word")  BY <3>1, <3>3
    <3> QED BY <3>1, <3>2, <3>4 DEF Mail
  <2>3. PICK i \in 1..Len(found) : pos[i] <= p /\ p <= last[i]  BY <1>1, <1>3, <2>1, <2>2
  <2>4. CASE i < j
    <3>1. last[i] < pos[j] /\ pos[j] \in 1..Len(x) /\ last[i] \in 1..Len(x)  BY <1>2, <2>4
    <3>2. last[i] = p
      <4>1. \A a, b \in Int : a < b /\ b - 1 <= a => a = b - 1  OBVIOUS
      <4>2. last[i] \in Int /\ pos[j] \in Int /\ pos[j] - 1 <= last[i]  BY <2>3, <3>1
      <4> QED BY <3>1, <4>1, <4>2
    <3>3. x[last[i]][1] = "at"  BY <1>4 DEF Mail, Has
    <3> QED BY <2>1, <3>2, <3>3
  <2>5. CASE i = j
    <3>1. pos[j] \in 1..Len(x) /\ pos[j] <= p  BY <1>2, <2>3, <2>5
    <3> QED BY <3>1
  <2>6. CASE j < i
    <3>1. last[j] < pos[i] /\ pos[j] <= last[j]  BY <1>2, <2>6
    <3>2. pos[j] \in Int /\ last[j] \in Int /\ pos[i] \in Int  BY <1>2
    <3> QED BY <2>3, <3>1, <3>2
  <2>7. i < j \/ i = j \/ j < i  BY <1>0
  <2> QED BY <2>4, <2>5, <2>6, <2>7
<1> QED BY <1>2, <1>4, <1>5 DEF Address, Mail

\* mask_email: an initial, a star and the rest.
LEMMA MaskOfMail ==
  ASSUME NEW U, NEW m \in Seq(U), Has(m, 1, "word"), <<"star">> \in U, <<"initial", m[1][2]>> \in U
  PROVE  /\ Mask("email", m) \in Seq(U) /\ Len(Mask("email", m)) = 3
         /\ Mask("email", m)[1] = <<"initial", m[1][2]>> /\ Mask("email", m)[2] = <<"star">>
         /\ Mask("email", m)[3] = m[Len(m)]
<1> DEFINE a == <<"initial", m[1][2]>>
           b == <<"star">>
           d == m[Len(m)]
<1>1. Kind(m, 1) = "word"  BY KindIs
<1>2. Mask("email", m) = <<a, b, d>>  BY <1>1 DEF Mask, MaskEmail
<1>3. a \in U /\ b \in U  OBVIOUS
<1>4. d \in U
  <2>1. Len(m) \in Nat /\ 1 \in 1..Len(m)  BY LenProperties DEF Has
  <2>2. Len(m) \in 1..Len(m)  BY <2>1
  <2> QED BY <2>2, ElementOfSeq
<1> HIDE DEF a, b, d
<1>5. /\ <<a, b, d>> \in Seq(U) /\ Len(<<a, b, d>>) = 3
      /\ <<a, b, d>>[1] = a /\ <<a, b, d>>[2] = b /\ <<a, b, d>>[3] = d
  BY <1>3, <1>4
<1> QED BY <1>2, <1>5 DEF a, b, d

\* m is the address of x from p to e, as a text of its own.
IsMail(m, x, U, p, e) ==
  /\ m \in Seq(U) /\ Len(m) = e - p + 1
  /\ e - p + 1 \in Nat /\ e - p + 1 > 1
  /\ \A i \in 1..e - p + 1 : m[i] = x[p + i - 1] /\ m[i] \in U
  /\ \A i \in 1..e - p : m[i][1] = "word"
  /\ m[e - p + 1][1] = "at"

\* What an address is made of.
LEMMA FoundMail ==
  ASSUME NEW U, NEW x \in Seq(U), NEW p, NEW e, Mail(x, p, e)
  PROVE  IsMail(SubSeq(x, p, e), x, U, p, e)
<1>1. /\ Len(x) \in Nat /\ e \in 1..Len(x) /\ p \in 1..e - 1 /\ x[e][1] = "at"
      /\ \A r \in p..e - 1 : x[r][1] = "word"
  BY LenProperties DEF Mail, Has
<1>2. p \in Int /\ e \in Int /\ p <= e /\ e - p + 1 \in Nat /\ e - p + 1 > 1  BY <1>1
<1>3. \A i \in p..e : i \in 1..Len(x) /\ x[i] \in U
  <2> SUFFICES ASSUME NEW i \in p..e PROVE i \in 1..Len(x) /\ x[i] \in U  OBVIOUS
  <2>1. i \in 1..Len(x)  BY <1>1
  <2> QED BY <2>1, ElementOfSeq
<1>4. /\ SubSeq(x, p, e) \in Seq(U) /\ Len(SubSeq(x, p, e)) = e - p + 1
      /\ \A i \in 1..e - p + 1 : SubSeq(x, p, e)[i] = x[p + i - 1]
  BY <1>2, <1>3, SubSeqProperties
<1>5. ASSUME NEW i \in 1..e - p + 1 PROVE x[p + i - 1] \in U
  <2>1. p + i - 1 \in p..e  BY <1>2
  <2> QED BY <2>1, <1>3
<1>6. ASSUME NEW i \in 1..e - p PROVE SubSeq(x, p, e)[i][1] = "word"
  <2>1. p + i - 1 \in p..e - 1 /\ i \in 1..e - p + 1  BY <1>2
  <2>2. SubSeq(x, p, e)[i] = x[p + i - 1]  BY <2>1, <1>4
  <2>3. x[p + i - 1][1] = "word"  BY <2>1, <1>1
  <2> QED BY <2>2, <2>3
<1>7. SubSeq(x, p, e)[e - p + 1][1] = "at"
  <2>1. p + (e - p + 1) - 1 = e /\ e - p + 1 \in 1..e - p + 1  BY <1>2
  <2>2. SubSeq(x, p, e)[e - p + 1] = x[p + (e - p + 1) - 1]  BY <2>1, <1>4
  <2>3. SubSeq(x, p, e)[e - p + 1] = x[e]  BY <2>1, <2>2
  <2> QED BY <2>3, <1>1
<1> QED BY <1>2, <1>4, <1>5, <1>6, <1>7 DEF IsMail

\* The same of all addresses of a text.
LEMMA FoundMails ==
  ASSUME NEW U, NEW x \in Seq(U)
  PROVE  \A v, w : Mail(x, v, w) => IsMail(SubSeq(x, v, w), x, U, v, w)
<1> SUFFICES ASSUME NEW v, NEW w, Mail(x, v, w) PROVE IsMail(SubSeq(x, v, w), x, U, v, w)  OBVIOUS
<1> QED BY FoundMail

\* Of two addresses of a text the first is not the end of the second.
LEMMA NoLongerMail ==
  ASSUME NEW U, NEW x \in Seq(U), Endless(x), NEW p, NEW e, NEW q, NEW f,
         Address(x, p, e), Address(x, q, f), e < q,
         NEW t, NEW a \in Nat, NEW b \in Nat, b < a,
         Occurs(t, SubSeq(x, p, e), a), Occurs(t, SubSeq(x, q, f), b),
         a + Len(SubSeq(x, p, e)) - 1 = b + Len(SubSeq(x, q, f)) - 1
  PROVE  FALSE
<1> DEFINE m == SubSeq(x, p, e)
           l == SubSeq(x, q, f)
<1>1. Mail(x, p, e) /\ Mail(x, q, f)  BY DEF Address, Mail
<1>2. /\ Len(x) \in Nat /\ e \in 1..Len(x) /\ p \in 1..e - 1 /\ f \in 1..Len(x) /\ q \in 1..f - 1
  BY LenProperties DEF Address
<1>3. /\ Len(m) = e - p + 1 /\ Len(l) = f - q + 1
      /\ \A i \in 1..e - p + 1 : m[i] = x[p + i - 1]
      /\ \A i \in 1..f - q + 1 : l[i] = x[q + i - 1]
  <2>1. \A v, w : Mail(x, v, w)
          => /\ Len(SubSeq(x, v, w)) = w - v + 1
             /\ \A i \in 1..w - v + 1 : SubSeq(x, v, w)[i] = x[v + i - 1]
    BY FoundMails DEF IsMail
  <2> QED BY <1>1, <2>1
<1>4. /\ \A i \in 1..Len(m) : t[a + i - 1] = m[i]
      /\ \A i \in 1..Len(l) : t[b + i - 1] = l[i]
      /\ a + Len(m) - 1 = b + Len(l) - 1
  BY DEF Occurs
<1> HIDE DEF m, l
<1>5. a + (e - p) = b + (f - q)  BY <1>2, <1>3, <1>4
<1>6. e - p < f - q  BY <1>2, <1>5
<1>7. \A k \in 0..e - p : x[f - k] = x[e - k]
  <2> SUFFICES ASSUME NEW k \in 0..e - p PROVE x[f - k] = x[e - k]  OBVIOUS
  <2> DEFINE i == e - p + 1 - k
             j == f - q + 1 - k
  <2>1. i \in 1..Len(m) /\ i \in 1..e - p + 1 /\ p + i - 1 = e - k  BY <1>2, <1>3
  <2>2. j \in 1..Len(l) /\ j \in 1..f - q + 1 /\ q + j - 1 = f - k  BY <1>2, <1>3, <1>6
  <2>3. a + i - 1 = b + j - 1  BY <1>2, <1>5
  <2> HIDE DEF i, j
  <2>4. t[a + i - 1] = x[e - k]  BY <2>1, <1>3, <1>4
  <2>5. t[b + j - 1] = x[f - k]  BY <2>2, <1>3, <1>4
  <2> QED BY <2>3, <2>4, <2>5
<1>8. p \in 1..Len(x) /\ q \in 1..Len(x) /\ p < q  BY <1>2
<1>9. e - p <= f - q  BY <1>2, <1>6
<1>10. f - q = e - p  BY <1>7, <1>8, <1>9 DEF Endless
<1> QED BY <1>2, <1>6, <1>10

\* Letters that are left have the "@" of their address behind them, which is
\* then found.
LEMMA NoLettersLeft ==
  ASSUME NEW U, NEW t \in Seq(U), Letters(t),
         \A p \in 1..Len(t) : \A e \in p..Len(t) : ~Matches("email", t, p, e)
  PROVE  \A p \in 1..Len(t) : ~Has(t, p, "word")
<1>0. Len(t) \in Nat  BY LenProperties
<1> SUFFICES ASSUME NEW p \in 1..Len(t), Has(t, p, "word") PROVE FALSE  OBVIOUS
<1> DEFINE T == {r \in Nat : r > p /\ ~Has(t, r, "word")}
<1>1. PICK r \in T : \A s \in T : r <= s
  <2>1. Len(t) + 1 \notin 1..Len(t)  BY <1>0
  <2>2. Len(t) + 1 \in T  BY <1>0, <2>1 DEF Has
  <2>3. T \in SUBSET Nat /\ T # {}  BY <2>2
  <2> HIDE DEF T
  <2> QED BY <2>3, Least
<1>2. \A s \in p..r - 1 : Has(t, s, "word")
  <2> SUFFICES ASSUME NEW s \in p..r - 1 PROVE Has(t, s, "word")  OBVIOUS
  <2>1. s \in Nat /\ ~(r <= s)  BY <1>1
  <2>2. s \notin T  BY <1>1, <2>1
  <2>3. s > p \/ s = p  OBVIOUS
  <2> QED BY <2>1, <2>2, <2>3
<1>3. r \in Nat /\ r > p /\ ~Has(t, r, "word") /\ r - 1 \in p..r - 1 /\ (r - 1) + 1 = r  BY <1>1
<1>4. Has(t, r, "at")
  <2>1. Has(t, r - 1, "word") /\ r - 1 \in 1..Len(t)  BY <1>2, <1>3 DEF Has
  <2>2. Has(t, (r - 1) + 1, "word") \/ Has(t, (r - 1) + 1, "at")  BY <2>1 DEF Letters
  <2> QED BY <1>3, <2>2
<1>5. Mail(t, p, r)
  <2>1. r \in 1..Len(t) /\ p \in 1..r - 1  BY <1>3, <1>4 DEF Has
  <2> QED BY <1>2, <1>4, <2>1 DEF Mail
<1>6. Matches("email", t, p, r)  BY <1>5, MailsAre
<1>7. r \in p..Len(t)  BY <1>3, <1>5 DEF Mail
<1> QED BY <1>6, <1>7

\* What is put for an address leaves no letters but the first, and where no
\* letters stand before the address none are cut off from their "@".
LEMMA LettersKept ==
  ASSUME NEW U, NEW t, NEW m, NEW new, NEW u, NEW o, NEW c, Replaced(U, t, m, new, u, o, c),
         Letters(t), Len(new) = 3, new[1][1] = "initial", new[2][1] = "star", new[3][1] = "at",
         \A a : Occurs(t, m, a) => ~Has(t, a - 1, "word")
  PROVE  /\ Letters(u)
         /\ \A q \in 1..Len(u) : u[q][1] = "word" => c[q] = 0
<1> DEFINE n == Len(u)
<1>1. /\ Len(t) \in Nat /\ n \in Nat
      /\ \A q \in 1..n : /\ o[q] \in 1..Len(t) /\ c[q] \in 0..Len(new)
                         /\ c[q] = 0 => u[q] = t[o[q]] /\ ~Occurs(t, m, o[q])
                         /\ c[q] # 0 => u[q] = new[c[q]] /\ Occurs(t, m, o[q])
  BY PlacesAre
<1>2. /\ \A q \in 1..n - 1 : c[q] = 0 => o[q + 1] = o[q] + 1 /\ c[q + 1] \in {0, 1}
      /\ n # 0 /\ c[n] = 0 => o[n] = Len(t)
  BY DEF Replaced, Origin
<1>3. \A q \in 1..n : c[q] # 0 => u[q][1] \in {"initial", "star", "at"}
  <2> SUFFICES ASSUME NEW q \in 1..n, c[q] # 0 PROVE u[q][1] \in {"initial", "star", "at"}  OBVIOUS
  <2>1. u[q] = new[c[q]] /\ c[q] \in 0..3  BY <1>1
  <2>2. c[q] = 1 \/ c[q] = 2 \/ c[q] = 3  BY <2>1
  <2> QED BY <2>1, <2>2
<1> HIDE DEF n
\* A symbol that was copied, and what is behind it.
<1>4. ASSUME NEW q \in 1..n, c[q] = 0, o[q] + 1 \in 1..Len(t)
      PROVE  /\ q + 1 \in 1..n /\ o[q + 1] = o[q] + 1
             /\ c[q + 1] = 0 => u[q + 1] = t[o[q] + 1]
             /\ c[q + 1] # 0 => c[q + 1] = 1 /\ u[q + 1] = new[1] /\ Occurs(t, m, o[q] + 1)
  <2>1. q # n
    <3> SUFFICES ASSUME q = n PROVE FALSE  OBVIOUS
    <3>1. o[n] = Len(t)  BY <1>1, <1>2, <1>4
    <3> QED BY <3>1, <1>1, <1>4
  <2>2. q \in 1..n - 1 /\ q + 1 \in 1..n  BY <2>1, <1>1
  <2>3. o[q + 1] = o[q] + 1 /\ c[q + 1] \in {0, 1}  BY <2>2, <1>2, <1>4
  <2> QED BY <2>2, <2>3, <1>1
<1>5. \A q \in 1..n : u[q][1] = "word" \/ u[q][1] = "digit" => c[q] = 0 /\ u[q] = t[o[q]] /\ o[q] \in 1..Len(t)
  <2> SUFFICES ASSUME NEW q \in 1..n, u[q][1] = "word" \/ u[q][1] = "digit"
               PROVE  c[q] = 0 /\ u[q] = t[o[q]] /\ o[q] \in 1..Len(t)
    OBVIOUS
  <2>1. c[q] = 0  BY <1>3
  <2> QED BY <2>1, <1>1
<1>6. ASSUME NEW q \in 1..n, Has(u, q, "word") PROVE Has(u, q + 1, "word") \/ Has(u, q + 1, "at")
  <2>1. c[q] = 0 /\ u[q] = t[o[q]] /\ o[q] \in 1..Len(t) /\ Has(t, o[q], "word")
    BY <1>5, <1>6 DEF Has
  <2>2. Has(t, o[q] + 1, "word") \/ Has(t, o[q] + 1, "at")  BY <2>1 DEF Letters
  <2>3. o[q] + 1 \in 1..Len(t)  BY <2>2 DEF Has
  <2>4. /\ q + 1 \in 1..n
        /\ c[q + 1] = 0 => u[q + 1] = t[o[q] + 1]
        /\ c[q + 1] # 0 => Occurs(t, m, o[q] + 1)
    BY <1>4, <2>1, <2>3
  <2>5. ~Occurs(t, m, o[q] + 1)
    <3>1. (o[q] + 1) - 1 = o[q]  BY <2>1
    <3> QED BY <2>1, <3>1
  <2> QED BY <2>2, <2>4, <2>5 DEF Has, n
<1>7. ASSUME NEW q \in 1..n, Has(u, q, "digit"), NEW k \in {"word", "at"}, Has(u, q + 1, k) PROVE FALSE
  <2>1. c[q] = 0 /\ u[q] = t[o[q]] /\ o[q] \in 1..Len(t) /\ Has(t, o[q], "digit")
    BY <1>5, <1>7 DEF Has
  <2>2. ~Has(t, o[q] + 1, k)  BY <2>1, <1>7 DEF Letters
  <2>3. q + 1 \in 1..n /\ u[q + 1][1] = k /\ q \in 1..n - 1  BY <1>1, <1>7 DEF Has, n
  <2>4. o[q + 1] = o[q] + 1 /\ c[q + 1] \in {0, 1}  BY <2>1, <2>3, <1>2
  <2>5. o[q + 1] \in 1..Len(t) /\ (c[q + 1] = 0 => u[q + 1] = t[o[q + 1]]) /\ (c[q + 1] # 0 => u[q + 1] = new[c[q + 1]])
    BY <2>3, <1>1
  <2>6. CASE c[q + 1] = 0  BY <2>2, <2>3, <2>4, <2>5, <2>6 DEF Has
  <2>7. CASE c[q + 1] = 1
    <3>1. u[q + 1] = new[1]  BY <2>5, <2>7
    <3>2. k = "initial"  BY <2>3, <3>1
    <3> QED BY <1>7, <3>2
  <2> QED BY <2>4, <2>6, <2>7
<1>8. Letters(u)  BY <1>6, <1>7 DEF Letters, n
<1> QED BY <1>5, <1>8 DEF n

\* A match that begins further left would be left to do: of an address that
\* ends the same, which comes later.
LEMMA NoneBefore ==
  ASSUME NEW U, NEW x \in Seq(U), Letters(x), Endless(x),
         NEW found \in Seq(Seq(U)), NEW pos, NEW last, FoundFrom("email", x, 1, found, pos, last),
         NEW k \in 1..Len(found), NEW t \in Seq(U), Letters(t), Open("email", t, found, k - 1),
         NEW a, Occurs(t, found[k], a)
  PROVE  ~Has(t, a - 1, "word")
<1> SUFFICES ASSUME Has(t, a - 1, "word") PROVE FALSE  OBVIOUS
<1>0. Len(x) \in Nat /\ Len(found) \in Nat /\ Len(t) \in Nat  BY LenProperties
<1>1. \A j \in 1..Len(found) : Address(x, pos[j], last[j]) /\ found[j] = SubSeq(x, pos[j], last[j])
  BY AddressesFound
<1> DEFINE m == found[k]
           L == Len(m)
           e == a + L - 1
<1>2. Mail(x, pos[k], last[k])  BY <1>1 DEF Address, Mail
<1>3. /\ L \in Nat /\ L > 1 /\ m[L][1] = "at" /\ \A i \in 1..L - 1 : m[i][1] = "word"
  <2> DEFINE p == pos[k]
             f == last[k]
  <2>1. m = SubSeq(x, p, f) /\ Mail(x, p, f)  BY <1>1, <1>2
  <2>2. p \in Int /\ f \in Int  BY <1>0, <2>1 DEF Mail
  <2> HIDE DEF p, f
  <2>3. /\ Len(SubSeq(x, p, f)) = f - p + 1 /\ f - p + 1 \in Nat /\ f - p + 1 > 1
        /\ \A i \in 1..f - p : SubSeq(x, p, f)[i][1] = "word"
        /\ SubSeq(x, p, f)[f - p + 1][1] = "at"
    <3>1. IsMail(SubSeq(x, p, f), x, U, p, f)  BY <2>1, FoundMails
    <3> QED BY <3>1 DEF IsMail
  <2>4. (f - p + 1) - 1 = f - p  BY <2>2
  <2> QED BY <2>1, <2>3, <2>4
<1>4. /\ a \in 1..Len(t) /\ e <= Len(t) /\ \A i \in 1..L : t[a + i - 1] = m[i]  BY DEF Occurs
<1>5. a - 1 \in 1..Len(t) /\ t[a - 1][1] = "word"  BY DEF Has
<1> HIDE DEF m, L
<1>6. Mail(t, a - 1, e)
  <2>1. e \in 1..Len(t) /\ a - 1 \in 1..e - 1  BY <1>0, <1>3, <1>4, <1>5
  <2>2. Has(t, e, "at")
    <3>1. L \in 1..L  BY <1>3
    <3>2. t[e] = m[L]  BY <3>1, <1>4
    <3> QED BY <1>3, <2>1, <3>2 DEF Has
  <2>3. ASSUME NEW r \in a - 1..e - 1 PROVE Has(t, r, "word")
    <3>1. CASE r = a - 1  BY <3>1
    <3>2. CASE r # a - 1
      <4> DEFINE i == r - a + 1
      <4>1. i \in 1..L - 1 /\ i \in 1..L /\ a + i - 1 = r /\ r \in 1..Len(t)
        BY <1>0, <1>3, <1>4, <1>5, <3>2
      <4> HIDE DEF i, e
      <4>2. t[a + i - 1] = m[i] /\ m[i][1] = "word"  BY <4>1, <1>3, <1>4
      <4> QED BY <4>1, <4>2 DEF Has
    <3> QED BY <3>1, <3>2
  <2> QED BY <2>1, <2>2, <2>3 DEF Mail
<1>7. Matches("email", t, a - 1, e) /\ e \in a - 1..Len(t)
  <2>1. e \in a - 1..Len(t)  BY <1>0, <1>3, <1>4
  <2> HIDE DEF e
  <2> QED BY <1>5, <1>6, <2>1, MailsAre
<1> HIDE DEF e
<1>8. PICK j \in (k - 1) + 1..Len(found), b \in 1..a - 1 :
        Occurs(t, found[j], b) /\ b + Len(found[j]) - 1 = e
  BY <1>5, <1>7 DEF Open
<1>9. k \in Nat /\ j \in 1..Len(found) /\ k <= j /\ a \in Nat /\ b \in Nat /\ b < a  BY <1>0, <1>4, <1>8
<1>10. k # j
  <2> SUFFICES ASSUME k = j PROVE FALSE  OBVIOUS
  <2>1. b + L - 1 = a + L - 1  BY <1>8 DEF e, m, L
  <2> QED BY <2>1, <1>3, <1>9
<1>11. last[k] < pos[j]
  <2>1. k < j  BY <1>9, <1>10
  <2> QED BY <1>9, <2>1 DEF FoundFrom
<1>12. /\ Occurs(t, SubSeq(x, pos[k], last[k]), a) /\ Occurs(t, SubSeq(x, pos[j], last[j]), b)
       /\ a + Len(SubSeq(x, pos[k], last[k])) - 1 = b + Len(SubSeq(x, pos[j], last[j])) - 1
  <2>1. found[k] = SubSeq(x, pos[k], last[k]) /\ found[j] = SubSeq(x, pos[j], last[j])  BY <1>1, <1>9
  <2>2. a + Len(found[k]) - 1 = b + Len(found[j]) - 1  BY <1>8 DEF e, m, L
  <2> QED BY <2>1, <2>2, <1>8
<1>13. Address(x, pos[k], last[k]) /\ Address(x, pos[j], last[j])  BY <1>1, <1>9
<1> QED BY <1>9, <1>11, <1>12, <1>13, NoLongerMail

\* The pattern of addresses comes last, and leaves no letters.
LEMMA MailsMasked ==
  ASSUME NEW U, <<"star">> \in U, \A s \in U : s[1] = "word" => <<"initial", s[2]>> \in U,
         NEW x \in Seq(U), Letters(x), Endless(x)
  PROVE  /\ Masked(x, "email") \in Seq(U)
         /\ \A p \in 1..Len(Masked(x, "email")) : ~Has(Masked(x, "email"), p, "word")
<1> DEFINE G == {t \in Seq(U) : Letters(t)}
           E == {s \in U : s[1] = "at"}
           found == FindAll("email", x)
           y == Masked(x, "email")
<1>0. Len(x) \in Nat /\ \A p \in 1..Len(x) : x[p] \in U  BY LenProperties, ElementOfSeq
<1>1. \A t \in Seq(U) : Letters(t) =>
        \A p \in 1..Len(t) : \A e : Matches("email", t, p, e) <=> Mail(t, p, e)
  BY MailsAre
<1>2. Bounded("email", x)
  <2> SUFFICES ASSUME NEW p \in 1..Len(x), NEW e, Matches("email", x, p, e) PROVE e \in p..Len(x)
    BY DEF Bounded
  <2>1. Mail(x, p, e)  BY <1>1
  <2> QED BY <2>1, <1>0 DEF Mail
<1>3. Ends("email", x, E)
  <2> SUFFICES ASSUME NEW p \in 1..Len(x), NEW e, Matches("email", x, p, e)
               PROVE  x[e] \in E /\ \A r \in p..e - 1 : x[r] \notin E
    BY DEF Ends
  <2>1. Mail(x, p, e)  BY <1>1
  <2>2. x[e] \in E  BY <2>1, <1>0 DEF Mail, Has
  <2>3. \A r \in p..e - 1 : x[r][1] = "word"  BY <2>1 DEF Mail, Has
  <2> QED BY <2>2, <2>3
<1>4. found \in Seq(Seq(U)) /\ \E pos, last : FoundFrom("email", x, 1, found, pos, last)
  BY <1>2, FindAllIs
<1>5. PICK pos, last : FoundFrom("email", x, 1, found, pos, last)  BY <1>4
<1> HIDE DEF found
<1>6. \A k \in 1..Len(found) :
        /\ found[k] \in Seq(U) /\ Len(found[k]) > 0 /\ Has(found[k], 1, "word") /\ <<"initial", found[k][1][2]>> \in U
        /\ found[k][Len(found[k])][1] = "at"
  <2> SUFFICES ASSUME NEW k \in 1..Len(found)
               PROVE  /\ found[k] \in Seq(U) /\ Len(found[k]) > 0 /\ Has(found[k], 1, "word")
                      /\ <<"initial", found[k][1][2]>> \in U
                      /\ found[k][Len(found[k])][1] = "at"
    OBVIOUS
  <2> DEFINE m == found[k]
             p == pos[k]
             f == last[k]
  <2>1. m = SubSeq(x, p, f) /\ Mail(x, p, f)
    <3>1. Address(x, pos[k], last[k]) /\ found[k] = SubSeq(x, pos[k], last[k])  BY <1>4, <1>5, AddressesFound
    <3> QED BY <3>1 DEF Address, Mail
  <2>2. p \in Int /\ f \in Int  BY <1>0, <2>1 DEF Mail
  <2> HIDE DEF m, p, f
  <2>3. /\ m \in Seq(U) /\ Len(m) = f - p + 1 /\ f - p + 1 \in Nat /\ f - p + 1 > 1
        /\ \A i \in 1..f - p + 1 : m[i] \in U
        /\ \A i \in 1..f - p : m[i][1] = "word"
        /\ m[f - p + 1][1] = "at"
    <3>1. IsMail(m, x, U, p, f)  BY <2>1, FoundMails
    <3> QED BY <2>1, <3>1 DEF IsMail
  <2>4. 1 \in 1..f - p /\ 1 \in 1..f - p + 1 /\ 1 \in 1..Len(m) /\ Len(m) > 0  BY <2>2, <2>3
  <2>5. m[1] \in U /\ m[1][1] = "word"  BY <2>3, <2>4
  <2>6. <<"initial", m[1][2]>> \in U  BY <2>5
  <2> QED BY <2>3, <2>4, <2>5, <2>6 DEF Has, m
<1>7. \A k \in 1..Len(found) :
        /\ Mask("email", found[k]) \in Seq(U) /\ Len(Mask("email", found[k])) = 3
        /\ Mask("email", found[k])[1] = <<"initial", found[k][1][2]>> /\ Mask("email", found[k])[2] = <<"star">>
        /\ Mask("email", found[k])[3] = found[k][Len(found[k])]
  BY <1>6, MaskOfMail
<1>8. Replaceable(U, "email", found)
  <2>1. 3 > 0  OBVIOUS
  <2> QED BY <2>1, <1>6, <1>7 DEF Replaceable
<1>9. Keeps("email", U, G, found)
  <2> SUFFICES ASSUME NEW k \in 1..Len(found), NEW t \in G, Open("email", t, found, k - 1),
                      NEW u \in Seq(U), NEW o, NEW c,
                      Replaced(U, t, found[k], Mask("email", found[k]), u, o, c)
               PROVE  u \in G /\ Moves("email", u, t) /\ Clean("email", u, c, Mask("email", found[k]))
    BY DEF Keeps
  <2> DEFINE m == found[k]
             new == Mask("email", found[k])
  <2>1. Len(new) = 3 /\ new[1] = <<"initial", m[1][2]>> /\ new[2] = <<"star">> /\ new[3][1] = "at"
    BY <1>6, <1>7
  <2>2. new[1][1] = "initial" /\ new[2][1] = "star"  BY <2>1
  <2>3. t \in Seq(U) /\ Letters(t) /\ Len(t) \in Nat /\ Len(u) \in Nat  BY LenProperties
  <2>4. \A a : Occurs(t, m, a) => ~Has(t, a - 1, "word")
    <3> SUFFICES ASSUME NEW a, Occurs(t, m, a) PROVE ~Has(t, a - 1, "word")  OBVIOUS
    <3> QED BY <2>3, <1>4, <1>5, NoneBefore
  <2>r. Replaced(U, t, m, new, u, o, c)  OBVIOUS
  <2> HIDE DEF m, new
  <2>5. Letters(u) /\ \A q \in 1..Len(u) : u[q][1] = "word" => c[q] = 0
    BY <2>1, <2>2, <2>3, <2>4, <2>r, LettersKept
  <2>6. Moves("email", u, t)
    <3> SUFFICES ASSUME NEW q \in 1..Len(u), NEW p \in 1..Len(t), NEW e \in q..Len(u), Matches("email", u, q, e),
                        p + (e - q) <= Len(t), \A r \in 0..e - q : t[p + r] = u[q + r]
                 PROVE  Matches("email", t, p, p + (e - q))
      BY DEF Moves
    <3> DEFINE f == p + (e - q)
    <3>1. Mail(u, q, e)  BY <1>1, <2>5
    <3>2. q \in 1..e - 1 /\ u[e][1] = "at" /\ \A r \in q..e - 1 : u[r][1] = "word"  BY <3>1 DEF Mail, Has
    <3>3. f \in 1..Len(t) /\ p \in 1..f - 1 /\ f \in Int  BY <2>3, <3>2
    <3>4. \A r \in p..f : t[r] = u[q + (r - p)]
      <4> SUFFICES ASSUME NEW r \in p..f PROVE t[r] = u[q + (r - p)]  OBVIOUS
      <4>1. r - p \in 0..e - q /\ p + (r - p) = r  BY <3>3
      <4>2. t[p + (r - p)] = u[q + (r - p)]  BY <4>1
      <4> QED BY <4>1, <4>2
    <3>5. Has(t, f, "at")
      <4>0. \A h, i, j \in Int : h + ((i + (j - h)) - i) = j  OBVIOUS
      <4>1. f \in p..f /\ p \in Int /\ q \in Int /\ e \in Int  BY <3>3
      <4>3. q + (f - p) = e  BY <4>0, <4>1
      <4>2. t[f] = u[e]  BY <3>4, <4>1, <4>3
      <4> QED BY <3>2, <3>3, <4>2 DEF Has
    <3>6. ASSUME NEW r \in p..f - 1 PROVE Has(t, r, "word")
      <4>1. r \in p..f /\ q + (r - p) \in q..e - 1 /\ r \in 1..Len(t)  BY <2>3, <3>3
      <4>2. t[r][1] = "word"  BY <3>2, <3>4, <4>1
      <4> QED BY <4>1, <4>2 DEF Has
    <3> HIDE DEF f
    <3>7. Mail(t, p, f)  BY <3>3, <3>5, <3>6 DEF Mail
    <3> QED BY <1>1, <2>3, <3>7 DEF f
  <2>7. Clean("email", u, c, new)
    <3> SUFFICES ASSUME NEW q \in 1..Len(u), NEW e \in q..Len(u), Matches("email", u, q, e)
                 PROVE  c[q] = 0 /\ \A r \in q..e : u[r] # new[1]
      BY DEF Clean
    <3>1. Mail(u, q, e)  BY <1>1, <2>5
    <3>2. q \in 1..e - 1 /\ u[e][1] = "at" /\ \A r \in q..e - 1 : u[r][1] = "word"  BY <3>1 DEF Mail, Has
    <3>3. q \in q..e - 1 /\ \A r \in q..e : r = e \/ r \in q..e - 1  BY <3>2
    <3>4. \A r \in q..e : u[r][1] \in {"word", "at"}  BY <3>2, <3>3
    <3>5. \A r \in q..e : u[r] # new[1]  BY <2>2, <3>4
    <3>6. c[q] = 0  BY <2>5, <3>2, <3>3
    <3> QED BY <3>5, <3>6
  <2> QED BY <2>5, <2>6, <2>7 DEF new
<1>10. G \in SUBSET Seq(U) /\ x \in G  OBVIOUS
<1>g. \A t : t \in G => t \in Seq(U) /\ Letters(t)  OBVIOUS
<1> HIDE DEF G, E
<1>11. y \in G /\ \A p \in 1..Len(y) : \A e \in p..Len(y) : ~Matches("email", y, p, e)
  BY <1>2, <1>3, <1>8, <1>9, <1>10, AllMasked DEF found
<1> HIDE DEF y
<1>12. y \in Seq(U) /\ Letters(y)  BY <1>11, <1>g
<1>13. \A p \in 1..Len(y) : ~Has(y, p, "word")  BY <1>11, <1>12, NoLettersLeft
<1> QED BY <1>12, <1>13 DEF y

-----------------------------------------------------------------------------
(* Masking: the texts there are                                            *)

\* Of two numbers no digits follow each other with a space between them or none.
NumbersApart(t) ==
  \A i, j \in 1..Len(t) :
    (i < j /\ j <= i + 2 /\ t[i][1] = "digit" /\ t[j][1] = "digit"
      /\ \A k \in i..j : t[k][1] \in {"digit", "space"})
    => t[i][2] = t[j][2] /\ t[i][3] <= t[j][3]

\* Where a digit has the next one, and the one before.
NextAt(t, p, n, k) ==
  \/ DigitAt(t, p + 1, n, k + 1)
  \/ k \in (IF Lengths[n] = 12 THEN {4, 8} ELSE {0}) /\ Has(t, p + 1, "space") /\ DigitAt(t, p + 2, n, k + 1)
LastAt(t, p, n, k) ==
  \/ DigitAt(t, p - 1, n, k - 1)
  \/ Has(t, p - 1, "space") /\ DigitAt(t, p - 2, n, k - 1)

\* Written, symbol by symbol.
LEMMA WrittenIs ==
  ASSUME NEW U, NEW t \in Seq(U), Written(t), NEW p \in 1..Len(t)
  PROVE  /\ Has(t, p, "digit") =>
              /\ DigitOk(t[p])
              /\ t[p][3] < Lengths[t[p][2]] => NextAt(t, p, t[p][2], t[p][3])
              /\ t[p][3] \notin {-1, 1} => LastAt(t, p, t[p][2], t[p][3])
              /\ ~Has(t, p + 1, "word") /\ ~Has(t, p + 1, "at")
         /\ Has(t, p, "word") => Has(t, p + 1, "word") \/ Has(t, p + 1, "at")
         /\ Has(t, p, "plus") => Has(t, p + 1, "digit") /\ t[p + 1][3] = -1
         /\ ~Has(t, p, "star")
<1> DEFINE digit(i, n, k) == Kind(t, i) = "digit" /\ t[i][2] = n /\ t[i][3] = k
           break(n, k) == k \in IF Lengths[n] = 12 THEN {4, 8} ELSE {0}
           followed(i, n, k) == \/ digit(i + 1, n, k + 1)
                                \/ break(n, k) /\ Kind(t, i + 1) = "space" /\ digit(i + 2, n, k + 1)
           preceded(i, n, k) == \/ digit(i - 1, n, k - 1)
                                \/ break(n, k - 1) /\ Kind(t, i - 1) = "space" /\ digit(i - 2, n, k - 1)
           n0 == t[p][2]
           k0 == t[p][3]
           AsDigit == /\ n0 \in DOMAIN Lengths /\ Lengths[n0] \in {10, 12}
                      /\ k0 \in (IF Lengths[n0] = 12 THEN 1 ELSE -1)..Lengths[n0]
                      /\ Lengths[n0] = 10 /\ k0 = 1 => t[p][4]
                      /\ k0 < Lengths[n0] => followed(p, n0, k0)
                      /\ k0 \notin {-1, 1} => preceded(p, n0, k0)
                      /\ Kind(t, p + 1) \notin {"word", "at"}
           AsWord == Kind(t, p + 1) \in {"word", "at"}
           AsPlus == Kind(t, p + 1) = "digit" /\ t[p + 1][3] = -1
           AsOther == Kind(t, p) \in {"pan", "at", "space", "comma"}
<1>0. DOMAIN t = 1..Len(t)  BY LenProperties
<1>1. (CASE Kind(t, p) = "digit" -> AsDigit
         [] Kind(t, p) = "word" -> AsWord
         [] Kind(t, p) = "plus" -> AsPlus
         [] OTHER -> AsOther)
  BY <1>0, Zenon DEF Written
<1>2. \A i, n, k : digit(i, n, k) <=> DigitAt(t, i, n, k)
  <2>1. \A i : Kind(t, i) = "digit" <=> Has(t, i, "digit")  BY KindIs
  <2> QED BY <2>1 DEF DigitAt
<1>3. \A i : /\ Kind(t, i) = "space" <=> Has(t, i, "space")
             /\ Kind(t, i) = "word" <=> Has(t, i, "word")
             /\ Kind(t, i) = "at" <=> Has(t, i, "at")
             /\ Kind(t, i) = "digit" <=> Has(t, i, "digit")
             /\ Kind(t, i) = "plus" <=> Has(t, i, "plus")
             /\ Kind(t, i) = "star" <=> Has(t, i, "star")
  BY KindIs
<1> HIDE DEF digit
<1>4. \A i, n, k : followed(i, n, k) => NextAt(t, i, n, k)  BY <1>2, <1>3 DEF NextAt
<1>5. \A i, n, k : preceded(i, n, k) => LastAt(t, i, n, k)  BY <1>2, <1>3 DEF LastAt
<1> HIDE DEF followed, preceded
<1>6. AsDigit => /\ DigitOk(t[p])
                 /\ k0 < Lengths[n0] => NextAt(t, p, n0, k0)
                 /\ k0 \notin {-1, 1} => LastAt(t, p, n0, k0)
                 /\ Kind(t, p + 1) \notin {"word", "at"}
  <2> SUFFICES ASSUME AsDigit
               PROVE  /\ DigitOk(t[p])
                      /\ k0 < Lengths[n0] => NextAt(t, p, n0, k0)
                      /\ k0 \notin {-1, 1} => LastAt(t, p, n0, k0)
                      /\ Kind(t, p + 1) \notin {"word", "at"}
    OBVIOUS
  <2>1. DigitOk(t[p])  BY Zenon DEF DigitOk
  <2>2. k0 < Lengths[n0] => NextAt(t, p, n0, k0)  BY <1>4, Zenon
  <2>3. k0 \notin {-1, 1} => LastAt(t, p, n0, k0)  BY <1>5, Zenon
  <2>4. Kind(t, p + 1) \notin {"word", "at"}  BY Zenon
  <2> QED BY <2>1, <2>2, <2>3, <2>4
<1> HIDE DEF AsDigit, n0, k0
<1>7. Kind(t, p) = "digit" => AsDigit  BY <1>1
<1>8. Kind(t, p) = "word" => AsWord
  <2> HIDE DEF AsWord, AsPlus, AsOther
  <2> QED BY <1>1
<1>9. Kind(t, p) = "plus" => AsPlus
  <2> HIDE DEF AsWord, AsPlus, AsOther
  <2> QED BY <1>1
<1>10. Kind(t, p) # "star"  BY <1>1
<1>11. Has(t, p, "digit") =>
         /\ DigitOk(t[p])
         /\ k0 < Lengths[n0] => NextAt(t, p, n0, k0)
         /\ k0 \notin {-1, 1} => LastAt(t, p, n0, k0)
         /\ ~Has(t, p + 1, "word") /\ ~Has(t, p + 1, "at")
  BY <1>3, <1>6, <1>7
<1>12. Has(t, p, "word") => Has(t, p + 1, "word") \/ Has(t, p + 1, "at")  BY <1>3, <1>8
<1>13. Has(t, p, "plus") => Has(t, p + 1, "digit") /\ t[p + 1][3] = -1  BY <1>3, <1>9
<1>14. ~Has(t, p, "star")  BY <1>3, <1>10
<1> QED BY <1>11, <1>12, <1>13, <1>14 DEF n0, k0

\* A text whose numbers are written in full and kept apart is legible.
LEMMA WrittenIsLegible ==
  ASSUME NEW U, NEW t \in Seq(U), Written(t), NumbersApart(t)
  PROVE  Legible(t)
<1>0. Len(t) \in Nat  BY LenProperties
<1>1. \A p \in 1..Len(t) :
        /\ Has(t, p, "digit") =>
             /\ DigitOk(t[p])
             /\ t[p][3] < Lengths[t[p][2]] => NextAt(t, p, t[p][2], t[p][3])
             /\ t[p][3] \notin {-1, 1} => LastAt(t, p, t[p][2], t[p][3])
             /\ ~Has(t, p + 1, "word") /\ ~Has(t, p + 1, "at")
        /\ Has(t, p, "word") => Has(t, p + 1, "word") \/ Has(t, p + 1, "at")
        /\ Has(t, p, "plus") => Has(t, p + 1, "digit") /\ t[p + 1][3] = -1
        /\ ~Has(t, p, "star")
  BY WrittenIs
<1>2. Digits(t)  BY <1>1 DEF Digits
<1>3. Onwards(t)  BY <1>1 DEF Onwards, NextAt, DigitAt, Breaks
<1>4. Backwards(t)  BY <1>1 DEF Backwards, LastAt, DigitAt
<1>5. Marks(t)  BY <1>1 DEF Marks
<1>6. Letters(t)  BY <1>1 DEF Letters
<1>7. \A p, k, l : k # l /\ Has(t, p, k) => ~Has(t, p, l)  BY DEF Has
\* The next digit is the next one of the number: no number begins behind the
\* last digit of another.
<1>8. ASSUME NEW p \in 1..Len(t), Has(t, p, "digit"), NEW q \in {p + 1, p + 2}, Has(t, q, "digit"),
             q = p + 2 => Has(t, p + 1, "space")
      PROVE  IsNext(t[p], t[q])
  <2> DEFINE L == Lengths[t[p][2]]
  <2>1. q \in 1..Len(t) /\ t[p][1] = "digit" /\ t[q][1] = "digit"  BY <1>8 DEF Has
  <2>2. \A k \in p..q : t[k][1] \in {"digit", "space"}
    <3> SUFFICES ASSUME NEW k \in p..q PROVE t[k][1] \in {"digit", "space"}  OBVIOUS
    <3>1. CASE k = p \/ k = q  BY <3>1, <2>1
    <3>2. CASE k # p /\ k # q
      <4>1. q = p + 2 /\ k = p + 1  BY <3>2, <1>8
      <4> QED BY <4>1, <1>8 DEF Has
    <3> QED BY <3>1, <3>2
  <2>3. t[q][2] = t[p][2] /\ t[p][3] <= t[q][3]
    <3>1. p < q /\ q <= p + 2  BY <1>8
    <3> QED BY <2>1, <2>2, <3>1 DEF NumbersApart
  <2>4. DigitOk(t[p]) /\ DigitOk(t[q])  BY <1>1, <1>8, <2>1
  <2>5. L \in {10, 12} /\ t[p][3] \in -1..L /\ t[q][3] \in -1..L
    <3>1. /\ Lengths[t[p][2]] \in {10, 12}
          /\ t[p][3] \in (IF Lengths[t[p][2]] = 12 THEN 1 ELSE -1)..Lengths[t[p][2]]
          /\ t[q][3] \in (IF Lengths[t[q][2]] = 12 THEN 1 ELSE -1)..Lengths[t[q][2]]
      BY <2>4, Zenon DEF DigitOk
    <3>2. Lengths[t[q][2]] = L  BY <2>3
    <3> HIDE DEF L
    <3>3. L \in {10, 12} /\ t[p][3] \in (IF L = 12 THEN 1 ELSE -1)..L /\ t[q][3] \in (IF L = 12 THEN 1 ELSE -1)..L
      BY <3>1, <3>2 DEF L
    <3> QED BY <3>3
  <2>6. CASE t[p][3] < L
    <3>1. NextAt(t, p, t[p][2], t[p][3])  BY <1>1, <1>8, <2>6
    <3>2. q = p + 1 \/ q = p + 2  BY <1>8
    <3>3. ~(q = p + 1 /\ Has(t, p + 1, "space")) /\ ~(q = p + 2 /\ Has(t, p + 1, "digit"))  BY <1>7, <1>8
    <3>4. DigitAt(t, q, t[p][2], t[p][3] + 1)  BY <3>1, <3>2, <3>3 DEF NextAt, DigitAt
    <3> QED BY <3>4 DEF DigitAt, IsNext
  <2>7. CASE ~(t[p][3] < L)
    <3> DEFINE a == t[p][3]
               b == t[q][3]
    <3>1. a \in Int /\ b \in Int /\ a = L /\ b = L /\ L \in {10, 12}
      <4>1. a <= b /\ ~(a < L) /\ L \in {10, 12} /\ a \in -1..L /\ b \in -1..L  BY <2>3, <2>5, <2>7
      <4> HIDE DEF a, b, L
      <4> QED BY <4>1
    <3>2. b \notin {-1, 1}
      <4> HIDE DEF a, b, L
      <4> QED BY <3>1
    <3>3. LastAt(t, q, t[q][2], b)  BY <1>1, <1>8, <2>1, <3>2
    <3>4. q = p + 1 \/ q = p + 2  BY <1>8
    <3>5. (p + 1) - 1 = p /\ (p + 2) - 1 = p + 1 /\ (p + 2) - 2 = p  OBVIOUS
    <3>6. DigitAt(t, p, t[q][2], b - 1)
      <4> HIDE DEF a, b, L
      <4>1. CASE q = p + 1
        <5>1. q - 1 = p /\ ~Has(t, q - 1, "space")  BY <4>1, <3>5, <1>7, <1>8
        <5> QED BY <3>3, <5>1 DEF LastAt
      <4>2. CASE q = p + 2
        <5>1. q - 1 = p + 1 /\ q - 2 = p /\ ~Has(t, q - 1, "digit")  BY <4>2, <3>5, <1>7, <1>8
        <5> QED BY <3>3, <5>1 DEF LastAt, DigitAt
      <4> QED BY <3>4, <4>1, <4>2
    <3>7. a = b - 1  BY <3>6 DEF DigitAt
    <3> HIDE DEF a, b, L
    <3> QED BY <3>1, <3>7
  <2> QED BY <2>6, <2>7
<1>9. Runs(t)
  <2> SUFFICES ASSUME NEW p \in 1..Len(t), Has(t, p, "digit")
               PROVE  /\ Has(t, p + 1, "digit") => IsNext(t[p], t[p + 1])
                      /\ Has(t, p + 1, "space") /\ Has(t, p + 2, "digit") => IsNext(t[p], t[p + 2])
    BY DEF Runs
  <2>1. p + 1 # p + 2 /\ p + 1 \in {p + 1, p + 2} /\ p + 2 \in {p + 1, p + 2}  OBVIOUS
  <2>2. Has(t, p + 1, "digit") => IsNext(t[p], t[p + 1])
    <3> SUFFICES ASSUME Has(t, p + 1, "digit") PROVE IsNext(t[p], t[p + 1])  OBVIOUS
    <3> QED BY <2>1, <1>8
  <2>3. Has(t, p + 1, "space") /\ Has(t, p + 2, "digit") => IsNext(t[p], t[p + 2])
    <3> SUFFICES ASSUME Has(t, p + 1, "space"), Has(t, p + 2, "digit") PROVE IsNext(t[p], t[p + 2])  OBVIOUS
    <3> QED BY <2>1, <1>8
  <2> QED BY <2>2, <2>3
<1> QED BY <1>2, <1>3, <1>4, <1>5, <1>6, <1>9 DEF Legible

\* A suffix, symbol by symbol from the end.
LEMMA Reversed ==
  ASSUME NEW U, NEW s \in Seq(U)
  PROVE  /\ Reverse(s) \in Seq(U) /\ Len(Reverse(s)) = Len(s)
         /\ \A i \in 1..Len(s) : Reverse(s)[i] = s[Len(s) - i + 1]
<1> DEFINE n == Len(s)
           f == [i \in 1..n |-> s[(n - i) + 1]]
<1>1. n \in Nat  BY LenProperties
<1>2. f \in [1..n -> U]
  <2>1. \A i \in 1..n : s[(n - i) + 1] \in U
    <3> SUFFICES ASSUME NEW i \in 1..n PROVE s[(n - i) + 1] \in U  OBVIOUS
    <3>1. (n - i) + 1 \in 1..n  BY <1>1
    <3> QED BY <3>1, ElementOfSeq
  <2> HIDE DEF n
  <2> QED BY <2>1
<1>3. Reverse(s) = f  BY DEF Reverse
<1>4. \A i \in 1..n : f[i] = s[n - i + 1]  OBVIOUS
<1> HIDE DEF n, f
<1>5. f \in Seq(U) /\ Len(f) = n  BY <1>1, <1>2, SequenceOf
<1> QED BY <1>3, <1>4, <1>5 DEF n

LEMMA SuffixIs ==
  ASSUME NEW U, NEW s \in Seq(U), NEW t \in Seq(U), Len(s) > 0, Len(s) <= Len(t),
         \A k \in 0..Len(s) - 1 : t[Len(t) - k] = s[Len(s) - k]
  PROVE  IsSuffix(s, t)
<1> DEFINE a == Reverse(s)
           b == Reverse(t)
<1>0. Len(s) \in Nat /\ Len(t) \in Nat  BY LenProperties
<1>1. a \in Seq(U) /\ Len(a) = Len(s) /\ \A i \in 1..Len(s) : a[i] = s[Len(s) - i + 1]  BY Reversed
<1>2. b \in Seq(U) /\ Len(b) = Len(t) /\ \A i \in 1..Len(t) : b[i] = t[Len(t) - i + 1]  BY Reversed
<1>3. IsSuffix(s, t) <=> IsPrefix(a, b)  BY DEF IsSuffix
<1> HIDE DEF a, b
<1>4. \A j \in 1..Len(a) : b[1 + j - 1] = a[j]
  <2> SUFFICES ASSUME NEW j \in 1..Len(a) PROVE b[1 + j - 1] = a[j]  OBVIOUS
  <2>1. j \in 1..Len(s) /\ j \in 1..Len(t) /\ 1 + j - 1 = j /\ j - 1 \in 0..Len(s) - 1  BY <1>0, <1>1
  <2>2. Len(t) - j + 1 = Len(t) - (j - 1) /\ Len(s) - j + 1 = Len(s) - (j - 1)  BY <1>0, <2>1
  <2>3. b[j] = t[Len(t) - (j - 1)] /\ a[j] = s[Len(s) - (j - 1)]  BY <1>1, <1>2, <2>1, <2>2
  <2> QED BY <2>1, <2>3
<1>5. Occurs(b, a, 1)
  <2>1. 1 \in 1..Len(b) /\ 1 + Len(a) - 1 <= Len(b)  BY <1>0, <1>1, <1>2
  <2> QED BY <1>4, <2>1 DEF Occurs
<1>6. IsPrefix(a, SubSeq(b, 1, Len(b)))
  <2>1. 1 \in 1..Len(b)  BY <1>0, <1>2
  <2> QED BY <1>1, <1>2, <1>5, <2>1, OccursIs
<1>7. SubSeq(b, 1, Len(b)) = b
  <2> DEFINE n == Len(b)
             d == SubSeq(b, 1, n)
  <2>1. 1 \in Int /\ n \in Int /\ n >= 1 /\ \A k \in 1..n : b[k] \in U  BY <1>0, <1>2, ElementOfSeq
  <2> HIDE DEF n
  <2>2. d \in Seq(U) /\ Len(d) = n - 1 + 1 /\ \A j \in 1..n - 1 + 1 : d[j] = b[1 + j - 1]
    BY <2>1, SubSeqProperties
  <2> HIDE DEF d
  <2>3. Len(d) = n /\ \A j \in 1..n : d[j] = b[j]
    <3>1. n - 1 + 1 = n /\ \A j \in 1..n : 1 + j - 1 = j  BY <2>1
    <3> QED BY <2>2, <3>1
  <2>4. d = b  BY <2>2, <2>3, <1>2, SeqEqual DEF n
  <2> QED BY <2>4 DEF d, n
<1> QED BY <1>3, <1>6, <1>7

\* What is said of the addresses found, said of those there are.
LEMMA EndlessIs ==
  ASSUME NEW U, NEW x \in Seq(U), Letters(x),
         \A i, j \in DOMAIN FindAll("email", x) :
           i < j /\ FindAll("email", x)[i] # FindAll("email", x)[j]
           => ~IsSuffix(FindAll("email", x)[i], FindAll("email", x)[j])
  PROVE  Endless(x)
<1> DEFINE found == FindAll("email", x)
<1>0. Len(x) \in Nat  BY LenProperties
<1>1. \A p \in 1..Len(x) : \A e : Matches("email", x, p, e) <=> Mail(x, p, e)  BY MailsAre
<1>2. Bounded("email", x)
  <2> SUFFICES ASSUME NEW p \in 1..Len(x), NEW e, Matches("email", x, p, e) PROVE e \in p..Len(x)
    BY DEF Bounded
  <2>1. Mail(x, p, e)  BY <1>1
  <2> QED BY <2>1, <1>0 DEF Mail
<1>3. found \in Seq(Seq(U)) /\ \E pos, last : FoundFrom("email", x, 1, found, pos, last)
  BY <1>2, FindAllIs
<1>4. PICK pos, last : FoundFrom("email", x, 1, found, pos, last)  BY <1>3
<1>5. \A i, j \in 1..Len(found) : i < j /\ found[i] # found[j] => ~IsSuffix(found[i], found[j])
  <2>1. DOMAIN found = 1..Len(found)  BY <1>3, LenProperties
  <2> QED BY <2>1
<1> HIDE DEF found
<1>6. \A j \in 1..Len(found) : Address(x, pos[j], last[j]) /\ found[j] = SubSeq(x, pos[j], last[j])
  BY <1>3, <1>4, AddressesFound
<1>f. Len(found) \in Nat  BY <1>3, LenProperties
<1>7. ASSUME NEW p, NEW e, Address(x, p, e)
      PROVE  \E i \in 1..Len(found) : pos[i] = p /\ last[i] = e
  <2>1. Mail(x, p, e)  BY <1>7 DEF Address, Mail
  <2>2. p \in 1..Len(x) /\ 1 <= p /\ e \in 1..Len(x) /\ p \in 1..e - 1  BY <1>0, <2>1 DEF Mail
  <2>3. Matches("email", x, p, e)  BY <1>1, <2>1, <2>2
  <2>4. PICK i \in 1..Len(found) : pos[i] <= p /\ p <= last[i]  BY <1>4, <2>2, <2>3 DEF FoundFrom
  <2>5. Address(x, pos[i], last[i])  BY <1>6
  <2> DEFINE a == pos[i]
             b == last[i]
  <2>6. /\ b \in 1..Len(x) /\ a \in 1..b - 1 /\ x[b][1] = "at"
        /\ \A r \in a..b - 1 : Has(x, r, "word")
    BY <2>5 DEF Address, Has
  <2> HIDE DEF a, b
  <2>7. Has(x, p, "word") /\ ~Has(x, p - 1, "word")
    <3>1. p \in p..e - 1  BY <2>2
    <3> QED BY <1>7, <3>1 DEF Address
  <2>8. a <= p /\ p <= b  BY <2>4 DEF a, b
  <2>9. a = p
    <3> SUFFICES ASSUME a # p PROVE FALSE  OBVIOUS
    <3>1. p - 1 \in a..b - 1  BY <2>2, <2>6, <2>8
    <3> QED BY <2>6, <2>7, <3>1
  <2>10. Mail(x, p, b)  BY <2>5, <2>9 DEF Address, Mail, a, b
  <2>11. Matches("email", x, p, b)  BY <1>1, <2>2, <2>10
  <2>12. b = e  BY <2>3, <2>11 DEF Matches
  <2> QED BY <2>9, <2>12 DEF a, b
<1> SUFFICES ASSUME NEW p \in 1..Len(x), NEW q \in 1..Len(x), NEW e, NEW f, p < q,
                    Address(x, p, e), Address(x, q, f), e - p <= f - q,
                    \A k \in 0..e - p : x[f - k] = x[e - k], f - q # e - p
             PROVE  FALSE
  BY DEF Endless
<1>8. PICK i \in 1..Len(found) : pos[i] = p /\ last[i] = e  BY <1>7
<1>9. PICK j \in 1..Len(found) : pos[j] = q /\ last[j] = f  BY <1>7
<1>10. i < j
  <2>1. p \in Int /\ q \in Int /\ e \in Int /\ f \in Int /\ p < e /\ q < f  BY <1>0 DEF Address
  <2>2. CASE i = j  BY <2>2, <1>8, <1>9
  <2>3. CASE j < i
    <3>1. f < p  BY <2>3, <1>4, <1>8, <1>9 DEF FoundFrom
    <3> QED BY <2>1, <3>1
  <2>4. i < j \/ i = j \/ j < i  BY <1>f
  <2> QED BY <2>2, <2>3, <2>4
<1> DEFINE m == SubSeq(x, p, e)
           l == SubSeq(x, q, f)
<1>11. /\ p \in Int /\ e \in Int /\ q \in Int /\ f \in Int
       /\ m \in Seq(U) /\ Len(m) = e - p + 1 /\ l \in Seq(U) /\ Len(l) = f - q + 1 /\ e > p
       /\ \A k \in 1..e - p + 1 : m[k] = x[p + k - 1]
       /\ \A k \in 1..f - q + 1 : l[k] = x[q + k - 1]
  <2>1. Mail(x, p, e) /\ Mail(x, q, f)  BY DEF Address, Mail
  <2>2. p \in Int /\ e \in Int /\ q \in Int /\ f \in Int /\ e > p  BY <1>0 DEF Address
  <2>3. IsMail(m, x, U, p, e) /\ IsMail(l, x, U, q, f)  BY <2>1, FoundMails
  <2> HIDE DEF m, l
  <2>4. m \in Seq(U) /\ Len(m) = e - p + 1 /\ \A k \in 1..e - p + 1 : m[k] = x[p + k - 1]  BY <2>3 DEF IsMail
  <2>5. l \in Seq(U) /\ Len(l) = f - q + 1 /\ \A k \in 1..f - q + 1 : l[k] = x[q + k - 1]  BY <2>3 DEF IsMail
  <2> HIDE DEF m, l
  <2> QED BY <2>2, <2>4, <2>5
<1>12. found[i] = m /\ found[j] = l  BY <1>6, <1>8, <1>9
<1> HIDE DEF m, l
<1>13. m # l  BY <1>11
<1>14. IsSuffix(m, l)
  <2>1. Len(m) > 0 /\ Len(m) <= Len(l)  BY <1>11
  <2>2. ASSUME NEW k \in 0..Len(m) - 1 PROVE l[Len(l) - k] = m[Len(m) - k]
    <3>1. k \in 0..e - p  BY <1>11
    <3>2. Len(m) - k \in 1..e - p + 1 /\ p + (Len(m) - k) - 1 = e - k  BY <1>11
    <3>3. Len(l) - k \in 1..f - q + 1 /\ q + (Len(l) - k) - 1 = f - k  BY <1>11, <3>1
    <3>4. m[Len(m) - k] = x[e - k]  BY <1>11, <3>2
    <3>5. l[Len(l) - k] = x[f - k]  BY <1>11, <3>3
    <3> QED BY <3>1, <3>4, <3>5
  <2> QED BY <1>11, <2>1, <2>2, SuffixIs
<1> QED BY <1>5, <1>10, <1>12, <1>13, <1>14

\* A sequence all of whose elements are in V is one of V.
LEMMA InSequence ==
  ASSUME NEW U, NEW V, NEW s \in Seq(U), \A p \in 1..Len(s) : s[p] \in V
  PROVE  s \in Seq(V)
<1> DEFINE n == Len(s)
<1>1. n \in Nat /\ s = [p \in 1..n |-> s[p]]  BY LenProperties
<1> HIDE DEF n
<1>2. s \in [1..n -> V]  BY <1>1 DEF n
<1> QED BY <1>1, <1>2, SequenceOf

\* The four patterns one after the other: what each needs is left by the one
\* before.
LEMMA TextMasked ==
  ASSUME NEW x, x \in Seq(Range(x)), Written(x), NumbersApart(x),
         \A i, j \in DOMAIN FindAll("email", x) :
           i < j /\ FindAll("email", x)[i] # FindAll("email", x)[j]
           => ~IsSuffix(FindAll("email", x)[i], FindAll("email", x)[j])
  PROVE  \A s \in ToSet(MaskPiiInText(x)) :
           /\ s[1] \notin {"pan", "word"}
           /\ s[1] = "digit" => s[3] <= 0 \/ s[3] > Lengths[s[2]] - 4
<1> DEFINE Star == <<"star">>
           Hidden == {<<"panmask", s[2]>> : s \in Range(x)}
           Initials == {<<"initial", s[2]>> : s \in Range(x)}
           U == Range(x) \cup {Star} \cup Hidden \cup Initials
           V == {s \in U : s[1] # "pan"}
           S == {s \in V : s[1] = "digit" => s[3] <= 0 \/ s[3] > Lengths[s[2]] - 4}
           y1 == Masked(x, "pan")
           y2 == Masked(y1, "aadhaar")
           y3 == Masked(y2, "phone")
           y4 == Masked(y3, "email")
<1>1. MaskPiiInText(x) = y4  BY DEF MaskPiiInText
<1>2. x \in Seq(U)
  <2>1. \A p \in 1..Len(x) : x[p] \in U
    <3> SUFFICES ASSUME NEW p \in 1..Len(x) PROVE x[p] \in Range(x)  OBVIOUS
    <3> QED BY ElementOfSeq
  <2> HIDE DEF U
  <2> QED BY <2>1, InSequence
<1>3. /\ Star \in U /\ Star[1] = "star"
      /\ \A s \in Hidden : s[1] = "panmask"
      /\ \A s \in Initials : s[1] = "initial"
  OBVIOUS
<1>4. \A s \in U : s[1] = "pan" \/ s[1] = "word" => s \in Range(x)
  <2> HIDE DEF Hidden, Initials, Star
  <2> QED BY <1>3
<1>5. \A s \in U : s[1] = "pan" => <<"panmask", s[2]>> \in U
  <2> SUFFICES ASSUME NEW s \in U, s[1] = "pan" PROVE <<"panmask", s[2]>> \in Hidden  OBVIOUS
  <2>1. s \in Range(x)  BY <1>4
  <2> QED BY <2>1
<1>6. \A s \in U : s[1] = "word" => <<"initial", s[2]>> \in Initials
  <2> SUFFICES ASSUME NEW s \in U, s[1] = "word" PROVE <<"initial", s[2]>> \in Initials  OBVIOUS
  <2>1. s \in Range(x)  BY <1>4
  <2> QED BY <2>1
<1>7. \A s \in Initials : s \in U  OBVIOUS
<1> HIDE DEF U, Hidden
<1>8. Star \in V /\ \A s \in Initials : s \in V  BY <1>3, <1>7
<1>9. \A s \in V : s \in U /\ s[1] # "pan"  OBVIOUS
<1>v. \A s : s \in U /\ s[1] # "pan" => s \in V  OBVIOUS
<1> HIDE DEF V
<1>10. Star \in S /\ \A s \in Initials : s \in S  BY <1>3, <1>8
<1>11. \A s \in S : s \in V /\ (s[1] = "digit" => s[3] <= 0 \/ s[3] > Lengths[s[2]] - 4)  OBVIOUS
<1>s. \A s : s \in V /\ (s[1] = "digit" => s[3] <= 0 \/ s[3] > Lengths[s[2]] - 4) => s \in S  OBVIOUS
<1>12. \A s \in S : s[1] = "word" => <<"initial", s[2]>> \in S
  <2> SUFFICES ASSUME NEW s \in S, s[1] = "word" PROVE <<"initial", s[2]>> \in S  OBVIOUS
  <2>1. s \in U  BY <1>9, <1>11
  <2>2. <<"initial", s[2]>> \in Initials  BY <1>6, <2>1
  <2> HIDE DEF S, Initials
  <2> QED BY <1>10, <2>2
<1> HIDE DEF S, Initials
<1>13. Legible(x)  BY <1>2, WrittenIsLegible
<1>14. Endless(x)  BY <1>2, <1>13, EndlessIs DEF Legible
<1>15. y1 \in Seq(U) /\ SameButPans(x, y1) /\ \A p \in 1..Len(y1) : ~Has(y1, p, "pan")
  BY <1>2, <1>5, PansMasked
<1> HIDE DEF y1
<1>16. Legible(y1) /\ Endless(y1)
  <2>1. Len(x) \in Nat  BY LenProperties
  <2> QED BY <1>13, <1>14, <1>15, <2>1, LegibleButPans, EndlessButPans
<1>17. y1 \in Seq(V)
  <2>1. \A p \in 1..Len(y1) : y1[p] \in V
    <3> SUFFICES ASSUME NEW p \in 1..Len(y1) PROVE y1[p] \in V  OBVIOUS
    <3>1. y1[p] \in U  BY <1>15, ElementOfSeq
    <3>2. y1[p][1] # "pan"  BY <1>15 DEF Has
    <3> QED BY <3>1, <3>2, <1>v
  <2> QED BY <1>15, <2>1, InSequence
<1>18. /\ y2 \in Seq(V) /\ Legible(y2) /\ Endless(y2) /\ AadhaarHidden(y2) /\ CodesApart(y2)
  BY <1>8, <1>16, <1>17, AadhaarMasked
<1> HIDE DEF y2
<1>19. y3 \in Seq(V) /\ Legible(y3) /\ Endless(y3) /\ AadhaarHidden(y3) /\ PhonesHidden(y3)
  BY <1>8, <1>18, PhonesMasked
<1> HIDE DEF y3
<1>20. y3 \in Seq(S)
  <2>1. \A p \in 1..Len(y3) : y3[p] \in S
    <3> SUFFICES ASSUME NEW p \in 1..Len(y3) PROVE y3[p] \in S  OBVIOUS
    <3> DEFINE s == y3[p]
    <3>1. s \in V  BY <1>19, ElementOfSeq
    <3>2. ASSUME s[1] = "digit" PROVE s[3] <= 0 \/ s[3] > Lengths[s[2]] - 4
      <4>1. Has(y3, p, "digit")  BY <3>2 DEF Has
      <4>2. DigitOk(s)  BY <4>1, <1>19 DEF Legible, Digits
      <4>3. /\ Lengths[s[2]] \in {10, 12}
            /\ s[3] \in (IF Lengths[s[2]] = 12 THEN 1 ELSE -1)..Lengths[s[2]]
        BY <4>2, Zenon DEF DigitOk
      <4>4. Lengths[s[2]] = 12 => s[3] >= 9  BY <4>1, <1>19 DEF AadhaarHidden
      <4>5. Lengths[s[2]] = 10 => s[3] <= 0 \/ s[3] >= 7  BY <4>1, <1>19 DEF PhonesHidden
      <4> HIDE DEF s
      <4> QED BY <4>3, <4>4, <4>5
    <3> QED BY <3>1, <3>2, <1>s
  <2> QED BY <1>19, <2>1, InSequence
<1>21. y4 \in Seq(S) /\ \A p \in 1..Len(y4) : ~Has(y4, p, "word")
  BY <1>10, <1>12, <1>19, <1>20, MailsMasked DEF Legible
<1> HIDE DEF y4
<1> SUFFICES ASSUME NEW s \in ToSet(y4)
             PROVE  /\ s[1] \notin {"pan", "word"}
                    /\ s[1] = "digit" => s[3] <= 0 \/ s[3] > Lengths[s[2]] - 4
  BY <1>1
<1>22. PICK p \in 1..Len(y4) : s = y4[p]
  <2>1. DOMAIN y4 = 1..Len(y4)  BY <1>21, LenProperties
  <2> QED BY <2>1 DEF ToSet
<1>23. s \in S  BY <1>21, <1>22, ElementOfSeq
<1>24. s[1] # "word"  BY <1>21, <1>22 DEF Has
<1>25. s[1] # "pan"  BY <1>9, <1>11, <1>23
<1> QED BY <1>11, <1>23, <1>24, <1>25

\* PiiIsMasked, for every text written in full.
LEMMA MaskedText ==
  ASSUME subject \in Seq(Range(subject)), Written(subject)
  PROVE  PiiIsMasked
<1> SUFFICES ASSUME kind = "text", NumbersApart(subject),
                    \A i, j \in DOMAIN FindAll("email", subject) :
                      i < j /\ FindAll("email", subject)[i] # FindAll("email", subject)[j]
                      => ~IsSuffix(FindAll("email", subject)[i], FindAll("email", subject)[j])
             PROVE  \A s \in ToSet(MaskPiiInText(subject)) :
                      /\ s[1] \notin {"pan", "word"}
                      /\ s[1] = "digit" => s[3] <= 0 \/ s[3] > Lengths[s[2]] - 4
  <2>1. DOMAIN subject = 1..Len(subject)  BY LenProperties
  <2> QED BY <2>1 DEF PiiIsMasked, NumbersApart
<1> QED BY TextMasked

-----------------------------------------------------------------------------
(* Masking: the theorem                                                    *)

\* A text is one of Texts, in every reachable state.
TextTaken == kind = "text" => subject \in Texts

LEMMA TextIsTaken == InputSpec => []TextTaken
<1>1. NoInput => TextTaken  BY DEF NoInput, TextTaken
<1>2. TextTaken /\ [TakeInput]_inputs => TextTaken'
  <2>1. CASE TakeInput  BY <2>1 DEF TakeInput, Take, TextTaken
  <2>2. CASE UNCHANGED inputs  BY <2>2 DEF inputs, TextTaken
  <2> QED BY <2>1, <2>2
<1> QED BY <1>1, <1>2, PTL DEF InputSpec

\* For any text whose numbers are written in full, with letters only before an
\* "@": mask_pii_in_text leaves no PAN and no name of an address, and of an
\* Aadhaar or telephone number its last four digits, however many there are, in
\* whatever order and however they are spaced; provided that two numbers are
\* kept apart and no address ends another that comes after it.
THEOREM TextsAreMasked == InputSpec => []PiiIsMasked
<1>1. TextTaken => PiiIsMasked
  <2> SUFFICES ASSUME TextTaken PROVE PiiIsMasked  OBVIOUS
  <2>1. CASE kind = "text"
    <3>1. subject \in Texts  BY <2>1 DEF TextTaken
    <3>2. subject \in Seq(Range(subject)) /\ Written(subject)  BY <3>1, InputAssumption
    <3> QED BY <3>2, MaskedText
  <2> QED BY <2>1 DEF PiiIsMasked
<1> QED BY <1>1, TextIsTaken, PTL
=============================================================================
