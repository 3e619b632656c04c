----------------------------- MODULE Compliance -----------------------------
(***************************************************************************)
(* ComplianceProcessor behind the /compliance routes: consent records, Key *)
(* Fact Statements, the cooling-off period after a disbursal, and erasure. *)
(* Every handler is synchronous and the four stores do not know of each    *)
(* other; what can go wrong is the order of the calls.                     *)
(*                                                                         *)
(* Left out: the AML check, masking and the residency check, which keep no *)
(* state, the amounts of a Key Fact Statement, and get/summary reads.      *)
(***************************************************************************)
EXTENDS Naturals, Sequences

CONSTANTS
  Applications,
  Purposes,     \* the ConsentPurpose values in use
  MaxRecords,   \* bound: consent records per application
  MaxErasures   \* bound: length of the deletion log

ASSUME ComplianceAssumption == {MaxRecords, MaxErasures} \subseteq Nat

VARIABLES
  records,   \* _consent_store: records[a], in the order they were recorded
  kfs,       \* _kfs_store: the current statement of each application
  cooling,   \* _cooling_off_store: the current cooling-off record of each
  erasures,  \* _deletion_log
  asked      \* history: when cancellations of the current period were asked for

vars == <<records, kfs, cooling, erasures, asked>>

ConsentRecord == [purpose : Purposes, status : {"active", "withdrawn"}]

\* A timestamp is abstracted to whether it is set.
KeyFactStatement == [status : {"none", "generated", "disclosed", "accepted"},
                     disclosed_at : BOOLEAN, accepted_at : BOOLEAN]

CoolingOffRecord == [status : {"none", "eligible", "cancelled", "expired"},
                     over : BOOLEAN,          \* now > cooling_off_expires
                     cancelled_at : BOOLEAN]

NoStatement == [status |-> "none", disclosed_at |-> FALSE, accepted_at |-> FALSE]
NoCoolingOff == [status |-> "none", over |-> FALSE, cancelled_at |-> FALSE]

TypeOK ==
  /\ records \in [Applications -> Seq(ConsentRecord)]
  /\ kfs \in [Applications -> KeyFactStatement]
  /\ cooling \in [Applications -> CoolingOffRecord]
  /\ erasures \in Seq(Applications)
  /\ asked \in [Applications -> SUBSET {"in_time", "late"}]

Init ==
  /\ records = [a \in Applications |-> <<>>]
  /\ kfs = [a \in Applications |-> NoStatement]
  /\ cooling = [a \in Applications |-> NoCoolingOff]
  /\ erasures = <<>>
  /\ asked = [a \in Applications |-> {}]

-----------------------------------------------------------------------------
(* Consent                                                                 *)

RecordConsent(a, purpose) ==
  /\ Len(records[a]) < MaxRecords
  /\ records' = [records EXCEPT ![a] = Append(@, [purpose |-> purpose, status |-> "active"])]
  /\ UNCHANGED <<kfs, cooling, erasures, asked>>

InForce(r, purpose) == r.purpose = purpose /\ r.status = "active"

\* Any record of the purpose that is still active will do.
VerifyConsent(a, purpose) == \E i \in 1..Len(records[a]) : InForce(records[a][i], purpose)

\* Fault: the purpose of the records is not looked at.
WithdrawConsent_AnyPurpose(a, purpose) ==
  /\ VerifyConsent(a, purpose)
  /\ records' = [records EXCEPT ![a] =
                   [i \in 1..Len(records[a]) |-> [records[a][i] EXCEPT !.status = "withdrawn"]]]
  /\ UNCHANGED <<kfs, cooling, erasures, asked>>

\* Every active record of the purpose is withdrawn; 404 when there is none.
WithdrawConsent(a, purpose) ==
  /\ VerifyConsent(a, purpose)
  /\ records' = [records EXCEPT ![a] =
                   [i \in 1..Len(records[a]) |->
                      IF InForce(records[a][i], purpose)
                        THEN [records[a][i] EXCEPT !.status = "withdrawn"]
                        ELSE records[a][i]]]
  /\ UNCHANGED <<kfs, cooling, erasures, asked>>

-----------------------------------------------------------------------------
(* Key Fact Statement                                                      *)

\* Fault: a new statement takes over the stamps of the one it replaces.
GenerateKfs_KeepsStamps(a) ==
  /\ kfs' = [kfs EXCEPT ![a].status = "generated"]
  /\ UNCHANGED <<records, cooling, erasures, asked>>

\* A new statement replaces the old one, with what the borrower did with it.
GenerateKfs(a) ==
  /\ kfs' = [kfs EXCEPT ![a] = [NoStatement EXCEPT !.status = "generated"]]
  /\ UNCHANGED <<records, cooling, erasures, asked>>

\* Disclosing and accepting ask only that there is a statement.
DiscloseKfs(a) ==
  /\ kfs[a].status # "none"
  /\ kfs' = [kfs EXCEPT ![a].status = "disclosed", ![a].disclosed_at = TRUE]
  /\ UNCHANGED <<records, cooling, erasures, asked>>

AcceptKfs(a) ==
  /\ kfs[a].status # "none"
  /\ kfs' = [kfs EXCEPT ![a].status = "accepted", ![a].accepted_at = TRUE]
  /\ UNCHANGED <<records, cooling, erasures, asked>>

-----------------------------------------------------------------------------
(* Cooling-off period                                                      *)

StartCoolingOff(a) ==
  /\ cooling' = [cooling EXCEPT ![a] = [NoCoolingOff EXCEPT !.status = "eligible"]]
  /\ asked' = [asked EXCEPT ![a] = {}]
  /\ UNCHANGED <<records, kfs, erasures>>

Ask(a) == asked' = [asked EXCEPT ![a] = @ \cup {IF cooling[a].over THEN "late" ELSE "in_time"}]

\* Fault: the cancellation is stamped before the window is looked at.
CancelWithinCoolingOff_StampsFirst(a) ==
  /\ cooling[a].status # "none"
  /\ cooling' = [cooling EXCEPT
       ![a].cancelled_at = TRUE,
       ![a].status = IF cooling[a].over THEN "expired" ELSE "cancelled"]
  /\ Ask(a)
  /\ UNCHANGED <<records, kfs, erasures>>

\* After the window the record turns to expired, also that of a loan which was
\* cancelled in time; only within it is the cancellation stamped.
CancelWithinCoolingOff(a) ==
  /\ cooling[a].status # "none"
  /\ cooling' = [cooling EXCEPT ![a] =
       IF @.over THEN [@ EXCEPT !.status = "expired"]
       ELSE [@ EXCEPT !.status = "cancelled", !.cancelled_at = TRUE]]
  /\ Ask(a)
  /\ UNCHANGED <<records, kfs, erasures>>

\* The clock passes cooling_off_expires; no code runs.
CloseWindow(a) ==
  /\ cooling[a].status # "none" /\ ~cooling[a].over
  /\ cooling' = [cooling EXCEPT ![a].over = TRUE]
  /\ UNCHANGED <<records, kfs, erasures, asked>>

-----------------------------------------------------------------------------
(* Personal data                                                           *)

\* Erasure answers with the list of the fields and documents it deleted and
\* logs the request; it touches none of the other stores.
DeletePersonalData(a) ==
  /\ Len(erasures) < MaxErasures
  /\ erasures' = Append(erasures, a)
  /\ UNCHANGED <<records, kfs, cooling, asked>>

Next ==
  \/ \E a \in Applications, p \in Purposes : RecordConsent(a, p) \/ WithdrawConsent(a, p)
  \/ \E a \in Applications :
       \/ GenerateKfs(a) \/ DiscloseKfs(a) \/ AcceptKfs(a)
       \/ StartCoolingOff(a) \/ CancelWithinCoolingOff(a) \/ CloseWindow(a)
       \/ DeletePersonalData(a)

Spec == Init /\ [][Next]_vars

-----------------------------------------------------------------------------
(* Properties                                                              *)

\* What the records of a purpose come to.
ConsentOf(a, purpose) ==
  IF VerifyConsent(a, purpose) THEN "active"
  ELSE IF \E i \in 1..Len(records[a]) : records[a][i].purpose = purpose THEN "withdrawn"
  ELSE "none"

Ledger == INSTANCE ConsentLedger WITH
            Subjects <- Applications \X Purposes,
            consent  <- [k \in Applications \X Purposes |-> ConsentOf(k[1], k[2])]

\* The lists of records implement the ledger: whatever is recorded or withdrawn
\* changes the consent to one purpose and to no other, and a withdrawn consent
\* is in force again only when it is given again.
LedgerSpec == Ledger!Spec

\* However often consent was recorded, a withdrawal ends all of it: when one
\* record of a purpose ceases to be in force, none remains.
WithdrawnAtOnce ==
  [][\A a \in Applications, p \in Purposes :
       (\E i \in 1..Len(records[a]) : InForce(records[a][i], p) /\ ~InForce(records'[a][i], p))
         => ~VerifyConsent(a, p)']_vars

\* The stamps of a statement are its own: one that has just been generated bears
\* neither, and the status is that of a stamp.
StampsAreCurrent ==
  \A a \in Applications :
    /\ kfs[a].status \in {"none", "generated"} => ~kfs[a].disclosed_at /\ ~kfs[a].accepted_at
    /\ kfs[a].status = "disclosed" => kfs[a].disclosed_at
    /\ kfs[a].status = "accepted" => kfs[a].accepted_at

\* The record of a period tells which cancellations were asked for: it bears the
\* stamp exactly when one was asked for while the window was open, reads
\* cancelled when all were, and expired as soon as one came late -- so of a loan
\* cancelled in time and asked for once more only the stamp tells.
CancelledInTime ==
  \A a \in Applications :
    /\ cooling[a].cancelled_at <=> "in_time" \in asked[a]
    /\ cooling[a].status = "cancelled" <=> asked[a] = {"in_time"}
    /\ cooling[a].status = "expired" <=> "late" \in asked[a]
=============================================================================
