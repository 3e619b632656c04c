----------------------------- MODULE FormCheck -----------------------------
(***************************************************************************)
(* _cross_check of the customer form: what the applicant typed against     *)
(* what was read from the documents, by the models or as plain text.       *)
(***************************************************************************)
EXTENDS Integers, Sequences, FiniteSets, RunningTotal

CONSTANT Unread    \* a value that was not typed, or not read

(* typed: pan, aadhaar; name, a sequence of words with their lengths;      *)
(* income.  read: pan, aadhaar; names, the words of the name fields; net,  *)
(* gross; credits, <<>> if none were read; listed, whether they came as a  *)
(* list or as the one string the extractors make of it; text, the words    *)
(* and numbers in the plain text of the pages.                             *)

\* Fault: a number no model read is not looked for in the plain text.
NumberMessages_OnlyWhereRead(typed, read, text, what) ==
  IF typed = Unread \/ read = Unread \/ typed = read THEN {} ELSE {<<what, "differs">>}

\* A number is looked up in the plain text only where no model read it.
NumberMessages(typed, read, text, what) ==
  IF typed = Unread THEN {}
  ELSE IF read # Unread THEN (IF typed = read THEN {} ELSE {<<what, "differs">>})
  ELSE IF typed \in text THEN {} ELSE {<<what, "missing">>}

\* The longest word of at least three letters, the first of them if several.
NameWord(name) ==
  LET long == {i \in DOMAIN name : name[i].length >= 3}
      best == {i \in long : \A j \in long : name[j].length <= name[i].length}
  IN  IF long = {} THEN Unread ELSE name[CHOOSE i \in best : \A j \in best : i <= j].word

NameMessages(name, read) ==
  IF NameWord(name) \in {Unread} \cup read.text \cup read.names THEN {} ELSE {<<"name", "missing">>}

\* More than ten percent of the larger apart.
Apart(typed, shown) ==
  LET larger  == IF typed > shown THEN typed ELSE shown
      smaller == IF typed > shown THEN shown ELSE typed
  IN  10 * (larger - smaller) > larger

\* _to_float of what was typed or read, 0 where it was not; net_pay, and
\* gross_pay where that is 0.
ToFloat(value) == IF value = Unread THEN 0 ELSE value
SlipIncome(read) == IF ToFloat(read.net) # 0 THEN ToFloat(read.net) ELSE ToFloat(read.gross)

IncomeMessages(income, read) ==
  LET paid == {i \in DOMAIN read.credits : read.credits[i] > 0}
      amounts == [i \in DOMAIN read.credits |-> IF i \in paid THEN read.credits[i] ELSE 0]
  IN  IF ToFloat(income) <= 0 THEN {}
      ELSE {m \in {<<"income", "slip">>} : SlipIncome(read) > 0 /\ Apart(income, SlipIncome(read))}
           \cup {m \in {<<"income", "bank">>} : /\ paid # {}
                                               /\ Apart(income * Cardinality(paid), SumOf(amounts))}

\* The credits are taken for a list of records; of a string, each character is
\* asked for its amount.
Raises(typed, read) == ToFloat(typed.income) > 0 /\ read.credits # <<>> /\ ~read.listed

\* _cross_check, where it does not raise.
CrossCheck(typed, read) ==
  NumberMessages(typed.pan, read.pan, read.text, "pan")
    \cup NumberMessages(typed.aadhaar, read.aadhaar, read.text, "aadhaar")
    \cup NameMessages(typed.name, read)
    \cup IncomeMessages(typed.income, read)
=============================================================================
