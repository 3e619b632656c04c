---------------------------- MODULE MCAlgorithms ----------------------------
(***************************************************************************)
(* Inputs for the pure functions.                                          *)
(***************************************************************************)
EXTENDS Algorithms

(* Ten digits behind every first digit an Aadhaar number may have: each of *)
(* the ten digits at each place, and all of one digit.                     *)

MCAadhaarStems ==
  {<<first>> \o [i \in 1..10 |-> (step * i + shift) % 10] :
     first \in 2..9, step \in {0, 1, 3}, shift \in {0, 4, 7}}

(* ICAO's specimen, one with every letter, one with fillers where the      *)
(* specimen has none, and one with a single digit in the personal number.  *)

Specimen == <<21, 8, 9, 8, 9, 0, 2, 12, 3, 0, 30, 29, 24, 7, 4, 0, 8, 1, 2, 0, 15, 1, 2, 0, 4, 1, 5,
              0, 35, 14, 1, 8, 4, 2, 2, 6, 11, 36, 36, 36, 36, 36, 0, 0>>

MCMrzStems ==
  {Specimen,
   [i \in 1..44 |-> IF i \in {10, 20, 28, 43, 44} THEN 0 ELSE 10 + (i % 26)],
   [i \in 1..44 |-> IF i \in 29..42 THEN Filler ELSE IF i = 9 THEN Filler ELSE Specimen[i]],
   [i \in 1..44 |-> IF i = 42 THEN 5 ELSE Specimen[i]]}

(* Ann and Bob have a family name in common and earn the same or not.      *)

Pan(owner) == <<"pan", owner>>
Aadhaar(owner) == <<"aadhaar", owner>>
Family == <<"word", "kumar">>
First(owner) == <<"word", owner>>
KumarAnn == <<[word |-> Family, length |-> 5], [word |-> First("ann"), length |-> 3]>>
Initials == <<[word |-> First("a"), length |-> 1], [word |-> First("k"), length |-> 1]>>

Typed ==
  [pan : {Pan("ann")}, aadhaar : {Aadhaar("ann"), Unread}, name : {KumarAnn, Initials}, income : {90, 100, Unread}]

ReadOf(owner) ==
  [pan : {Pan(owner), Unread}, aadhaar : {Aadhaar(owner), Unread}, names : {{}, {Family, First(owner)}},
   net : {Unread, -5, 90, 100, 112}, gross : {Unread, 100}, credits : {<<>>, <<100>>, <<90, 110>>},
   listed : BOOLEAN, text : {{}, {Pan(owner), Aadhaar(owner), Family, First(owner)}}]

MCForms == [typed : Typed, read : ReadOf("ann"), own : {TRUE}]
             \cup [typed : Typed, read : ReadOf("bob"), own : {FALSE}]

(* Numbers 1 and 2 are Aadhaar numbers, 3 and 4 telephone numbers.         *)

MCLengths == <<12, 12, 10, 10>>
Dig(i, k) == <<"digit", i, k, k = 1>>
Run4(i, from) == [k \in 1..4 |-> Dig(i, from + k)]
Run10(i) == [k \in 1..10 |-> Dig(i, k)]
CountryCode(i) == <<<<"plus">>, <<"digit", i, -1, TRUE>>, <<"digit", i, 0, FALSE>>>>
Space == <<<<"space">>>>

Piece ==
  {<<<<"pan", 1>>>>}
    \cup {Run4(i, 0) \o Run4(i, 4) \o Run4(i, 8) : i \in {1, 2}}
    \cup {Run4(1, 0) \o Space \o Run4(1, 4) \o Space \o Run4(1, 8)}
    \cup {Run10(i) : i \in {3, 4}}
    \cup {CountryCode(3) \o Space \o Run10(3), CountryCode(4) \o Run10(4)}
    \cup {<<<<"word", "kumar">>, <<"at", "x">>>>, <<<<"word", "ravi">>, <<"at", "x">>>>,
          <<<<"word", "ravi">>, <<"word", "kumar">>, <<"at", "x">>>>}

Separator == {Space, <<<<"comma">>>>}

MCTexts ==
  {a \o s \o b : a \in Piece, s \in Separator, b \in Piece}
    \cup {a \o s \o b \o t \o c : a \in Piece, s \in Separator, b \in Piece, t \in Separator, c \in Piece}

(* Documents and the pages they were printed on.                           *)

None == <<>>

\* What a type's schema and address have besides what is given.
Of(type, given) == given @@ [f \in Range(Schema[type]) |-> None]
NoAddress == [p \in Range(AddressParts) |-> None]

PanCard(name, father) ==
  [doc |-> [type |-> "pan", address |-> NoAddress, txns |-> None,
            values |-> Of("pan", [pan_number |-> <<"A1F">>, full_name |-> name, father_name |-> father,
                                  date_of_birth |-> <<"01/02">>])],
   lines |-> <<<<"NAME">> \o name, father, <<"01/02">>, <<"PAN", "A1F">>>>]

AadhaarCard(city, state) ==
  [doc |-> [type |-> "aadhaar", txns |-> None,
            values |-> Of("aadhaar", [aadhaar_number |-> <<"412341">>, full_name |-> <<"RAVI", "KUMAR">>,
                                      gender |-> <<"M">>, pincode |-> <<"5601">>]),
            address |-> [door |-> <<"12">>, street |-> <<"GANDHI", "ROAD">>, city |-> city, state |-> state]
                          @@ NoAddress],
   lines |-> <<<<"RAVI", "KUMAR", "M">>, <<"412341">>, <<"12", "GANDHI", "ROAD">>,
               city \o state \o <<"5601">>>>]

Statement(date, narration) ==
  [doc |-> [type |-> "bank_statement", address |-> NoAddress,
            values |-> Of("bank_statement", [bank_name |-> <<"STATE", "BANK">>, closing_balance |-> <<"50000">>]),
            txns |-> <<[date |-> <<"05/01">>, narration |-> <<"SALA", "ACME">>, credit |-> <<"50000">>,
                        debit |-> None],
                       [date |-> <<date>>, narration |-> narration, credit |-> None, debit |-> <<"700">>]>>],
   lines |-> <<<<"STATE", "BANK">>, <<"05/01", "SALA", "ACME", "50000">>,
               <<date>> \o narration \o <<"700">>, <<"NET", "50000">>>>]

Form16 ==
  [doc |-> [type |-> "form16", address |-> NoAddress, txns |-> None,
            values |-> Of("form16", [employer_tan |-> <<"B2A">>, employee_pan |-> <<"A1F">>,
                                     gross_salary |-> <<"12000">>, taxable_income |-> <<"12000">>])],
   lines |-> <<<<"TAN", "B2A">>, <<"PAN", "A1F">>, <<"GROSS", "12000">>, <<"TAXABLE", "12000">>>>]

\* Among them values that begin or lie in another, that are the same, and that are
\* within two edits of each other (Rao and Ram, two days of a month, Rent and Rest).
Sheets ==
  {PanCard(<<"RAVI", "KUMAR">>, <<"MOHAN", "KUMAR">>), PanCard(<<"RAVI", "KUMAR">>, <<"RAVI", "KUMAR">>),
   PanCard(<<"KUMAR">>, <<"MOHAN", "KUMAR">>), PanCard(<<"RAVI">>, <<"RAVI", "KUMAR">>),
   PanCard(<<"RAO">>, <<"RAM">>), PanCard(<<"RAO", "K">>, <<"RAM", "K">>),
   AadhaarCard(<<"PUNE">>, <<"ASSAM">>), AadhaarCard(<<"NEW", "DELHI">>, <<"DELHI">>), AadhaarCard(None, <<"ASSAM">>),
   Statement("05/01", <<"RENT">>), Statement("07/01", <<"RENT">>), Statement("28/12", <<"SALA", "MAID">>),
   Form16}

\* Words as letters: a string is the sequence of its characters.
Spelled(word) == [i \in 1..Len(word) |-> SubSeq(word, i, i)]
Spell(words) == [i \in DOMAIN words |-> Spelled(words[i])]

SpelledDoc(doc) ==
  [doc EXCEPT !.values = [f \in DOMAIN doc.values |-> Spell(doc.values[f])],
              !.address = [p \in DOMAIN doc.address |-> Spell(doc.address[p])],
              !.txns = [k \in DOMAIN doc.txns |-> [c \in DOMAIN doc.txns[k] |-> Spell(doc.txns[k][c])]]]

\* The lines in their order or the other way round, from any of them on.
Orders(n) == {[k \in 1..n |-> ((step * k + first) % n) + 1] : step \in {1, n - 1}, first \in 0..n - 1}

\* One line is misread: OCR is not sure of it, or the first letters of its first
\* word are wrong.
Misreadings == {[sure |-> FALSE, edits |-> 0]} \cup [sure : {TRUE}, edits : 0..3]

Misread(words, edits) ==
  [j \in DOMAIN words |-> [i \in DOMAIN words[j] |-> IF j = 1 /\ i <= edits THEN "?" ELSE words[j][i]]]

Page(lines, order, wrong, how) ==
  [k \in DOMAIN lines |->
     LET line == Spell(lines[order[k]])
     IN  IF order[k] = wrong THEN [words |-> Misread(line, how.edits), sure |-> how.sure]
         ELSE [words |-> line, sure |-> TRUE]]

MCDocuments ==
  {[doc |-> SpelledDoc(s.doc), page |-> Page(s.lines, o, w, how)] :
     s \in Sheets, o \in Orders(4), w \in 1..4, how \in Misreadings}

MCTextLines ==
  [lengths : {<<1>>, <<1, 1>>, <<2, 1>>, <<5, 3, 10>>, <<1, 1, 1, 1, 1, 1, 1>>}, x0 : {0, 13, 400},
   x1 : {400, 413, 777, 1240}, width : {827, 1240}]

=============================================================================
