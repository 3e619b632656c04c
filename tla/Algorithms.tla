----------------------------- MODULE Algorithms -----------------------------
(***************************************************************************)
(* The pure functions of the system, each over a set of inputs: document   *)
(* numbers, the comparison of the customer form, masking, annotations.     *)
(* They keep no state; a behaviour takes one input and ends.               *)
(***************************************************************************)
EXTENDS DocumentNumbers, FormCheck, Masking, Annotation

CONSTANTS
  Nothing,
  AadhaarStems,  \* the first eleven digits of Aadhaar numbers
  MrzStems,      \* MRZ lines but for their check digits
  Forms,         \* [typed, read, own]: are the documents the applicant's?
  Texts,         \* texts of a few numbers and addresses
  Lengths,       \* Lengths[i]: the digits number i has besides those of its country
  Documents,     \* [doc, page]: a document and what OCR read on its page
  TextLines      \* [lengths, x0, x1, width]: words of a line, its place in pixels

\* A text in which every number is written in full: each of its digits but the
\* last is followed by the next one and each but the first comes after the one
\* before, with a space between them at most where its form has one; behind a
\* plus comes a country code. A telephone number begins with a high digit, and
\* the letters of an address end in its "@", without a number among them. The
\* patterns ask for no word boundary: letters stuck to a number, which they
\* would match along with it, are left out here and not by the code.
Written(text) ==
  LET digit(i, n, k) == Kind(text, i) = "digit" /\ text[i][2] = n /\ text[i][3] = k
      break(n, k) == k \in IF Lengths[n] = 12 THEN {4, 8} ELSE {0}
      followed(i, n, k) == \/ digit(i + 1, n, k + 1)
                           \/ break(n, k) /\ Kind(text, i + 1) = "space" /\ digit(i + 2, n, k + 1)
      preceded(i, n, k) == \/ digit(i - 1, n, k - 1)
                           \/ break(n, k - 1) /\ Kind(text, i - 1) = "space" /\ digit(i - 2, n, k - 1)
  IN  \A i \in DOMAIN text :
        LET n == text[i][2]
            k == text[i][3]
        IN  CASE Kind(text, i) = "digit" ->
                   /\ n \in DOMAIN Lengths /\ Lengths[n] \in {10, 12}
                   /\ k \in (IF Lengths[n] = 12 THEN 1 ELSE -1)..Lengths[n]
                   /\ Lengths[n] = 10 /\ k = 1 => text[i][4]
                   /\ k < Lengths[n] => followed(i, n, k)
                   /\ k \notin {-1, 1} => preceded(i, n, k)
                   /\ Kind(text, i + 1) \notin {"word", "at"}
              [] Kind(text, i) = "word" -> Kind(text, i + 1) \in {"word", "at"}
              [] Kind(text, i) = "plus" -> Kind(text, i + 1) = "digit" /\ text[i + 1][3] = -1
              [] OTHER -> Kind(text, i) \in {"pan", "at", "space", "comma"}

\* What is known of the inputs: the digits and characters there are, that
\* what is read of one's own numbers is what one typed, and that the PAN typed
\* is not in the documents of somebody else.
ASSUME InputAssumption ==
  /\ Unread \notin Int
  /\ \A s \in AadhaarStems : s \in [1..11 -> Digit] /\ s[1] \notin {0, 1}
  /\ \A s \in MrzStems : s \in [1..44 -> MrzChar]
  /\ \A f \in Forms :
       /\ f.typed.income \in Int \cup {Unread}
       /\ f.read.net \in Int \cup {Unread} /\ f.read.gross \in Int \cup {Unread}
       /\ f.read.credits \in Seq(Int)
       /\ f.own => /\ f.read.pan \in {f.typed.pan, Unread}
                   /\ Unread \in {f.typed.aadhaar, f.read.aadhaar} \/ f.read.aadhaar = f.typed.aadhaar
       /\ ~f.own => f.typed.pan \notin {Unread, f.read.pan} \cup f.read.text
  /\ \A text \in Texts : text \in Seq(Range(text)) /\ Written(text)
  /\ \A d \in Documents :
       /\ d.doc.type \in DOMAIN Schema
       /\ d.doc.values \in [Range(Schema[d.doc.type]) -> Seq(Word)]
       /\ d.doc.address \in [Range(AddressParts) -> Seq(Word)]
       /\ d.doc.txns \in Seq([Range(TxnColumns) -> Seq(Word)])
       /\ d.page \in Seq([words : Seq(Word), sure : BOOLEAN])
  /\ \A t \in TextLines :
       /\ t.lengths \in Seq(Nat \ {0}) /\ t.lengths # <<>>
       /\ t.x0 \in Nat /\ t.x1 \in Nat /\ t.x0 <= t.x1 /\ t.width \in Nat \ {0}

VARIABLES kind, subject
inputs == <<kind, subject>>

NoInput == kind = "none" /\ subject = Nothing

Take(k, among) == kind = "none" /\ kind' = k /\ subject' \in among

TakeInput ==
  \/ Take("aadhaar", AadhaarStems)
  \/ Take("mrz", MrzStems)
  \/ Take("form", Forms)
  \/ Take("text", Texts)
  \/ Take("document", Documents)
  \/ Take("line", TextLines)

InputSpec == NoInput /\ [][TakeInput]_inputs

-----------------------------------------------------------------------------
(* Document numbers                                                        *)

Changed(seq, i, v) == [seq EXCEPT ![i] = v]
Swapped(seq, i) == [seq EXCEPT ![i] = seq[i + 1], ![i + 1] = seq[i]]

\* What Verhoeff's digit promises, and two tables of numbers typed in by hand
\* must keep: an Aadhaar number has one last digit that makes it valid, and no
\* single wrong digit and no two neighbours in the wrong order go unnoticed.
AadhaarErrorsAreCaught ==
  kind = "aadhaar" =>
    LET number(d) == Append(subject, d)
        last == {d \in Digit : ValidAadhaar(number(d))}
    IN  /\ Cardinality(last) = 1
        /\ \A d \in last :
             /\ \A i \in 1..12, v \in Digit :
                  v # number(d)[i] => ~ValidAadhaar(Changed(number(d), i, v))
             /\ \A i \in 1..11 :
                  number(d)[i] # number(d)[i + 1] => ~ValidAadhaar(Swapped(number(d), i))

\* The check digit of ICAO 9303, from its definition: the characters in groups
\* of three weigh 7, 3 and 1.
IcaoDigit(data) ==
  LET weight(i) == CASE i % 3 = 1 -> 7 [] i % 3 = 2 -> 3 [] OTHER -> 1
      sum[i \in 0..Len(data)] == IF i = 0 THEN 0 ELSE weight(i) * (data[i] % Filler) + sum[i - 1]
  IN  sum[Len(data)] % 10

IcaoLine(stem) ==
  LET at(line, k, from, to) == Changed(line, k, IcaoDigit(SubSeq(line, from, to)))
      line == at(at(at(at(stem, 10, 1, 9), 20, 14, 19), 28, 22, 27), 43, 29, 42)
  IN  Changed(line, 44, IcaoDigit(SubSeq(line, 1, 10) \o SubSeq(line, 14, 20) \o SubSeq(line, 22, 43)))

\* A passport's line as ICAO makes it is accepted; a change of one character
\* of it is noticed, but for a value ten more or less and for the nationality
\* and the sex, which no digit covers.
MrzErrorsAreCaught ==
  kind = "mrz" =>
    LET line == IcaoLine(subject)
    IN  /\ MrzValid(line)
        /\ \A i \in 1..44, v \in MrzChar :
             MrzValid(Changed(line, i, v)) <=>
               \/ i \in (11..13) \cup {21}
               \/ v = line[i]
               \/ /\ i \notin {10, 20, 28, 43, 44}
                  /\ (v % Filler) % 10 = (line[i] % Filler) % 10

\* What a check digit is for: no single error in a document number goes
\* unnoticed, and no genuine number is refused.
WrongNumbersAreTold == AadhaarErrorsAreCaught /\ MrzErrorsAreCaught

-----------------------------------------------------------------------------
(* The customer form                                                       *)

\* Documents of one's own raise no message: every number was read somewhere,
\* the name was found, and each income on them and the one typed are within
\* ten percent of the larger, whichever of the two that is.
OwnDocumentsPass ==
  kind = "form" =>
    LET t == subject.typed
        r == subject.read
        agree(a, b) == 9 * a <= 10 * b /\ 9 * b <= 10 * a
        shown == {v \in {r.net, r.gross} : v # Unread} \cup {r.credits[i] : i \in DOMAIN r.credits}
        clear == /\ subject.own
                 /\ ~Raises(t, r)
                 /\ r.pan # Unread \/ t.pan \in r.text
                 /\ r.aadhaar # Unread \/ t.aadhaar \in {Unread} \cup r.text
                 /\ NameWord(t.name) \in {Unread} \cup r.names \cup r.text
                 /\ t.income = Unread \/ \A v \in shown : agree(v, t.income)
    IN  clear => CrossCheck(t, r) = {}

\* Documents of somebody else are told from one's own, even if the other has
\* the same family name and income and some of them could not be read.
ForeignDocumentsAreTold ==
  kind = "form" /\ ~subject.own =>
    Raises(subject.typed, subject.read) \/ CrossCheck(subject.typed, subject.read) # {}

\* The comparison of _cross_check tells one's own documents from another's, and
\* raises no message on the former.
FormTellsWhoseDocuments == OwnDocumentsPass /\ ForeignDocumentsAreTold

-----------------------------------------------------------------------------
(* Masking                                                                 *)

\* No PAN and no e-mail name is left in a masked text, and of an Aadhaar or
\* telephone number its last four digits, in whatever order they come and
\* however they are written: but two numbers must not be separated by nothing
\* or a space alone, which no pattern of the code tells from one number, nor
\* one address end another that comes after it.
PiiIsMasked ==
  kind = "text" =>
    LET apart == \A i, j \in DOMAIN subject :
                   (i < j /\ j <= i + 2 /\ subject[i][1] = "digit" /\ subject[j][1] = "digit"
                     /\ \A k \in i..j : subject[k][1] \in {"digit", "space"})
                   => subject[i][2] = subject[j][2] /\ subject[i][3] <= subject[j][3]
        mails == FindAll("email", subject)
        endless == \A i, j \in DOMAIN mails : i < j /\ mails[i] # mails[j] => ~IsSuffix(mails[i], mails[j])
        left == ToSet(MaskPiiInText(subject))
    IN  apart /\ endless =>
          /\ \A s \in left : s[1] \notin {"pan", "word"}
          /\ \A s \in left : s[1] = "digit" => s[3] <= 0 \/ s[3] > Lengths[s[2]] - 4

-----------------------------------------------------------------------------
(* Annotations                                                             *)

\* The values and the places where each can be read on the page.
ValuesRead(doc, page) ==
  LET tokens == Tokens(page)
  IN  {<<e, ReadAt(tokens, e)>> : e \in Values(doc)}

\* How many words begin a value of the tag, and how many values of it are
\* reported as matched.
Beginnings(done, tag) == Cardinality({i \in DOMAIN done.labels : done.labels[i] = <<"B", tag>>})
ValuesMatched(doc, done, tag) == Cardinality({e \in Values(doc) : e.tag = tag /\ e.name \in done.matched})

\* Whatever is on the page: a label is that of a value reported as matched and
\* read there, within two edits; a value that is not matched has no place left,
\* each one where it can be read begins with a word that has a label; no tag has
\* more beginnings than values matched; and each label has an id.
LabelsAreTrue ==
  kind = "document" =>
    LET legible == ValuesRead(subject.doc, subject.page)
        done == AnnotateDocument(subject.doc, subject.page)
        l == done.labels
    IN  /\ \A i \in DOMAIN l : l[i] # Outside =>
             \E x \in legible : \E a \in x[2] :
               /\ x[1].name \in done.matched /\ i \in a..(a + Len(x[1].words) - 1)
               /\ l[i] = <<IF i = a THEN "B" ELSE "I", x[1].tag>>
        /\ \A x \in legible : x[1].name \in done.matched \/ \A a \in x[2] : l[a] # Outside
        /\ \A tag \in {e.tag : e \in Values(subject.doc)} :
             Beginnings(done, tag) <= ValuesMatched(subject.doc, done, tag)
        /\ \A i \in DOMAIN l : l[i] \in BioLabels(subject.doc.type)

\* No place where a value can be read is inside one of another value.
NoneInside(doc, page) ==
  LET legible == ValuesRead(doc, page)
  IN  \A x, y \in legible : \A a \in x[2], b \in y[2] : b \notin (a + 1)..(a + Len(x[1].words) - 1)

\* Where that is so nothing is overwritten: the labels are a BIO labelling, a word
\* inside a value following one of the same value, and each value reported as
\* matched has a beginning of its own.
LabelsAreWhole ==
  kind = "document" /\ NoneInside(subject.doc, subject.page) =>
    LET done == AnnotateDocument(subject.doc, subject.page)
        l == done.labels
    IN  /\ \A i \in DOMAIN l : l[i][1] = "I" => i > 1 /\ l[i - 1] \in {<<"B", l[i][2]>>, l[i]}
        /\ \A tag \in {e.tag : e \in Values(subject.doc)} :
             Beginnings(done, tag) = ValuesMatched(subject.doc, done, tag)

\* Values that can be read at one place can be read at the same places, as Rao
\* and Ram, and there are as many places as values; a statement's columns are all
\* in use.
InFull(doc, page) ==
  LET legible == ValuesRead(doc, page)
  IN  /\ \A x, y \in legible : x[2] = y[2] \/ x[2] \cap y[2] = {}
      /\ \A x \in legible : Cardinality({y \in legible : y[2] = x[2]}) <= Cardinality(x[2])
      /\ Expected(doc) # {}
      /\ doc.type = "bank_statement" /\ doc.txns # <<>> =>
           \A c \in Range(TxnColumns) : \E k \in DOMAIN doc.txns : doc.txns[k][c] # <<>>

\* A document that is on the page in full passes the gate with nothing missing,
\* whatever else is on it, whatever the order of its lines and with up to two
\* edits a value.
FullPagePasses ==
  kind = "document" /\ NoneInside(subject.doc, subject.page) /\ InFull(subject.doc, subject.page) =>
    LET gate == Validate(subject.doc, AnnotateDocument(subject.doc, subject.page).labels, 80)
    IN  gate.passed /\ gate.covered = Expected(subject.doc)

\* A training annotation can be trusted: its labels, and what the gate says of
\* them.
AnnotationIsSound == LabelsAreTrue /\ LabelsAreWhole /\ FullPagePasses

\* The boxes of a line's words lie side by side in the line: rounding moves the
\* last edge by half a unit a word at most, and so off the page by no more.
BoxesStayInLine ==
  kind = "line" =>
    LET edge(x) == NormalizeX(x, subject.width)
        box == WordBoxes(subject.lengths, edge(subject.x0), edge(subject.x1))
        last == box[Len(box)][2]
    IN  /\ \A i \in DOMAIN box : edge(subject.x0) <= box[i][1] /\ box[i][1] <= box[i][2]
        /\ 2 * last <= 2 * edge(subject.x1) + Len(box)
        /\ 2 * edge(subject.x1) <= 2 * last + Len(box)
=============================================================================
