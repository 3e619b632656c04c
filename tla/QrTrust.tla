------------------------------ MODULE QrTrust ------------------------------
(***************************************************************************)
(* The QR codes of Aadhaar and PAN cards: how a code is found on a page,   *)
(* what the parsers make of it, whether UIDAI signed it, how it is         *)
(* compared with what OCR read, the look at the image for tampering, and   *)
(* the trust score.  The pages of a submission are read one by one into    *)
(* dictionaries by document class (OnboardingPipeline.execute), then       *)
(* QRTrustProcessor.verify works on the dictionaries.                      *)
(*                                                                         *)
(* A code is known by its kind and by the person it speaks of: two values  *)
(* are alike when they are of one person.                                  *)
(***************************************************************************)
EXTENDS Naturals, Sequences, FiniteSets

CONSTANTS
  Persons,
  Cards,       \* the pages a submission may hold
  Setups,      \* the installations considered
  MaxPages,    \* bound: pages of a submission
  Nobody, NoCode, NoResult

Class   == {"aadhaar", "pan", "passport"}
QrClass == {"aadhaar", "pan"}      \* _QR_ELIGIBLE_CLASSES
Field   == {"name", "dob", "address", "uid", "pan"}

\* secure: UIDAI's Secure QR; resigned: one whose signature is not UIDAI's;
\* truncated: one whose compressed part is damaged; digits: the older text
\* code; record, lower, bare, malformed: a PAN record, one with the PAN in
\* lower case, a PAN alone, a record whose PAN is no PAN; text: anything else.
Signed   == {"secure", "resigned"}
Binary   == Signed \cup {"truncated"}
CodeKind == Binary \cup {"digits", "record", "lower", "bare", "malformed", "text"}
Code == [kind : CodeKind, of : Persons]
Card == [class : Class, owner : Persons, shows : SUBSET Field,   \* what OCR reads
         code : Code \cup {NoCode}, resaved : BOOLEAN, edited : BOOLEAN]

KeyFile == {"absent", "placeholder", "garbled", "pem"}
Setup   == [mock : BOOLEAN, key : KeyFile, zbar : BOOLEAN]

ASSUME QrAssumption ==
  /\ Cards \subseteq Card
  /\ Setups \subseteq Setup
  /\ MaxPages \in Nat
  /\ Nobody \notin Persons /\ NoCode \notin Code

Flag == {"qr_not_found", "qr_decode_failed", "qr_signature_invalid",
         "qr_signature_missing", "qr_name_mismatch", "qr_dob_mismatch",
         "qr_address_mismatch", "qr_id_number_mismatch", "qr_ela_anomaly",
         "qr_exif_anomaly", "qr_tampered"}

VARIABLES
  setup,     \* mock mode, the UIDAI key file, whether pyzbar is installed
  pages,     \* the pages read so far
  seen,      \* seen[i]: the code found on page i
  fields,    \* fields[c]: the page extracted_data[c] is of, 0 if none
  codes,     \* codes[c]: the page qr_results[c] is of
  image,     \* image[c]: the page images_by_class[c] is of
  order,     \* the classes in the order the dictionaries hold them
  result     \* what verify returned

vars == <<setup, pages, seen, fields, codes, image, order, result>>

Init ==
  /\ setup \in Setups
  /\ pages = <<>> /\ seen = <<>>
  /\ fields = [c \in Class |-> 0]
  /\ codes = fields /\ image = fields
  /\ order = <<>>
  /\ result = NoResult

-----------------------------------------------------------------------------
(* Finding and parsing a code                                              *)

\* pyzbar returns the payload as it is; it may be missing, fail, or find none.
TryPyzbar(code) == {NoCode} \cup {c \in {code} : setup.zbar}

\* OpenCV hands out text: a binary payload does not survive it.
TryOpencv(code) ==
  {NoCode} \cup IF code # NoCode /\ code.kind \in Binary
                  THEN {[code EXCEPT !.kind = "text"]} ELSE {code}

\* detect_and_decode, which OpenCV sees only what pyzbar did not find.
DetectAndDecode(code) ==
  {c \in TryPyzbar(code) : c # NoCode} \cup TryOpencv(code)

\* _load_public_key: whatever is not a key is no key, and never an error.
PublicKey == setup.key = "pem"

\* Fault: without a key the signature is taken for granted.
VerifySignature_TrustsWithoutKey(code) == PublicKey => code.kind = "secure"

\* Fault: the signature is checked against the payload it is itself a part of.
VerifySignature_WholePayload(code) == FALSE

VerifySignature(code) == PublicKey /\ code.kind = "secure"

\* AadhaarQRParser.parse: what the payload says, and whether it came with a
\* signature; whatever fails on the way leaves nothing, and no signature.
AadhaarData(code) ==
  [of |-> code.of,
   carries |-> CASE code.kind \in Signed -> {"name", "dob", "address", "uid"}
                 [] code.kind = "digits" -> {"uid"}
                 [] OTHER -> {},
   signature |-> code.kind \in Signed]

\* PANQRParser.parse: a record is read even when its PAN is none.
PanData(code) ==
  [of |-> code.of,
   carries |-> CASE code.kind \in {"record", "lower", "malformed"} -> {"pan", "name", "dob"}
                 [] code.kind = "bare" -> {"pan"}
                 [] OTHER -> {},
   formatValid |-> code.kind \in {"record", "lower", "bare"}]

\* _classify_qr_type, noted with the code and not used afterwards.
ClassifyQrType(code) ==
  CASE code.kind \in Binary           -> "aadhaar_secure_qr"
    [] code.kind \in {"record", "bare"} -> "pan_qr"
    [] code.kind = "digits"           -> "aadhaar_text_qr"
    [] OTHER                          -> "unknown"

\* _detect_qr: only the classes that carry a code are looked at.
Found(card) ==
  IF card.class \notin QrClass THEN {NoCode}
  ELSE IF setup.mock THEN {[kind |-> "text", of |-> card.owner]}
  ELSE DetectAndDecode(card.code)

-----------------------------------------------------------------------------
(* Reading the pages: OnboardingPipeline.execute                           *)

\* The dictionaries keep one page of a class, the last; a class stays where it
\* first came in.
Collect(c, i) ==
  /\ fields' = [fields EXCEPT ![c] = i]
  /\ codes' = [codes EXCEPT ![c] = i]
  /\ image' = [image EXCEPT ![c] = i]
  /\ order' = IF image[c] = 0 THEN Append(order, c) ELSE order

ReadPage(card, code) ==
  /\ result = NoResult
  /\ Len(pages) < MaxPages
  /\ pages' = Append(pages, card)
  /\ seen' = Append(seen, code)
  /\ Collect(card.class, Len(pages) + 1)
  /\ UNCHANGED <<setup, result>>

-----------------------------------------------------------------------------
(* QRTrustProcessor.verify                                                 *)

\* The code of class c: of the page kept of it, NoCode where it has none.
CodeOf(c) == IF codes[c] = 0 THEN NoCode ELSE seen[codes[c]]

Given(flags) == {f \in DOMAIN flags : flags[f]}

\* _process_pan_qr
PanFlags(code) == Given([qr_decode_failed |-> ~PanData(code).formatValid])

\* _process_aadhaar_qr
AadhaarFlags(code) ==
  LET signed == AadhaarData(code).signature
  IN  Given([qr_signature_missing |-> ~signed,
             qr_signature_invalid |-> signed /\ ~VerifySignature(code)])

\* What OCR read: a passport's fields go over the Aadhaar card's, these over
\* the PAN card's; each card alone shows its own number.
OcrValue(f) ==
  LET shown(c) == fields[c] # 0 /\ f \in pages[fields[c]].shows
      owner(c) == pages[fields[c]].owner
  IN  IF f \notin {"uid", "pan"} /\ shown("passport") THEN owner("passport")
      ELSE IF f # "pan" /\ shown("aadhaar") THEN owner("aadhaar")
      ELSE IF f # "uid" /\ shown("pan") THEN owner("pan")
      ELSE Nobody

\* What the codes say: Aadhaar's before PAN's.
QrValue(f, a, p) ==
  IF a # NoCode /\ f \in AadhaarData(a).carries THEN a.of
  ELSE IF p # NoCode /\ f \in PanData(p).carries THEN p.of
  ELSE Nobody

\* _cross_check_fields: the fields a code speaks of, and those it contradicts.
Compared(a, p) == {f \in Field : QrValue(f, a, p) # Nobody}
Wrong(a, p)    == {f \in Compared(a, p) : QrValue(f, a, p) # OcrValue(f)}

\* A number that OCR did not read is a failed match, and no flag.
MatchFlags(a, p) ==
  LET wrong == Wrong(a, p)
  IN  Given([qr_name_mismatch |-> "name" \in wrong, qr_dob_mismatch |-> "dob" \in wrong,
             qr_address_mismatch |-> "address" \in wrong,
             qr_id_number_mismatch |-> \E f \in wrong \cap {"uid", "pan"} : OcrValue(f) # Nobody])

\* The class whose image is looked at: the first that is Aadhaar or PAN.
Examined ==
  {c \in QrClass : \E i \in DOMAIN order :
                     order[i] = c /\ \A j \in 1..i - 1 : order[j] \notin QrClass}

\* TamperingDetector.analyze, on the page kept of that class.
Tampering ==
  [ela  |-> \E c \in Examined : pages[image[c]].resaved,
   exif |-> \E c \in Examined : pages[image[c]].edited]

TamperFlags ==
  Given([qr_ela_anomaly |-> Tampering.ela, qr_exif_anomaly |-> Tampering.exif,
         qr_tampered |-> Tampering.ela /\ Tampering.exif])

\* What each flag costs, in hundredths.
Cost ==
  [qr_not_found |-> 20, qr_decode_failed |-> 20, qr_signature_invalid |-> 35,
   qr_signature_missing |-> 10, qr_ela_anomaly |-> 10, qr_exif_anomaly |-> 10,
   qr_tampered |-> 30]
Charged(flags) ==
  LET cost(f) == IF f \in flags THEN Cost[f] ELSE 0
  IN  cost("qr_not_found") + cost("qr_decode_failed") + cost("qr_signature_invalid")
      + cost("qr_signature_missing") + cost("qr_ela_anomaly") + cost("qr_exif_anomaly")
      + cost("qr_tampered")

\* Fault: tampering is charged on top of the anomalies it consists of.
Deduction_TamperingTwice(flags, wrong) == Charged(flags) + 10 * Cardinality(wrong)

\* _compute_trust_score: a failed signature is charged once, tampering covers
\* the anomalies it consists of.
Deduction(flags, wrong) ==
  LET spared == (IF "qr_signature_invalid" \in flags THEN {"qr_signature_missing"} ELSE {})
        \cup (IF "qr_tampered" \in flags THEN {"qr_ela_anomaly", "qr_exif_anomaly"} ELSE {})
  IN  Charged(flags \ spared) + 10 * Cardinality(wrong)

TrustScore(flags, wrong) ==
  LET lost == Deduction(flags, wrong) IN IF lost > 100 THEN 0 ELSE 100 - lost

\* The result for the codes a and p of the kept Aadhaar and PAN pages.
Outcome(a, p) ==
  LET missing == \E c \in QrClass :
                   codes[c] # 0 /\ (IF c = "aadhaar" THEN a ELSE p) = NoCode
      flags == Given([qr_not_found |-> missing])
                 \cup (IF a = NoCode THEN {} ELSE AadhaarFlags(a))
                 \cup (IF p = NoCode THEN {} ELSE PanFlags(p))
                 \cup TamperFlags \cup MatchFlags(a, p)
  IN  [mock |-> FALSE,
       signatureValid |-> a # NoCode /\ VerifySignature(a),
       types |-> {ClassifyQrType(c) : c \in {a, p} \ {NoCode}},
       matches |-> Compared(a, p), wrong |-> Wrong(a, p),
       flags |-> flags, score |-> TrustScore(flags, Wrong(a, p))]

\* _mock_result
MockOutcome ==
  [mock |-> TRUE, signatureValid |-> TRUE, types |-> {"aadhaar_secure_qr"},
   matches |-> {"name", "dob"}, wrong |-> {}, flags |-> {}, score |-> 90]

Verify ==
  /\ result = NoResult
  /\ pages # <<>>
  /\ result' = IF setup.mock THEN MockOutcome
                             ELSE Outcome(CodeOf("aadhaar"), CodeOf("pan"))
  /\ UNCHANGED <<setup, pages, seen, fields, codes, image, order>>

Next ==
  \/ \E card \in Cards : \E code \in Found(card) : ReadPage(card, code)
  \/ Verify

Spec == Init /\ [][Next]_vars

-----------------------------------------------------------------------------
(* Properties                                                              *)

Result == [mock : BOOLEAN, signatureValid : BOOLEAN,
           types : SUBSET {"aadhaar_secure_qr", "aadhaar_text_qr", "pan_qr", "unknown"},
           matches : SUBSET Field, wrong : SUBSET Field, flags : SUBSET Flag, score : 0..100]

TypeOK ==
  /\ setup \in Setups
  /\ pages \in Seq(Cards) /\ seen \in Seq(Code \cup {NoCode})
  /\ fields \in [Class -> 0..Len(pages)]
  /\ codes \in [Class -> 0..Len(pages)]
  /\ image \in [Class -> 0..Len(pages)]
  /\ order \in Seq(Class)
  /\ result \in Result \cup {NoResult}

\* A signature counts as valid only where UIDAI's key is installed and UIDAI
\* signed the very code on the page whose fields are used, found unchanged.
ValidMeansSigned ==
  result # NoResult /\ ~setup.mock =>
    (result.signatureValid =>
       /\ setup.key = "pem"
       /\ fields["aadhaar"] # 0
       /\ pages[fields["aadhaar"]].code = seen[fields["aadhaar"]]
       /\ seen[fields["aadhaar"]].kind = "secure")

\* Where the key is installed and what OCR read is the card's, no code serves an
\* applicant better than UIDAI's own: not none, not a damaged or forged one,
\* not another person's.  Each way to fail has a price of its own, and only
\* their sum tells (_compute_trust_score).
GenuineCodeIsBest ==
  LET i == codes["aadhaar"]
      p == CodeOf("pan")
  IN  result # NoResult /\ ~setup.mock /\ PublicKey /\ i # 0
        /\ (\A f \in {"name", "dob", "address", "uid"} : OcrValue(f) = pages[i].owner) =>
      \A b \in Code \cup {NoCode} :
        Outcome(b, p).score <= Outcome([kind |-> "secure", of |-> pages[i].owner], p).score

\* The evidence about QR codes as the decision model of this project takes it.
Ev == INSTANCE Evidence
AsEvidence ==
  LET at(c) == IF fields[c] = 0 THEN NoCode ELSE seen[fields[c]]
      a == at("aadhaar")
      p == at("pan")
      read(c, f) == fields[c] # 0 /\ f \in pages[fields[c]].shows
  IN  [qrMissing    |-> \E c \in QrClass : fields[c] # 0 /\ at(c) = NoCode,
       qrUnreadable |-> p # NoCode /\ p.kind \notin {"record", "lower", "bare"},
       signature    |-> IF a = NoCode \/ (a.kind = "secure" /\ setup.key = "pem") THEN "valid"
                        ELSE IF a.kind \in Signed THEN "invalid" ELSE "missing",
       qrWrong      |-> Wrong(a, p),
       ela          |-> \E c \in Examined : pages[fields[c]].resaved,
       exif         |-> \E c \in Examined : pages[fields[c]].edited,
       aadhaar      |-> IF read("aadhaar", "uid") THEN "valid" ELSE "unread",
       pan          |-> IF read("pan", "pan") THEN "active" ELSE "unread"]

\* Is there a key to check the signature with, if the code has one?  Without it
\* verify reports every signature as invalid, at 35, where README.md:520 and :535
\* have it missing, at 10: what it should tell the decision is in dispute.
Checkable ==
  LET a == CodeOf("aadhaar") IN PublicKey \/ a = NoCode \/ a.kind \notin Signed

\* Where signatures can be checked, the decision model is told about QR codes
\* what verify says: the trust it computes from the evidence is the trust score,
\* and the three identity flags it derives are those verify_identity derives
\* from verify's flags.
EvidenceIsFaithful ==
  result # NoResult /\ ~setup.mock /\ Checkable =>
    LET e == AsEvidence
    IN  /\ result.score = 100 - Ev!TrustLoss(e)
        /\ ("qr_signature_invalid" \in result.flags) = (e.signature = "invalid")
        /\ ({"qr_name_mismatch", "qr_dob_mismatch", "qr_id_number_mismatch"}
              \cap result.flags # {}) = (e.qrWrong \cap Ev!QrFlagged(e) # {})
        /\ ("qr_tampered" \in result.flags) = (e.ela /\ e.exif)
=============================================================================
