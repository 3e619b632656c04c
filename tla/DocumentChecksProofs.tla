------------------------- MODULE DocumentChecksProofs -----------------------
(***************************************************************************)
(* Theorems about the checks a document goes through.                      *)
(*                                                                         *)
(* QrTrust, for any people, cards, installations and number of pages: the  *)
(* dictionaries keep one page of a class, a signature that counts as valid *)
(* was UIDAI's, on that page, and the decision model is told the truth.    *)
(*                                                                         *)
(* Algorithms, for any inputs: document numbers and the tables they are    *)
(* checked with, the customer form and training annotations.               *)
(***************************************************************************)
EXTENDS QrTrust, Algorithms, SequenceTheorems, FiniteSetTheorems, TLAPS

-----------------------------------------------------------------------------
(* The QR codes: the invariant                                             *)

\* The dictionaries point at pages that were read, all three at the same one,
\* and each page keeps a code that was found on it.
Kept ==
  /\ pages \in Seq(Cards)
  /\ seen \in Seq(Code \cup {NoCode})
  /\ Len(seen) = Len(pages)
  /\ fields \in [Class -> 0..Len(pages)]
  /\ codes = fields /\ image = fields
  /\ \A i \in 1..Len(pages) : seen[i] \in Found(pages[i])

\* verify ran on the dictionaries as they are now.
Told ==
  result # NoResult /\ ~setup.mock => result = Outcome(CodeOf("aadhaar"), CodeOf("pan"))

IInv == setup \in Setups /\ Kept /\ Told

-----------------------------------------------------------------------------
(* Lemmas                                                                  *)

\* What is found on a page is a code or none.
LEMMA FoundType ==
  ASSUME setup \in Setups, NEW card \in Cards, NEW code \in Found(card)
  PROVE  code \in Code \cup {NoCode}
<1>1. card \in Card  BY QrAssumption
<1>2. card.code \in Code \cup {NoCode} /\ card.owner \in Persons  BY <1>1 DEF Card
<1>3. [kind |-> "text", of |-> card.owner] \in Code  BY <1>2 DEF Code, CodeKind
<1>4. TryPyzbar(card.code) \subseteq Code \cup {NoCode}  BY <1>2 DEF TryPyzbar
<1>5. TryOpencv(card.code) \subseteq Code \cup {NoCode}
  <2>1. CASE card.code # NoCode /\ card.code.kind \in Binary
    <3>1. [card.code EXCEPT !.kind = "text"] \in Code
      BY <1>2, <2>1 DEF Code, CodeKind
    <3> QED BY <2>1, <3>1 DEF TryOpencv
  <2>2. CASE ~(card.code # NoCode /\ card.code.kind \in Binary)
    BY <1>2, <2>2 DEF TryOpencv
  <2> QED BY <2>1, <2>2
<1> QED BY <1>3, <1>4, <1>5 DEF Found, DetectAndDecode

\* A secure code is only ever found where it is on the page: OpenCV turns a
\* binary payload into text, so it was pyzbar that found it, unchanged.
LEMMA SecureIsOnThePage ==
  ASSUME NEW card \in Cards, NEW code \in Found(card), code # NoCode, code.kind = "secure"
  PROVE  card.code = code
<1>1. card.code \in Code \cup {NoCode}  BY QrAssumption DEF Card
<1>2. code \in DetectAndDecode(card.code)
  <2>1. [kind |-> "text", of |-> card.owner].kind = "text"  OBVIOUS
  <2> QED BY <2>1 DEF Found
<1>3. CASE code \in TryPyzbar(card.code)
  BY <1>3 DEF TryPyzbar
<1>4. CASE code \in TryOpencv(card.code)
  <2>1. CASE card.code # NoCode /\ card.code.kind \in Binary
    <3>1. code = [card.code EXCEPT !.kind = "text"]  BY <1>4, <2>1 DEF TryOpencv
    <3>2. card.code \in Code  BY <1>1, <2>1
    <3>3. code.kind = "text"  BY <3>1, <3>2 DEF Code
    <3> QED BY <3>3
  <2>2. CASE ~(card.code # NoCode /\ card.code.kind \in Binary)
    BY <1>4, <2>2 DEF TryOpencv
  <2> QED BY <2>1, <2>2
<1> QED BY <1>2, <1>3, <1>4 DEF DetectAndDecode

\* Reading a page keeps the dictionaries together.
LEMMA ReadKeeps ==
  ASSUME setup \in Setups, Kept, NEW card \in Cards, NEW code \in Found(card),
         ReadPage(card, code)
  PROVE  Kept'
<1> DEFINE n == Len(pages)
<1>1. /\ pages' = Append(pages, card) /\ seen' = Append(seen, code)
      /\ Collect(card.class, n + 1) /\ setup' = setup
  BY DEF ReadPage
<1>2. n \in Nat /\ Len(seen) = n  BY LenProperties DEF Kept
<1>3. code \in Code \cup {NoCode}  BY FoundType
<1>4. card.class \in Class  BY QrAssumption DEF Card
<1>5. /\ pages' \in Seq(Cards) /\ Len(pages') = n + 1
      /\ \A i \in 1..n : pages'[i] = pages[i]
      /\ pages'[n + 1] = card
  BY <1>1, AppendProperties, LenProperties DEF Kept
<1>6. /\ seen' \in Seq(Code \cup {NoCode}) /\ Len(seen') = n + 1
      /\ \A i \in 1..n : seen'[i] = seen[i]
      /\ seen'[n + 1] = code
  BY <1>1, <1>2, <1>3, AppendProperties, LenProperties DEF Kept
<1>7. /\ fields' = [fields EXCEPT ![card.class] = n + 1]
      /\ codes' = [codes EXCEPT ![card.class] = n + 1]
      /\ image' = [image EXCEPT ![card.class] = n + 1]
  BY <1>1 DEF Collect
<1>k. \A i \in 1..n : seen[i] \in Found(pages[i])  BY DEF Kept
<1> HIDE DEF n
<1>8. fields' \in [Class -> 0..Len(pages')] /\ codes' = fields' /\ image' = fields'
  BY <1>2, <1>4, <1>5, <1>7 DEF Kept, n
<1>9. ASSUME NEW i \in 1..n + 1  PROVE seen'[i] \in Found(pages'[i])
  <2>1. CASE i \in 1..n  BY <1>5, <1>6, <1>k, <2>1
  <2>2. CASE i = n + 1  BY <1>5, <1>6, <2>2
  <2> QED BY <1>2, <2>1, <2>2
<1>10. \A i \in 1..Len(pages') : (seen[i] \in Found(pages[i]))'
  BY <1>1, <1>5, <1>9 DEF Found, DetectAndDecode, TryPyzbar
<1> QED BY <1>5, <1>6, <1>8, <1>10 DEF Kept

\* What verify would answer depends on what was read, and on nothing else.
LEMMA OutcomeStays ==
  ASSUME UNCHANGED <<setup, pages, seen, fields, codes, image, order>>
  PROVE  /\ CodeOf("aadhaar")' = CodeOf("aadhaar") /\ CodeOf("pan")' = CodeOf("pan")
         /\ \A a, p : Outcome(a, p)' = Outcome(a, p)
<1>1. CodeOf("aadhaar")' = CodeOf("aadhaar") /\ CodeOf("pan")' = CodeOf("pan")
  BY DEF CodeOf
<1>2. TamperFlags' = TamperFlags
  <2>1. Tampering' = Tampering  BY DEF Tampering, Examined
  <2> QED BY <2>1 DEF TamperFlags
<1>3. \A f : OcrValue(f)' = OcrValue(f)  BY DEF OcrValue
<1>4. \A a, p : Compared(a, p)' = Compared(a, p)  BY DEF Compared, QrValue
<1>5. \A a, p : Wrong(a, p)' = Wrong(a, p)
  BY <1>3, <1>4 DEF Wrong, QrValue
<1>6. \A a, p : MatchFlags(a, p)' = MatchFlags(a, p)
  BY <1>3, <1>5 DEF MatchFlags
<1>7. \A a : VerifySignature(a)' = VerifySignature(a)
  BY DEF VerifySignature, PublicKey
<1>8. \A a : AadhaarFlags(a)' = AadhaarFlags(a)
  BY <1>7 DEF AadhaarFlags
<1>9. ASSUME NEW a, NEW p PROVE Outcome(a, p)' = Outcome(a, p)
  BY <1>2, <1>4, <1>5, <1>6, <1>7, <1>8 DEF Outcome
<1> QED BY <1>1, <1>9

-----------------------------------------------------------------------------

\* The invariant.
LEMMA Invariant == Spec => []IInv
<1>1. Init => IInv
  <2> SUFFICES ASSUME Init PROVE setup \in Setups /\ Kept /\ Told  BY DEF IInv
  <2>1. pages = <<>> /\ seen = <<>> /\ Len(pages) = 0 /\ Len(seen) = 0  BY DEF Init
  <2> QED BY <2>1 DEF Init, Kept, Told
<1>2. IInv /\ [Next]_vars => IInv'
  <2> SUFFICES ASSUME setup \in Setups, Kept, Told, [Next]_vars
               PROVE  setup' \in Setups /\ Kept' /\ Told'
    BY DEF IInv
  <2>1. ASSUME NEW card \in Cards, NEW code \in Found(card), ReadPage(card, code)
        PROVE  setup' \in Setups /\ Kept' /\ Told'
    <3>1. setup' = setup /\ result' = NoResult  BY <2>1 DEF ReadPage
    <3> QED BY <2>1, <3>1, ReadKeeps DEF Told
  <2>2. CASE Verify
    <3>1. UNCHANGED <<setup, pages, seen, fields, codes, image>>  BY <2>2 DEF Verify
    <3>2. Kept'
      BY <3>1 DEF Kept, Found, DetectAndDecode, TryPyzbar
    <3>3. Told'
      <4>1. ~setup.mock => result' = Outcome(CodeOf("aadhaar"), CodeOf("pan"))
        BY <2>2 DEF Verify
      <4>2. UNCHANGED <<setup, pages, seen, fields, codes, image, order>>  BY <2>2 DEF Verify
      <4> QED BY <4>1, <4>2, OutcomeStays DEF Told
    <3> QED BY <3>1, <3>2, <3>3
  <2>3. CASE UNCHANGED vars
    <3>1. UNCHANGED <<setup, pages, seen, fields, codes, image, order, result>>
      BY <2>3 DEF vars
    <3>2. Kept'  BY <3>1 DEF Kept, Found, DetectAndDecode, TryPyzbar
    <3>3. Told'  BY <3>1, OutcomeStays DEF Told
    <3> QED BY <3>1, <3>2, <3>3
  <2> QED BY <2>1, <2>2, <2>3 DEF Next
<1> QED BY <1>1, <1>2, PTL DEF Spec

\* A valid signature is UIDAI's, of the very code on the page whose fields are
\* used, checked with UIDAI's key: not of another page's code, not of a payload
\* that OpenCV passed on, not for want of a key.
THEOREM OnlySignedCodesAreValid == Spec => []ValidMeansSigned
<1>1. IInv => ValidMeansSigned
  <2> SUFFICES ASSUME Kept, Told, result # NoResult, ~setup.mock, result.signatureValid
               PROVE  /\ setup.key = "pem"
                      /\ fields["aadhaar"] # 0
                      /\ pages[fields["aadhaar"]].code = seen[fields["aadhaar"]]
                      /\ seen[fields["aadhaar"]].kind = "secure"
    BY DEF IInv, ValidMeansSigned
  <2> DEFINE i == codes["aadhaar"]
  <2>1. CodeOf("aadhaar") # NoCode /\ VerifySignature(CodeOf("aadhaar"))
    <3>1. result = Outcome(CodeOf("aadhaar"), CodeOf("pan"))  BY DEF Told
    <3>2. \A a, p : Outcome(a, p).signatureValid = (a # NoCode /\ VerifySignature(a))
      BY DEF Outcome
    <3> QED BY <3>1, <3>2
  <2>2. i # 0 /\ i = fields["aadhaar"] /\ seen[i] # NoCode /\ setup.key = "pem"
        /\ seen[i].kind = "secure"
    BY <2>1 DEF CodeOf, VerifySignature, PublicKey, Kept
  <2>3. i \in 1..Len(pages)
    BY <2>2, LenProperties DEF Kept, Class
  <2>4. seen[i] \in Found(pages[i]) /\ pages[i] \in Cards
    BY <2>3, ElementOfSeq DEF Kept
  <2>5. pages[i].code = seen[i]
    BY <2>2, <2>4, SecureIsOnThePage
  <2> QED BY <2>2, <2>5
<1> QED BY Invariant, <1>1, PTL

-----------------------------------------------------------------------------
(* The trust score                                                         *)

\* Which flags the parts of verify can raise.
LEMMA AadhaarFlagsAre ==
  ASSUME NEW a
  PROVE  /\ AadhaarFlags(a) \subseteq {"qr_signature_missing", "qr_signature_invalid"}
         /\ "qr_signature_missing" \in AadhaarFlags(a) <=> ~AadhaarData(a).signature
         /\ "qr_signature_invalid" \in AadhaarFlags(a) <=>
              AadhaarData(a).signature /\ ~VerifySignature(a)
<1> DEFINE signed == AadhaarData(a).signature
           verified == VerifySignature(a)
<1>1. AadhaarFlags(a) = Given([qr_signature_missing |-> ~signed,
                               qr_signature_invalid |-> signed /\ ~verified])
  BY DEF AadhaarFlags
<1> HIDE DEF signed, verified
<1> DEFINE r == [qr_signature_missing |-> ~signed, qr_signature_invalid |-> signed /\ ~verified]
<1>2. /\ DOMAIN r = {"qr_signature_missing", "qr_signature_invalid"}
      /\ r["qr_signature_missing"] = ~signed
      /\ r["qr_signature_invalid"] = (signed /\ ~verified)
  OBVIOUS
<1>3. AadhaarFlags(a) = {f \in DOMAIN r : r[f]}
  BY <1>1 DEF Given
<1> HIDE DEF r
<1>4. /\ AadhaarFlags(a) \subseteq {"qr_signature_missing", "qr_signature_invalid"}
      /\ "qr_signature_missing" \in AadhaarFlags(a) <=> r["qr_signature_missing"]
      /\ "qr_signature_invalid" \in AadhaarFlags(a) <=> r["qr_signature_invalid"]
  BY <1>2, <1>3
<1> QED BY <1>2, <1>4 DEF signed, verified

LEMMA PanFlagsAre == ASSUME NEW p PROVE PanFlags(p) \subseteq {"qr_decode_failed"}
BY DEF PanFlags, Given

LEMMA TamperFlagsAre == TamperFlags \subseteq {"qr_ela_anomaly", "qr_exif_anomaly", "qr_tampered"}
BY DEF TamperFlags, Given

LEMMA MatchFlagsAre ==
  ASSUME NEW a, NEW p
  PROVE  MatchFlags(a, p) \subseteq {"qr_name_mismatch", "qr_dob_mismatch",
                                     "qr_address_mismatch", "qr_id_number_mismatch"}
BY DEF MatchFlags, Given

\* The flags of an outcome for the codes a and p, and whether a code is missing.
Missing(a, p) ==
  \E c \in QrClass : codes[c] # 0 /\ (IF c = "aadhaar" THEN a ELSE p) = NoCode
FlagsOf(a, p) ==
  Given([qr_not_found |-> Missing(a, p)])
    \cup (IF a = NoCode THEN {} ELSE AadhaarFlags(a))
    \cup (IF p = NoCode THEN {} ELSE PanFlags(p))
    \cup TamperFlags \cup MatchFlags(a, p)

LEMMA OutcomeIs ==
  ASSUME NEW a, NEW p
  PROVE  /\ Outcome(a, p).score = TrustScore(FlagsOf(a, p), Wrong(a, p))
         /\ Outcome(a, p).flags = FlagsOf(a, p)
BY DEF Outcome, FlagsOf, Missing

LEMMA FlagsAre ==
  ASSUME NEW a, NEW p
  PROVE  /\ FlagsOf(a, p) \subseteq Flag
         /\ "qr_not_found" \in FlagsOf(a, p) <=> Missing(a, p)
         /\ "qr_decode_failed" \in FlagsOf(a, p) <=>
              p # NoCode /\ "qr_decode_failed" \in PanFlags(p)
         /\ \A f \in {"qr_signature_missing", "qr_signature_invalid"} :
              f \in FlagsOf(a, p) <=> a # NoCode /\ f \in AadhaarFlags(a)
         /\ \A f \in {"qr_ela_anomaly", "qr_exif_anomaly", "qr_tampered"} :
              f \in FlagsOf(a, p) <=> f \in TamperFlags
<1> DEFINE none == Given([qr_not_found |-> Missing(a, p)])
<1>1. none \subseteq {"qr_not_found"} /\ ("qr_not_found" \in none <=> Missing(a, p))
  BY DEF Given
<1>2. FlagsOf(a, p) = none \cup (IF a = NoCode THEN {} ELSE AadhaarFlags(a))
                        \cup (IF p = NoCode THEN {} ELSE PanFlags(p))
                        \cup TamperFlags \cup MatchFlags(a, p)
  BY DEF FlagsOf
<1> HIDE DEF none
<1> QED BY <1>1, <1>2, AadhaarFlagsAre, PanFlagsAre, TamperFlagsAre, MatchFlagsAre DEF Flag

Price(condition, points) == IF condition THEN points ELSE 0

\* What the score loses: the charges with those that are spared left out.
LEMMA DeductionIs ==
  ASSUME NEW F, NEW w
  PROVE  Deduction(F, w) =
           Price("qr_not_found" \in F, 20) + Price("qr_decode_failed" \in F, 20)
           + Price("qr_signature_invalid" \in F, 35)
           + Price("qr_signature_missing" \in F /\ "qr_signature_invalid" \notin F, 10)
           + Price("qr_ela_anomaly" \in F /\ "qr_tampered" \notin F, 10)
           + Price("qr_exif_anomaly" \in F /\ "qr_tampered" \notin F, 10)
           + Price("qr_tampered" \in F, 30) + 10 * Cardinality(w)
<1> DEFINE spared == (IF "qr_signature_invalid" \in F THEN {"qr_signature_missing"} ELSE {})
             \cup (IF "qr_tampered" \in F THEN {"qr_ela_anomaly", "qr_exif_anomaly"} ELSE {})
           G == F \ spared
<1>1. Deduction(F, w) = Charged(G) + 10 * Cardinality(w)  BY DEF Deduction
<1>2. /\ "qr_not_found" \in G <=> "qr_not_found" \in F
      /\ "qr_decode_failed" \in G <=> "qr_decode_failed" \in F
      /\ "qr_signature_invalid" \in G <=> "qr_signature_invalid" \in F
      /\ "qr_tampered" \in G <=> "qr_tampered" \in F
      /\ "qr_signature_missing" \in G <=>
           "qr_signature_missing" \in F /\ "qr_signature_invalid" \notin F
      /\ "qr_ela_anomaly" \in G <=> "qr_ela_anomaly" \in F /\ "qr_tampered" \notin F
      /\ "qr_exif_anomaly" \in G <=> "qr_exif_anomaly" \in F /\ "qr_tampered" \notin F
  OBVIOUS
<1> HIDE DEF G
<1>3. Charged(G) = Price("qr_not_found" \in G, 20) + Price("qr_decode_failed" \in G, 20)
           + Price("qr_signature_invalid" \in G, 35) + Price("qr_signature_missing" \in G, 10)
           + Price("qr_ela_anomaly" \in G, 10) + Price("qr_exif_anomaly" \in G, 10)
           + Price("qr_tampered" \in G, 30)
  BY DEF Charged, Cost, Price
<1> QED BY <1>1, <1>2, <1>3

LEMMA PriceType == ASSUME NEW b, NEW n \in Nat PROVE Price(b, n) \in {0, n}
BY DEF Price

\* The fields a code contradicts are finitely many.
LEMMA WrongAreFinite ==
  ASSUME NEW a, NEW p
  PROVE  Wrong(a, p) \subseteq Field /\ IsFiniteSet(Wrong(a, p)) /\ Cardinality(Wrong(a, p)) \in Nat
<1>1. Wrong(a, p) \subseteq Field  BY DEF Wrong, Compared
<1>2. IsFiniteSet({"name", "dob", "address", "uid", "pan"})
  <2>1. IsFiniteSet({"name"})  BY FS_Singleton
  <2>2. IsFiniteSet({"name"} \cup {"dob"})  BY <2>1, FS_AddElement
  <2>3. IsFiniteSet({"name"} \cup {"dob"} \cup {"address"})  BY <2>2, FS_AddElement
  <2>4. IsFiniteSet({"name"} \cup {"dob"} \cup {"address"} \cup {"uid"})  BY <2>3, FS_AddElement
  <2>5. IsFiniteSet({"name"} \cup {"dob"} \cup {"address"} \cup {"uid"} \cup {"pan"})
    BY <2>4, FS_AddElement
  <2>6. {"name", "dob", "address", "uid", "pan"}
          = {"name"} \cup {"dob"} \cup {"address"} \cup {"uid"} \cup {"pan"}
    OBVIOUS
  <2> QED BY <2>5, <2>6
<1>3. IsFiniteSet(Field)  BY <1>2 DEF Field
<1> QED BY <1>1, <1>3, FS_Subset, FS_CardinalityType

LEMMA ScoreType ==
  ASSUME NEW a, NEW p
  PROVE  /\ Deduction(FlagsOf(a, p), Wrong(a, p)) \in Nat
         /\ Outcome(a, p).score \in 0..100
<1>1. Deduction(FlagsOf(a, p), Wrong(a, p)) \in Nat
  BY DeductionIs, PriceType, WrongAreFinite
<1> QED BY <1>1, OutcomeIs DEF TrustScore

\* Against the genuine code of the person whom OCR read on the card, no code
\* misses fewer flags that cost, or contradicts fewer fields.
LEMMA GenuineLosesLeast ==
  ASSUME PublicKey, codes["aadhaar"] # 0, NEW o \in Persons,
         \A f \in {"name", "dob", "address", "uid"} : OcrValue(f) = o,
         NEW b \in Code \cup {NoCode}, NEW p
  PROVE  Outcome(b, p).score <= Outcome([kind |-> "secure", of |-> o], p).score
<1> DEFINE g == [kind |-> "secure", of |-> o]
<1>1. g \in Code /\ g # NoCode
  BY QrAssumption DEF Code, CodeKind, Binary, Signed
<1>2. /\ AadhaarData(g).carries = {"name", "dob", "address", "uid"}
      /\ AadhaarData(g).signature /\ AadhaarData(g).of = o /\ VerifySignature(g)
  BY DEF AadhaarData, VerifySignature, Signed
<1>3. g.of = o  OBVIOUS
<1> HIDE DEF g
<1>4. \A f \in {"name", "dob", "address", "uid"} : QrValue(f, g, p) = o
  BY <1>1, <1>2, <1>3 DEF QrValue
<1>5. \A q : "pan" \notin AadhaarData(q).carries
  BY DEF AadhaarData
<1>6. QrValue("pan", g, p) = QrValue("pan", b, p)
  BY <1>5 DEF QrValue
<1>7. Wrong(g, p) \subseteq Wrong(b, p)
  BY <1>4, <1>6 DEF Wrong, Compared, Field
<1>8. Cardinality(Wrong(g, p)) <= Cardinality(Wrong(b, p))
  BY <1>7, WrongAreFinite, FS_Subset
<1>9. Missing(g, p) => Missing(b, p)
  BY <1>1 DEF Missing
<1>10. "qr_signature_missing" \notin FlagsOf(g, p) /\ "qr_signature_invalid" \notin FlagsOf(g, p)
  BY <1>2, FlagsAre, AadhaarFlagsAre
<1> DEFINE cost(a) == Deduction(FlagsOf(a, p), Wrong(a, p))
           rest == Price("qr_decode_failed" \in FlagsOf(g, p), 20)
             + Price("qr_ela_anomaly" \in FlagsOf(g, p) /\ "qr_tampered" \notin FlagsOf(g, p), 10)
             + Price("qr_exif_anomaly" \in FlagsOf(g, p) /\ "qr_tampered" \notin FlagsOf(g, p), 10)
             + Price("qr_tampered" \in FlagsOf(g, p), 30)
           sign == Price("qr_signature_invalid" \in FlagsOf(b, p), 35)
             + Price("qr_signature_missing" \in FlagsOf(b, p)
                     /\ "qr_signature_invalid" \notin FlagsOf(b, p), 10)
<1>11. /\ \A f \in {"qr_decode_failed", "qr_ela_anomaly", "qr_exif_anomaly", "qr_tampered"} :
            f \in FlagsOf(g, p) <=> f \in FlagsOf(b, p)
       /\ "qr_not_found" \in FlagsOf(g, p) => "qr_not_found" \in FlagsOf(b, p)
  BY <1>9, FlagsAre
<1>12. rest \in Nat /\ sign \in Nat  BY PriceType
<1>13. cost(g) = Price("qr_not_found" \in FlagsOf(g, p), 20) + rest
                 + 10 * Cardinality(Wrong(g, p))
  <2>1. Price("qr_signature_invalid" \in FlagsOf(g, p), 35) = 0
        /\ Price("qr_signature_missing" \in FlagsOf(g, p)
                 /\ "qr_signature_invalid" \notin FlagsOf(g, p), 10) = 0
    BY <1>10 DEF Price
  <2> QED BY <2>1, DeductionIs, PriceType, WrongAreFinite
<1>14. cost(b) = Price("qr_not_found" \in FlagsOf(b, p), 20) + rest + sign
                 + 10 * Cardinality(Wrong(b, p))
  BY <1>11, DeductionIs, PriceType, WrongAreFinite
<1>15. Price("qr_not_found" \in FlagsOf(g, p), 20) <= Price("qr_not_found" \in FlagsOf(b, p), 20)
       /\ Price("qr_not_found" \in FlagsOf(g, p), 20) \in Nat
       /\ Price("qr_not_found" \in FlagsOf(b, p), 20) \in Nat
  BY <1>11 DEF Price
<1> HIDE DEF rest, sign, cost
<1>16. cost(g) <= cost(b)
  BY <1>8, <1>12, <1>13, <1>14, <1>15, WrongAreFinite
<1>17. cost(g) \in Nat /\ cost(b) \in Nat  BY ScoreType DEF cost
<1>18. Outcome(b, p).score <= Outcome(g, p).score
  BY <1>16, <1>17, OutcomeIs DEF TrustScore, cost
<1> QED BY <1>18 DEF g

\* Whoever presents the card that OCR read is served best by its own signed
\* code: for any people, cards and pages, with or without a PAN card beside it,
\* no missing, damaged, forged or borrowed code scores higher.
THEOREM NothingBeatsTheGenuineCode == Spec => []GenuineCodeIsBest
<1>1. IInv => GenuineCodeIsBest
  <2> SUFFICES ASSUME Kept, PublicKey, codes["aadhaar"] # 0,
                      \A f \in {"name", "dob", "address", "uid"} :
                        OcrValue(f) = pages[codes["aadhaar"]].owner,
                      NEW b \in Code \cup {NoCode}
               PROVE  Outcome(b, CodeOf("pan")).score
                        <= Outcome([kind |-> "secure", of |-> pages[codes["aadhaar"]].owner],
                                   CodeOf("pan")).score
    BY DEF IInv, GenuineCodeIsBest
  <2>1. codes["aadhaar"] \in 1..Len(pages)  BY LenProperties DEF Kept, Class
  <2>2. pages[codes["aadhaar"]] \in Card  BY <2>1, ElementOfSeq, QrAssumption DEF Kept
  <2>3. pages[codes["aadhaar"]].owner \in Persons  BY <2>2 DEF Card
  <2> QED BY <2>3, GenuineLosesLeast
<1> QED BY Invariant, <1>1, PTL

-----------------------------------------------------------------------------
(* What the decision model is told                                         *)

\* Each flag about the image or about a field, and what raises it.
LEMMA TamperFlagsSay ==
  /\ "qr_ela_anomaly" \in TamperFlags <=> Tampering.ela
  /\ "qr_exif_anomaly" \in TamperFlags <=> Tampering.exif
  /\ "qr_tampered" \in TamperFlags <=> Tampering.ela /\ Tampering.exif
<1> DEFINE ela == Tampering.ela
           exif == Tampering.exif
           r == [qr_ela_anomaly |-> ela, qr_exif_anomaly |-> exif, qr_tampered |-> ela /\ exif]
<1>1. TamperFlags = {f \in DOMAIN r : r[f]}  BY DEF TamperFlags, Given
<1> HIDE DEF ela, exif
<1>2. /\ DOMAIN r = {"qr_ela_anomaly", "qr_exif_anomaly", "qr_tampered"}
      /\ r["qr_ela_anomaly"] = ela /\ r["qr_exif_anomaly"] = exif
      /\ r["qr_tampered"] = (ela /\ exif)
  OBVIOUS
<1> HIDE DEF r
<1>3. /\ "qr_ela_anomaly" \in TamperFlags <=> r["qr_ela_anomaly"]
      /\ "qr_exif_anomaly" \in TamperFlags <=> r["qr_exif_anomaly"]
      /\ "qr_tampered" \in TamperFlags <=> r["qr_tampered"]
  BY <1>1, <1>2
<1> QED BY <1>2, <1>3 DEF ela, exif

\* A contradicted number is a flag where OCR read a number to hold against it.
NumberWrong(a, p) == \E f \in Wrong(a, p) \cap {"uid", "pan"} : OcrValue(f) # Nobody

LEMMA MatchFlagsSay ==
  ASSUME NEW a, NEW p
  PROVE  /\ "qr_name_mismatch" \in MatchFlags(a, p) <=> "name" \in Wrong(a, p)
         /\ "qr_dob_mismatch" \in MatchFlags(a, p) <=> "dob" \in Wrong(a, p)
         /\ "qr_id_number_mismatch" \in MatchFlags(a, p) <=> NumberWrong(a, p)
<1> DEFINE name == "name" \in Wrong(a, p)
           dob == "dob" \in Wrong(a, p)
           address == "address" \in Wrong(a, p)
           number == NumberWrong(a, p)
           r == [qr_name_mismatch |-> name, qr_dob_mismatch |-> dob,
                 qr_address_mismatch |-> address, qr_id_number_mismatch |-> number]
<1>1. MatchFlags(a, p) = {f \in DOMAIN r : r[f]}  BY DEF MatchFlags, Given, NumberWrong
<1> HIDE DEF name, dob, address, number
<1>2. /\ DOMAIN r = {"qr_name_mismatch", "qr_dob_mismatch", "qr_address_mismatch",
                     "qr_id_number_mismatch"}
      /\ r["qr_name_mismatch"] = name /\ r["qr_dob_mismatch"] = dob
      /\ r["qr_id_number_mismatch"] = number
  OBVIOUS
<1> HIDE DEF r
<1>3. /\ "qr_name_mismatch" \in MatchFlags(a, p) <=> r["qr_name_mismatch"]
      /\ "qr_dob_mismatch" \in MatchFlags(a, p) <=> r["qr_dob_mismatch"]
      /\ "qr_id_number_mismatch" \in MatchFlags(a, p) <=> r["qr_id_number_mismatch"]
  BY <1>1, <1>2
<1> QED BY <1>2, <1>3 DEF name, dob, number

\* The evidence and verify's flags agree, fact by fact.
LEMMA EvidenceAndFlags ==
  ASSUME Kept
  PROVE  LET a == CodeOf("aadhaar")
             p == CodeOf("pan")
             e == AsEvidence
             F == FlagsOf(a, p)
         IN  /\ e.qrMissing <=> "qr_not_found" \in F
             /\ e.qrUnreadable <=> "qr_decode_failed" \in F
             /\ e.signature = "invalid" <=> "qr_signature_invalid" \in F
             /\ e.signature = "missing" <=>
                  "qr_signature_missing" \in F /\ "qr_signature_invalid" \notin F
             /\ (e.ela <=> Tampering.ela) /\ (e.exif <=> Tampering.exif)
             /\ e.qrWrong = Wrong(a, p)
             /\ e.aadhaar # "unread" <=> OcrValue("uid") # Nobody
             /\ e.pan # "unread" <=> OcrValue("pan") # Nobody
<1> DEFINE a == CodeOf("aadhaar")
           p == CodeOf("pan")
           at(c) == IF fields[c] = 0 THEN NoCode ELSE seen[fields[c]]
           read(c, f) == fields[c] # 0 /\ f \in pages[fields[c]].shows
           missing == \E c \in QrClass : fields[c] # 0 /\ at(c) = NoCode
           unreadable == p # NoCode /\ p.kind \notin {"record", "lower", "bare"}
           signature == IF a = NoCode \/ (a.kind = "secure" /\ setup.key = "pem") THEN "valid"
                        ELSE IF a.kind \in Signed THEN "invalid" ELSE "missing"
           ela == \E c \in Examined : pages[fields[c]].resaved
           exif == \E c \in Examined : pages[fields[c]].edited
           uid == read("aadhaar", "uid")
           pan == read("pan", "pan")
<1>1. fields = codes /\ fields = image  BY DEF Kept
<1>2. at("aadhaar") = a /\ at("pan") = p  BY <1>1 DEF CodeOf
<1>3. AsEvidence = [qrMissing |-> missing, qrUnreadable |-> unreadable, signature |-> signature,
                    qrWrong |-> Wrong(a, p), ela |-> ela, exif |-> exif,
                    aadhaar |-> IF uid THEN "valid" ELSE "unread",
                    pan |-> IF pan THEN "active" ELSE "unread"]
  BY <1>2 DEF AsEvidence
<1>4. missing <=> Missing(a, p)
  BY <1>1, <1>2 DEF Missing, QrClass
<1>5. unreadable <=> p # NoCode /\ "qr_decode_failed" \in PanFlags(p)
  <2>1. "qr_decode_failed" \in PanFlags(p) <=> ~PanData(p).formatValid
    BY DEF PanFlags, Given
  <2> QED BY <2>1 DEF PanData
<1>6. /\ signature = "invalid" <=> a # NoCode /\ "qr_signature_invalid" \in AadhaarFlags(a)
      /\ signature = "missing" <=> a # NoCode /\ "qr_signature_missing" \in AadhaarFlags(a)
  BY AadhaarFlagsAre DEF AadhaarData, VerifySignature, PublicKey, Signed
<1>7. "qr_signature_missing" \in AadhaarFlags(a) => "qr_signature_invalid" \notin AadhaarFlags(a)
  BY AadhaarFlagsAre
<1>8. (ela <=> Tampering.ela) /\ (exif <=> Tampering.exif)
  BY <1>1 DEF Tampering
<1>9. (uid <=> OcrValue("uid") # Nobody) /\ (pan <=> OcrValue("pan") # Nobody)
  <2>1. ASSUME NEW c \in Class, fields[c] # 0 PROVE pages[fields[c]].owner \in Persons
    <3>1. fields[c] \in 1..Len(pages)  BY <2>1, LenProperties DEF Kept
    <3> QED BY <3>1, ElementOfSeq, QrAssumption DEF Kept, Card
  <2>2. /\ fields["aadhaar"] # 0 => pages[fields["aadhaar"]].owner # Nobody
        /\ fields["pan"] # 0 => pages[fields["pan"]].owner # Nobody
    BY <2>1, QrAssumption DEF Class
  <2> QED BY <2>2 DEF OcrValue
<1> HIDE DEF missing, unreadable, signature, ela, exif, uid, pan
<1>10. /\ AsEvidence.qrMissing = missing /\ AsEvidence.qrUnreadable = unreadable
       /\ AsEvidence.signature = signature /\ AsEvidence.qrWrong = Wrong(a, p)
       /\ AsEvidence.ela = ela /\ AsEvidence.exif = exif
       /\ AsEvidence.aadhaar # "unread" <=> uid
       /\ AsEvidence.pan # "unread" <=> pan
  BY <1>3
<1> HIDE DEF a, p
<1> QED BY <1>4, <1>5, <1>6, <1>7, <1>8, <1>9, <1>10, FlagsAre DEF a, p

\* Where signatures can be checked the decision model is not misled about QR
\* codes: for any cards and pages, the trust it computes from the evidence is
\* verify's score, and its three identity flags are those verify's flags stand for.
THEOREM DecisionIsToldTheTruth == Spec => []EvidenceIsFaithful
<1>1. IInv => EvidenceIsFaithful
  <2> SUFFICES ASSUME IInv, result # NoResult, ~setup.mock, Checkable
               PROVE  /\ result.score = 100 - Ev!TrustLoss(AsEvidence)
                      /\ ("qr_signature_invalid" \in result.flags) = (AsEvidence.signature = "invalid")
                      /\ ({"qr_name_mismatch", "qr_dob_mismatch", "qr_id_number_mismatch"}
                            \cap result.flags # {})
                           = (AsEvidence.qrWrong \cap Ev!QrFlagged(AsEvidence) # {})
                      /\ ("qr_tampered" \in result.flags) = (AsEvidence.ela /\ AsEvidence.exif)
    BY DEF EvidenceIsFaithful
  <2> DEFINE a == CodeOf("aadhaar")
             p == CodeOf("pan")
             e == AsEvidence
             F == FlagsOf(a, p)
             w == Wrong(a, p)
  <2>1. result = Outcome(a, p) /\ Kept  BY DEF IInv, Told
  <2>2. result.flags = F /\ result.score = TrustScore(F, w)  BY <2>1, OutcomeIs
  <2>3. /\ e.qrMissing <=> "qr_not_found" \in F
        /\ e.qrUnreadable <=> "qr_decode_failed" \in F
        /\ e.signature = "invalid" <=> "qr_signature_invalid" \in F
        /\ e.signature = "missing" <=>
             "qr_signature_missing" \in F /\ "qr_signature_invalid" \notin F
        /\ e.qrWrong = w
        /\ e.aadhaar # "unread" <=> OcrValue("uid") # Nobody
        /\ e.pan # "unread" <=> OcrValue("pan") # Nobody
    BY <2>1, EvidenceAndFlags
  <2>4. /\ "qr_ela_anomaly" \in F <=> e.ela
        /\ "qr_exif_anomaly" \in F <=> e.exif
        /\ "qr_tampered" \in F <=> e.ela /\ e.exif
    <3>1. (e.ela <=> Tampering.ela) /\ (e.exif <=> Tampering.exif)
      BY <2>1, EvidenceAndFlags
    <3>2. \A f \in {"qr_ela_anomaly", "qr_exif_anomaly", "qr_tampered"} :
            f \in F <=> f \in TamperFlags
      BY FlagsAre
    <3> QED BY <3>1, <3>2, TamperFlagsSay
  <2>5. {"qr_name_mismatch", "qr_dob_mismatch", "qr_id_number_mismatch"} \cap F # {}
          <=> "name" \in w \/ "dob" \in w \/ NumberWrong(a, p)
    <3>1. \A f \in {"qr_name_mismatch", "qr_dob_mismatch", "qr_id_number_mismatch"} :
            f \in F <=> f \in MatchFlags(a, p)
      BY AadhaarFlagsAre, PanFlagsAre, TamperFlagsAre DEF FlagsOf, Given
    <3> QED BY <3>1, MatchFlagsSay
  <2>6. e.qrWrong \cap Ev!QrFlagged(e) # {}
          <=> "name" \in w \/ "dob" \in w \/ NumberWrong(a, p)
    <3> HIDE DEF e, w
    <3> QED BY <2>3 DEF Ev!QrFlagged, NumberWrong, w
  <2>7. result.score = 100 - Ev!TrustLoss(e)
    <3>1. Deduction(F, w) =
            Price(e.qrMissing, 20) + Price(e.qrUnreadable, 20)
            + Price(e.signature = "invalid", 35) + Price(e.signature = "missing", 10)
            + Price(e.ela /\ ~(e.ela /\ e.exif), 10) + Price(e.exif /\ ~(e.ela /\ e.exif), 10)
            + Price(e.ela /\ e.exif, 30) + 10 * Cardinality(e.qrWrong)
      <4> HIDE DEF e, F, w
      <4>1. Deduction(F, w) =
              Price("qr_not_found" \in F, 20) + Price("qr_decode_failed" \in F, 20)
              + Price("qr_signature_invalid" \in F, 35)
              + Price("qr_signature_missing" \in F /\ "qr_signature_invalid" \notin F, 10)
              + Price("qr_ela_anomaly" \in F /\ "qr_tampered" \notin F, 10)
              + Price("qr_exif_anomaly" \in F /\ "qr_tampered" \notin F, 10)
              + Price("qr_tampered" \in F, 30) + 10 * Cardinality(w)
        BY DeductionIs
      <4> QED BY <4>1, <2>3, <2>4 DEF Price
    <3> DEFINE marks == IF e.ela /\ e.exif THEN 30 ELSE Price(e.ela \/ e.exif, 10)
               others == Price(e.qrMissing, 20) + Price(e.qrUnreadable, 20)
                         + Price(e.signature = "invalid", 35) + Price(e.signature = "missing", 10)
               many == Cardinality(e.qrWrong)
    <3>2. Price(e.ela /\ ~(e.ela /\ e.exif), 10) + Price(e.exif /\ ~(e.ela /\ e.exif), 10)
            + Price(e.ela /\ e.exif, 30) = marks
      <4> HIDE DEF e
      <4> QED BY DEF Price
    <3>3. many \in Nat /\ others \in Nat /\ marks \in Nat
      <4>1. many \in Nat  BY <2>3, WrongAreFinite
      <4> QED BY <4>1, PriceType
    <3>4. Deduction(F, w) = others + marks + 10 * many
      <4>1. /\ Price(e.ela /\ ~(e.ela /\ e.exif), 10) \in {0, 10}
            /\ Price(e.exif /\ ~(e.ela /\ e.exif), 10) \in {0, 10}
            /\ Price(e.ela /\ e.exif, 30) \in {0, 30}
        BY PriceType
      <4> HIDE DEF e, F, w, marks, many
      <4> QED BY <4>1, <3>1, <3>2, <3>3 DEF many
    <3>5. Ev!TrustLoss(e) = IF others + 10 * many + marks > 100 THEN 100
                            ELSE others + 10 * many + marks
      <4>1. Ev!Cardinality(e.qrWrong) = Cardinality(e.qrWrong)
        BY DEF Ev!Cardinality, Cardinality
      <4> QED BY <4>1 DEF Ev!TrustLoss, Ev!Percent, Price
    <3> HIDE DEF e, F, w, marks, many, others
    <3>6. result.score = IF Deduction(F, w) > 100 THEN 0 ELSE 100 - Deduction(F, w)
      BY <2>2 DEF TrustScore
    <3> QED BY <3>3, <3>4, <3>5, <3>6
  <2> HIDE DEF a, p, e, F, w
  <2>8. ("qr_signature_invalid" \in result.flags) = (e.signature = "invalid")
    BY <2>2, <2>3
  <2>9. ({"qr_name_mismatch", "qr_dob_mismatch", "qr_id_number_mismatch"} \cap result.flags # {})
          = (e.qrWrong \cap Ev!QrFlagged(e) # {})
    BY <2>2, <2>5, <2>6
  <2>10. ("qr_tampered" \in result.flags) = (e.ela /\ e.exif)
    BY <2>2, <2>4
  <2> QED BY <2>7, <2>8, <2>9, <2>10 DEF e
<1> QED BY Invariant, <1>1, PTL

-----------------------------------------------------------------------------
(* Types                                                                   *)

LEMMA OutcomeType ==
  ASSUME NEW a \in Code \cup {NoCode}, NEW p
  PROVE  Outcome(a, p) \in Result
<1>1. Outcome(a, p).score \in 0..100 /\ Outcome(a, p).flags \subseteq Flag
  BY ScoreType, OutcomeIs, FlagsAre
<1>2. VerifySignature(a) \in BOOLEAN  BY DEF VerifySignature, PublicKey
<1>3. {ClassifyQrType(c) : c \in {a, p} \ {NoCode}}
        \subseteq {"aadhaar_secure_qr", "aadhaar_text_qr", "pan_qr", "unknown"}
  BY DEF ClassifyQrType
<1>4. Compared(a, p) \subseteq Field /\ Wrong(a, p) \subseteq Field
  BY DEF Wrong, Compared
<1>5. Outcome(a, p) = [mock |-> FALSE,
       signatureValid |-> a # NoCode /\ VerifySignature(a),
       types |-> {ClassifyQrType(c) : c \in {a, p} \ {NoCode}},
       matches |-> Compared(a, p), wrong |-> Wrong(a, p),
       flags |-> Outcome(a, p).flags, score |-> Outcome(a, p).score]
  BY DEF Outcome
<1> DEFINE valid == a # NoCode /\ VerifySignature(a)
           types == {ClassifyQrType(c) : c \in {a, p} \ {NoCode}}
           flags == Outcome(a, p).flags
           score == Outcome(a, p).score
<1>6. /\ valid \in BOOLEAN /\ flags \in SUBSET Flag /\ score \in 0..100
      /\ types \in SUBSET {"aadhaar_secure_qr", "aadhaar_text_qr", "pan_qr", "unknown"}
  BY <1>1, <1>2, <1>3
<1>7. Outcome(a, p) = [mock |-> FALSE, signatureValid |-> valid, types |-> types,
       matches |-> Compared(a, p), wrong |-> Wrong(a, p), flags |-> flags, score |-> score]
  BY <1>5
<1> HIDE DEF valid, types, flags, score
<1> QED BY <1>4, <1>6, <1>7 DEF Result

LEMMA MockType == MockOutcome \in Result
BY DEF MockOutcome, Result, Field

\* The types of the variables: the dictionaries point at pages that were read,
\* and the trust score stays between 0 and 100 whatever is charged.
THEOREM TypeCorrect == Spec => []TypeOK
<1> DEFINE Rest == order \in Seq(Class) /\ result \in Result \cup {NoResult}
<1>1. Init => Rest
  BY DEF Init
<1>2. IInv /\ Rest /\ [Next]_vars => Rest'
  <2> SUFFICES ASSUME IInv, Rest, [Next]_vars PROVE Rest'
    OBVIOUS
  <2>1. ASSUME NEW card \in Cards, NEW code \in Found(card), ReadPage(card, code)
        PROVE  Rest'
    <3>1. card.class \in Class  BY QrAssumption DEF Card
    <3>2. order' = order \/ order' = Append(order, card.class)
      BY <2>1 DEF ReadPage, Collect
    <3>3. order' \in Seq(Class)  BY <3>1, <3>2, AppendProperties
    <3> QED BY <2>1, <3>3 DEF ReadPage
  <2>2. CASE Verify
    <3>1. CodeOf("aadhaar") \in Code \cup {NoCode}
      <4>1. codes["aadhaar"] \in 0..Len(pages) /\ Len(seen) = Len(pages) /\ Len(pages) \in Nat
        BY LenProperties DEF IInv, Kept, Class
      <4>2. CASE codes["aadhaar"] = 0  BY <4>2 DEF CodeOf
      <4>3. CASE codes["aadhaar"] # 0
        <5>1. codes["aadhaar"] \in 1..Len(seen)  BY <4>1, <4>3
        <5> QED BY <4>3, <5>1, ElementOfSeq DEF CodeOf, IInv, Kept
      <4> QED BY <4>2, <4>3
    <3>2. result' = MockOutcome \/ result' = Outcome(CodeOf("aadhaar"), CodeOf("pan"))
      BY <2>2 DEF Verify
    <3>3. result' \in Result  BY <3>1, <3>2, OutcomeType, MockType
    <3> QED BY <2>2, <3>3 DEF Verify
  <2>3. CASE UNCHANGED vars  BY <2>3 DEF vars
  <2> QED BY <2>1, <2>2, <2>3 DEF Next
<1>3. IInv /\ Rest => TypeOK
  BY DEF IInv, Kept, TypeOK
<1> QED BY Invariant, <1>1, <1>2, <1>3, PTL DEF Spec

-----------------------------------------------------------------------------
(* Induction over the natural numbers                                      *)

\* A set of natural numbers that is not empty has a least element.
LEMMA Least ==
  ASSUME NEW T \in SUBSET Nat, T # {}
  PROVE  \E x \in T : \A y \in T : x <= y
<1> DEFINE F == {0..x : x \in T}
           R == StrictSubsetOrdering(Nat)
<1>1. F \subseteq FiniteSubsetsOf(Nat) /\ F # {}
  <2>1. ASSUME NEW x \in T PROVE 0..x \in SUBSET Nat /\ IsFiniteSet(0..x)
    <3>1. x \in Int /\ 0 \in Int  OBVIOUS
    <3> QED BY <3>1, FS_Interval
  <2>2. \A x \in T : 0..x \in FiniteSubsetsOf(Nat)
    BY <2>1 DEF FiniteSubsetsOf
  <2> QED BY <2>2
<1>2. IsWellFoundedOn(R, FiniteSubsetsOf(Nat))
  BY FS_StrictSubsetOrderingWellFounded
<1>3. \E X \in F : \A Y \in F : <<Y, X>> \notin R
  <2> HIDE DEF F, R
  <2> QED BY <1>1, <1>2, WFMin
<1>4. PICK x \in T : \A Y \in F : <<Y, 0..x>> \notin R
  BY <1>3
<1>5. ASSUME NEW y \in T, y < x PROVE FALSE
  <2>1. x \in Nat /\ y \in Nat OBVIOUS
  <2>2. 0..y \subseteq 0..x /\ x \in 0..x /\ x \notin 0..y
    BY <1>5, <2>1
  <2>3. <<0..y, 0..x>> \in R
    BY <2>1, <2>2 DEF StrictSubsetOrdering
  <2> QED BY <1>4, <2>3
<1> QED BY <1>5

\* Induction over the natural numbers, as a fact about a set.
LEMMA Induction ==
  ASSUME NEW S, 0 \in S, \A n \in Nat : n \in S => n + 1 \in S
  PROVE  Nat \subseteq S
<1> SUFFICES ASSUME Nat \ S # {} PROVE FALSE
  OBVIOUS
<1>1. PICK x \in Nat \ S : \A y \in Nat \ S : x <= y
  BY Least
<1>2. x - 1 \in Nat /\ x - 1 \notin Nat \ S
  BY <1>1
<1> QED BY <1>2

-----------------------------------------------------------------------------
(* Document numbers: Verhoeff's tables                                     *)

\* The tables' entries, the digits counted from zero as in the code.
D(a, b) == VerhoeffD[a + 1][b + 1]
P(k, a) == VerhoeffP[k][a + 1]

\* The digits, one by one.
LEMMA EveryDigit ==
  ASSUME NEW a \in Digit
  PROVE  a = 0 \/ a = 1 \/ a = 2 \/ a = 3 \/ a = 4 \/ a = 5 \/ a = 6 \/ a = 7 \/ a = 8 \/ a = 9
BY DEF Digit

\* The rows of _VERHOEFF_D as they were typed in.
LEMMA DRows ==
  /\ VerhoeffD[1] = <<0, 1, 2, 3, 4, 5, 6, 7, 8, 9>> /\ VerhoeffD[2] = <<1, 2, 3, 4, 0, 6, 7, 8, 9, 5>>
  /\ VerhoeffD[3] = <<2, 3, 4, 0, 1, 7, 8, 9, 5, 6>> /\ VerhoeffD[4] = <<3, 4, 0, 1, 2, 8, 9, 5, 6, 7>>
  /\ VerhoeffD[5] = <<4, 0, 1, 2, 3, 9, 5, 6, 7, 8>> /\ VerhoeffD[6] = <<5, 9, 8, 7, 6, 0, 4, 3, 2, 1>>
  /\ VerhoeffD[7] = <<6, 5, 9, 8, 7, 1, 0, 4, 3, 2>> /\ VerhoeffD[8] = <<7, 6, 5, 9, 8, 2, 1, 0, 4, 3>>
  /\ VerhoeffD[9] = <<8, 7, 6, 5, 9, 3, 2, 1, 0, 4>> /\ VerhoeffD[10] = <<9, 8, 7, 6, 5, 4, 3, 2, 1, 0>>
BY DEF VerhoeffD

\* The remainder of a sum or difference of two numbers below five.
Mod5(x) == IF x < 5 THEN x ELSE x - 5

\* The group the table should be: the symmetries of a pentagon, 0 to 4 being
\* its rotations and 5 to 9 its reflections.
Dihedral(a, b) ==
  IF a < 5 THEN (IF b < 5 THEN Mod5(a + b) ELSE 5 + Mod5(a + b - 5))
  ELSE IF b < 5 THEN 5 + Mod5(a - b) ELSE Mod5(a - b + 5)

\* The table is that group, entry by entry.
LEMMA DTable ==
  ASSUME NEW a \in Digit, NEW b \in Digit
  PROVE D(a, b) = Dihedral(a, b)
<1> DEFINE ok(i) == \A x \in Digit : VerhoeffD[i+1][x + 1] = Dihedral(i, x)
<1>0. ok(0)  BY EveryDigit, DRows DEF Dihedral, Mod5
<1>1. ok(1)  BY EveryDigit, DRows DEF Dihedral, Mod5
<1>2. ok(2)  BY EveryDigit, DRows DEF Dihedral, Mod5
<1>3. ok(3)  BY EveryDigit, DRows DEF Dihedral, Mod5
<1>4. ok(4)  BY EveryDigit, DRows DEF Dihedral, Mod5
<1>5. ok(5)  BY EveryDigit, DRows DEF Dihedral, Mod5
<1>6. ok(6)  BY EveryDigit, DRows DEF Dihedral, Mod5
<1>7. ok(7)  BY EveryDigit, DRows DEF Dihedral, Mod5
<1>8. ok(8)  BY EveryDigit, DRows DEF Dihedral, Mod5
<1>9. ok(9)  BY EveryDigit, DRows DEF Dihedral, Mod5
<1> QED BY <1>0, <1>1, <1>2, <1>3, <1>4, <1>5, <1>6, <1>7, <1>8, <1>9, EveryDigit DEF D

\* What the group has of use: it is closed, its product determines each of its
\* factors, and it is associative.
LEMMA Closed == ASSUME NEW a \in Digit, NEW b \in Digit PROVE Dihedral(a, b) \in Digit
BY DEF Dihedral, Mod5, Digit

LEMMA Left == ASSUME NEW a \in Digit, NEW b \in Digit, NEW c \in Digit, Dihedral(a, b) = Dihedral(a, c) PROVE b = c
BY DEF Dihedral, Mod5, Digit

LEMMA Right == ASSUME NEW a \in Digit, NEW b \in Digit, NEW c \in Digit, Dihedral(a, c) = Dihedral(b, c) PROVE a = b
BY DEF Dihedral, Mod5, Digit

LEMMA Assoc == ASSUME NEW a \in Digit, NEW b \in Digit, NEW c \in Digit
  PROVE Dihedral(Dihedral(a, b), c) = Dihedral(a, Dihedral(b, c))
BY SMTT(60) DEF Dihedral, Mod5, Digit

\* The rows of _VERHOEFF_P as they were typed in.
LEMMA PRows ==
  /\ VerhoeffP[1] = <<0, 1, 2, 3, 4, 5, 6, 7, 8, 9>> /\ VerhoeffP[2] = <<1, 5, 7, 6, 2, 8, 3, 0, 9, 4>>
  /\ VerhoeffP[3] = <<5, 8, 0, 3, 7, 9, 6, 1, 4, 2>> /\ VerhoeffP[4] = <<8, 9, 1, 6, 0, 4, 3, 5, 2, 7>>
  /\ VerhoeffP[5] = <<9, 4, 5, 3, 1, 2, 6, 8, 7, 0>> /\ VerhoeffP[6] = <<4, 2, 8, 6, 5, 7, 3, 9, 0, 1>>
  /\ VerhoeffP[7] = <<2, 7, 9, 3, 8, 0, 6, 4, 1, 5>> /\ VerhoeffP[8] = <<7, 0, 4, 6, 9, 1, 3, 2, 5, 8>>
BY DEF VerhoeffP

\* The permutation the rows of the table are the powers of.
Sigma(x) ==
  IF x = 0 THEN 1 ELSE IF x = 1 THEN 5 ELSE IF x = 2 THEN 7 ELSE IF x = 3 THEN 6
  ELSE IF x = 4 THEN 2 ELSE IF x = 5 THEN 8 ELSE IF x = 6 THEN 3 ELSE IF x = 7 THEN 0
  ELSE IF x = 8 THEN 9 ELSE 4

\* Each row is the permutation after the one before it, and the ninth would be
\* the first again.
LEMMA PTable ==
  /\ \A a \in Digit : P(1, a) = a
  /\ \A k \in 1..7, a \in Digit : P(k + 1, a) = Sigma(P(k, a))
  /\ \A a \in Digit : P(1, a) = Sigma(P(8, a))
  /\ \A k \in 1..8, a \in Digit : P(k, a) \in Digit
<1> DEFINE ok(k) == \A a \in Digit : VerhoeffP[k + 1][a + 1] = Sigma(VerhoeffP[k][a + 1])
           typed(k) == \A a \in Digit : VerhoeffP[k][a + 1] \in 0..9
<1>1. ok(1) /\ typed(1)  BY EveryDigit, PRows DEF Sigma
<1>2. ok(2) /\ typed(2)  BY EveryDigit, PRows DEF Sigma
<1>3. ok(3) /\ typed(3)  BY EveryDigit, PRows DEF Sigma
<1>4. ok(4) /\ typed(4)  BY EveryDigit, PRows DEF Sigma
<1>5. ok(5) /\ typed(5)  BY EveryDigit, PRows DEF Sigma
<1>6. ok(6) /\ typed(6)  BY EveryDigit, PRows DEF Sigma
<1>7. ok(7) /\ typed(7)  BY EveryDigit, PRows DEF Sigma
<1>8. typed(8) /\ \A a \in Digit : VerhoeffP[1][a + 1] = a /\ a = Sigma(VerhoeffP[8][a + 1])
  BY EveryDigit, PRows DEF Sigma
<1> QED BY <1>1, <1>2, <1>3, <1>4, <1>5, <1>6, <1>7, <1>8 DEF P, Digit

\* The permutation tells digits apart, and two digits from the same two in the
\* other order.
LEMMA SigmaInjective ==
  ASSUME NEW x \in Digit, NEW y \in Digit, x # y
  PROVE  Sigma(x) \in Digit /\ Sigma(x) # Sigma(y) /\ Dihedral(x, Sigma(y)) # Dihedral(y, Sigma(x))
BY DEF Sigma, Dihedral, Mod5, Digit

-----------------------------------------------------------------------------
(* Recursive functions                                                     *)

\* Induction from one number to another.
LEMMA InductionUpTo ==
  ASSUME NEW S, NEW k \in Nat, NEW n \in Nat, k \in S,
         \A i \in k..n : i < n /\ i \in S => i + 1 \in S
  PROVE  \A i \in k..n : i \in S
<1> DEFINE T == {i \in Nat : k + i <= n => k + i \in S}
<1>1. 0 \in T  OBVIOUS
<1>2. \A i \in Nat : i \in T => i + 1 \in T
  <2> SUFFICES ASSUME NEW i \in Nat, i \in T, k + (i + 1) <= n PROVE k + (i + 1) \in S
    OBVIOUS
  <2>1. k + i \in S /\ k + i \in k..n /\ k + i < n  OBVIOUS
  <2> QED BY <2>1
<1> HIDE DEF T
<1>3. Nat \subseteq T  BY <1>1, <1>2, Induction
<1> SUFFICES ASSUME NEW i \in k..n PROVE i \in S  OBVIOUS
<1>4. i - k \in T  BY <1>3
<1> QED BY <1>4 DEF T

\* f starts with c, and each element is g of the one before it.
Follows(f, n, c, g) == f[0] = c /\ \A i \in 1..n : f[i] = g[<<i, f[i - 1]>>]

\* There is such a function: what lets a recursive definition be unfolded.
LEMMA Recursion ==
  ASSUME NEW n \in Nat, NEW S, NEW c \in S, NEW g \in [(1..n) \X S -> S]
  PROVE  \E f \in [0..n -> S] : Follows(f, n, c, g)
<1> DEFINE Good(f, m) == f \in [0..m -> S] /\ f[0] = c /\ \A i \in 1..m : f[i] = g[<<i, f[i - 1]>>]
           T == {m \in Nat : m <= n => \E f : Good(f, m)}
<1>1. 0 \in T
  <2>1. Good([i \in 0..0 |-> c], 0)  OBVIOUS
  <2> QED BY <2>1
<1>2. \A m \in Nat : m \in T => m + 1 \in T
  <2> SUFFICES ASSUME NEW m \in Nat, m \in T, m + 1 <= n PROVE \E f : Good(f, m + 1)
    OBVIOUS
  <2>1. PICK f : Good(f, m)  OBVIOUS
  <2> DEFINE h == [i \in 0..m + 1 |-> IF i = m + 1 THEN g[<<m + 1, f[m]>>] ELSE f[i]]
  <2>2. f[m] \in S /\ <<m + 1, f[m]>> \in (1..n) \X S  BY <2>1
  <2>3. h \in [0..m + 1 -> S] /\ h[0] = c  BY <2>1, <2>2
  <2>4. ASSUME NEW i \in 1..m + 1 PROVE h[i] = g[<<i, h[i - 1]>>]
    <3>1. CASE i = m + 1
      <4>1. h[m + 1] = g[<<m + 1, f[m]>>] /\ h[m] = f[m]  OBVIOUS
      <4>2. i - 1 = m  BY <3>1
      <4> QED BY <3>1, <4>1, <4>2
    <3>2. CASE i \in 1..m
      <4>1. h[i] = f[i] /\ h[i - 1] = f[i - 1]  BY <3>2
      <4> QED BY <4>1, <3>2, <2>1
    <3> QED BY <3>1, <3>2
  <2> HIDE DEF h
  <2> QED BY <2>3, <2>4
<1> HIDE DEF T
<1>3. n \in T  BY <1>1, <1>2, Induction
<1> QED BY <1>3 DEF T, Follows

-----------------------------------------------------------------------------
(* Document numbers: Aadhaar                                               *)

\* The row of the table a place uses.
Row(i) == (i % 8) + 1

\* The row of the next place is the permutation after that of this place.
LEMMA RowIs ==
  ASSUME NEW i \in Nat
  PROVE  /\ Row(i) \in 1..8
         /\ \A d \in Digit : P(Row(i), d) \in Digit /\ P(Row(i + 1), d) = Sigma(P(Row(i), d))
<1>1. Row(i) \in 1..8 /\ Row(i + 1) = IF Row(i) = 8 THEN 1 ELSE Row(i) + 1
  BY DEF Row
<1> QED BY <1>1, PTable

\* A row tells two digits apart.
LEMMA PInjective ==
  ASSUME NEW i \in Nat, NEW a \in Digit, NEW b \in Digit, a # b
  PROVE  P(Row(i), a) # P(Row(i), b)
<1> DEFINE T == {k \in 1..8 : P(k, a) # P(k, b)}
<1>1. 1 \in T  BY PTable
<1>2. \A k \in 1..8 : k < 8 /\ k \in T => k + 1 \in T
  BY PTable, SigmaInjective
<1> HIDE DEF T
<1>3. \A k \in 1..8 : k \in T  BY <1>1, <1>2, InductionUpTo
<1> QED BY <1>3, RowIs DEF T

\* A step of the loop is a product of the group.
LEMMA StepIs ==
  ASSUME NEW c \in Digit, NEW i \in Nat, NEW d \in Digit
  PROVE  /\ VerhoeffStep(c, i, d) = Dihedral(c, P(Row(i), d))
         /\ VerhoeffStep(c, i, d) \in Digit
<1>1. P(Row(i), d) \in Digit  BY RowIs
<1>2. VerhoeffStep(c, i, d) = D(c, P(Row(i), d))  BY DEF VerhoeffStep, D, P, Row
<1> QED BY <1>1, <1>2, DTable, Closed

\* The loop's intermediate values, unfolded.
LEMMA CheckIs ==
  ASSUME NEW number \in Seq(Digit)
  PROVE  LET n == Len(number)
             check == VerhoeffCheck(number)
         IN  /\ check \in [0..n -> Digit] /\ check[0] = 0
             /\ \A i \in 1..n : check[i] = VerhoeffStep(check[i - 1], i - 1, number[n - i + 1])
<1> DEFINE n == Len(number)
           g == [x \in (1..n) \X Digit |-> VerhoeffStep(x[2], x[1] - 1, number[n - x[1] + 1])]
           Eq(f) == f = [i \in 0..n |-> IF i = 0 THEN 0
                                        ELSE VerhoeffStep(f[i - 1], i - 1, number[n - i + 1])]
<1>1. n \in Nat /\ \A i \in 1..n : number[n - i + 1] \in Digit
  <2>1. n \in Nat  BY LenProperties
  <2>2. \A i \in 1..n : n - i + 1 \in 1..n  BY <2>1
  <2> QED BY <2>1, <2>2, ElementOfSeq
<1>2. VerhoeffCheck(number) = CHOOSE f : Eq(f)
  BY DEF VerhoeffCheck
<1> HIDE DEF n
<1>3. g \in [(1..n) \X Digit -> Digit]
  <2>1. ASSUME NEW x \in (1..n) \X Digit
        PROVE  VerhoeffStep(x[2], x[1] - 1, number[n - x[1] + 1]) \in Digit
    <3>1. x[1] \in 1..n /\ x[2] \in Digit /\ x[1] - 1 \in Nat  BY <1>1
    <3>2. number[n - x[1] + 1] \in Digit  BY <1>1, <3>1
    <3> QED BY <3>1, <3>2, StepIs
  <2> QED BY <2>1
<1>4. 0 \in Digit  BY DEF Digit
<1>5. PICK f \in [0..n -> Digit] : f[0] = 0 /\ \A i \in 1..n : f[i] = g[<<i, f[i - 1]>>]
  <2> HIDE DEF g
  <2>1. \A c \in Digit : \E f \in [0..n -> Digit] : Follows(f, n, c, g)
    BY <1>1, <1>3, Recursion, Zenon
  <2> QED BY <2>1, <1>4 DEF Follows
<1>6. \A i \in 1..n : f[i] = VerhoeffStep(f[i - 1], i - 1, number[n - i + 1])
  <2> SUFFICES ASSUME NEW i \in 1..n
               PROVE  f[i] = VerhoeffStep(f[i - 1], i - 1, number[n - i + 1])
    OBVIOUS
  <2>1. <<i, f[i - 1]>> \in (1..n) \X Digit  BY <1>1
  <2> QED BY <2>1, <1>5
<1>7. Eq(f)  BY <1>1, <1>5, <1>6
<1> DEFINE check == VerhoeffCheck(number)
<1>8. Eq(check)
  <2> HIDE DEF Eq
  <2> QED BY <1>2, <1>7
<1> HIDE DEF check
<1>9. check[0] = 0 /\ \A i \in 1..n : check[i] = VerhoeffStep(check[i - 1], i - 1, number[n - i + 1])
  BY <1>1, <1>8
<1>10. \A i \in 0..n : check[i] \in Digit
  <2> DEFINE T == {i \in 0..n : check[i] \in Digit}
  <2>1. 0 \in T  BY <1>1, <1>4, <1>9
  <2>2. ASSUME NEW i \in 0..n, i < n, i \in T PROVE i + 1 \in T
    <3>1. i + 1 \in 1..n /\ i \in Nat  BY <1>1, <2>2
    <3>2. check[i + 1] = VerhoeffStep(check[i], i, number[n - (i + 1) + 1])
      BY <3>1, <1>9
    <3>3. check[i + 1] \in Digit  BY <3>1, <3>2, <1>1, <2>2, StepIs
    <3> QED BY <3>1, <3>3
  <2> HIDE DEF T
  <2>3. \A i \in 0..n : i \in T  BY <1>1, <2>1, <2>2, InductionUpTo
  <2> QED BY <2>3 DEF T
<1>11. check \in [0..n -> Digit]  BY <1>8, <1>10
<1> QED BY <1>9, <1>11 DEF check, n

\* What the loop has after i digits from the right.
Check(number, i) == VerhoeffCheck(number)[i]

\* The same, one digit at a time.
LEMMA CheckSteps ==
  ASSUME NEW number \in Seq(Digit), NEW i \in 0..Len(number)
  PROVE  /\ Check(number, i) \in Digit
         /\ i < Len(number) =>
              LET digit == number[Len(number) - i]
              IN  /\ digit \in Digit
                  /\ Check(number, i + 1) = Dihedral(Check(number, i), P(Row(i), digit))
         /\ Check(number, 0) = 0
<1> DEFINE n == Len(number)
<1>1. n \in Nat /\ i \in Nat  BY LenProperties
<1>2. Check(number, i) \in Digit /\ Check(number, 0) = 0
  BY CheckIs DEF Check
<1>3. ASSUME i < n PROVE number[n - i] \in Digit
                         /\ Check(number, i + 1) = Dihedral(Check(number, i), P(Row(i), number[n - i]))
  <2>1. n - i \in 1..n /\ i + 1 \in 1..n /\ n - (i + 1) + 1 = n - i /\ i + 1 - 1 = i
    BY <1>1, <1>3
  <2>2. number[n - i] \in Digit  BY <2>1, ElementOfSeq
  <2>3. \A j \in 1..n : VerhoeffCheck(number)[j]
                          = VerhoeffStep(VerhoeffCheck(number)[j - 1], j - 1, number[n - j + 1])
    BY CheckIs
  <2>4. VerhoeffCheck(number)[i + 1] = VerhoeffStep(VerhoeffCheck(number)[i], i, number[n - i])
    BY <2>1, <2>3
  <2> QED BY <1>1, <1>2, <2>2, <2>4, StepIs DEF Check
<1> QED BY <1>2, <1>3

\* Two numbers with the same last k digits have the same value after them.
LEMMA SameSoFar ==
  ASSUME NEW a \in Seq(Digit), NEW b \in Seq(Digit), Len(a) = Len(b), NEW k \in 0..Len(a),
         \A j \in 1..Len(a) : j > Len(a) - k => a[j] = b[j]
  PROVE  Check(a, k) = Check(b, k)
<1> DEFINE n == Len(a)
           T == {i \in 0..k : Check(a, i) = Check(b, i)}
<1>1. n \in Nat /\ k \in Nat /\ 0 \in Nat  BY LenProperties
<1>2. 0 \in T
  BY <1>1, CheckSteps
<1>3. ASSUME NEW i \in 0..k, i < k, i \in T PROVE i + 1 \in T
  <2>1. i \in 0..n /\ i < n /\ n - i \in 1..n /\ n - i > n - k  BY <1>1, <1>3
  <2>2. a[n - i] = b[n - i]  BY <2>1
  <2>3. /\ Check(a, i + 1) = Dihedral(Check(a, i), P(Row(i), a[n - i]))
        /\ Check(b, i + 1) = Dihedral(Check(b, i), P(Row(i), b[n - i]))
    BY <2>1, CheckSteps
  <2> QED BY <1>3, <2>2, <2>3
<1> HIDE DEF T
<1>4. \A i \in 0..k : i < k /\ i \in T => i + 1 \in T  BY <1>3
<1>5. \A i \in 0..k : i \in T  BY <1>1, <1>2, <1>4, InductionUpTo
<1> QED BY <1>1, <1>5 DEF T

\* A difference there is after k digits stays to the end if the rest is the same.
LEMMA DifferentFromThere ==
  ASSUME NEW a \in Seq(Digit), NEW b \in Seq(Digit), Len(a) = Len(b), NEW k \in 0..Len(a),
         \A j \in 1..Len(a) : j <= Len(a) - k => a[j] = b[j],
         Check(a, k) # Check(b, k)
  PROVE  Check(a, Len(a)) # Check(b, Len(a))
<1> DEFINE n == Len(a)
           T == {i \in k..n : Check(a, i) # Check(b, i)}
<1>1. n \in Nat /\ k \in Nat  BY LenProperties
<1>2. k \in T
  BY <1>1
<1>3. ASSUME NEW i \in k..n, i < n, i \in T PROVE i + 1 \in T
  <2>1. i \in 0..n /\ n - i \in 1..n /\ n - i <= n - k  BY <1>1, <1>3
  <2>2. a[n - i] = b[n - i] /\ a[n - i] \in Digit  BY <2>1, <1>3, CheckSteps
  <2>3. /\ Check(a, i + 1) = Dihedral(Check(a, i), P(Row(i), a[n - i])) /\ Check(a, i) \in Digit
        /\ Check(b, i + 1) = Dihedral(Check(b, i), P(Row(i), b[n - i])) /\ Check(b, i) \in Digit
    BY <2>1, <1>3, CheckSteps
  <2>4. P(Row(i), a[n - i]) \in Digit  BY <2>1, <2>2, RowIs
  <2> QED BY <1>3, <2>1, <2>2, <2>3, <2>4, Right
<1> HIDE DEF T
<1>4. \A i \in k..n : i \in T  BY <1>1, <1>2, <1>3, InductionUpTo
<1> QED BY <1>1, <1>4 DEF T

\* A single wrong digit changes the result.
LEMMA SingleError ==
  ASSUME NEW a \in Seq(Digit), NEW b \in Seq(Digit), Len(a) = Len(b), NEW p \in 1..Len(a),
         a[p] # b[p], \A j \in 1..Len(a) : j # p => a[j] = b[j]
  PROVE  Check(a, Len(a)) # Check(b, Len(a))
<1> DEFINE n == Len(a)
           k == n - p
<1>1. n \in Nat /\ k \in 0..n /\ k < n /\ k + 1 \in 0..n /\ n - k = p /\ k \in Nat
  BY LenProperties
<1>2. Check(a, k) = Check(b, k)
  BY <1>1, SameSoFar
<1>3. /\ Check(a, k + 1) = Dihedral(Check(a, k), P(Row(k), a[p])) /\ a[p] \in Digit
      /\ Check(b, k + 1) = Dihedral(Check(b, k), P(Row(k), b[p])) /\ b[p] \in Digit
      /\ Check(a, k) \in Digit
  BY <1>1, CheckSteps
<1>4. P(Row(k), a[p]) # P(Row(k), b[p]) /\ P(Row(k), a[p]) \in Digit /\ P(Row(k), b[p]) \in Digit
  BY <1>1, <1>3, PInjective, RowIs
<1>5. Check(a, k + 1) # Check(b, k + 1)
  BY <1>2, <1>3, <1>4, Left
<1> QED
  <2> HIDE DEF k
  <2>1. \A j \in 1..n : j <= n - (k + 1) => a[j] = b[j]  BY <1>1
  <2> QED BY <1>1, <1>5, <2>1, DifferentFromThere

\* Two different neighbours in the wrong order change the result.
LEMMA Transposition ==
  ASSUME NEW a \in Seq(Digit), NEW b \in Seq(Digit), Len(a) = Len(b), NEW p \in 1..Len(a) - 1,
         a[p] # a[p + 1], b[p] = a[p + 1], b[p + 1] = a[p],
         \A j \in 1..Len(a) : j # p /\ j # p + 1 => a[j] = b[j]
  PROVE  Check(a, Len(a)) # Check(b, Len(a))
<1> DEFINE n == Len(a)
           k == n - p - 1
           c == Check(a, k)
           x == P(Row(k), a[p + 1])
           y == P(Row(k), a[p])
<1>1. n \in Nat /\ k \in 0..n /\ k < n /\ k + 1 \in 0..n /\ k + 1 < n /\ n - k = p + 1 /\ n - (k + 1) = p /\ k \in Nat
      /\ k + 2 \in 0..n /\ k + 1 + 1 = k + 2
  BY LenProperties
<1> HIDE DEF k
<1>2. c = Check(b, k) /\ c \in Digit
  <2>1. \A j \in 1..n : j > n - k => a[j] = b[j]  BY <1>1
  <2> QED BY <1>1, <2>1, SameSoFar, CheckSteps
<1>3. /\ Check(a, k + 1) = Dihedral(c, x) /\ Check(b, k + 1) = Dihedral(c, y)
      /\ Check(a, k + 1) \in Digit /\ Check(b, k + 1) \in Digit
      /\ a[p] \in Digit /\ a[p + 1] \in Digit
  BY <1>1, <1>2, CheckSteps
<1>4. /\ Check(a, k + 2) = Dihedral(Dihedral(c, x), P(Row(k + 1), a[p]))
      /\ Check(b, k + 2) = Dihedral(Dihedral(c, y), P(Row(k + 1), a[p + 1]))
  BY <1>1, <1>3, CheckSteps
<1>5. /\ x \in Digit /\ y \in Digit /\ x # y
      /\ P(Row(k + 1), a[p]) = Sigma(y) /\ P(Row(k + 1), a[p + 1]) = Sigma(x)
  BY <1>1, <1>3, RowIs, PInjective
<1> HIDE DEF c, x, y
<1>6. /\ Sigma(x) \in Digit /\ Sigma(y) \in Digit
      /\ Dihedral(x, Sigma(y)) # Dihedral(y, Sigma(x))
  BY <1>5, SigmaInjective
<1>7. /\ Check(a, k + 2) = Dihedral(c, Dihedral(x, Sigma(y)))
      /\ Check(b, k + 2) = Dihedral(c, Dihedral(y, Sigma(x)))
  BY <1>2, <1>4, <1>5, <1>6, Assoc
<1>8. Check(a, k + 2) # Check(b, k + 2)
  <2>1. Dihedral(x, Sigma(y)) \in Digit /\ Dihedral(y, Sigma(x)) \in Digit
    BY <1>5, <1>6, Closed
  <2> QED BY <1>2, <1>6, <1>7, <2>1, Left
<1>9. \A j \in 1..n : j <= n - (k + 2) => a[j] = b[j]  BY <1>1
<1> QED BY <1>1, <1>8, <1>9, DifferentFromThere

\* A function on 1..n is a sequence.
LEMMA SequenceOf ==
  ASSUME NEW n \in Nat, NEW S, NEW s \in [1..n -> S]
  PROVE  s \in Seq(S) /\ Len(s) = n
<1>1. s \in Seq(S)  BY SeqDef
<1>2. Len(s) \in Nat /\ 1..Len(s) = 1..n  BY <1>1, LenProperties
<1>3. Len(s) = n
  <2>1. CASE n = 0  BY <1>2, <2>1
  <2>2. CASE n > 0
    <3>1. n \in 1..Len(s)  BY <1>2, <2>2
    <3>2. Len(s) \in 1..n  BY <1>2, <3>1
    <3> QED BY <1>2, <3>1, <3>2
  <2> QED BY <2>1, <2>2
<1> QED BY <1>1, <1>3

\* Of the ten digits one makes a stem a valid number.
LEMMA LastDigit ==
  ASSUME NEW stem \in [1..11 -> Digit]
  PROVE  \E d \in Digit : {e \in Digit : VerhoeffValid(Append(stem, e))} = {d}
<1> DEFINE number(e) == Append(stem, e)
           F == [e \in Digit |-> Check(number(e), 12)]
<1>1. stem \in Seq(Digit) /\ Len(stem) = 11
  BY SequenceOf
<1>2. ASSUME NEW e \in Digit
      PROVE  /\ number(e) \in Seq(Digit) /\ Len(number(e)) = 12 /\ number(e)[12] = e
             /\ \A j \in 1..12 : j # 12 => number(e)[j] = stem[j]
  <2>1. \A s \in Seq(Digit) : /\ Append(s, e) \in Seq(Digit) /\ Len(Append(s, e)) = Len(s) + 1
                              /\ \A j \in 1..Len(s) : Append(s, e)[j] = s[j]
                              /\ Append(s, e)[Len(s) + 1] = e
    BY AppendProperties
  <2>2. /\ number(e) \in Seq(Digit) /\ Len(number(e)) = Len(stem) + 1
        /\ \A j \in 1..Len(stem) : number(e)[j] = stem[j]
        /\ number(e)[Len(stem) + 1] = e
    BY <1>1, <2>1
  <2> HIDE DEF number
  <2> QED BY <1>1, <2>2
<1> HIDE DEF number
<1>3. ASSUME NEW d \in Digit, NEW e \in Digit, d # e PROVE F[d] # F[e]
  <2> DEFINE a == number(d)
             b == number(e)
  <2>1. /\ a \in Seq(Digit) /\ b \in Seq(Digit) /\ Len(a) = 12 /\ Len(b) = 12 /\ 12 \in 1..Len(a)
        /\ a[12] # b[12] /\ \A j \in 1..Len(a) : j # 12 => a[j] = b[j]
    <3>1. /\ a \in Seq(Digit) /\ Len(a) = 12 /\ a[12] = d
          /\ \A j \in 1..12 : j # 12 => a[j] = stem[j]
      BY <1>2
    <3>2. /\ b \in Seq(Digit) /\ Len(b) = 12 /\ b[12] = e
          /\ \A j \in 1..12 : j # 12 => b[j] = stem[j]
      BY <1>2
    <3> HIDE DEF a, b
    <3> QED BY <1>3, <3>1, <3>2
  <2> HIDE DEF a, b
  <2>2. Check(a, Len(a)) # Check(b, Len(a))
    BY <2>1, SingleError
  <2>3. F[d] = Check(a, 12) /\ F[e] = Check(b, 12)  BY DEF a, b
  <2> HIDE DEF F
  <2> QED BY <2>1, <2>2, <2>3
<1>4. F \in [Digit -> Digit]
  <2>1. ASSUME NEW e \in Digit PROVE Check(number(e), 12) \in Digit
    BY <1>2, CheckSteps
  <2> QED BY <2>1
<1> HIDE DEF F
<1>5. IsFiniteSet(Digit)
  <2>1. \A a \in Int, b \in Int : IsFiniteSet(a..b)  BY FS_Interval
  <2>2. 0 \in Int /\ 9 \in Int  OBVIOUS
  <2> QED BY <2>1, <2>2 DEF Digit
<1>6. F \in Surjection(Digit, Digit)
  <2>1. F \in Injection(Digit, Digit)  BY <1>3, <1>4 DEF Injection, IsInjective
  <2> QED BY <1>5, <2>1, FS_Injection
<1>7. PICK d \in Digit : F[d] = 0
  <2>1. 0 \in Digit  BY DEF Digit
  <2> QED BY <1>6, <2>1 DEF Surjection
<1>8. ASSUME NEW e \in Digit PROVE VerhoeffValid(number(e)) <=> F[e] = 0
  <2>1. F[e] = Check(number(e), 12)  BY DEF F
  <2> QED BY <2>1, <1>2 DEF VerhoeffValid, Check
<1>9. {e \in Digit : VerhoeffValid(number(e))} = {d}
  BY <1>3, <1>7, <1>8
<1> QED BY <1>9 DEF number

\* AadhaarErrorsAreCaught, for every stem of eleven digits.
LEMMA AadhaarNumbers ==
  ASSUME NEW stem \in [1..11 -> Digit], stem[1] \notin {0, 1},
         kind = "aadhaar", subject = stem
  PROVE  AadhaarErrorsAreCaught
<1> DEFINE number(d) == Append(stem, d)
           last == {d \in Digit : ValidAadhaar(number(d))}
<1>1. ASSUME NEW d \in Digit
      PROVE  /\ number(d) \in Seq(Digit) /\ Len(number(d)) = 12
             /\ number(d)[1] \notin {0, 1}
  <2>1. stem \in Seq(Digit) /\ Len(stem) = 11  BY SequenceOf
  <2>2. \A s \in Seq(Digit) : /\ Append(s, d) \in Seq(Digit) /\ Len(Append(s, d)) = Len(s) + 1
                              /\ \A j \in 1..Len(s) : Append(s, d)[j] = s[j]
    BY AppendProperties
  <2>3. number(d) \in Seq(Digit) /\ Len(number(d)) = 12 /\ number(d)[1] = stem[1]
    <3>1. \A j \in 1..11 : Append(stem, d)[j] = stem[j]  BY <2>1, <2>2
    <3>2. Append(stem, d)[1] = stem[1]  BY <3>1
    <3>3. Append(stem, d) \in Seq(Digit) /\ Len(Append(stem, d)) = 11 + 1  BY <2>1, <2>2
    <3> QED BY <3>2, <3>3
  <2> HIDE DEF number
  <2> QED BY <2>3
<1>2. PICK only \in Digit : {d \in Digit : VerhoeffValid(number(d))} = {only}
  BY LastDigit
<1>3. last = {only}
  <2> HIDE DEF number
  <2> QED BY <1>1, <1>2 DEF ValidAadhaar
<1>4. Cardinality(last) = 1
  BY <1>3, FS_Singleton
<1>5. ASSUME NEW d \in last
      PROVE  /\ number(d) \in Seq(Digit) /\ Len(number(d)) = 12 /\ Check(number(d), 12) = 0
  <2> HIDE DEF number
  <2> QED BY <1>1 DEF ValidAadhaar, VerhoeffValid, Check
<1>6. ASSUME NEW d \in last, NEW i \in 1..12, NEW v \in Digit, v # number(d)[i]
      PROVE  ~ValidAadhaar(Changed(number(d), i, v))
  <2> DEFINE a == number(d)
             b == Changed(a, i, v)
  <2>1. a \in Seq(Digit) /\ Len(a) = 12 /\ Check(a, 12) = 0 /\ v # a[i]  BY <1>5, <1>6
  <2> HIDE DEF a
  <2>2. /\ b \in Seq(Digit) /\ Len(b) = Len(a)
        /\ \A j \in 1..Len(a) : b[j] = IF j = i THEN v ELSE a[j]
    <3>1. a \in [1..12 -> Digit]  BY <2>1, LenProperties
    <3>2. b \in [1..12 -> Digit] /\ \A j \in 1..12 : b[j] = IF j = i THEN v ELSE a[j]
      BY <3>1 DEF Changed
    <3> HIDE DEF b
    <3>3. b \in [1..12 -> Digit]  BY <3>2
    <3>4. b \in Seq(Digit) /\ Len(b) = 12  BY <3>3, SequenceOf
    <3> QED BY <2>1, <3>2, <3>4
  <2> HIDE DEF b
  <2>3. Check(a, Len(a)) # Check(b, Len(a))
    <3>1. i \in 1..Len(a) /\ a[i] # b[i] /\ \A j \in 1..Len(a) : j # i => a[j] = b[j]
      BY <2>1, <2>2
    <3> QED BY <2>1, <2>2, <3>1, SingleError
  <2>4. ~ValidAadhaar(b)  BY <2>1, <2>2, <2>3 DEF ValidAadhaar, VerhoeffValid, Check
  <2> QED BY <2>4 DEF a, b
<1>7. ASSUME NEW d \in last, NEW i \in 1..11, number(d)[i] # number(d)[i + 1]
      PROVE  ~ValidAadhaar(Swapped(number(d), i))
  <2> DEFINE a == number(d)
             b == Swapped(a, i)
  <2>1. a \in Seq(Digit) /\ Len(a) = 12 /\ Check(a, 12) = 0 /\ a[i] # a[i + 1]  BY <1>5, <1>7
  <2> HIDE DEF a
  <2>2. a \in [1..12 -> Digit]  BY <2>1, LenProperties
  <2>3. b \in [1..12 -> Digit]  BY <2>2 DEF Swapped
  <2>4. b \in Seq(Digit) /\ Len(b) = 12  BY <2>3, SequenceOf
  <2>5. /\ b[i] = a[i + 1] /\ b[i + 1] = a[i]
        /\ \A j \in 1..12 : j # i /\ j # i + 1 => a[j] = b[j]
    BY <2>2 DEF Swapped
  <2> HIDE DEF b
  <2>6. i \in 1..Len(a) - 1  BY <2>1
  <2>7. Check(a, Len(a)) # Check(b, Len(a))
    BY <2>1, <2>4, <2>5, <2>6, Transposition
  <2>8. ~ValidAadhaar(b)  BY <2>1, <2>4, <2>7 DEF ValidAadhaar, VerhoeffValid, Check
  <2> QED BY <2>8 DEF a, b
<1> HIDE DEF last
<1>8. /\ Cardinality(last) = 1
      /\ \A d \in last :
             /\ \A i \in 1..12, v \in Digit :
                  v # number(d)[i] => ~ValidAadhaar(Changed(number(d), i, v))
             /\ \A i \in 1..11 :
                  number(d)[i] # number(d)[i + 1] => ~ValidAadhaar(Swapped(number(d), i))
  BY <1>4, <1>6, <1>7
<1> QED BY <1>8 DEF AadhaarErrorsAreCaught, last

-----------------------------------------------------------------------------
(* Document numbers: the check digits of ICAO 9303                         *)

\* The weight of place i of the data, as the code's table has it.
Weight(i) == MrzWeights[((i - 1) % 3) + 1]

\* It is ICAO's.
LEMMA WeightIs ==
  ASSUME NEW i \in Nat \ {0}
  PROVE  /\ Weight(i) \in {7, 3, 1}
         /\ Weight(i) = CASE i % 3 = 1 -> 7 [] i % 3 = 2 -> 3 [] OTHER -> 1
<1>1. MrzWeights[1] = 7 /\ MrzWeights[2] = 3 /\ MrzWeights[3] = 1  BY DEF MrzWeights
<1>2. \/ i % 3 = 1 /\ (i - 1) % 3 = 0
      \/ i % 3 = 2 /\ (i - 1) % 3 = 1
      \/ i % 3 = 0 /\ (i - 1) % 3 = 2
  OBVIOUS
<1> QED BY <1>1, <1>2 DEF Weight

\* A letter, a digit and a filler have ICAO's values.
LEMMA ValueIs ==
  ASSUME NEW ch \in MrzChar
  PROVE  MrzValue(ch) \in 0..35 /\ MrzValue(ch) = ch % Filler
BY DEF MrzValue, MrzChar, Filler

\* Products by a weight commute and are natural numbers.
LEMMA Product ==
  ASSUME NEW w \in {7, 3, 1}, NEW v \in 0..35
  PROVE  w * v \in Nat /\ v * w = w * v /\ v * w \in Nat
<1>1. CASE w = 7  BY <1>1
<1>2. CASE w = 3  BY <1>2
<1>3. CASE w = 1  BY <1>3
<1> QED BY <1>1, <1>2, <1>3

\* The running sums of a sequence, unfolded, in any set of integers closed under
\* addition.
LEMMA TotalIs ==
  ASSUME NEW S \in SUBSET Int, 0 \in S, \A x, y \in S : x + y \in S, NEW a \in Seq(S)
  PROVE  /\ Len(a) \in Nat /\ Total(a) \in [0..Len(a) -> S] /\ Total(a)[0] = 0
         /\ \A i \in 1..Len(a) : Total(a)[i] = Total(a)[i - 1] + a[i]
<1> DEFINE n == Len(a)
           g == [x \in (1..n) \X S |-> x[2] + a[x[1]]]
           Eq(f) == f = [i \in 0..n |-> IF i = 0 THEN 0 ELSE f[i - 1] + a[i]]
           total == Total(a)
<1>1. n \in Nat /\ \A i \in 1..n : a[i] \in S
  BY LenProperties, ElementOfSeq
<1>2. total = CHOOSE f : Eq(f)
  BY DEF Total
<1> HIDE DEF n
<1>3. g \in [(1..n) \X S -> S]
  <2>1. ASSUME NEW x \in (1..n) \X S PROVE x[2] + a[x[1]] \in S
    <3>1. x[1] \in 1..n /\ x[2] \in S  OBVIOUS
    <3> QED BY <1>1, <3>1
  <2> QED BY <2>1
<1>4. PICK f \in [0..n -> S] : f[0] = 0 /\ \A i \in 1..n : f[i] = g[<<i, f[i - 1]>>]
  <2> HIDE DEF g
  <2>1. \A c \in S : \E f \in [0..n -> S] : Follows(f, n, c, g)
    BY <1>1, <1>3, Recursion, Zenon
  <2> QED BY <2>1 DEF Follows
<1>5. \A i \in 1..n : f[i] = f[i - 1] + a[i]
  <2> SUFFICES ASSUME NEW i \in 1..n PROVE f[i] = f[i - 1] + a[i]
    OBVIOUS
  <2>1. <<i, f[i - 1]>> \in (1..n) \X S  BY <1>1
  <2> QED BY <2>1, <1>4
<1>6. Eq(f)  BY <1>1, <1>4, <1>5
<1>7. Eq(total)
  <2> HIDE DEF Eq, total
  <2> QED BY <1>2, <1>6
<1> HIDE DEF total
<1>8. total[0] = 0 /\ \A i \in 1..n : total[i] = total[i - 1] + a[i]
  BY <1>1, <1>7
<1>9. \A i \in 0..n : total[i] \in S
  <2> DEFINE T == {i \in 0..n : total[i] \in S}
  <2>1. 0 \in T  BY <1>1, <1>8
  <2>2. ASSUME NEW i \in 0..n, i < n, i \in T PROVE i + 1 \in T
    <3>1. i + 1 \in 1..n /\ (i + 1) - 1 = i  BY <1>1, <2>2
    <3>2. total[i + 1] = total[i] + a[i + 1]  BY <3>1, <1>8
    <3>3. total[i] \in S /\ a[i + 1] \in S  BY <1>1, <2>2, <3>1
    <3>4. total[i] + a[i + 1] \in S  BY <3>3
    <3>5. i + 1 \in 0..n  BY <1>1, <3>1
    <3> QED BY <3>2, <3>4, <3>5
  <2> HIDE DEF T
  <2>3. \A i \in 0..n : i < n /\ i \in T => i + 1 \in T  BY <2>2
  <2>4. \A i \in 0..n : i \in T  BY <1>1, <2>1, <2>3, InductionUpTo
  <2> QED BY <2>4 DEF T
<1>10. total \in [0..n -> S]  BY <1>7, <1>9
<1> QED BY <1>1, <1>8, <1>10 DEF total, n

\* The sum a check digit is taken of.
LEMMA MrzTotalIs ==
  ASSUME NEW data \in Seq(MrzChar)
  PROVE  LET n == Len(data)
             total == Total(MrzProducts(data))
         IN  /\ n \in Nat /\ total \in [0..n -> Nat] /\ total[0] = 0
             /\ \A i \in 1..n : total[i] = total[i - 1] + MrzValue(data[i]) * Weight(i)
             /\ MrzCheckDigit(data) = total[n] % 10
<1> DEFINE n == Len(data)
           a == MrzProducts(data)
<1>1. n \in Nat  BY LenProperties
<1>2. \A i \in 1..n : a[i] = MrzValue(data[i]) * Weight(i)
  BY DEF MrzProducts, Weight
<1>3. a \in [1..n -> Nat]
  <2>1. ASSUME NEW i \in 1..n PROVE MrzValue(data[i]) * Weight(i) \in Nat
    <3>1. i \in Nat \ {0} /\ data[i] \in MrzChar  BY <1>1, ElementOfSeq
    <3>2. Weight(i) \in {7, 3, 1}  BY <3>1, WeightIs
    <3>3. MrzValue(data[i]) \in 0..35  BY <3>1, ValueIs
    <3> QED BY <3>2, <3>3, Product
  <2> QED BY <2>1 DEF MrzProducts, Weight
<1>4. a \in Seq(Nat) /\ Len(a) = n  BY <1>1, <1>3, SequenceOf
<1>5. MrzCheckDigit(data) = Total(a)[n] % 10  BY <1>4 DEF MrzCheckDigit, SumOf
<1> HIDE DEF n, a
<1>6. /\ Total(a) \in [0..n -> Nat] /\ Total(a)[0] = 0
      /\ \A i \in 1..n : Total(a)[i] = Total(a)[i - 1] + a[i]
  <2>1. Nat \in SUBSET Int /\ 0 \in Nat /\ \A x, y \in Nat : x + y \in Nat  OBVIOUS
  <2> QED BY <1>4, <2>1, TotalIs
<1>7. \A i \in 1..n : Total(a)[i] = Total(a)[i - 1] + MrzValue(data[i]) * Weight(i)
  BY <1>2, <1>6
<1> QED BY <1>1, <1>5, <1>6, <1>7 DEF n, a

\* The code's check digit is ICAO's.
LEMMA IcaoIs ==
  ASSUME NEW data \in Seq(MrzChar)
  PROVE  IcaoDigit(data) = MrzCheckDigit(data) /\ MrzCheckDigit(data) \in Digit
<1> DEFINE n == Len(data)
           w(i) == CASE i % 3 = 1 -> 7 [] i % 3 = 2 -> 3 [] OTHER -> 1
           Eq(f) == f = [i \in 0..n |-> IF i = 0 THEN 0 ELSE w(i) * (data[i] % Filler) + f[i - 1]]
           sum == CHOOSE f : Eq(f)
           total == Total(MrzProducts(data))
<1>1. IcaoDigit(data) = sum[n] % 10
  BY DEF IcaoDigit
<1>2. n \in Nat /\ total \in [0..n -> Nat] /\ total[0] = 0
      /\ \A i \in 1..n : total[i] = total[i - 1] + MrzValue(data[i]) * Weight(i)
  BY MrzTotalIs
<1>3. ASSUME NEW i \in 1..n
      PROVE  MrzValue(data[i]) * Weight(i) = w(i) * (data[i] % Filler)
  <2>1. i \in Nat \ {0} /\ data[i] \in MrzChar  BY <1>2, ElementOfSeq
  <2>2. Weight(i) = w(i) /\ Weight(i) \in {7, 3, 1}  BY <2>1, WeightIs
  <2>3. MrzValue(data[i]) = data[i] % Filler /\ MrzValue(data[i]) \in 0..35  BY <2>1, ValueIs
  <2>4. MrzValue(data[i]) * Weight(i) = Weight(i) * MrzValue(data[i])  BY <2>2, <2>3, Product
  <2> HIDE DEF w
  <2> QED BY <2>2, <2>3, <2>4
<1> HIDE DEF n, w, total
<1>4. Eq(total)
  <2>1. \A i \in 1..n : total[i] = w(i) * (data[i] % Filler) + total[i - 1]
    <3> SUFFICES ASSUME NEW i \in 1..n
                 PROVE  total[i] = w(i) * (data[i] % Filler) + total[i - 1]
      OBVIOUS
    <3>1. total[i] = total[i - 1] + MrzValue(data[i]) * Weight(i) /\ total[i - 1] \in Nat /\ total[i] \in Nat
      BY <1>2
    <3> DEFINE product == w(i) * (data[i] % Filler)
    <3>2. MrzValue(data[i]) * Weight(i) = product  BY <1>3
    <3>3. product \in Nat
      <4>1. i \in Nat \ {0} /\ data[i] \in MrzChar  BY <1>2, ElementOfSeq DEF n
      <4>2. Weight(i) \in {7, 3, 1}  BY <4>1, WeightIs
      <4>3. MrzValue(data[i]) \in 0..35  BY <4>1, ValueIs
      <4> QED BY <3>2, <4>2, <4>3, Product
    <3> HIDE DEF product
    <3>4. total[i] = product + total[i - 1]  BY <3>1, <3>2, <3>3
    <3> QED BY <3>4 DEF product
  <2> QED BY <1>2, <2>1
<1>5. Eq(sum)
  <2> HIDE DEF Eq
  <2> QED BY <1>4
<1> HIDE DEF sum
<1>6. \A i \in 0..n : sum[i] = total[i]
  <2> DEFINE T == {i \in 0..n : sum[i] = total[i]}
  <2>1. 0 \in T  BY <1>2, <1>5
  <2>2. ASSUME NEW i \in 0..n, i < n, i \in T PROVE i + 1 \in T
    <3>1. i + 1 \in 0..n /\ i + 1 # 0 /\ (i + 1) - 1 = i  BY <1>2, <2>2
    <3>2. sum[i + 1] = w(i + 1) * (data[i + 1] % Filler) + sum[i]  BY <1>5, <3>1
    <3>3. total[i + 1] = w(i + 1) * (data[i + 1] % Filler) + total[i]  BY <1>4, <3>1
    <3> QED BY <3>1, <3>2, <3>3, <2>2
  <2> HIDE DEF T
  <2>3. \A i \in 0..n : i < n /\ i \in T => i + 1 \in T  BY <2>2
  <2>4. \A i \in 0..n : i \in T  BY <1>2, <2>1, <2>3, InductionUpTo
  <2> QED BY <2>4 DEF T
<1>7. total[n] \in Nat /\ sum[n] = total[n]  BY <1>2, <1>6
<1>8. MrzCheckDigit(data) = total[n] % 10  BY MrzTotalIs DEF total, n
<1> QED BY <1>1, <1>7, <1>8 DEF Digit

\* Numbers with the same last digit are tens apart.
LEMMA Tens ==
  ASSUME NEW u \in Nat, NEW v \in Nat
  PROVE  u % 10 = v % 10 <=> \E m \in Int : u = v + 10 * m
<1>1. ASSUME u % 10 = v % 10 PROVE u = v + 10 * ((u \div 10) - (v \div 10))
  BY <1>1
<1>2. (u \div 10) - (v \div 10) \in Int  OBVIOUS
<1>3. ASSUME NEW m \in Int, u = v + 10 * m PROVE u % 10 = v % 10
  BY <1>3
<1> QED BY <1>1, <1>2, <1>3

\* One character of some data is another: the check digit tells values apart
\* that are not equal modulo ten.
LEMMA OneCharacter ==
  ASSUME NEW a \in Seq(MrzChar), NEW b \in Seq(MrzChar), Len(a) = Len(b), NEW p \in 1..Len(a),
         \A j \in 1..Len(a) : j # p => a[j] = b[j]
  PROVE  MrzCheckDigit(a) = MrzCheckDigit(b) <=> (a[p] % Filler) % 10 = (b[p] % Filler) % 10
<1> DEFINE n == Len(a)
           w == Weight(p)
           x == MrzValue(a[p])
           y == MrzValue(b[p])
           s == Total(MrzProducts(a))
           t == Total(MrzProducts(b))
<1>1. /\ n \in Nat /\ p \in 1..n /\ s \in [0..n -> Nat] /\ t \in [0..n -> Nat] /\ s[0] = 0 /\ t[0] = 0
      /\ \A i \in 1..n : s[i] = s[i - 1] + MrzValue(a[i]) * Weight(i)
      /\ \A i \in 1..n : t[i] = t[i - 1] + MrzValue(b[i]) * Weight(i)
  BY MrzTotalIs
<1>2. a[p] \in MrzChar /\ b[p] \in MrzChar  BY ElementOfSeq
<1>3. x \in 0..35 /\ y \in 0..35 /\ x = a[p] % Filler /\ y = b[p] % Filler  BY <1>2, ValueIs
<1>4. w \in {7, 3, 1}
  <2>1. p \in Nat \ {0}  BY <1>1
  <2> QED BY <2>1, WeightIs
<1>5. MrzCheckDigit(a) = s[n] % 10 /\ MrzCheckDigit(b) = t[n] % 10  BY MrzTotalIs
<1> HIDE DEF n, s, t
<1>6. \A i \in 0..n : i < p => s[i] = t[i]
  <2> DEFINE T == {i \in 0..n : i < p => s[i] = t[i]}
  <2>1. 0 \in T  BY <1>1
  <2>2. ASSUME NEW i \in 0..n, i < n, i \in T PROVE i + 1 \in T
    <3> SUFFICES ASSUME i + 1 < p PROVE s[i + 1] = t[i + 1]
      BY <1>1, <2>2
    <3>1. i + 1 \in 1..n /\ i + 1 # p /\ (i + 1) - 1 = i  BY <1>1, <2>2
    <3>2. a[i + 1] = b[i + 1]  BY <3>1 DEF n
    <3>3. s[i + 1] = s[i] + MrzValue(a[i + 1]) * Weight(i + 1) /\ t[i + 1] = t[i] + MrzValue(b[i + 1]) * Weight(i + 1)
      BY <1>1, <3>1
    <3> QED BY <1>1, <2>2, <3>2, <3>3
  <2> HIDE DEF T
  <2>3. \A i \in 0..n : i < n /\ i \in T => i + 1 \in T  BY <2>2
  <2>4. \A i \in 0..n : i \in T  BY <1>1, <2>1, <2>3, InductionUpTo
  <2> QED BY <2>4 DEF T
<1>7. s[p] + w * y = t[p] + w * x
  <2>1. p - 1 \in 0..n /\ p - 1 < p  BY <1>1
  <2>2. s[p - 1] = t[p - 1] /\ s[p - 1] \in Nat  BY <1>1, <1>6, <2>1
  <2>3. s[p] = s[p - 1] + x * w /\ t[p] = t[p - 1] + y * w  BY <1>1
  <2> HIDE DEF w, x, y
  <2>4. x * w = w * x /\ y * w = w * y /\ w * x \in Nat /\ w * y \in Nat  BY <1>3, <1>4, Product
  <2> DEFINE wx == w * x
             wy == w * y
  <2> HIDE DEF wx, wy
  <2>5. s[p] = s[p - 1] + wx /\ t[p] = t[p - 1] + wy  BY <2>3, <2>4 DEF wx, wy
  <2>6. wx \in Nat /\ wy \in Nat  BY <2>4 DEF wx, wy
  <2>7. s[p] + wy = t[p] + wx  BY <2>2, <2>5, <2>6
  <2> QED BY <2>7 DEF wx, wy
<1>8. \A i \in p..n : s[i] + w * y = t[i] + w * x
  <2> DEFINE T == {i \in p..n : s[i] + w * y = t[i] + w * x}
  <2> HIDE DEF w, x, y
  <2>1. p \in T  BY <1>1, <1>7
  <2>2. ASSUME NEW i \in p..n, i < n, i \in T PROVE i + 1 \in T
    <3>1. i + 1 \in 1..n /\ i + 1 \in p..n /\ i + 1 # p /\ (i + 1) - 1 = i /\ i \in 0..n  BY <1>1, <2>2
    <3>2. a[i + 1] = b[i + 1] /\ a[i + 1] \in MrzChar  BY <3>1, ElementOfSeq DEF n
    <3>3. s[i + 1] = s[i] + MrzValue(a[i + 1]) * Weight(i + 1) /\ t[i + 1] = t[i] + MrzValue(b[i + 1]) * Weight(i + 1)
      BY <1>1, <3>1
    <3>4. s[i] \in Nat /\ t[i] \in Nat /\ w * y \in Nat /\ w * x \in Nat /\ MrzValue(a[i + 1]) * Weight(i + 1) \in Nat
      <4>1. s[i] \in Nat /\ t[i] \in Nat  BY <1>1, <3>1
      <4>2. w * y \in Nat /\ w * x \in Nat  BY <1>3, <1>4, Product
      <4>3. i + 1 \in Nat \ {0}  BY <1>1, <3>1
      <4>4. MrzValue(a[i + 1]) \in 0..35  BY <3>2, ValueIs
      <4>5. Weight(i + 1) \in {7, 3, 1}  BY <4>3, WeightIs
      <4>6. MrzValue(a[i + 1]) * Weight(i + 1) \in Nat  BY <4>4, <4>5, Product
      <4> QED BY <4>1, <4>2, <4>6
    <3> QED BY <2>2, <3>1, <3>2, <3>3, <3>4
  <2> HIDE DEF T
  <2>3. \A i \in p..n : i < n /\ i \in T => i + 1 \in T  BY <2>2
  <2>4. p \in Nat  BY <1>1
  <2>5. \A i \in p..n : i \in T  BY <1>1, <2>1, <2>3, <2>4, InductionUpTo
  <2> QED BY <2>5 DEF T
<1>9. s[n] + w * y = t[n] + w * x /\ s[n] \in Nat /\ t[n] \in Nat
  BY <1>1, <1>8
<1> HIDE DEF w, x, y
<1>10. s[n] % 10 = t[n] % 10 <=> x % 10 = y % 10
  <2>1. w \in {7, 3, 1} /\ x \in 0..35 /\ y \in 0..35 /\ s[n] \in Nat /\ t[n] \in Nat  BY <1>3, <1>4, <1>9
  <2>2. s[n] + w * y = t[n] + w * x  BY <1>9
  <2> DEFINE sn == s[n]
             tn == t[n]
  <2>3. sn \in Nat /\ tn \in Nat /\ sn + w * y = tn + w * x  BY <2>1, <2>2
  <2> HIDE DEF sn, tn
  <2>a. x \in 0..35 /\ y \in 0..35  BY <1>3
  <2> SUFFICES sn % 10 = tn % 10 <=> x % 10 = y % 10  BY DEF sn, tn
  <2>d. x \in Nat /\ y \in Nat  BY <2>a
  <2>b. x % 10 = y % 10 <=> \E j \in Int : x = y + 10 * j  BY <2>d, Tens
  <2>c. sn % 10 = tn % 10 <=> \E m \in Int : sn = tn + 10 * m  BY <2>3, Tens
  <2>4. CASE w = 7
    <3>1. sn + 7 * y = tn + 7 * x  BY <2>3, <2>4
    <3>2. ASSUME NEW j \in Int, x = y + 10 * j PROVE sn = tn + 10 * (7 * j) /\ 7 * j \in Int
      BY <2>a, <2>3, <3>1, <3>2
    <3>3. ASSUME NEW m \in Int, sn = tn + 10 * m
          PROVE  x = y + 10 * (3 * m - 2 * (x - y)) /\ 3 * m - 2 * (x - y) \in Int
      BY <2>a, <2>3, <3>1, <3>3
    <3> QED BY <2>b, <2>c, <3>2, <3>3
  <2>6. CASE w = 3
    <3>1. sn + 3 * y = tn + 3 * x  BY <2>3, <2>6
    <3>2. ASSUME NEW j \in Int, x = y + 10 * j PROVE sn = tn + 10 * (3 * j) /\ 3 * j \in Int
      BY <2>a, <2>3, <3>1, <3>2
    <3>3. ASSUME NEW m \in Int, sn = tn + 10 * m
          PROVE  x = y + 10 * (7 * m - 2 * (x - y)) /\ 7 * m - 2 * (x - y) \in Int
      <4>1. 10 * m = 3 * (x - y)  BY <2>a, <2>3, <3>1, <3>3
      <4> QED BY <2>a, <4>1
    <3> QED BY <2>b, <2>c, <3>2, <3>3
  <2>7. CASE w = 1
    <3>1. sn + y = tn + x  BY <2>3, <2>7, <2>1
    <3>2. \A j \in Int : x = y + 10 * j <=> sn = tn + 10 * j  BY <2>a, <2>3, <3>1
    <3> QED BY <2>b, <2>c, <3>2
  <2> QED BY <2>1, <2>4, <2>6, <2>7
<1> QED BY <1>3, <1>5, <1>10

-----------------------------------------------------------------------------
(* Document numbers: the lines of a passport                               *)

\* MRZ lines; characters the check digit cannot tell apart; the places of a line
\* the composite digit covers.
Line == [1..44 -> MrzChar]
Same(u, v) == (u % Filler) % 10 = (v % Filler) % 10
Covered == (1..10) \cup (14..20) \cup (22..43)

\* A part of a line, place by place.
LEMMA PartIs ==
  ASSUME NEW line \in Line, NEW m \in 1..44, NEW n \in m..44
  PROVE  /\ SubSeq(line, m, n) \in Seq(MrzChar) /\ Len(SubSeq(line, m, n)) = n - m + 1
         /\ \A j \in 1..n - m + 1 : SubSeq(line, m, n)[j] = line[m + j - 1]
<1>1. m \in Int /\ n \in Int /\ m <= n  OBVIOUS
<1>2. \A i \in m..n : line[i] \in MrzChar  BY DEF Line
<1> QED BY <1>1, <1>2, SubSeqProperties

\* Parts of two lines that agree there are the same.
LEMMA SamePart ==
  ASSUME NEW a \in Line, NEW b \in Line, NEW m \in 1..44, NEW n \in m..44, \A i \in m..n : a[i] = b[i]
  PROVE  SubSeq(a, m, n) = SubSeq(b, m, n)
<1> DEFINE s == SubSeq(a, m, n)
           t == SubSeq(b, m, n)
           k == n - m + 1
<1>1. /\ s \in Seq(MrzChar) /\ Len(s) = k /\ \A j \in 1..k : s[j] = a[m + j - 1]
      /\ t \in Seq(MrzChar) /\ Len(t) = k /\ \A j \in 1..k : t[j] = b[m + j - 1]
  BY PartIs, Zenon
<1>2. \A j \in 1..k : m + j - 1 \in m..n  OBVIOUS
<1>3. \A j \in 1..Len(s) : s[j] = t[j]
  <2> HIDE DEF s, t
  <2> QED BY <1>1, <1>2
<1> HIDE DEF s, t
<1>4. s = t  BY <1>1, <1>3, SeqEqual
<1> QED BY <1>4 DEF s, t

\* A line with one character changed.
LEMMA ChangedPart ==
  ASSUME NEW a \in Line, NEW b \in Line, NEW m \in 1..44, NEW n \in m..44, NEW i \in m..n,
         \A j \in 1..44 : j # i => a[j] = b[j]
  PROVE  MrzCheckDigit(SubSeq(a, m, n)) = MrzCheckDigit(SubSeq(b, m, n)) <=> Same(a[i], b[i])
<1> DEFINE s == SubSeq(a, m, n)
           t == SubSeq(b, m, n)
           k == n - m + 1
           p == i - m + 1
<1>1. /\ s \in Seq(MrzChar) /\ Len(s) = k /\ \A j \in 1..k : s[j] = a[m + j - 1]
      /\ t \in Seq(MrzChar) /\ Len(t) = k /\ \A j \in 1..k : t[j] = b[m + j - 1]
  BY PartIs, Zenon
<1>2. p \in 1..k /\ m + p - 1 = i /\ \A j \in 1..k : j # p => m + j - 1 \in 1..44 /\ m + j - 1 # i
  OBVIOUS
<1> HIDE DEF s, t, p
<1>3. /\ p \in 1..Len(s) /\ Len(s) = Len(t) /\ s[p] = a[i] /\ t[p] = b[i]
      /\ \A j \in 1..Len(s) : j # p => s[j] = t[j]
  BY <1>1, <1>2
<1>4. MrzCheckDigit(s) = MrzCheckDigit(t) <=> (s[p] % Filler) % 10 = (t[p] % Filler) % 10
  BY <1>1, <1>3, OneCharacter
<1> QED BY <1>3, <1>4 DEF s, t, Same

\* The data of the composite digit, place by place.
LEMMA CompositeIs ==
  ASSUME NEW line \in Line
  PROVE  /\ Composite(line) \in Seq(MrzChar) /\ Len(Composite(line)) = 39
         /\ \A j \in 1..10 : Composite(line)[j] = line[j]
         /\ \A j \in 11..17 : Composite(line)[j] = line[j + 3]
         /\ \A j \in 18..39 : Composite(line)[j] = line[j + 4]
<1> DEFINE x == SubSeq(line, 1, 10)
           y == SubSeq(line, 14, 20)
           z == SubSeq(line, 22, 43)
<1>1. x \in Seq(MrzChar) /\ Len(x) = 10 /\ \A j \in 1..10 : x[j] = line[j]
  <2>1. 1 \in 1..44 /\ 10 \in 1..44  OBVIOUS
  <2>2. x \in Seq(MrzChar) /\ Len(x) = 10 - 1 + 1 /\ \A j \in 1..10 - 1 + 1 : x[j] = line[1 + j - 1]
    BY <2>1, PartIs
  <2> QED BY <2>2
<1>2. y \in Seq(MrzChar) /\ Len(y) = 7 /\ \A j \in 1..7 : y[j] = line[j + 13]
  <2>1. 14 \in 1..44 /\ 20 \in 14..44  OBVIOUS
  <2>2. y \in Seq(MrzChar) /\ Len(y) = 20 - 14 + 1 /\ \A j \in 1..20 - 14 + 1 : y[j] = line[14 + j - 1]
    BY <2>1, PartIs
  <2> QED BY <2>2
<1>3. z \in Seq(MrzChar) /\ Len(z) = 22 /\ \A j \in 1..22 : z[j] = line[j + 21]
  <2>1. 22 \in 1..44 /\ 43 \in 22..44  OBVIOUS
  <2>2. z \in Seq(MrzChar) /\ Len(z) = 43 - 22 + 1 /\ \A j \in 1..43 - 22 + 1 : z[j] = line[22 + j - 1]
    BY <2>1, PartIs
  <2> QED BY <2>2
<1> HIDE DEF x, y, z
<1> DEFINE xy == x \o y
           xyz == xy \o z
<1>4. xy \in Seq(MrzChar) /\ Len(xy) = 17
      /\ \A j \in 1..17 : xy[j] = IF j <= 10 THEN x[j] ELSE y[j - 10]
  <2>1. /\ xy \in Seq(MrzChar) /\ Len(xy) = Len(x) + Len(y)
        /\ \A j \in 1..Len(x) + Len(y) : xy[j] = IF j <= Len(x) THEN x[j] ELSE y[j - Len(x)]
    BY <1>1, <1>2, ConcatProperties
  <2> HIDE DEF xy
  <2> QED BY <1>1, <1>2, <2>1
<1> HIDE DEF xy
<1>5. xyz \in Seq(MrzChar) /\ Len(xyz) = 39
      /\ \A j \in 1..39 : xyz[j] = IF j <= 17 THEN xy[j] ELSE z[j - 17]
  <2>1. /\ xyz \in Seq(MrzChar) /\ Len(xyz) = Len(xy) + Len(z)
        /\ \A j \in 1..Len(xy) + Len(z) : xyz[j] = IF j <= Len(xy) THEN xy[j] ELSE z[j - Len(xy)]
    BY <1>3, <1>4, ConcatProperties
  <2> HIDE DEF xyz
  <2> QED BY <1>3, <1>4, <2>1
<1> HIDE DEF xyz
<1>6. Composite(line) = xyz  BY DEF Composite, x, y, z, xy, xyz
<1>7. \A j \in 1..10 : xyz[j] = line[j]
  <2> SUFFICES ASSUME NEW j \in 1..10 PROVE xyz[j] = line[j]  OBVIOUS
  <2>1. j \in 1..39 /\ j <= 17 /\ j \in 1..17 /\ j <= 10  OBVIOUS
  <2>2. xyz[j] = xy[j] /\ xy[j] = x[j]  BY <1>4, <1>5, <2>1
  <2> QED BY <1>1, <2>2
<1>8. \A j \in 11..17 : xyz[j] = line[j + 3]
  <2> SUFFICES ASSUME NEW j \in 11..17 PROVE xyz[j] = line[j + 3]  OBVIOUS
  <2>0. j \in 1..39 /\ j <= 17 /\ j \in 1..17 /\ ~(j <= 10)  OBVIOUS
  <2>1. xyz[j] = xy[j] /\ xy[j] = y[j - 10]  BY <1>4, <1>5, <2>0
  <2>2. j - 10 \in 1..7 /\ (j - 10) + 13 = j + 3  OBVIOUS
  <2> QED BY <1>2, <2>1, <2>2
<1>9. \A j \in 18..39 : xyz[j] = line[j + 4]
  <2> SUFFICES ASSUME NEW j \in 18..39 PROVE xyz[j] = line[j + 4]  OBVIOUS
  <2>0. j \in 1..39 /\ ~(j <= 17)  OBVIOUS
  <2>1. xyz[j] = z[j - 17]  BY <1>5, <2>0
  <2>2. j - 17 \in 1..22 /\ (j - 17) + 21 = j + 4  OBVIOUS
  <2> QED BY <1>3, <2>1, <2>2
<1> QED BY <1>5, <1>6, <1>7, <1>8, <1>9

\* Lines that agree on the places covered have the same composite data.
LEMMA SameComposite ==
  ASSUME NEW a \in Line, NEW b \in Line, \A i \in Covered : a[i] = b[i]
  PROVE  Composite(a) = Composite(b)
<1> DEFINE s == Composite(a)
           t == Composite(b)
<1>1. s \in Seq(MrzChar) /\ Len(s) = 39 /\ t \in Seq(MrzChar) /\ Len(t) = 39
  BY CompositeIs
<1>2. \A j \in 1..39 : s[j] = t[j]
  <2> SUFFICES ASSUME NEW j \in 1..39 PROVE s[j] = t[j]  OBVIOUS
  <2>1. CASE j \in 1..10
    <3>1. j \in Covered  BY <2>1 DEF Covered
    <3> QED BY <2>1, <3>1, CompositeIs
  <2>2. CASE j \in 11..17
    <3>1. j + 3 \in Covered  BY <2>2 DEF Covered
    <3> QED BY <2>2, <3>1, CompositeIs
  <2>3. CASE j \in 18..39
    <3>1. j + 4 \in Covered  BY <2>3 DEF Covered
    <3> QED BY <2>3, <3>1, CompositeIs
  <2> QED BY <2>1, <2>2, <2>3
<1> HIDE DEF s, t
<1>3. s = t  BY <1>1, <1>2, SeqEqual
<1> QED BY <1>3 DEF s, t

\* The composite digit notices a change of a covered character, but for a value
\* ten more or less.
LEMMA ChangedComposite ==
  ASSUME NEW a \in Line, NEW b \in Line, NEW i \in Covered, \A j \in 1..44 : j # i => a[j] = b[j]
  PROVE  MrzCheckDigit(Composite(a)) = MrzCheckDigit(Composite(b)) <=> Same(a[i], b[i])
<1> DEFINE s == Composite(a)
           t == Composite(b)
           p == IF i <= 10 THEN i ELSE IF i <= 20 THEN i - 3 ELSE i - 4
           From(j) == IF j <= 10 THEN j ELSE IF j <= 17 THEN j + 3 ELSE j + 4
<1>1. s \in Seq(MrzChar) /\ Len(s) = 39 /\ t \in Seq(MrzChar) /\ Len(t) = 39
  BY CompositeIs
<1>2. p \in 1..39 /\ From(p) = i
  BY DEF Covered
<1>3. \A j \in 1..39 : From(j) \in 1..44 /\ (From(j) = i => j = p)
  BY DEF Covered
<1>4. \A j \in 1..39 : s[j] = a[From(j)] /\ t[j] = b[From(j)]
  <2> SUFFICES ASSUME NEW j \in 1..39 PROVE s[j] = a[From(j)] /\ t[j] = b[From(j)]  OBVIOUS
  <2>0. /\ \A k \in 1..10 : s[k] = a[k] /\ t[k] = b[k]
        /\ \A k \in 11..17 : s[k] = a[k + 3] /\ t[k] = b[k + 3]
        /\ \A k \in 18..39 : s[k] = a[k + 4] /\ t[k] = b[k + 4]
    BY CompositeIs
  <2> HIDE DEF s, t
  <2>1. CASE j \in 1..10
    <3>1. From(j) = j  BY <2>1
    <3> HIDE DEF From
    <3> QED BY <2>0, <2>1, <3>1
  <2>2. CASE j \in 11..17
    <3>1. From(j) = j + 3  BY <2>2
    <3> HIDE DEF From
    <3> QED BY <2>0, <2>2, <3>1
  <2>3. CASE j \in 18..39
    <3>1. From(j) = j + 4  BY <2>3
    <3> HIDE DEF From
    <3> QED BY <2>0, <2>3, <3>1
  <2> QED BY <2>1, <2>2, <2>3
<1> HIDE DEF s, t, p, From
<1>5. /\ p \in 1..Len(s) /\ Len(s) = Len(t) /\ s[p] = a[i] /\ t[p] = b[i]
      /\ \A j \in 1..Len(s) : j # p => s[j] = t[j]
  <2>1. /\ p \in 1..Len(s) /\ Len(s) = Len(t)  BY <1>1, <1>2
  <2>2. s[p] = a[i] /\ t[p] = b[i]  BY <1>2, <1>4
  <2>3. ASSUME NEW j \in 1..Len(s), j # p PROVE s[j] = t[j]
    <3>1. j \in 1..39  BY <1>1
    <3>2. From(j) \in 1..44 /\ From(j) # i  BY <1>3, <2>3, <3>1
    <3>3. a[From(j)] = b[From(j)]  BY <3>2
    <3> QED BY <1>4, <3>1, <3>3
  <2> QED BY <2>1, <2>2, <2>3
<1>6. MrzCheckDigit(s) = MrzCheckDigit(t) <=> (s[p] % Filler) % 10 = (t[p] % Filler) % 10
  BY <1>1, <1>5, OneCharacter
<1> QED BY <1>5, <1>6 DEF s, t, Same

\* Where the four fields with a digit of their own begin and end; whether the
\* digit of a field, and the composite digit, are right.
From(k) == CASE k = 1 -> 1 [] k = 2 -> 14 [] k = 3 -> 22 [] k = 4 -> 29
To(k) == CASE k = 1 -> 9 [] k = 2 -> 19 [] k = 3 -> 27 [] k = 4 -> 42
FieldOk(line, k) == MrzCheckDigit(SubSeq(line, From(k), To(k))) = line[CheckAt[k]]
CompositeOk(line) == MrzCheckDigit(Composite(line)) = line[44]

\* Those places are places of a line.
LEMMA FieldPlaces ==
  /\ CheckAt[1] = 10 /\ CheckAt[2] = 20 /\ CheckAt[3] = 28 /\ CheckAt[4] = 43
  /\ \A k \in 1..4 : From(k) \in 1..44 /\ To(k) \in From(k)..44 /\ CheckAt[k] \in 1..44
BY DEF CheckAt, From, To

\* The four checks, written out.
LEMMA FieldsAre ==
  ASSUME NEW line
  PROVE  /\ FieldOk(line, 1) <=> MrzCheckDigit(SubSeq(line, 1, 9)) = line[10]
         /\ FieldOk(line, 2) <=> MrzCheckDigit(SubSeq(line, 14, 19)) = line[20]
         /\ FieldOk(line, 3) <=> MrzCheckDigit(SubSeq(line, 22, 27)) = line[28]
         /\ FieldOk(line, 4) <=> MrzCheckDigit(SubSeq(line, 29, 42)) = line[43]
<1>1. /\ From(1) = 1 /\ From(2) = 14 /\ From(3) = 22 /\ From(4) = 29
      /\ To(1) = 9 /\ To(2) = 19 /\ To(3) = 27 /\ To(4) = 42
  BY DEF From, To
<1>2. /\ FieldOk(line, 1) <=> MrzCheckDigit(SubSeq(line, From(1), To(1))) = line[CheckAt[1]]
      /\ FieldOk(line, 2) <=> MrzCheckDigit(SubSeq(line, From(2), To(2))) = line[CheckAt[2]]
      /\ FieldOk(line, 3) <=> MrzCheckDigit(SubSeq(line, From(3), To(3))) = line[CheckAt[3]]
      /\ FieldOk(line, 4) <=> MrzCheckDigit(SubSeq(line, From(4), To(4))) = line[CheckAt[4]]
  BY DEF FieldOk
<1> QED BY <1>1, <1>2, FieldPlaces

\* A line is accepted if its five digits are right.
LEMMA ValidIs ==
  ASSUME NEW line \in Line
  PROVE  MrzValid(line) <=> (\A k \in 1..4 : FieldOk(line, k)) /\ CompositeOk(line)
<1>1. line \in Seq(MrzChar) /\ Len(line) = 44
  BY SequenceOf DEF Line
<1>2. \A k \in 1..4 : Fields(line)[k] = SubSeq(line, From(k), To(k))
  <2> DEFINE s1 == SubSeq(line, 1, 9)
             s2 == SubSeq(line, 14, 19)
             s3 == SubSeq(line, 22, 27)
             s4 == SubSeq(line, 29, 42)
  <2>1. Fields(line) = <<s1, s2, s3, s4>>  BY DEF Fields
  <2>2. /\ s1 = SubSeq(line, From(1), To(1)) /\ s2 = SubSeq(line, From(2), To(2))
        /\ s3 = SubSeq(line, From(3), To(3)) /\ s4 = SubSeq(line, From(4), To(4))
    BY DEF From, To
  <2> HIDE DEF s1, s2, s3, s4
  <2> SUFFICES ASSUME NEW k \in 1..4 PROVE Fields(line)[k] = SubSeq(line, From(k), To(k))
    OBVIOUS
  <2>3. k = 1 \/ k = 2 \/ k = 3 \/ k = 4  OBVIOUS
  <2> QED BY <2>1, <2>2, <2>3
<1> QED BY <1>1, <1>2 DEF MrzValid, FieldOk, CompositeOk

\* The line of a stem carries the digits of its own fields.
LEMMA IcaoLineIsValid ==
  ASSUME NEW stem \in Line
  PROVE  IcaoLine(stem) \in Line /\ MrzValid(IcaoLine(stem))
<1> DEFINE d1 == IcaoDigit(SubSeq(stem, 1, 9))
           l1 == Changed(stem, 10, d1)
           d2 == IcaoDigit(SubSeq(l1, 14, 19))
           l2 == Changed(l1, 20, d2)
           d3 == IcaoDigit(SubSeq(l2, 22, 27))
           l3 == Changed(l2, 28, d3)
           d4 == IcaoDigit(SubSeq(l3, 29, 42))
           l4 == Changed(l3, 43, d4)
           d5 == IcaoDigit(Composite(l4))
           l5 == Changed(l4, 44, d5)
<1>1. IcaoLine(stem) = l5
  BY DEF IcaoLine, Composite
<1>3. ASSUME NEW l \in Line, NEW m \in 1..44, NEW n \in m..44
      PROVE  /\ IcaoDigit(SubSeq(l, m, n)) \in Digit
             /\ IcaoDigit(SubSeq(l, m, n)) = MrzCheckDigit(SubSeq(l, m, n))
  BY PartIs, IcaoIs, Zenon
<1>4. /\ 10 \in 1..44 /\ 20 \in 1..44 /\ 28 \in 1..44 /\ 43 \in 1..44 /\ 44 \in 1..44
      /\ 1 \in 1..44 /\ 9 \in 1..44 /\ 14 \in 1..44 /\ 19 \in 14..44 /\ 22 \in 1..44 /\ 27 \in 22..44
      /\ 29 \in 1..44 /\ 42 \in 29..44
  OBVIOUS
<1>5. /\ d1 \in Digit /\ d1 = MrzCheckDigit(SubSeq(stem, 1, 9)) /\ l1 \in Line /\ l1[10] = d1
      /\ \A j \in 1..44 : j # 10 => l1[j] = stem[j]
  <2>1. d1 \in Digit /\ d1 = MrzCheckDigit(SubSeq(stem, 1, 9))  BY <1>3, <1>4
  <2> HIDE DEF d1
  <2>2. stem \in [1..44 -> 0..36] /\ d1 \in 0..36  BY <2>1 DEF Line, MrzChar, Digit
  <2>3. /\ l1 \in [1..44 -> 0..36] /\ l1[10] = d1 /\ \A j \in 1..44 : j # 10 => l1[j] = stem[j]
    BY <2>2 DEF Changed
  <2> HIDE DEF l1
  <2> QED BY <2>1, <2>3 DEF Line, MrzChar
<1> HIDE DEF d1, l1
<1>6. /\ d2 \in Digit /\ d2 = MrzCheckDigit(SubSeq(l1, 14, 19)) /\ l2 \in Line /\ l2[20] = d2
      /\ \A j \in 1..44 : j # 20 => l2[j] = l1[j]
  <2>1. d2 \in Digit /\ d2 = MrzCheckDigit(SubSeq(l1, 14, 19))  BY <1>3, <1>4, <1>5
  <2> HIDE DEF d2
  <2>2. l1 \in [1..44 -> 0..36] /\ d2 \in 0..36  BY <2>1, <1>5 DEF Line, MrzChar, Digit
  <2>3. /\ l2 \in [1..44 -> 0..36] /\ l2[20] = d2 /\ \A j \in 1..44 : j # 20 => l2[j] = l1[j]
    BY <2>2 DEF Changed
  <2> HIDE DEF l2
  <2> QED BY <2>1, <2>3 DEF Line, MrzChar
<1> HIDE DEF d2, l2
<1>7. /\ d3 \in Digit /\ d3 = MrzCheckDigit(SubSeq(l2, 22, 27)) /\ l3 \in Line /\ l3[28] = d3
      /\ \A j \in 1..44 : j # 28 => l3[j] = l2[j]
  <2>1. d3 \in Digit /\ d3 = MrzCheckDigit(SubSeq(l2, 22, 27))  BY <1>3, <1>4, <1>6
  <2> HIDE DEF d3
  <2>2. l2 \in [1..44 -> 0..36] /\ d3 \in 0..36  BY <2>1, <1>6 DEF Line, MrzChar, Digit
  <2>3. /\ l3 \in [1..44 -> 0..36] /\ l3[28] = d3 /\ \A j \in 1..44 : j # 28 => l3[j] = l2[j]
    BY <2>2 DEF Changed
  <2> HIDE DEF l3
  <2> QED BY <2>1, <2>3 DEF Line, MrzChar
<1> HIDE DEF d3, l3
<1>8. /\ d4 \in Digit /\ d4 = MrzCheckDigit(SubSeq(l3, 29, 42)) /\ l4 \in Line /\ l4[43] = d4
      /\ \A j \in 1..44 : j # 43 => l4[j] = l3[j]
  <2>1. d4 \in Digit /\ d4 = MrzCheckDigit(SubSeq(l3, 29, 42))  BY <1>3, <1>4, <1>7
  <2> HIDE DEF d4
  <2>2. l3 \in [1..44 -> 0..36] /\ d4 \in 0..36  BY <2>1, <1>7 DEF Line, MrzChar, Digit
  <2>3. /\ l4 \in [1..44 -> 0..36] /\ l4[43] = d4 /\ \A j \in 1..44 : j # 43 => l4[j] = l3[j]
    BY <2>2 DEF Changed
  <2> HIDE DEF l4
  <2> QED BY <2>1, <2>3 DEF Line, MrzChar
<1> HIDE DEF d4, l4
<1>9. /\ d5 \in Digit /\ d5 = MrzCheckDigit(Composite(l4)) /\ l5 \in Line /\ l5[44] = d5
      /\ \A j \in 1..44 : j # 44 => l5[j] = l4[j]
  <2>1. d5 \in Digit /\ d5 = MrzCheckDigit(Composite(l4))  BY <1>8, CompositeIs, IcaoIs
  <2> HIDE DEF d5
  <2>2. l4 \in [1..44 -> 0..36] /\ d5 \in 0..36  BY <2>1, <1>8 DEF Line, MrzChar, Digit
  <2>3. /\ l5 \in [1..44 -> 0..36] /\ l5[44] = d5 /\ \A j \in 1..44 : j # 44 => l5[j] = l4[j]
    BY <2>2 DEF Changed
  <2> HIDE DEF l5
  <2> QED BY <2>1, <2>3 DEF Line, MrzChar
<1> HIDE DEF d5, l5
<1>10. FieldOk(l5, 1)
  <2>1. l5[10] = d1  BY <1>5, <1>6, <1>7, <1>8, <1>9
  <2>2. \A j \in 1..9 : stem[j] = l5[j]
    <3> SUFFICES ASSUME NEW j \in 1..9 PROVE stem[j] = l5[j]  OBVIOUS
    <3>1. j \in 1..44 /\ j # 10 /\ j # 20 /\ j # 28 /\ j # 43 /\ j # 44  OBVIOUS
    <3> QED BY <3>1, <1>5, <1>6, <1>7, <1>8, <1>9
  <2>3. SubSeq(stem, 1, 9) = SubSeq(l5, 1, 9)
    <3>1. 1 \in 1..44 /\ 9 \in 1..44  OBVIOUS
    <3> QED BY <2>2, <3>1, <1>9, SamePart, Zenon
  <2> QED BY <1>5, <2>1, <2>3, FieldsAre
<1>11. FieldOk(l5, 2)
  <2>1. l5[20] = d2  BY <1>6, <1>7, <1>8, <1>9
  <2>2. \A j \in 14..19 : l1[j] = l5[j]
    <3> SUFFICES ASSUME NEW j \in 14..19 PROVE l1[j] = l5[j]  OBVIOUS
    <3>1. j \in 1..44 /\ j # 20 /\ j # 28 /\ j # 43 /\ j # 44  OBVIOUS
    <3> QED BY <3>1, <1>6, <1>7, <1>8, <1>9
  <2>3. SubSeq(l1, 14, 19) = SubSeq(l5, 14, 19)
    BY <2>2, <1>4, <1>5, <1>9, SamePart, Zenon
  <2> QED BY <1>6, <2>1, <2>3, FieldsAre
<1>12. FieldOk(l5, 3)
  <2>1. l5[28] = d3  BY <1>7, <1>8, <1>9
  <2>2. \A j \in 22..27 : l2[j] = l5[j]
    <3> SUFFICES ASSUME NEW j \in 22..27 PROVE l2[j] = l5[j]  OBVIOUS
    <3>1. j \in 1..44 /\ j # 28 /\ j # 43 /\ j # 44  OBVIOUS
    <3> QED BY <3>1, <1>7, <1>8, <1>9
  <2>3. SubSeq(l2, 22, 27) = SubSeq(l5, 22, 27)
    BY <2>2, <1>4, <1>6, <1>9, SamePart, Zenon
  <2> QED BY <1>7, <2>1, <2>3, FieldsAre
<1>13. FieldOk(l5, 4)
  <2>1. l5[43] = d4  BY <1>8, <1>9
  <2>2. \A j \in 29..42 : l3[j] = l5[j]
    <3> SUFFICES ASSUME NEW j \in 29..42 PROVE l3[j] = l5[j]  OBVIOUS
    <3>1. j \in 1..44 /\ j # 43 /\ j # 44  OBVIOUS
    <3> QED BY <3>1, <1>8, <1>9
  <2>3. SubSeq(l3, 29, 42) = SubSeq(l5, 29, 42)
    BY <2>2, <1>4, <1>7, <1>9, SamePart, Zenon
  <2> QED BY <1>8, <2>1, <2>3, FieldsAre
<1>14. CompositeOk(l5)
  <2>1. \A i \in Covered : l4[i] = l5[i]  BY <1>9 DEF Covered
  <2>2. Composite(l4) = Composite(l5)  BY <2>1, <1>8, <1>9, SameComposite
  <2> QED BY <1>9, <2>2 DEF CompositeOk
<1>15. \A k \in 1..4 : FieldOk(l5, k)
  <2> SUFFICES ASSUME NEW k \in 1..4 PROVE FieldOk(l5, k)  OBVIOUS
  <2>1. k = 1 \/ k = 2 \/ k = 3 \/ k = 4  OBVIOUS
  <2> QED BY <2>1, <1>10, <1>11, <1>12, <1>13
<1> QED BY <1>1, <1>9, <1>14, <1>15, ValidIs

\* In which field place i is, 0 if in none.
FieldOf(i) ==
  IF i \in 1..9 THEN 1 ELSE IF i \in 14..19 THEN 2 ELSE IF i \in 22..27 THEN 3 ELSE IF i \in 29..42 THEN 4 ELSE 0

\* The places of a line: which fields and digits they belong to.
LEMMA PlaceTable ==
  /\ \A i \in 1..44, k \in 1..4 : i \in From(k)..To(k) <=> FieldOf(i) = k
  /\ \A i \in 1..44 : FieldOf(i) # 0 => /\ FieldOf(i) \in 1..4 /\ i \in Covered /\ i # 44
                                        /\ \A k \in 1..4 : CheckAt[k] # i
  /\ \A i \in 1..44 : FieldOf(i) = 0 <=> i \in (11..13) \cup {21} \cup {10, 20, 28, 43, 44}
  /\ \A i \in (11..13) \cup {21} : i \notin Covered /\ i # 44 /\ \A k \in 1..4 : CheckAt[k] # i
  /\ \A i \in {10, 20, 28, 43} : \E k \in 1..4 : CheckAt[k] = i
  /\ 44 \notin Covered
<1>1. ASSUME NEW k \in 1..4
      PROVE  \/ k = 1 /\ From(k) = 1 /\ To(k) = 9 /\ CheckAt[k] = 10
             \/ k = 2 /\ From(k) = 14 /\ To(k) = 19 /\ CheckAt[k] = 20
             \/ k = 3 /\ From(k) = 22 /\ To(k) = 27 /\ CheckAt[k] = 28
             \/ k = 4 /\ From(k) = 29 /\ To(k) = 42 /\ CheckAt[k] = 43
  <2>1. k = 1 \/ k = 2 \/ k = 3 \/ k = 4  OBVIOUS
  <2> QED BY <2>1, FieldPlaces DEF From, To
<1>2. \A i \in 1..44, k \in 1..4 : i \in From(k)..To(k) <=> FieldOf(i) = k
  BY <1>1 DEF FieldOf
<1>3. ASSUME NEW i \in 1..44, FieldOf(i) # 0
      PROVE  /\ FieldOf(i) \in 1..4 /\ i \in Covered /\ i # 44
             /\ \A k \in 1..4 : CheckAt[k] # i
  BY <1>1, <1>3 DEF FieldOf, Covered
<1>4. \A i \in 1..44 : FieldOf(i) = 0 <=> i \in (11..13) \cup {21} \cup {10, 20, 28, 43, 44}
  BY DEF FieldOf
<1>5. \A i \in (11..13) \cup {21} : i \notin Covered /\ i # 44 /\ \A k \in 1..4 : CheckAt[k] # i
  BY <1>1 DEF Covered
<1>6. \A i \in {10, 20, 28, 43} : \E k \in 1..4 : CheckAt[k] = i
  BY FieldPlaces
<1>7. 44 \notin Covered
  BY DEF Covered
<1> QED BY <1>2, <1>3, <1>4, <1>5, <1>6, <1>7

\* What a change of one character does to the digits of the four fields.
LEMMA ChangedFields ==
  ASSUME NEW a \in Line, NEW b \in Line, NEW i \in 1..44, \A j \in 1..44 : j # i => a[j] = b[j],
         NEW k \in 1..4
  PROVE  IF FieldOf(i) = k
         THEN MrzCheckDigit(SubSeq(a, From(k), To(k))) = MrzCheckDigit(SubSeq(b, From(k), To(k)))
                <=> Same(a[i], b[i])
         ELSE SubSeq(a, From(k), To(k)) = SubSeq(b, From(k), To(k))
<1>1. From(k) \in 1..44 /\ To(k) \in From(k)..44  BY FieldPlaces
<1>2. CASE FieldOf(i) = k
  <2>1. i \in From(k)..To(k)  BY <1>2, PlaceTable
  <2> QED BY <1>1, <1>2, <2>1, ChangedPart, Zenon
<1>3. CASE FieldOf(i) # k
  <2>1. i \notin From(k)..To(k)  BY <1>3, PlaceTable
  <2>2. \A j \in From(k)..To(k) : a[j] = b[j]
    <3> SUFFICES ASSUME NEW j \in From(k)..To(k) PROVE a[j] = b[j]  OBVIOUS
    <3>1. j \in 1..44 /\ j # i  BY <1>1, <2>1
    <3> QED BY <3>1
  <2> QED BY <1>1, <1>3, <2>2, SamePart, Zenon
<1> QED BY <1>2, <1>3, Zenon

\* What a change of one character does to a valid line.
LEMMA ChangedLine ==
  ASSUME NEW a \in Line, MrzValid(a), NEW b \in Line, NEW i \in 1..44,
         \A j \in 1..44 : j # i => a[j] = b[j]
  PROVE  MrzValid(b) <=>
           \/ i \in (11..13) \cup {21}
           \/ b[i] = a[i]
           \/ i \notin {10, 20, 28, 43, 44} /\ Same(a[i], b[i])
<1>1. (\A k \in 1..4 : FieldOk(a, k)) /\ CompositeOk(a)  BY ValidIs
<1>2. \A k \in 1..4 : CheckAt[k] \in 1..44  BY FieldPlaces
<1>3. CASE a[i] = b[i]
  <2>1. \A j \in 1..44 : a[j] = b[j]  BY <1>3
  <2>2. a = b  BY <2>1 DEF Line
  <2> QED BY <1>3, <2>2
<1>4. CASE a[i] # b[i] /\ i \in (11..13) \cup {21}
  <2>1. FieldOf(i) = 0 /\ i \notin Covered /\ i # 44 /\ \A k \in 1..4 : CheckAt[k] # i  BY <1>4, PlaceTable
  <2>2. ASSUME NEW k \in 1..4 PROVE FieldOk(b, k)
    <3>1. FieldOf(i) # k  BY <2>1
    <3>2. SubSeq(a, From(k), To(k)) = SubSeq(b, From(k), To(k))  BY <3>1, ChangedFields
    <3>3. a[CheckAt[k]] = b[CheckAt[k]]  BY <1>2, <2>1
    <3> QED BY <1>1, <3>2, <3>3 DEF FieldOk
  <2>3. CompositeOk(b)
    <3>1. \A j \in Covered : a[j] = b[j]
      <4>1. \A j \in Covered : j \in 1..44 /\ j # i  BY <2>1 DEF Covered
      <4> QED BY <4>1
    <3>2. Composite(a) = Composite(b)  BY <3>1, SameComposite
    <3>3. a[44] = b[44]  BY <2>1
    <3> QED BY <1>1, <3>2, <3>3 DEF CompositeOk
  <2> QED BY <1>4, <2>2, <2>3, ValidIs
<1>5. CASE a[i] # b[i] /\ i \in {10, 20, 28, 43}
  <2>1. PICK k \in 1..4 : CheckAt[k] = i  BY <1>5, PlaceTable
  <2>2. FieldOf(i) # k  BY <1>5, PlaceTable
  <2>3. SubSeq(a, From(k), To(k)) = SubSeq(b, From(k), To(k))  BY <2>2, ChangedFields
  <2>4. ~FieldOk(b, k)  BY <1>1, <1>5, <2>1, <2>3 DEF FieldOk
  <2> QED BY <1>5, <2>4, ValidIs
<1>6. CASE a[i] # b[i] /\ i = 44
  <2>1. \A j \in Covered : a[j] = b[j]
    <3>1. \A j \in Covered : j \in 1..44 /\ j # i  BY <1>6, PlaceTable DEF Covered
    <3> QED BY <3>1
  <2>2. Composite(a) = Composite(b)  BY <2>1, SameComposite
  <2>3. ~CompositeOk(b)  BY <1>1, <1>6, <2>2 DEF CompositeOk
  <2> QED BY <1>6, <2>3, ValidIs
<1>7. CASE a[i] # b[i] /\ FieldOf(i) # 0
  <2> DEFINE f == FieldOf(i)
  <2>1. f \in 1..4 /\ i \in Covered /\ i # 44 /\ \A k \in 1..4 : CheckAt[k] # i  BY <1>7, PlaceTable
  <2>2. i \notin (11..13) \cup {21} /\ i \notin {10, 20, 28, 43, 44}  BY <1>7, PlaceTable
  <2>3. \A k \in 1..4 : a[CheckAt[k]] = b[CheckAt[k]]  BY <1>2, <2>1
  <2>4. FieldOk(b, f) <=> Same(a[i], b[i])
    <3>1. MrzCheckDigit(SubSeq(a, From(f), To(f))) = MrzCheckDigit(SubSeq(b, From(f), To(f)))
            <=> Same(a[i], b[i])
      BY <2>1, ChangedFields
    <3> HIDE DEF f
    <3>2. FieldOk(a, f) /\ a[CheckAt[f]] = b[CheckAt[f]]  BY <1>1, <2>1, <2>3
    <3> QED BY <3>1, <3>2 DEF FieldOk
  <2>5. ASSUME NEW k \in 1..4, k # f PROVE FieldOk(b, k)
    <3>1. SubSeq(a, From(k), To(k)) = SubSeq(b, From(k), To(k))  BY <2>5, ChangedFields
    <3> QED BY <1>1, <2>3, <3>1 DEF FieldOk
  <2>6. CompositeOk(b) <=> Same(a[i], b[i])
    <3>1. MrzCheckDigit(Composite(a)) = MrzCheckDigit(Composite(b)) <=> Same(a[i], b[i])
      BY <2>1, ChangedComposite
    <3>2. a[44] = b[44]  BY <2>1
    <3> QED BY <1>1, <3>1, <3>2 DEF CompositeOk
  <2> HIDE DEF f
  <2> QED BY <1>7, <2>1, <2>2, <2>4, <2>5, <2>6, ValidIs
<1>8. \/ i \in (11..13) \cup {21} \/ i \in {10, 20, 28, 43} \/ i = 44 \/ FieldOf(i) # 0
  BY PlaceTable
<1> QED BY <1>3, <1>4, <1>5, <1>6, <1>7, <1>8

\* MrzErrorsAreCaught, for every stem of a line.
LEMMA MrzLines ==
  ASSUME NEW stem \in Line, kind = "mrz", subject = stem
  PROVE  MrzErrorsAreCaught
<1> DEFINE line == IcaoLine(stem)
<1>1. line \in Line /\ MrzValid(line)  BY IcaoLineIsValid
<1> HIDE DEF line
<1>2. ASSUME NEW i \in 1..44, NEW v \in MrzChar
      PROVE  MrzValid(Changed(line, i, v)) <=>
               \/ i \in (11..13) \cup {21}
               \/ v = line[i]
               \/ /\ i \notin {10, 20, 28, 43, 44}
                  /\ (v % Filler) % 10 = (line[i] % Filler) % 10
  <2> DEFINE b == Changed(line, i, v)
  <2>1. b \in Line /\ b[i] = v /\ \A j \in 1..44 : j # i => line[j] = b[j]
    BY <1>1 DEF Line, Changed
  <2> HIDE DEF b
  <2>2. MrzValid(b) <=>
           \/ i \in (11..13) \cup {21}
           \/ b[i] = line[i]
           \/ i \notin {10, 20, 28, 43, 44} /\ Same(line[i], b[i])
    BY <1>1, <2>1, ChangedLine
  <2>3. Same(line[i], v) <=> (v % Filler) % 10 = (line[i] % Filler) % 10  BY DEF Same
  <2>4. MrzValid(b) <=>
           \/ i \in (11..13) \cup {21}
           \/ v = line[i]
           \/ i \notin {10, 20, 28, 43, 44} /\ (v % Filler) % 10 = (line[i] % Filler) % 10
    BY <2>1, <2>2, <2>3
  <2> QED BY <2>4 DEF b
<1>3. MrzValid(line) /\ \A i \in 1..44, v \in MrzChar :
             MrzValid(Changed(line, i, v)) <=>
               \/ i \in (11..13) \cup {21}
               \/ v = line[i]
               \/ /\ i \notin {10, 20, 28, 43, 44}
                  /\ (v % Filler) % 10 = (line[i] % Filler) % 10
  BY <1>1, <1>2
<1> QED BY <1>3 DEF MrzErrorsAreCaught, line

-----------------------------------------------------------------------------
(* The customer form                                                       *)

\* Credits that agree with an income have an average that does.
LEMMA AverageAgrees ==
  ASSUME NEW n \in Nat, NEW a, NEW income \in Int,
         \A i \in 1..n : a[i] \in Int /\ 9 * a[i] <= 10 * income /\ 9 * income <= 10 * a[i],
         NEW sum \in [0..n -> Int], sum[0] = 0, \A i \in 1..n : sum[i] = sum[i - 1] + a[i]
  PROVE  9 * sum[n] <= 10 * (income * n) /\ 9 * (income * n) <= 10 * sum[n]
<1> DEFINE T == {i \in 0..n : 9 * sum[i] <= 10 * (income * i) /\ 9 * (income * i) <= 10 * sum[i]}
<1>1. 0 \in T  OBVIOUS
<1>2. ASSUME NEW i \in 0..n, i < n, i \in T PROVE i + 1 \in T
  <2>1. i + 1 \in 1..n /\ (i + 1) - 1 = i  BY <1>2
  <2>2. sum[i + 1] = sum[i] + a[i + 1]  BY <2>1
  <2>3. income * (i + 1) = income * i + income  OBVIOUS
  <2>4. a[i + 1] \in Int /\ 9 * a[i + 1] <= 10 * income /\ 9 * income <= 10 * a[i + 1]  BY <2>1
  <2> DEFINE m == income * i
             m1 == income * (i + 1)
  <2>5. m \in Int /\ sum[i] \in Int  OBVIOUS
  <2>6. m1 = m + income /\ 9 * sum[i] <= 10 * m /\ 9 * m <= 10 * sum[i]  BY <2>3, <1>2
  <2> DEFINE s == sum[i]
             v == a[i + 1]
             s1 == sum[i + 1]
  <2>7. /\ s \in Int /\ v \in Int /\ s1 = s + v
        /\ 9 * s <= 10 * m /\ 9 * m <= 10 * s /\ 9 * v <= 10 * income /\ 9 * income <= 10 * v
    BY <2>2, <2>4, <2>5, <2>6
  <2> HIDE DEF m, m1, s, v, s1
  <2>8. 9 * s1 <= 10 * m1 /\ 9 * m1 <= 10 * s1
    BY <2>5, <2>6, <2>7
  <2> QED BY <2>1, <2>8 DEF m1, s1
<1> HIDE DEF T
<1>3. \A i \in 0..n : i < n /\ i \in T => i + 1 \in T  BY <1>2
<1>4. 0 \in Nat /\ n \in 0..n  OBVIOUS
<1>5. n \in T  BY <1>1, <1>3, <1>4, InductionUpTo
<1> QED BY <1>5 DEF T

\* Numbers within ten percent of each other raise no message.
LEMMA ApartIs ==
  ASSUME NEW a \in Int, NEW b \in Int, 9 * a <= 10 * b, 9 * b <= 10 * a
  PROVE  ~Apart(a, b)
BY DEF Apart

\* OwnDocumentsPass, for every form and documents.
LEMMA OwnForm ==
  ASSUME NEW f \in Forms, kind = "form", subject = f
  PROVE  OwnDocumentsPass
<1> DEFINE t == f.typed
           r == f.read
           I == t.income
           agree(a, b) == 9 * a <= 10 * b /\ 9 * b <= 10 * a
           shown == {v \in {r.net, r.gross} : v # Unread} \cup {r.credits[i] : i \in DOMAIN r.credits}
           clear == /\ f.own
                    /\ ~Raises(t, r)
                    /\ r.pan # Unread \/ t.pan \in r.text
                    /\ r.aadhaar # Unread \/ t.aadhaar \in {Unread} \cup r.text
                    /\ NameWord(t.name) \in {Unread} \cup r.names \cup r.text
                    /\ t.income = Unread \/ \A v \in shown : agree(v, t.income)
<1> SUFFICES ASSUME clear PROVE CrossCheck(t, r) = {}
  BY DEF OwnDocumentsPass
<1>1. NumberMessages(t.pan, r.pan, r.text, "pan") = {}
  BY InputAssumption DEF NumberMessages
<1>2. NumberMessages(t.aadhaar, r.aadhaar, r.text, "aadhaar") = {}
  <2>1. Unread \in {t.aadhaar, r.aadhaar} \/ r.aadhaar = t.aadhaar
    BY InputAssumption
  <2>2. r.aadhaar # Unread \/ t.aadhaar \in {Unread} \cup r.text
    OBVIOUS
  <2> DEFINE ta == t.aadhaar
             ra == r.aadhaar
             text == r.text
  <2> HIDE DEF ta, ra, text
  <2>3. (Unread \in {ta, ra} \/ ra = ta) /\ (ra # Unread \/ ta = Unread \/ ta \in text)
    BY <2>1, <2>2 DEF ta, ra, text
  <2>4. NumberMessages(ta, ra, text, "aadhaar") = {}
    BY <2>3 DEF NumberMessages
  <2> QED BY <2>4 DEF ta, ra, text
<1>3. NameMessages(t.name, r) = {}
  BY DEF NameMessages
<1>4. IncomeMessages(I, r) = {}
  <2>0. /\ I \in Int \cup {Unread} /\ r.net \in Int \cup {Unread} /\ r.gross \in Int \cup {Unread}
        /\ r.credits \in Seq(Int) /\ Unread \notin Int
    BY InputAssumption
  <2>1. CASE ToFloat(I) <= 0
    BY <2>1 DEF IncomeMessages
  <2>2. CASE ~(ToFloat(I) <= 0)
    <3>1. I # Unread /\ I \in Int /\ I > 0
      BY <2>0, <2>2 DEF ToFloat
    <3>2. \A v \in shown : agree(v, I)
      BY <3>1
    <3>3. ASSUME SlipIncome(r) > 0 PROVE ~Apart(I, SlipIncome(r))
      <4>1. SlipIncome(r) \in {r.net, r.gross} /\ SlipIncome(r) # Unread /\ SlipIncome(r) \in Int
        BY <2>0, <3>3 DEF SlipIncome, ToFloat
      <4>2. agree(SlipIncome(r), I)
        BY <3>2, <4>1
      <4> QED BY <3>1, <4>1, <4>2, ApartIs
    <3> DEFINE n == Len(r.credits)
               paid == {i \in DOMAIN r.credits : r.credits[i] > 0}
               a == [i \in DOMAIN r.credits |-> IF i \in paid THEN r.credits[i] ELSE 0]
    <3>4. n \in Nat /\ DOMAIN r.credits = 1..n /\ \A i \in 1..n : r.credits[i] \in Int
      BY <2>0, LenProperties, ElementOfSeq
    <3>5. \A i \in 1..n : agree(r.credits[i], I)
      <4> SUFFICES ASSUME NEW i \in 1..n PROVE agree(r.credits[i], I)
        OBVIOUS
      <4>1. r.credits[i] \in shown  BY <3>4
      <4> QED BY <3>2, <4>1
    <3>6. paid = 1..n
      <4>1. \A i \in 1..n : r.credits[i] > 0
        BY <3>1, <3>4, <3>5
      <4> QED BY <3>4, <4>1
    <3>7. IncomeMessages(I, r) =
             {m \in {<<"income", "slip">>} : SlipIncome(r) > 0 /\ Apart(I, SlipIncome(r))}
               \cup {m \in {<<"income", "bank">>} : paid # {} /\ Apart(I * Cardinality(paid), SumOf(a))}
      BY <2>2 DEF IncomeMessages
    <3> HIDE DEF n, paid
    <3>8. Cardinality(paid) = n
      <4>1. \A x \in Int, y \in Int : Cardinality(x..y) = IF x > y THEN 0 ELSE y - x + 1
        BY FS_Interval
      <4>2. 1 \in Int /\ n \in Int  BY <3>4
      <4> QED BY <3>4, <3>6, <4>1, <4>2
    <3>9. a \in [1..n -> Int] /\ \A i \in 1..n : a[i] = r.credits[i]
      BY <3>4, <3>6
    <3> HIDE DEF a
    <3>10. a \in Seq(Int) /\ Len(a) = n
      BY <3>4, <3>9, SequenceOf
    <3> DEFINE sum == Total(a)
    <3>11. sum \in [0..n -> Int] /\ sum[0] = 0 /\ \A i \in 1..n : sum[i] = sum[i - 1] + a[i]
      <4>1. Int \in SUBSET Int /\ 0 \in Int /\ \A x, y \in Int : x + y \in Int  OBVIOUS
      <4> QED BY <3>10, <4>1, TotalIs
    <3>12. SumOf(a) = sum[n]
      BY <3>10 DEF SumOf
    <3> HIDE DEF sum
    <3>13. 9 * sum[n] <= 10 * (I * n) /\ 9 * (I * n) <= 10 * sum[n]
      <4>1. \A i \in 1..n : a[i] \in Int /\ 9 * a[i] <= 10 * I /\ 9 * I <= 10 * a[i]
        BY <3>4, <3>5, <3>9
      <4> HIDE DEF I
      <4> QED BY <3>1, <3>4, <3>11, <4>1, AverageAgrees
    <3>14. ~Apart(I * Cardinality(paid), SumOf(a))
      <4>1. I * n \in Int /\ sum[n] \in Int  BY <3>1, <3>4, <3>11
      <4>2. ~Apart(I * n, sum[n])  BY <3>13, <4>1, ApartIs
      <4> QED BY <3>8, <3>12, <4>2
    <3> QED BY <3>3, <3>7, <3>14
  <2> QED BY <2>1, <2>2
<1> QED BY <1>1, <1>2, <1>3, <1>4 DEF CrossCheck

\* ForeignDocumentsAreTold, for every form and documents.
LEMMA ForeignForm ==
  ASSUME NEW f \in Forms, kind = "form", subject = f
  PROVE  ForeignDocumentsAreTold
<1> SUFFICES ASSUME ~f.own PROVE CrossCheck(f.typed, f.read) # {}
  BY DEF ForeignDocumentsAreTold
<1>1. f.typed.pan \notin {Unread, f.read.pan} \cup f.read.text
  BY InputAssumption
<1>2. NumberMessages(f.typed.pan, f.read.pan, f.read.text, "pan") # {}
  BY <1>1 DEF NumberMessages
<1> QED BY <1>2 DEF CrossCheck

-----------------------------------------------------------------------------
(* Annotations: the boxes of words                                         *)

\* Rounding moves a quotient by half a unit at most.
LEMMA RoundIs ==
  ASSUME NEW num \in Nat, NEW den \in Nat \ {0}
  PROVE  /\ Round(num, den) \in Nat
         /\ 2 * (den * Round(num, den)) <= 2 * num + den
         /\ 2 * num <= 2 * (den * Round(num, den)) + den
<1> DEFINE q == num \div den
           m == num % den
<1>1. q \in Nat /\ m \in 0..den - 1 /\ num = den * q + m
  OBVIOUS
<1>2. Round(num, den) = q \/ Round(num, den) = q + 1
  BY DEF Round
<1>3. (2 * m > den => Round(num, den) = q + 1) /\ (2 * m < den => Round(num, den) = q)
  BY <1>1 DEF Round
<1> HIDE DEF q, m
<1>4. den * (q + 1) = den * q + den
  BY <1>1
<1> DEFINE p == den * q
<1>5. p \in Nat  BY <1>1
<1> HIDE DEF p
<1>6. CASE Round(num, den) = q /\ 2 * m <= den
  <2>1. den * Round(num, den) = p /\ num = p + m  BY <1>1, <1>6 DEF p
  <2> QED BY <1>1, <1>5, <1>6, <2>1
<1>7. CASE Round(num, den) = q + 1 /\ 2 * m >= den
  <2>1. den * Round(num, den) = p + den /\ num = p + m  BY <1>1, <1>4, <1>7 DEF p
  <2> QED BY <1>1, <1>5, <1>7, <2>1
<1> QED BY <1>1, <1>2, <1>3, <1>6, <1>7

\* Division by a positive number keeps the order.
LEMMA Monotone ==
  ASSUME NEW d \in Nat \ {0}, NEW x \in Int, NEW y \in Int, d * x <= d * y
  PROVE  x <= y
<1> SUFFICES ASSUME x >= y + 1 PROVE FALSE
  OBVIOUS
<1>1. PICK k \in Nat : x = y + 1 + k
  <2>1. x - y - 1 \in Nat /\ x = y + 1 + (x - y - 1)  OBVIOUS
  <2> QED BY <2>1
<1>2. d * x = d * y + d + d * k
  BY <1>1
<1>3. d * k >= 0 /\ d * k \in Int /\ d * y \in Int
  OBVIOUS
<1> DEFINE p == d * x
           q == d * y
           r == d * k
<1>4. p = q + d + r /\ r >= 0 /\ p <= q /\ q \in Int /\ r \in Int /\ d > 0
  BY <1>2, <1>3
<1> HIDE DEF p, q, r
<1> QED BY <1>4

\* The edges of a line in thousandths of the page are in their order.
LEMMA EdgeIs ==
  ASSUME NEW x \in Nat, NEW y \in Nat, x <= y, NEW width \in Nat \ {0}
  PROVE  /\ NormalizeX(x, width) \in Nat /\ NormalizeX(y, width) \in Nat
         /\ NormalizeX(x, width) <= NormalizeX(y, width)
<1> DEFINE q == NormalizeX(x, width)
           r == NormalizeX(y, width)
           m == (x * 1000) % width
           k == (y * 1000) % width
<1>1. /\ q \in Nat /\ m \in 0..width - 1 /\ x * 1000 = width * q + m
      /\ r \in Nat /\ k \in 0..width - 1 /\ y * 1000 = width * r + k
  BY DEF NormalizeX
<1> HIDE DEF q, r, m, k
<1>2. width * (r + 1) = width * r + width
  BY <1>1
<1> DEFINE u == width * q
           v == width * r
<1>3. u \in Nat /\ v \in Nat  BY <1>1
<1>4. x * 1000 = u + m /\ y * 1000 = v + k  BY <1>1
<1>5. SUFFICES ASSUME q >= r + 1 PROVE FALSE
  BY <1>1 DEF q, r
<1>6. width * (r + 1) <= u
  <2>1. PICK j \in Nat : q = r + 1 + j
    <3>1. q - r - 1 \in Nat /\ q = r + 1 + (q - r - 1)  BY <1>1, <1>5
    <3> QED BY <3>1
  <2>2. width * q = width * (r + 1) + width * j  BY <1>1, <2>1
  <2>3. width * j \in Nat /\ width * (r + 1) \in Nat  BY <1>1
  <2> QED BY <2>2, <2>3
<1>7. v + width <= u  BY <1>2, <1>6
<1> HIDE DEF u, v
<1> QED BY <1>1, <1>3, <1>4, <1>7

\* S has the running sums of a; w are the widths that share W out by the lengths
\* l of words, C in all.
Sums(S, a, n) == S \in [0..n -> Nat] /\ S[0] = 0 /\ \A i \in 1..n : S[i] = S[i - 1] + a[i]
Shares(w, l, n, W, C) == \A i \in 1..n : w[i] = Round(W * l[i], C)

\* The widths of the words of a line add up to the line's, give or take half a
\* unit a word.
LEMMA WidthsAddUp ==
  ASSUME NEW n \in Nat, NEW W \in Nat, NEW C \in Nat \ {0},
         NEW l \in [1..n -> Nat], NEW w \in [1..n -> Nat], Shares(w, l, n, W, C),
         NEW L, Sums(L, l, n), L[n] = C, NEW E, Sums(E, w, n)
  PROVE  2 * E[n] <= 2 * W + n /\ 2 * W <= 2 * E[n] + n
<1> DEFINE T == {i \in 0..n : /\ 2 * (C * E[i]) <= 2 * (W * L[i]) + C * i
                              /\ 2 * (W * L[i]) <= 2 * (C * E[i]) + C * i}
<1>0. /\ L \in [0..n -> Nat] /\ L[0] = 0 /\ \A i \in 1..n : L[i] = L[i - 1] + l[i]
      /\ E \in [0..n -> Nat] /\ E[0] = 0 /\ \A i \in 1..n : E[i] = E[i - 1] + w[i]
      /\ \A i \in 1..n : w[i] = Round(W * l[i], C)
  BY DEF Sums, Shares
<1>1. 0 \in T
  <2>1. C * E[0] = 0 /\ W * L[0] = 0 /\ C * 0 = 0  BY <1>0
  <2> QED BY <2>1
<1>2. ASSUME NEW i \in 0..n, i < n, i \in T PROVE i + 1 \in T
  <2> DEFINE e == E[i]
             e1 == E[i + 1]
             m == L[i]
             m1 == L[i + 1]
             a == l[i + 1]
             b == w[i + 1]
  <2>1. i + 1 \in 1..n /\ (i + 1) - 1 = i /\ i + 1 \in 0..n  BY <1>2
  <2>2. /\ e1 = e + b /\ m1 = m + a /\ e \in Nat /\ m \in Nat /\ a \in Nat /\ b = Round(W * a, C)
        /\ 2 * (C * e) <= 2 * (W * m) + C * i /\ 2 * (W * m) <= 2 * (C * e) + C * i
    BY <2>1, <1>0, <1>2
  <2> HIDE DEF e, e1, m, m1, a, b
  <2>3. W * a \in Nat  BY <2>2
  <2>4. b \in Nat /\ 2 * (C * b) <= 2 * (W * a) + C /\ 2 * (W * a) <= 2 * (C * b) + C
    BY <2>2, <2>3, RoundIs
  <2>5. /\ C * e1 = C * e + C * b /\ W * m1 = W * m + W * a /\ C * (i + 1) = C * i + C
        /\ C * e \in Nat /\ C * b \in Nat /\ W * m \in Nat /\ C * i \in Nat
    <3>1. C * (e + b) = C * e + C * b  BY <2>2, <2>4
    <3>2. W * (m + a) = W * m + W * a  BY <2>2
    <3>3. C * (i + 1) = C * i + C  OBVIOUS
    <3>4. C * e \in Nat  BY <2>2
    <3>5. C * b \in Nat  BY <2>4
    <3>6. W * m \in Nat  BY <2>2
    <3>7. C * i \in Nat  OBVIOUS
    <3> QED BY <2>2, <3>1, <3>2, <3>3, <3>4, <3>5, <3>6, <3>7
  <2> DEFINE x == C * e
             x1 == C * e1
             y == W * m
             y1 == W * m1
             z == C * i
             z1 == C * (i + 1)
             u == C * b
             v == W * a
  <2>6. /\ x1 = x + u /\ y1 = y + v /\ z1 = z + C /\ x \in Nat /\ y \in Nat /\ z \in Nat /\ u \in Nat /\ v \in Nat
        /\ 2 * x <= 2 * y + z /\ 2 * y <= 2 * x + z /\ 2 * u <= 2 * v + C /\ 2 * v <= 2 * u + C
    BY <2>2, <2>3, <2>4, <2>5
  <2> HIDE DEF x, x1, y, y1, z, z1, u, v
  <2>7. 2 * x1 <= 2 * y1 + z1 /\ 2 * y1 <= 2 * x1 + z1  BY <2>6
  <2> QED BY <2>1, <2>7 DEF x1, y1, z1, e1, m1
<1> HIDE DEF T
<1>3. \A i \in 0..n : i < n /\ i \in T => i + 1 \in T  BY <1>2
<1>4. 0 \in Nat /\ n \in 0..n  OBVIOUS
<1>5. n \in T  BY <1>1, <1>3, <1>4, InductionUpTo
<1> DEFINE e == E[n]
<1>6. 2 * (C * e) <= 2 * (W * C) + C * n /\ 2 * (W * C) <= 2 * (C * e) + C * n /\ e \in Nat
  BY <1>0, <1>4, <1>5 DEF T
<1> HIDE DEF e
<1>7. /\ C * (2 * e) = 2 * (C * e) /\ C * (2 * W + n) = 2 * (W * C) + C * n
      /\ C * (2 * W) = 2 * (W * C) /\ C * (2 * e + n) = 2 * (C * e) + C * n
  BY <1>6
<1>8. C * (2 * e) <= C * (2 * W + n) /\ C * (2 * W) <= C * (2 * e + n)
  BY <1>6, <1>7
<1>9. 2 * e \in Int /\ 2 * W + n \in Int /\ 2 * W \in Int /\ 2 * e + n \in Int
  BY <1>6
<1> DEFINE p == 2 * e
           q == 2 * W + n
           r == 2 * W
           s == 2 * e + n
<1>10. p \in Int /\ q \in Int /\ r \in Int /\ s \in Int /\ C * p <= C * q /\ C * r <= C * s
  BY <1>8, <1>9
<1> HIDE DEF p, q, r, s
<1>11. p <= q /\ r <= s
  BY <1>10, Monotone
<1> QED BY <1>11 DEF p, q, r, s, e

\* BoxesStayInLine, for every line of words.
LEMMA LineBoxes ==
  ASSUME NEW t \in TextLines, kind = "line", subject = t
  PROVE  BoxesStayInLine
<1> DEFINE l == t.lengths
           n == Len(l)
           left == NormalizeX(t.x0, t.width)
           right == NormalizeX(t.x1, t.width)
           W == right - left
           C == SumOf(l)
           w == [j \in DOMAIN l |-> WordWidth(W, l[j], C)]
           E == Total(w)
           L == Total(l)
           box == WordBoxes(l, left, right)
<1>1. /\ l \in Seq(Nat \ {0}) /\ l # <<>>
      /\ t.x0 \in Nat /\ t.x1 \in Nat /\ t.x0 <= t.x1 /\ t.width \in Nat \ {0}
  BY InputAssumption
<1>2. left \in Nat /\ right \in Nat /\ W \in Nat
  <2>1. left \in Nat /\ right \in Nat /\ left <= right
    BY <1>1, EdgeIs
  <2> HIDE DEF left, right
  <2> QED BY <2>1
<1>3. n \in Nat \ {0} /\ DOMAIN l = 1..n /\ \A i \in 1..n : l[i] \in Nat \ {0}
  BY <1>1, LenProperties, ElementOfSeq, EmptySeq
<1>4. l \in Seq(Nat) /\ l \in [1..n -> Nat]
  <2>1. l \in [1..n -> Nat]  BY <1>1, <1>3, LenProperties
  <2> QED BY <1>3, <2>1, SequenceOf
<1>5. Nat \in SUBSET Int /\ 0 \in Nat /\ \A x, y \in Nat : x + y \in Nat
  OBVIOUS
<1>6. L \in [0..n -> Nat] /\ L[0] = 0 /\ \A i \in 1..n : L[i] = L[i - 1] + l[i]
  BY <1>4, <1>5, TotalIs
<1>7. C = L[n]
  BY DEF SumOf
<1> HIDE DEF L, n, left, right, W, C
<1>8. C \in Nat \ {0}
  <2>1. n - 1 \in 0..n /\ n \in 1..n  BY <1>3
  <2>2. L[n - 1] \in Nat /\ L[n] = L[n - 1] + l[n] /\ l[n] \in Nat \ {0}  BY <1>3, <1>6, <2>1
  <2> QED BY <1>7, <2>2
<1>9. \A i \in 1..n : w[i] = Round(W * l[i], C) /\ w[i] \in Nat
  <2> SUFFICES ASSUME NEW i \in 1..n PROVE w[i] = Round(W * l[i], C) /\ w[i] \in Nat
    OBVIOUS
  <2>1. l[i] \in Nat  BY <1>3
  <2>2. W * l[i] \in Nat  BY <1>2, <2>1
  <2>3. w[i] = Round(W * l[i], C)  BY <1>3 DEF WordWidth
  <2> QED BY <1>8, <2>2, <2>3, RoundIs
<1>10. w \in [1..n -> Nat]
  BY <1>3, <1>9
<1> HIDE DEF w
<1>11. w \in Seq(Nat) /\ Len(w) = n
  BY <1>3, <1>10, SequenceOf
<1>12. E \in [0..n -> Nat] /\ E[0] = 0 /\ \A i \in 1..n : E[i] = E[i - 1] + w[i]
  BY <1>5, <1>11, TotalIs
<1>13. DOMAIN box = 1..n /\ \A i \in 1..n : box[i][1] = left + E[i - 1] /\ box[i][2] = left + E[i]
  BY <1>3 DEF WordBoxes, w, W, C
<1> HIDE DEF E, box
<1>14. Len(box) = n
  <2>1. \A i \in 1..n : box[i] = <<left + E[i - 1], left + E[i]>>
    BY <1>3 DEF box, WordBoxes, w, W, C, E
  <2>2. ASSUME NEW i \in 1..n PROVE box[i] \in Int \X Int
    <3>1. i - 1 \in 0..n /\ i \in 0..n  BY <1>3
    <3>2. left + E[i - 1] \in Int /\ left + E[i] \in Int  BY <1>2, <1>12, <3>1
    <3> QED BY <2>1, <3>2
  <2>3. box \in [1..n -> Int \X Int]
    <3>1. box = [k \in DOMAIN box |-> box[k]]  BY DEF box, WordBoxes
    <3> QED BY <1>13, <2>2, <3>1
  <2> QED BY <1>3, <2>3, SequenceOf
<1>15. \A i \in DOMAIN box : left <= box[i][1] /\ box[i][1] <= box[i][2]
  <2> SUFFICES ASSUME NEW i \in 1..n PROVE left <= box[i][1] /\ box[i][1] <= box[i][2]
    BY <1>13
  <2>1. i - 1 \in 0..n /\ i \in 0..n  BY <1>3
  <2>2. E[i - 1] \in Nat /\ w[i] \in Nat /\ E[i] = E[i - 1] + w[i]  BY <1>9, <1>12, <2>1
  <2> QED BY <1>2, <1>13, <2>2
<1>16. 2 * E[n] <= 2 * W + n /\ 2 * W <= 2 * E[n] + n
  <2>1. n \in Nat  BY <1>3
  <2>2. Shares(w, l, n, W, C)  BY <1>9 DEF Shares
  <2>3. Sums(L, l, n)  BY <1>6 DEF Sums
  <2>4. Sums(E, w, n)  BY <1>12 DEF Sums
  <2> QED BY <2>1, <2>2, <2>3, <2>4, <1>2, <1>4, <1>7, <1>8, <1>10, WidthsAddUp
<1> DEFINE last == box[Len(box)][2]
<1>17. 2 * last <= 2 * right + n /\ 2 * right <= 2 * last + n
  <2>1. n \in 1..n /\ n \in 0..n  BY <1>3
  <2>2. last = left + E[n] /\ E[n] \in Nat  BY <1>12, <1>13, <1>14, <2>1
  <2>3. W = right - left  BY DEF W
  <2> HIDE DEF last
  <2> QED BY <1>2, <1>3, <1>16, <2>2, <2>3
<1> QED BY <1>14, <1>15, <1>17 DEF BoxesStayInLine, box, left, right

-----------------------------------------------------------------------------
(* Annotations: the lookup                                                 *)

\* LABEL_SCHEMAS, type by type.
LEMMA SchemaTable ==
  /\ DOMAIN Schema = {"pan", "aadhaar", "salary_slip", "bank_statement", "form16", "itr", "gst_return"}
  /\ Schema["pan"] = <<"pan_number", "full_name", "father_name", "date_of_birth">>
  /\ Schema["aadhaar"] = <<"aadhaar_number", "full_name", "date_of_birth", "gender", "pincode">>
  /\ Schema["salary_slip"] = <<"employer_name", "employee_name", "employee_pan", "uan", "gross_pay", "net_pay",
                     "basic", "hra", "pf_deduction", "tds_deduction", "pay_month", "pay_year">>
  /\ Schema["bank_statement"] = <<"bank_name", "account_number", "account_holder_name", "period_start",
                        "period_end", "opening_balance", "closing_balance">>
  /\ Schema["form16"] = <<"employer_tan", "employee_pan", "assessment_year", "gross_salary", "taxable_income",
                "tds_deducted">>
  /\ Schema["itr"] = <<"pan_number", "full_name", "assessment_year", "gross_total_income", "total_tax_paid">>
  /\ Schema["gst_return"] = <<"gstin", "legal_name", "return_period", "total_taxable_value", "total_tax_payable">>
BY DEF Schema

\* A sequence has nothing twice.
Apart2(s) == \A i \in DOMAIN s, j \in DOMAIN s : s[i] = s[j] => i = j

\* No schema has a field twice, and Aadhaar's has no part of the address.
LEMMA SchemaIs ==
  ASSUME NEW type \in DOMAIN Schema
  PROVE  /\ \E n \in Nat : DOMAIN Schema[type] = 1..n
         /\ Apart2(Schema[type])
         /\ type = "aadhaar" => \A i \in DOMAIN Schema[type], j \in DOMAIN AddressParts :
                                   Schema[type][i] # AddressParts[j]
<1>1. CASE type = "pan"
  <2>1. Apart2(Schema["pan"])  BY SchemaTable DEF Apart2
  <2>2. DOMAIN Schema["pan"] = 1..4  BY SchemaTable
  <2> QED BY <1>1, <2>1, <2>2
<1>2. CASE type = "aadhaar"
  <2>1. Apart2(Schema["aadhaar"])  BY SchemaTable DEF Apart2
  <2>2. DOMAIN Schema["aadhaar"] = 1..5  BY SchemaTable
  <2>3. \A i \in DOMAIN Schema["aadhaar"], j \in DOMAIN AddressParts : Schema["aadhaar"][i] # AddressParts[j]
    BY SchemaTable DEF AddressParts
  <2> QED BY <1>2, <2>1, <2>2, <2>3
<1>3. CASE type = "salary_slip"
  <2>1. Apart2(Schema["salary_slip"])  BY SchemaTable DEF Apart2
  <2>2. DOMAIN Schema["salary_slip"] = 1..12  BY SchemaTable
  <2> QED BY <1>3, <2>1, <2>2
<1>4. CASE type = "bank_statement"
  <2>1. Apart2(Schema["bank_statement"])  BY SchemaTable DEF Apart2
  <2>2. DOMAIN Schema["bank_statement"] = 1..7  BY SchemaTable
  <2> QED BY <1>4, <2>1, <2>2
<1>5. CASE type = "form16"
  <2>1. Apart2(Schema["form16"])  BY SchemaTable DEF Apart2
  <2>2. DOMAIN Schema["form16"] = 1..6  BY SchemaTable
  <2> QED BY <1>5, <2>1, <2>2
<1>6. CASE type = "itr"
  <2>1. Apart2(Schema["itr"])  BY SchemaTable DEF Apart2
  <2>2. DOMAIN Schema["itr"] = 1..5  BY SchemaTable
  <2> QED BY <1>6, <2>1, <2>2
<1>7. CASE type = "gst_return"
  <2>1. Apart2(Schema["gst_return"])  BY SchemaTable DEF Apart2
  <2>2. DOMAIN Schema["gst_return"] = 1..5  BY SchemaTable
  <2> QED BY <1>7, <2>1, <2>2
<1> QED BY <1>1, <1>2, <1>3, <1>4, <1>5, <1>6, <1>7, SchemaTable

\* Nor have the parts of the address and the columns of a transaction.
LEMMA ColumnsAre ==
  /\ TxnColumns \in [1..4 -> Range(TxnColumns)]
  /\ Apart2(TxnColumns)
  /\ \A c \in Range(TxnColumns) : c \in DOMAIN TxnTag
  /\ AddressParts \in [1..5 -> Range(AddressParts)]
  /\ Apart2(AddressParts)
<1>1. DOMAIN TxnColumns = 1..4 /\ DOMAIN AddressParts = 1..5  BY DEF TxnColumns, AddressParts
<1>2. TxnColumns \in [1..4 -> Range(TxnColumns)]  BY <1>1 DEF Range, TxnColumns
<1>3. Apart2(TxnColumns)  BY DEF Apart2, TxnColumns
<1>4. Apart2(AddressParts)  BY DEF Apart2, AddressParts
<1>5. \A c \in Range(TxnColumns) : c \in DOMAIN TxnTag
  BY <1>1 DEF Range, TxnColumns, TxnTag
<1>6. AddressParts \in [1..5 -> Range(AddressParts)]  BY <1>1 DEF Range, AddressParts
<1> QED BY <1>2, <1>3, <1>4, <1>5, <1>6

\* What InputAssumption says of a document.
DocOk(doc) ==
  /\ doc.type \in DOMAIN Schema
  /\ doc.values \in [Range(Schema[doc.type]) -> Seq(Word)]
  /\ doc.address \in [Range(AddressParts) -> Seq(Word)]
  /\ doc.txns \in Seq([Range(TxnColumns) -> Seq(Word)])

\* Sequences given by their elements, one after the other.
LEMMA Joined ==
  ASSUME NEW m \in Nat, NEW n \in Nat, NEW s, NEW t,
         s = [i \in 1..m |-> s[i]], t = [i \in 1..n |-> t[i]]
  PROVE  /\ Len(s \o t) = m + n /\ DOMAIN (s \o t) = 1..m + n
         /\ \A k \in 1..m : (s \o t)[k] = s[k]
         /\ \A k \in 1..n : (s \o t)[m + k] = t[k]
<1> DEFINE S == {s[i] : i \in 1..m} \cup {t[i] : i \in 1..n}
<1>1. s \in [1..m -> S] /\ t \in [1..n -> S]
  <2>1. \A i \in 1..m : s[i] \in S  OBVIOUS
  <2>2. \A i \in 1..n : t[i] \in S  OBVIOUS
  <2> HIDE DEF S
  <2> QED BY <2>1, <2>2
<1> HIDE DEF S
<1>2. s \in Seq(S) /\ Len(s) = m  BY <1>1, SequenceOf
<1>3. t \in Seq(S) /\ Len(t) = n  BY <1>1, SequenceOf
<1>4. \A u \in Seq(S), v \in Seq(S) :
        /\ u \o v \in Seq(S) /\ Len(u \o v) = Len(u) + Len(v)
        /\ \A i \in 1..Len(u) + Len(v) : (u \o v)[i] = IF i <= Len(u) THEN u[i] ELSE v[i - Len(u)]
  BY ConcatProperties
<1>5. /\ s \o t \in Seq(S) /\ Len(s \o t) = m + n
      /\ \A i \in 1..m + n : (s \o t)[i] = IF i <= m THEN s[i] ELSE t[i - m]
  BY <1>2, <1>3, <1>4
<1>6. DOMAIN (s \o t) = 1..m + n  BY <1>5, LenProperties
<1>7. ASSUME NEW k \in 1..n PROVE (s \o t)[m + k] = t[k]
  <2>1. m + k \in 1..m + n /\ ~(m + k <= m) /\ (m + k) - m = k  OBVIOUS
  <2> QED BY <1>5, <2>1
<1>8. ASSUME NEW k \in 1..m PROVE (s \o t)[k] = s[k]
  <2>1. k \in 1..m + n /\ k <= m  OBVIOUS
  <2> QED BY <1>5, <2>1
<1> QED BY <1>5, <1>6, <1>7, <1>8

\* What the lookup of a document holds, place by place.
Listed(doc, f, n) ==
  LET E == GtLookup(doc)
  IN  /\ Len(E) = n /\ DOMAIN E = 1..n /\ f <= n
      /\ DOMAIN Schema[doc.type] = 1..f
      /\ \A k \in 1..f : E[k] = FieldEntries(doc)[k]
      /\ doc.type = "aadhaar" => /\ n = f + 5
                                 /\ \A k \in 1..5 : E[f + k] = AddressEntries(doc)[k]
      /\ doc.type = "bank_statement" => /\ n = f + 4 * Len(doc.txns)
                                        /\ \A k \in 1..4 * Len(doc.txns) : E[f + k] = TxnEntries(doc)[k]
      /\ doc.type \notin {"aadhaar", "bank_statement"} => n = f

\* The lookup is the fields, and the address or the transactions.
LEMMA LookupIs ==
  ASSUME NEW doc, DocOk(doc)
  PROVE  \E f \in Nat, n \in Nat : Listed(doc, f, n)
<1> DEFINE F == FieldEntries(doc)
           A == AddressEntries(doc)
           X == TxnEntries(doc)
           E == GtLookup(doc)
<1>1. PICK f \in Nat : DOMAIN Schema[doc.type] = 1..f  BY SchemaIs DEF DocOk
<1>2. F = [i \in 1..f |-> F[i]]  BY <1>1 DEF FieldEntries
<1>3. A = [i \in 1..5 |-> A[i]]
  <2>1. DOMAIN AddressParts = 1..5  BY ColumnsAre
  <2> QED BY <2>1 DEF AddressEntries
<1>4. X = [i \in 1..4 * Len(doc.txns) |-> X[i]]  BY DEF TxnEntries
<1>5. Len(doc.txns) \in Nat  BY LenProperties DEF DocOk
<1>6. E = F \o (CASE doc.type = "aadhaar" -> A [] doc.type = "bank_statement" -> X [] OTHER -> <<>>)
  BY DEF GtLookup
<1> HIDE DEF F, A, X, E
<1>7. CASE doc.type = "aadhaar"
  <2>1. E = F \o A  BY <1>6, <1>7
  <2>2. /\ Len(F \o A) = f + 5 /\ DOMAIN (F \o A) = 1..f + 5
        /\ \A k \in 1..f : (F \o A)[k] = F[k]
        /\ \A k \in 1..5 : (F \o A)[f + k] = A[k]
    BY <1>2, <1>3, Joined
  <2>3. f + 5 \in Nat /\ f <= f + 5  OBVIOUS
  <2>4. doc.type # "bank_statement"  BY <1>7
  <2> DEFINE n == f + 5
  <2> HIDE DEF n
  <2>5. n \in Nat /\ f <= n  BY <2>3 DEF n
  <2>6. Len(E) = n /\ DOMAIN E = 1..n  BY <2>1, <2>2 DEF n
  <2>7. \A k \in 1..f : E[k] = F[k]  BY <2>1, <2>2
  <2>8. \A k \in 1..5 : E[f + k] = A[k]  BY <2>1, <2>2
  <2>9. n = f + 5  BY DEF n
  <2>10. Listed(doc, f, n)
    BY <1>1, <1>7, <2>4, <2>5, <2>6, <2>7, <2>8, <2>9 DEF Listed, E, F, A
  <2> QED BY <2>5, <2>10
<1>8. CASE doc.type = "bank_statement"
  <2> DEFINE m == 4 * Len(doc.txns)
  <2>0. m \in Nat  BY <1>5
  <2>1. E = F \o X  BY <1>6, <1>8
  <2>2. X = [i \in 1..m |-> X[i]]  BY <1>4
  <2> HIDE DEF m
  <2>3. /\ Len(F \o X) = f + m /\ DOMAIN (F \o X) = 1..f + m
        /\ \A k \in 1..f : (F \o X)[k] = F[k]
        /\ \A k \in 1..m : (F \o X)[f + k] = X[k]
    BY <1>2, <2>0, <2>2, Joined
  <2>4. f + m \in Nat /\ f <= f + m  BY <2>0
  <2>5. Listed(doc, f, f + m)  BY <1>1, <1>8, <2>1, <2>3, <2>4 DEF Listed, E, F, X, m
  <2> QED BY <2>4, <2>5
<1>9. CASE doc.type \notin {"aadhaar", "bank_statement"}
  <2> DEFINE none == <<>>
  <2>1. E = F \o none  BY <1>6, <1>9
  <2>2. none = [i \in 1..0 |-> none[i]]  OBVIOUS
  <2> HIDE DEF none
  <2>3. /\ Len(F \o none) = f + 0 /\ DOMAIN (F \o none) = 1..f + 0
        /\ \A k \in 1..f : (F \o none)[k] = F[k]
    BY <1>2, <2>2, Joined
  <2>4. Listed(doc, f, f)  BY <1>1, <1>9, <2>1, <2>3 DEF Listed, E, F
  <2> QED BY <2>4
<1> QED BY <1>7, <1>8, <1>9

\* The column and the row of a transaction's value.
Column(k) == TxnColumns[((k - 1) % 4) + 1]
TxnRow(k) == ((k - 1) \div 4) + 1

\* They are those of a transaction,
LEMMA ColumnIs ==
  ASSUME NEW t \in Nat, NEW k \in 1..4 * t
  PROVE  /\ ((k - 1) % 4) + 1 \in 1..4 /\ TxnRow(k) \in 1..t
         /\ Column(k) \in Range(TxnColumns)
<1>1. ((k - 1) % 4) + 1 \in 1..4 /\ TxnRow(k) \in 1..t  BY DEF TxnRow
<1> QED BY <1>1, ColumnsAre DEF Column

\* and every value of every transaction has its place.
LEMMA ColumnOf ==
  ASSUME NEW t \in Nat, NEW c \in Range(TxnColumns), NEW r \in 1..t
  PROVE  \E k \in 1..4 * t : Column(k) = c /\ TxnRow(k) = r
<1>1. PICK i \in 1..4 : c = TxnColumns[i]  BY ColumnsAre DEF Range
<1> DEFINE k == 4 * (r - 1) + i
<1>2. k \in 1..4 * t /\ ((k - 1) % 4) + 1 = i /\ ((k - 1) \div 4) + 1 = r  OBVIOUS
<1> HIDE DEF k
<1> QED BY <1>1, <1>2 DEF Column, TxnRow

\* An entry of the fields, of the address, of the transactions.
IsField(doc, e, i) ==
  LET f == Schema[doc.type][i] IN e.name = <<f>> /\ e.tag = f /\ e.words = doc.values[f]
IsAddress(doc, e, i) ==
  LET p == AddressParts[i] IN e.name = <<p>> /\ e.tag = AddressTag /\ e.words = doc.address[p]
IsTxn(doc, e, i) ==
  /\ e.name = <<Column(i), TxnRow(i)>> /\ e.tag = TxnTag[Column(i)]
  /\ e.words = doc.txns[TxnRow(i)][Column(i)]

\* What the entries of the lookup are.
LEMMA EntryIs ==
  ASSUME NEW doc, DocOk(doc), NEW f \in Nat, NEW n \in Nat, Listed(doc, f, n)
  PROVE  LET E == GtLookup(doc)
         IN  /\ \A k \in 1..f : IsField(doc, E[k], k)
             /\ doc.type = "aadhaar" => \A k \in 1..5 : IsAddress(doc, E[f + k], k)
             /\ doc.type = "bank_statement" => \A k \in 1..4 * Len(doc.txns) : IsTxn(doc, E[f + k], k)
<1> DEFINE E == GtLookup(doc)
<1>1. ASSUME NEW k \in 1..f PROVE IsField(doc, E[k], k)
  <2>1. E[k] = FieldEntries(doc)[k] /\ k \in DOMAIN Schema[doc.type]  BY DEF Listed
  <2> DEFINE g == Schema[doc.type][k]
  <2>2. FieldEntries(doc)[k] = Entry(<<g>>, g, doc.values[g])  BY <2>1 DEF FieldEntries
  <2> HIDE DEF E, g
  <2>3. /\ Entry(<<g>>, g, doc.values[g]).name = <<g>> /\ Entry(<<g>>, g, doc.values[g]).tag = g
        /\ Entry(<<g>>, g, doc.values[g]).words = doc.values[g]
    BY DEF Entry
  <2>4. E[k].name = <<g>> /\ E[k].tag = g /\ E[k].words = doc.values[g]  BY <2>1, <2>2, <2>3
  <2> QED BY <2>4 DEF IsField, g
<1>2. ASSUME NEW k \in 1..5, doc.type = "aadhaar" PROVE IsAddress(doc, E[f + k], k)
  <2>1. E[f + k] = AddressEntries(doc)[k] /\ k \in DOMAIN AddressParts  BY <1>2, ColumnsAre DEF Listed
  <2> HIDE DEF E
  <2> QED BY <2>1 DEF IsAddress, AddressEntries, Entry
<1>3. ASSUME NEW k \in 1..4 * Len(doc.txns), doc.type = "bank_statement" PROVE IsTxn(doc, E[f + k], k)
  <2>1. E[f + k] = TxnEntries(doc)[k]  BY <1>3 DEF Listed
  <2>2. TxnEntries(doc)[k] = Entry(<<Column(k), TxnRow(k)>>, TxnTag[Column(k)], doc.txns[TxnRow(k)][Column(k)])
    BY DEF TxnEntries, Column, TxnRow
  <2> HIDE DEF E
  <2> QED BY <2>1, <2>2 DEF IsTxn, Entry
<1> QED BY <1>1, <1>2, <1>3

\* The entry at place k is one of the three.
LEMMA Sorted ==
  ASSUME NEW doc, DocOk(doc), NEW f \in Nat, NEW n \in Nat, Listed(doc, f, n), NEW k \in 1..n
  PROVE  LET e == GtLookup(doc)[k]
         IN  \/ k <= f /\ IsField(doc, e, k)
             \/ doc.type = "aadhaar" /\ k - f \in 1..5 /\ IsAddress(doc, e, k - f)
             \/ doc.type = "bank_statement" /\ k - f \in 1..4 * Len(doc.txns) /\ IsTxn(doc, e, k - f)
<1>1. CASE k <= f  BY <1>1, EntryIs
<1>2. CASE ~(k <= f) /\ doc.type = "aadhaar"
  <2>1. k - f \in 1..5 /\ f + (k - f) = k  BY <1>2 DEF Listed
  <2>2. \A j \in 1..5 : IsAddress(doc, GtLookup(doc)[f + j], j)  BY <1>2, EntryIs
  <2> QED BY <1>2, <2>1, <2>2
<1>3. CASE ~(k <= f) /\ doc.type = "bank_statement"
  <2> DEFINE m == 4 * Len(doc.txns)
  <2>1. n = f + m  BY <1>3 DEF Listed
  <2>2. \A j \in 1..m : IsTxn(doc, GtLookup(doc)[f + j], j)  BY <1>3, EntryIs
  <2>3. m \in Nat  BY LenProperties DEF DocOk
  <2> HIDE DEF m
  <2>4. k - f \in 1..m /\ f + (k - f) = k  BY <1>3, <2>1, <2>3
  <2> QED BY <1>3, <2>2, <2>4 DEF m
<1>4. CASE ~(k <= f) /\ doc.type \notin {"aadhaar", "bank_statement"}
  BY <1>4 DEF Listed
<1> QED BY <1>1, <1>2, <1>3, <1>4

\* Tuples that are equal are equal place by place.
LEMMA OneWord == \A x, y : <<x>> = <<y>> => x = y
OBVIOUS

LEMMA TwoWords == \A x, y, u, v : <<x, y>> = <<u, v>> => x = u /\ y = v
OBVIOUS

\* No two entries of a lookup have the same name.
LEMMA DistinctNames ==
  ASSUME NEW doc, DocOk(doc), NEW f \in Nat, NEW n \in Nat, Listed(doc, f, n),
         NEW j \in 1..n, NEW k \in 1..n, GtLookup(doc)[j].name = GtLookup(doc)[k].name
  PROVE  j = k
<1> DEFINE E == GtLookup(doc)
           s == Schema[doc.type]
           F(i) == i <= f /\ IsField(doc, E[i], i)
           A(i) == doc.type = "aadhaar" /\ i - f \in 1..5 /\ IsAddress(doc, E[i], i - f)
           X(i) == doc.type = "bank_statement" /\ i - f \in 1..4 * Len(doc.txns) /\ IsTxn(doc, E[i], i - f)
<1>1. (F(j) \/ A(j) \/ X(j)) /\ (F(k) \/ A(k) \/ X(k))  BY Sorted
<1>2. E[j].name = E[k].name  OBVIOUS
<1>3. Apart2(s) /\ DOMAIN s = 1..f  BY SchemaIs DEF DocOk, Listed
<1>4. Apart2(AddressParts) /\ DOMAIN AddressParts = 1..5  BY ColumnsAre
<1>5. doc.type = "aadhaar" => \A i \in 1..f, l \in 1..5 : s[i] # AddressParts[l]
  BY <1>3, <1>4, SchemaIs DEF DocOk
<1> HIDE DEF s
<1>6. CASE F(j) /\ F(k)
  <2>1. E[j].name = <<s[j]>> /\ E[k].name = <<s[k]>>  BY <1>6 DEF IsField, s
  <2>2. s[j] = s[k]  BY <1>2, <2>1, OneWord
  <2> QED BY <1>3, <1>6, <2>2 DEF Apart2
<1>7. CASE A(j) /\ A(k)
  <2>1. E[j].name = <<AddressParts[j - f]>> /\ E[k].name = <<AddressParts[k - f]>>
    BY <1>7 DEF IsAddress
  <2>2. AddressParts[j - f] = AddressParts[k - f]  BY <1>2, <2>1, OneWord
  <2>3. j - f = k - f  BY <1>4, <1>7, <2>2 DEF Apart2
  <2> QED BY <2>3
<1>8. CASE X(j) /\ X(k)
  <2>1. /\ E[j].name = <<Column(j - f), TxnRow(j - f)>>
        /\ E[k].name = <<Column(k - f), TxnRow(k - f)>>
    BY <1>8 DEF IsTxn
  <2>2. Column(j - f) = Column(k - f) /\ TxnRow(j - f) = TxnRow(k - f)
    <3> DEFINE cj == Column(j - f)
               rj == TxnRow(j - f)
               ck == Column(k - f)
               rk == TxnRow(k - f)
    <3>1. E[j].name = <<cj, rj>> /\ E[k].name = <<ck, rk>>  BY <2>1
    <3> HIDE DEF cj, rj, ck, rk, E
    <3>2. <<cj, rj>> = <<ck, rk>>  BY <1>2, <3>1
    <3>3. cj = ck /\ rj = rk  BY <3>2, TwoWords
    <3> QED BY <3>3 DEF cj, rj, ck, rk
  <2>3. Len(doc.txns) \in Nat  BY LenProperties DEF DocOk
  <2>4. /\ ((j - f - 1) % 4) + 1 \in 1..4 /\ ((k - f - 1) % 4) + 1 \in 1..4
    BY <1>8, <2>3, ColumnIs
  <2>5. ((j - f - 1) % 4) + 1 = ((k - f - 1) % 4) + 1
    BY <2>2, <2>4, ColumnsAre DEF Apart2, Column
  <2>6. (j - f - 1) \div 4 = (k - f - 1) \div 4
    <3>1. (j - f - 1) \div 4 \in Int /\ (k - f - 1) \div 4 \in Int  OBVIOUS
    <3> QED BY <2>2, <3>1 DEF TxnRow
  <2> DEFINE p == j - f - 1
             q == k - f - 1
  <2>7. p \in Int /\ q \in Int /\ p % 4 = q % 4 /\ p \div 4 = q \div 4  BY <2>4, <2>5, <2>6
  <2> HIDE DEF p, q
  <2>8. p = q  BY <2>7
  <2> QED BY <2>8 DEF p, q
<1>9. ASSUME NEW i \in 1..n, NEW l \in 1..n, F(i), A(l) PROVE E[i].name # E[l].name
  <2>1. E[i].name = <<s[i]>> /\ E[l].name = <<AddressParts[l - f]>>
    BY <1>9 DEF IsField, IsAddress, s
  <2>2. s[i] # AddressParts[l - f]  BY <1>5, <1>9
  <2> QED BY <2>1, <2>2
<1>10. ASSUME NEW i \in 1..n, NEW l \in 1..n, F(i), X(l) PROVE E[i].name # E[l].name
  <2>1. E[i].name = <<s[i]>> /\ E[l].name = <<Column(l - f), TxnRow(l - f)>>
    BY <1>10 DEF IsField, IsTxn, s
  <2>2. Len(E[i].name) = 1 /\ Len(E[l].name) = 2  BY <2>1
  <2> QED BY <2>2
<1> QED
  <2>1. ~(A(j) /\ X(k)) /\ ~(X(j) /\ A(k))  OBVIOUS
  <2>2. ~(F(j) /\ A(k)) /\ ~(A(j) /\ F(k))  BY <1>2, <1>9
  <2>3. ~(F(j) /\ X(k)) /\ ~(X(j) /\ F(k))  BY <1>2, <1>10
  <2> HIDE DEF F, A, X
  <2> QED BY <1>1, <1>6, <1>7, <1>8, <2>1, <2>2, <2>3

\* The words of an entry, and its labels.
LEMMA EntryType ==
  ASSUME NEW doc, DocOk(doc), NEW f \in Nat, NEW n \in Nat, Listed(doc, f, n), NEW k \in 1..n
  PROVE  LET e == GtLookup(doc)[k]
         IN  /\ e.words \in Seq(Word)
             /\ <<"B", e.tag>> \in BioLabels(doc.type) /\ <<"I", e.tag>> \in BioLabels(doc.type)
<1> DEFINE e == GtLookup(doc)[k]
           s == Schema[doc.type]
           tags == Range(s) \cup (IF doc.type = "bank_statement" THEN Range(TxnTag) ELSE {})
                     \cup (IF doc.type = "aadhaar" THEN {AddressTag} ELSE {})
<1>1. BioLabels(doc.type) = {<<"O">>} \cup {<<"B", t>> : t \in tags} \cup {<<"I", t>> : t \in tags}
  BY DEF BioLabels
<1>2. DOMAIN s = 1..f  BY DEF Listed
<1> SUFFICES e.words \in Seq(Word) /\ e.tag \in tags
  <2> HIDE DEF tags, e
  <2> QED BY <1>1 DEF e
<1>3. CASE k <= f /\ IsField(doc, e, k)
  <2>1. e.tag = s[k] /\ e.words = doc.values[s[k]] /\ k \in DOMAIN s  BY <1>2, <1>3 DEF IsField
  <2> HIDE DEF e, s
  <2>2. s[k] \in Range(s)  BY <2>1 DEF Range
  <2>3. doc.values[s[k]] \in Seq(Word)  BY <2>2 DEF DocOk, s
  <2> QED BY <2>1, <2>2, <2>3 DEF tags
<1>4. CASE doc.type = "aadhaar" /\ k - f \in 1..5 /\ IsAddress(doc, e, k - f)
  <2> DEFINE p == AddressParts[k - f]
  <2>1. e.tag = AddressTag /\ e.words = doc.address[p]  BY <1>4 DEF IsAddress
  <2>2. p \in Range(AddressParts)  BY <1>4, ColumnsAre DEF Range
  <2> HIDE DEF e, p, s
  <2>3. doc.address[p] \in Seq(Word)  BY <2>2 DEF DocOk
  <2> QED BY <1>4, <2>1, <2>3 DEF tags
<1>5. CASE doc.type = "bank_statement" /\ k - f \in 1..4 * Len(doc.txns) /\ IsTxn(doc, e, k - f)
  <2> DEFINE c == Column(k - f)
             r == TxnRow(k - f)
  <2>1. e.tag = TxnTag[c] /\ e.words = doc.txns[r][c]  BY <1>5 DEF IsTxn
  <2>2. Len(doc.txns) \in Nat  BY LenProperties DEF DocOk
  <2>3. c \in Range(TxnColumns) /\ r \in 1..Len(doc.txns)  BY <1>5, <2>2, ColumnIs
  <2> HIDE DEF e, c, r, s
  <2>4. doc.txns[r] \in [Range(TxnColumns) -> Seq(Word)]  BY <2>3, ElementOfSeq DEF DocOk
  <2>5. doc.txns[r][c] \in Seq(Word)  BY <2>3, <2>4
  <2>6. TxnTag[c] \in Range(TxnTag)  BY <2>3, ColumnsAre DEF Range
  <2> QED BY <1>5, <2>1, <2>5, <2>6 DEF tags
<1> QED BY <1>3, <1>4, <1>5, Sorted

\* A function on a finite set has a finite range.
LEMMA FiniteRange ==
  ASSUME NEW S, IsFiniteSet(S), NEW h, h = [x \in S |-> h[x]]
  PROVE  IsFiniteSet({h[x] : x \in S})
<1> DEFINE T == {h[x] : x \in S}
<1>1. h \in Surjection(S, T)
  <2>1. h \in [S -> T]  OBVIOUS
  <2>2. \A t \in T : \E x \in S : h[x] = t  OBVIOUS
  <2> QED BY <2>1, <2>2 DEF Surjection
<1> HIDE DEF T
<1>2. IsFiniteSet(T)  BY <1>1, FS_Surjection
<1> QED BY <1>2 DEF T

\* Every column of a statement has a value.
UsedColumns(doc) ==
  doc.type = "bank_statement" /\ doc.txns # <<>> =>
    \A c \in Range(TxnColumns) : \E k \in DOMAIN doc.txns : doc.txns[k][c] # <<>>

\* What the gate looks for: fields, the address, columns.
Parts3(doc) ==
  <<{<<f, f>> : f \in {g \in Range(Schema[doc.type]) : doc.values[g] # <<>>}},
    IF doc.type = "aadhaar" /\ \E p \in {"door", "street", "city"} : doc.address[p] # <<>>
      THEN {<<"address", AddressTag>>} ELSE {},
    IF doc.type = "bank_statement" /\ doc.txns # <<>>
      THEN {<<c, TxnTag[c]>> : c \in Range(TxnColumns)} ELSE {}>>

\* Expected in its three parts; it is finite.
LEMMA ExpectedIs ==
  ASSUME NEW doc PROVE Expected(doc) = Parts3(doc)[1] \cup Parts3(doc)[2] \cup Parts3(doc)[3]
BY DEF Expected, Parts3

LEMMA ExpectedIsFinite ==
  ASSUME NEW doc, DocOk(doc), NEW f \in Nat, NEW n \in Nat, Listed(doc, f, n)
  PROVE  IsFiniteSet(Expected(doc))
<1> DEFINE s == Schema[doc.type]
           h == [i \in 1..f |-> <<s[i], s[i]>>]
           t == [i \in 1..4 |-> <<TxnColumns[i], TxnTag[TxnColumns[i]]>>]
<1>1. DOMAIN s = 1..f  BY DEF Listed
<1>2. IsFiniteSet(1..f) /\ IsFiniteSet(1..4)
  <2>1. \A a \in Int, b \in Int : IsFiniteSet(a..b)  BY FS_Interval
  <2>2. f \in Int /\ 1 \in Int /\ 4 \in Int  OBVIOUS
  <2> QED BY <2>1, <2>2
<1>3. IsFiniteSet({h[i] : i \in 1..f}) /\ IsFiniteSet({t[i] : i \in 1..4})
  <2>1. h = [i \in 1..f |-> h[i]] /\ t = [i \in 1..4 |-> t[i]]  OBVIOUS
  <2> HIDE DEF h, t
  <2>2. IsFiniteSet({h[i] : i \in 1..f})  BY <1>2, <2>1, FiniteRange, Zenon
  <2>3. IsFiniteSet({t[i] : i \in 1..4})  BY <1>2, <2>1, FiniteRange, Zenon
  <2> QED BY <2>2, <2>3
<1>4. Parts3(doc)[1] \subseteq {h[i] : i \in 1..f}
  <2> HIDE DEF s
  <2> SUFFICES ASSUME NEW g \in Range(s) PROVE \E i \in 1..f : <<g, g>> = h[i]
    BY DEF Parts3, s
  <2>1. PICK i \in 1..f : g = s[i]  BY <1>1 DEF Range
  <2> QED BY <2>1
<1>5. Parts3(doc)[2] \subseteq {<<"address", AddressTag>>}  BY DEF Parts3
<1>6. Parts3(doc)[3] \subseteq {t[i] : i \in 1..4}
  <2> SUFFICES ASSUME NEW c \in Range(TxnColumns) PROVE \E i \in 1..4 : <<c, TxnTag[c]>> = t[i]
    BY DEF Parts3
  <2>1. PICK i \in 1..4 : c = TxnColumns[i]  BY ColumnsAre DEF Range
  <2> QED BY <2>1
<1> HIDE DEF h, t
<1>7. IsFiniteSet(Parts3(doc)[1]) /\ IsFiniteSet(Parts3(doc)[3])  BY <1>3, <1>4, <1>6, FS_Subset
<1>8. IsFiniteSet(Parts3(doc)[2])
  <2>1. IsFiniteSet({<<"address", AddressTag>>})  BY FS_Singleton
  <2> QED BY <1>5, <2>1, FS_Subset
<1>9. \A A, B : IsFiniteSet(A) /\ IsFiniteSet(B) => IsFiniteSet(A \cup B)
  BY FS_Union
<1> QED BY <1>7, <1>8, <1>9, ExpectedIs

\* What the gate looks for is the tag of a value of the lookup.
LEMMA ExpectedHaveEntries ==
  ASSUME NEW doc, DocOk(doc), NEW f \in Nat, NEW n \in Nat, Listed(doc, f, n), UsedColumns(doc),
         NEW x \in Expected(doc)
  PROVE  \E k \in 1..n : GtLookup(doc)[k].words # <<>> /\ GtLookup(doc)[k].tag = x[2]
<1> DEFINE E == GtLookup(doc)
           s == Schema[doc.type]
<1>0. f <= n  BY DEF Listed
<1>1. CASE x \in Parts3(doc)[1]
  <2>1. DOMAIN s = 1..f  BY DEF Listed
  <2>2. PICK g \in Range(s) : doc.values[g] # <<>> /\ x = <<g, g>>  BY <1>1 DEF Parts3
  <2>3. PICK i \in 1..f : g = s[i]  BY <2>1, <2>2 DEF Range
  <2>4. IsField(doc, E[i], i)  BY EntryIs
  <2> HIDE DEF E
  <2>5. E[i].words = doc.values[g] /\ E[i].tag = g  BY <2>3, <2>4 DEF IsField
  <2>6. i \in 1..n /\ x[2] = g  BY <1>0, <2>2
  <2> QED BY <2>2, <2>5, <2>6 DEF E
<1>2. CASE x \in Parts3(doc)[2]
  <2>1. doc.type = "aadhaar" /\ x[2] = AddressTag  BY <1>2 DEF Parts3
  <2>2. PICK p \in {"door", "street", "city"} : doc.address[p] # <<>>  BY <1>2 DEF Parts3
  <2>3. \E i \in 1..5 : AddressParts[i] = p
    <3>1. AddressParts[1] = "door" /\ AddressParts[2] = "street" /\ AddressParts[4] = "city"
      BY DEF AddressParts
    <3> QED BY <2>2, <3>1
  <2>4. PICK i \in 1..5 : AddressParts[i] = p  BY <2>3
  <2>5. IsAddress(doc, E[f + i], i) /\ n = f + 5  BY <2>1, EntryIs DEF Listed
  <2> HIDE DEF E
  <2>6. E[f + i].words = doc.address[p] /\ E[f + i].tag = AddressTag  BY <2>4, <2>5 DEF IsAddress
  <2>7. f + i \in 1..n  BY <2>5
  <2> QED BY <2>1, <2>2, <2>6, <2>7 DEF E
<1>3. CASE x \in Parts3(doc)[3]
  <2>1. doc.type = "bank_statement" /\ doc.txns # <<>>  BY <1>3 DEF Parts3
  <2>2. PICK c \in Range(TxnColumns) : x = <<c, TxnTag[c]>>  BY <1>3, <2>1 DEF Parts3
  <2>3. PICK r \in DOMAIN doc.txns : doc.txns[r][c] # <<>>  BY <2>1 DEF UsedColumns
  <2>4. Len(doc.txns) \in Nat /\ r \in 1..Len(doc.txns)  BY LenProperties DEF DocOk
  <2>5. PICK i \in 1..4 * Len(doc.txns) : Column(i) = c /\ TxnRow(i) = r  BY <2>4, ColumnOf
  <2>6. IsTxn(doc, E[f + i], i) /\ n = f + 4 * Len(doc.txns)  BY <2>1, EntryIs DEF Listed
  <2> HIDE DEF E
  <2>7. E[f + i].words = doc.txns[r][c] /\ E[f + i].tag = TxnTag[c]  BY <2>5, <2>6 DEF IsTxn
  <2>8. f + i \in 1..n  BY <2>4, <2>6
  <2>9. x[2] = TxnTag[c]  BY <2>2
  <2> QED BY <2>3, <2>7, <2>8, <2>9 DEF E
<1> QED BY <1>1, <1>2, <1>3, ExpectedIs

-----------------------------------------------------------------------------
(* Annotations: the words of a page                                        *)

\* What InputAssumption says of a page.
PageOk(page) == page \in Seq([words : Seq(Word), sure : BOOLEAN])

\* The tokens of a page are words.
LEMMA TokensAre ==
  ASSUME NEW page, PageOk(page)
  PROVE  Tokens(page) \in Seq(Word)
<1> DEFINE n == Len(page)
           W(i) == IF page[i].sure THEN page[i].words ELSE <<>>
           S == Seq(Word)
           g == [x \in (1..n) \X S |-> x[2] \o W(x[1])]
           Eq(f) == f = [i \in 0..n |-> IF i = 0 THEN <<>> ELSE f[i - 1] \o W(i)]
           tokens == CHOOSE f : Eq(f)
<1>1. n \in Nat  BY LenProperties DEF PageOk
<1>2. \A i \in 1..n : W(i) \in S
  <2> SUFFICES ASSUME NEW i \in 1..n PROVE W(i) \in S  OBVIOUS
  <2>1. page[i] \in [words : Seq(Word), sure : BOOLEAN]  BY ElementOfSeq DEF PageOk
  <2>2. page[i].words \in S  BY <2>1
  <2>3. <<>> \in S  OBVIOUS
  <2> HIDE DEF S
  <2> QED BY <2>2, <2>3
<1>3. Tokens(page) = tokens[n]  BY DEF Tokens
<1> HIDE DEF n, W
<1>4. g \in [(1..n) \X S -> S]
  <2>1. ASSUME NEW x \in (1..n) \X S PROVE x[2] \o W(x[1]) \in S
    <3>1. x[1] \in 1..n /\ x[2] \in S  OBVIOUS
    <3>2. W(x[1]) \in S  BY <1>2, <3>1
    <3>3. \A u \in Seq(Word), v \in Seq(Word) : u \o v \in Seq(Word)  BY ConcatProperties
    <3> QED BY <3>1, <3>2, <3>3
  <2> HIDE DEF S
  <2> QED BY <2>1
<1>5. <<>> \in S  OBVIOUS
<1> HIDE DEF S
<1>6. PICK f \in [0..n -> S] : f[0] = <<>> /\ \A i \in 1..n : f[i] = g[<<i, f[i - 1]>>]
  <2> HIDE DEF g
  <2>1. \A c \in S : \E f \in [0..n -> S] : Follows(f, n, c, g)
    BY <1>1, <1>4, Recursion, Zenon
  <2> QED BY <2>1, <1>5 DEF Follows
<1>7. \A i \in 1..n : f[i] = f[i - 1] \o W(i)
  <2> SUFFICES ASSUME NEW i \in 1..n PROVE f[i] = f[i - 1] \o W(i)  OBVIOUS
  <2>1. <<i, f[i - 1]>> \in (1..n) \X S  BY <1>1
  <2> QED BY <2>1, <1>6
<1>8. Eq(f)  BY <1>1, <1>6, <1>7
<1>9. Eq(tokens)
  <2> HIDE DEF Eq
  <2> QED BY <1>8
<1> HIDE DEF tokens
<1>10. tokens[0] = <<>> /\ \A i \in 1..n : tokens[i] = tokens[i - 1] \o W(i)
  <2>1. 0 \in 0..n  BY <1>1
  <2>2. tokens[0] = <<>>  BY <1>9, <2>1
  <2>3. ASSUME NEW i \in 1..n PROVE tokens[i] = tokens[i - 1] \o W(i)
    <3>1. i \in 0..n /\ i # 0  BY <1>1
    <3> QED BY <1>9, <3>1
  <2> QED BY <2>2, <2>3
<1> DEFINE T == {i \in 0..n : tokens[i] \in S}
<1>11. 0 \in T  BY <1>1, <1>5, <1>10
<1>12. \A i \in 0..n : i < n /\ i \in T => i + 1 \in T
  <2> SUFFICES ASSUME NEW i \in 0..n, i < n, i \in T PROVE i + 1 \in T  OBVIOUS
  <2>1. i + 1 \in 1..n /\ (i + 1) - 1 = i  BY <1>1
  <2>2. tokens[i + 1] = tokens[i] \o W(i + 1) /\ W(i + 1) \in S  BY <2>1, <1>2, <1>10
  <2>3. \A u \in Seq(Word), v \in Seq(Word) : u \o v \in Seq(Word)  BY ConcatProperties
  <2>4. tokens[i + 1] \in S  BY <2>2, <2>3 DEF S
  <2> QED BY <2>1, <2>4
<1> HIDE DEF T
<1>13. \A i \in 0..n : i \in T  BY <1>1, <1>11, <1>12, InductionUpTo
<1> QED BY <1>1, <1>3, <1>13 DEF T, S

-----------------------------------------------------------------------------
(* Annotations: where the values are found                                 *)

\* Words of entries, tokens of a page.
Matter(E, n, T, m) ==
  /\ n \in Nat /\ m \in Nat /\ T \in Seq(Word) /\ Len(T) = m
  /\ \A k \in 1..n : E[k].words \in Seq(Word)

\* A value has a first word.
LEMMA NotEmpty ==
  ASSUME NEW s \in Seq(Word), s # <<>>
  PROVE  Len(s) \in Nat \ {0}
BY EmptySeq, LenProperties

\* A value is read at places of the page that have room for it.
LEMMA MatchIs ==
  ASSUME NEW E, NEW n, NEW T, NEW m, Matter(E, n, T, m), NEW k \in 1..n, NEW i \in ReadAt(T, E[k])
  PROVE  /\ i \in 1..m /\ E[k].words # <<>> /\ Len(E[k].words) \in Nat \ {0}
         /\ i + Len(E[k].words) - 1 \in i..m
<1>1. i \in DOMAIN T /\ E[k].words # <<>> /\ i + Len(E[k].words) - 1 <= Len(T)  BY DEF ReadAt
<1>2. DOMAIN T = 1..m /\ m \in Nat /\ Len(T) = m  BY LenProperties DEF Matter
<1>3. Len(E[k].words) \in Nat \ {0}  BY <1>1, NotEmpty DEF Matter
<1> QED BY <1>1, <1>2, <1>3

\* Where each entry was found, 0 if it was not: at explains the labels and the
\* names matched.
End(at, E, j) == at[j] + Len(E[j].words) - 1
LabelAt(at, E, j, i) == <<IF i = at[j] THEN "B" ELSE "I", E[j].tag>>

Placed(at, done, E, n, T, m) ==
  /\ at \in [1..n -> 0..m]
  /\ DOMAIN done.labels = 1..m
  /\ \A j \in 1..n : at[j] # 0 => at[j] \in ReadAt(T, E[j])
  /\ \A j \in 1..n, k \in 1..n : at[j] # 0 /\ at[j] = at[k] => j = k
  /\ \A j \in 1..n : at[j] # 0 => \A i \in at[j]..End(at, E, j) : done.labels[i] # Outside
  /\ \A i \in 1..m : done.labels[i] # Outside =>
       \E j \in 1..n : at[j] # 0 /\ i \in at[j]..End(at, E, j) /\ done.labels[i] = LabelAt(at, E, j, i)
  /\ done.matched = {E[j].name : j \in {k \in 1..n : at[k] # 0}}

\* No label of a value is the one of a word outside.
LEMMA LabelsDiffer == \A x, y : <<x, y>> # Outside
<1> SUFFICES ASSUME NEW x, NEW y PROVE <<x, y>> # Outside  OBVIOUS
<1>1. Len(<<x, y>>) = 2 /\ Len(Outside) = 1  BY DEF Outside
<1> QED BY <1>1

\* The first of the places is one of them.
LEMMA FirstPlace ==
  ASSUME NEW S \in SUBSET Nat, S # {}
  PROVE  (CHOOSE k \in S : \A j \in S : k <= j) \in S
<1>1. \E x \in S : \A y \in S : x <= y  BY Least
<1> QED BY <1>1

\* Labelling one more value, even over the labels of others, explains its own and
\* takes the label from no word.
LEMMA OneMore ==
  ASSUME NEW E, NEW n, NEW T, NEW m, Matter(E, n, T, m), NEW k \in 1..n,
         NEW at, NEW done, Placed(at, done, E, n, T, m), at[k] = 0,
         NEW i \in Places(T, done.labels, E[k]),
         NEW new, new = [labels |-> Labelled(done.labels, i, E[k]), matched |-> done.matched \cup {E[k].name}]
  PROVE  /\ Placed([at EXCEPT ![k] = i], new, E, n, T, m)
         /\ \A x \in 1..m : done.labels[x] # Outside => new.labels[x] # Outside
<1> DEFINE bt == [at EXCEPT ![k] = i]
           l == done.labels
           l1 == new.labels
           e == i + Len(E[k].words) - 1
<1>1. i \in ReadAt(T, E[k]) /\ l[i] = Outside  BY DEF Places
<1>2. i \in 1..m /\ Len(E[k].words) \in Nat \ {0} /\ e \in i..m  BY <1>1, MatchIs
<1>3. n \in Nat /\ m \in Nat  BY DEF Matter
<1>4. /\ at \in [1..n -> 0..m] /\ DOMAIN l = 1..m
      /\ \A j \in 1..n : at[j] # 0 => at[j] \in ReadAt(T, E[j])
      /\ \A j \in 1..n, h \in 1..n : at[j] # 0 /\ at[j] = at[h] => j = h
      /\ \A j \in 1..n : at[j] # 0 => \A x \in at[j]..End(at, E, j) : l[x] # Outside
      /\ \A x \in 1..m : l[x] # Outside =>
           \E j \in 1..n : at[j] # 0 /\ x \in at[j]..End(at, E, j) /\ l[x] = LabelAt(at, E, j, x)
      /\ done.matched = {E[j].name : j \in {h \in 1..n : at[h] # 0}}
  BY DEF Placed
<1>5. l1 = [x \in 1..m |-> IF x = i THEN <<"B", E[k].tag>>
                           ELSE IF x \in i..e THEN <<"I", E[k].tag>> ELSE l[x]]
  BY <1>4 DEF Labelled
<1>6. new.matched = done.matched \cup {E[k].name}  OBVIOUS
<1>7. bt \in [1..n -> 0..m] /\ bt[k] = i /\ \A j \in 1..n : j # k => bt[j] = at[j]  BY <1>2, <1>4
<1> HIDE DEF bt, l, l1, e
<1>8. \A x \in i..e : x \in 1..m /\ l1[x] = <<IF x = i THEN "B" ELSE "I", E[k].tag>>
  <2> SUFFICES ASSUME NEW x \in i..e PROVE x \in 1..m /\ l1[x] = <<IF x = i THEN "B" ELSE "I", E[k].tag>>
    OBVIOUS
  <2>1. x \in 1..m  BY <1>2, <1>3
  <2> QED BY <1>5, <2>1
<1>9. \A x \in 1..m : x \notin i..e => l1[x] = l[x]
  <2>1. i \in i..e  BY <1>2
  <2> QED BY <1>5, <2>1
<1>10. \A x \in 1..m : l[x] # Outside => l1[x] # Outside
  <2> SUFFICES ASSUME NEW x \in 1..m, l[x] # Outside PROVE l1[x] # Outside  OBVIOUS
  <2>1. CASE x \in i..e  BY <1>8, <2>1, LabelsDiffer
  <2>2. CASE x \notin i..e  BY <1>9, <2>2
  <2> QED BY <2>1, <2>2
<1>11. \A j \in 1..n : j # k => End(bt, E, j) = End(at, E, j)  BY <1>7 DEF End
<1>12. End(bt, E, k) = e  BY <1>7 DEF End, e
<1>13. \A j \in 1..n : bt[j] # 0 => bt[j] \in ReadAt(T, E[j])  BY <1>1, <1>4, <1>7
\* The place had no label, so no value was there.
<1>14. ASSUME NEW j \in 1..n, at[j] # 0 PROVE at[j] # i
  <2>1. at[j] \in at[j]..End(at, E, j)
    <3>1. at[j] \in ReadAt(T, E[j])  BY <1>4, <1>14
    <3>2. at[j] \in 1..m /\ Len(E[j].words) \in Nat \ {0}  BY <3>1, MatchIs
    <3> QED BY <3>2 DEF End
  <2>2. l[at[j]] # Outside  BY <1>4, <1>14, <2>1
  <2> QED BY <1>1, <2>2 DEF l
<1>15. ASSUME NEW j \in 1..n, NEW h \in 1..n, bt[j] # 0, bt[j] = bt[h] PROVE j = h
  <2>1. CASE j = k /\ h # k
    <3>1. at[h] = i /\ at[h] # 0  BY <1>7, <1>15, <2>1
    <3> QED BY <1>14, <3>1
  <2>2. CASE j # k /\ h = k
    <3>1. at[j] = i /\ at[j] # 0  BY <1>7, <1>15, <2>2
    <3> QED BY <1>14, <3>1
  <2>3. CASE j # k /\ h # k
    <3>1. at[j] # 0 /\ at[j] = at[h]  BY <1>7, <1>15, <2>3
    <3> QED BY <1>4, <3>1
  <2> QED BY <2>1, <2>2, <2>3
<1>16. ASSUME NEW j \in 1..n, bt[j] # 0, NEW x \in bt[j]..End(bt, E, j) PROVE l1[x] # Outside
  <2>1. CASE j = k  BY <1>7, <1>8, <1>12, <1>16, <2>1, LabelsDiffer
  <2>2. CASE j # k
    <3>1. at[j] # 0 /\ x \in at[j]..End(at, E, j)  BY <1>7, <1>11, <1>16, <2>2
    <3>2. at[j] \in ReadAt(T, E[j]) /\ l[x] # Outside  BY <1>4, <3>1
    <3>3. at[j] \in 1..m /\ End(at, E, j) \in at[j]..m  BY <3>2, MatchIs DEF End
    <3>4. x \in 1..m  BY <1>3, <3>1, <3>3
    <3> QED BY <1>10, <3>2, <3>4
  <2> QED BY <2>1, <2>2
<1>17. ASSUME NEW x \in 1..m, l1[x] # Outside
       PROVE  \E j \in 1..n : bt[j] # 0 /\ x \in bt[j]..End(bt, E, j) /\ l1[x] = LabelAt(bt, E, j, x)
  <2>1. CASE x \in i..e
    <3>1. bt[k] # 0 /\ x \in bt[k]..End(bt, E, k)  BY <1>2, <1>7, <1>12, <2>1
    <3>2. l1[x] = LabelAt(bt, E, k, x)  BY <1>7, <1>8, <2>1 DEF LabelAt
    <3> QED BY <3>1, <3>2
  <2>2. CASE x \notin i..e
    <3>1. l1[x] = l[x] /\ l[x] # Outside  BY <1>9, <1>17, <2>2
    <3>2. PICK j \in 1..n : at[j] # 0 /\ x \in at[j]..End(at, E, j) /\ l[x] = LabelAt(at, E, j, x)
      BY <1>4, <3>1
    <3>3. j # k  BY <3>2
    <3>4. bt[j] # 0 /\ x \in bt[j]..End(bt, E, j)  BY <1>7, <1>11, <3>2, <3>3
    <3>5. l1[x] = LabelAt(bt, E, j, x)  BY <1>7, <3>1, <3>2, <3>3 DEF LabelAt
    <3> QED BY <3>4, <3>5
  <2> QED BY <2>1, <2>2
<1>18. new.matched = {E[j].name : j \in {h \in 1..n : bt[h] # 0}}
  <2>1. \A j \in 1..n : bt[j] # 0 <=> at[j] # 0 \/ j = k  BY <1>2, <1>7
  <2> QED BY <1>4, <1>6, <2>1
<1>19. DOMAIN l1 = 1..m  BY <1>5
<1>20. Placed(bt, new, E, n, T, m)
  BY <1>7, <1>13, <1>15, <1>16, <1>17, <1>18, <1>19 DEF Placed, l1
<1> QED BY <1>10, <1>20 DEF bt, l, l1

-----------------------------------------------------------------------------
(* Annotations: the labels                                                 *)

\* What there is while a page of m tokens is labelled with labels among L.
Annotated(L, N, m) == [labels : [1..m -> L], matched : SUBSET N]

\* A value that has a place gets one of its places, and nothing else changes.
LEMMA AddIs ==
  ASSUME NEW E, NEW n, NEW T, NEW m, Matter(E, n, T, m), NEW k \in 1..n, NEW done
  PROVE  \/ /\ Places(T, done.labels, E[k]) = {}
            /\ Add(T, done, E[k]) = done
         \/ \E i \in Places(T, done.labels, E[k]) :
               Add(T, done, E[k]) = [labels |-> Labelled(done.labels, i, E[k]),
                                     matched |-> done.matched \cup {E[k].name}]
<1> DEFINE S == Places(T, done.labels, E[k])
           i == CHOOSE x \in S : \A y \in S : x <= y
<1>1. CASE S = {}  BY <1>1 DEF Add
<1>2. CASE S # {}
  <2>1. S \in SUBSET Nat
    <3>1. DOMAIN T = 1..m /\ m \in Nat  BY LenProperties DEF Matter
    <3>2. S \subseteq DOMAIN T  BY DEF Places, ReadAt
    <3> HIDE DEF S
    <3> QED BY <3>1, <3>2
  <2>2. Add(T, done, E[k]) = [labels |-> Labelled(done.labels, i, E[k]),
                              matched |-> done.matched \cup {E[k].name}]
    BY <1>2 DEF Add
  <2>3. i \in S
    <3> HIDE DEF S
    <3> QED BY <1>2, <2>1, FirstPlace
  <2> HIDE DEF S, i
  <2> QED BY <2>2, <2>3 DEF S
<1> QED BY <1>1, <1>2

\* Add keeps the labels among those that have an id.
LEMMA AddType ==
  ASSUME NEW E, NEW n, NEW T, NEW m, Matter(E, n, T, m), NEW k \in 1..n,
         NEW L, <<"B", E[k].tag>> \in L, <<"I", E[k].tag>> \in L, NEW N, E[k].name \in N,
         NEW done \in Annotated(L, N, m)
  PROVE  Add(T, done, E[k]) \in Annotated(L, N, m)
<1>1. CASE Add(T, done, E[k]) = done  BY <1>1
<1>2. ASSUME NEW i, Add(T, done, E[k]) = [labels |-> Labelled(done.labels, i, E[k]),
                                          matched |-> done.matched \cup {E[k].name}]
      PROVE  Add(T, done, E[k]) \in Annotated(L, N, m)
  <2> DEFINE l == Labelled(done.labels, i, E[k])
             d == done.matched \cup {E[k].name}
             b == <<"B", E[k].tag>>
             c == <<"I", E[k].tag>>
             e == i + Len(E[k].words) - 1
  <2>1. done.labels \in [1..m -> L] /\ done.matched \in SUBSET N  BY DEF Annotated
  <2>2. l = [x \in 1..m |-> IF x = i THEN b ELSE IF x \in i..e THEN c ELSE done.labels[x]]
    BY <2>1 DEF Labelled
  <2>3. b \in L /\ c \in L  OBVIOUS
  <2>4. d \in SUBSET N  BY <2>1
  <2>5. Add(T, done, E[k]) = [labels |-> l, matched |-> d]  BY <1>2
  <2> HIDE DEF l, b, c, e, d
  <2>6. l \in [1..m -> L]  BY <2>1, <2>2, <2>3
  <2> QED BY <2>4, <2>5, <2>6 DEF Annotated
<1>3. \/ Add(T, done, E[k]) = done
      \/ \E i : Add(T, done, E[k]) = [labels |-> Labelled(done.labels, i, E[k]),
                                      matched |-> done.matched \cup {E[k].name}]
  <2>1. \/ Add(T, done, E[k]) = done
        \/ \E i \in Places(T, done.labels, E[k]) :
              Add(T, done, E[k]) = [labels |-> Labelled(done.labels, i, E[k]),
                                    matched |-> done.matched \cup {E[k].name}]
    BY AddIs
  <2> QED BY <2>1
<1> QED BY <1>1, <1>2, <1>3

\* The labelling of a page, entry by entry.
LEMMA AnnotationIs ==
  ASSUME NEW doc, DocOk(doc), NEW f \in Nat, NEW n \in Nat, Listed(doc, f, n), NEW page, PageOk(page),
         Matter(GtLookup(doc), n, Tokens(page), Len(Tokens(page)))
  PROVE  \E done :
           /\ AnnotateDocument(doc, page) = done[n]
           /\ done[0] = [labels |-> [i \in 1..Len(Tokens(page)) |-> Outside], matched |-> {}]
           /\ \A k \in 1..n : done[k] = Add(Tokens(page), done[k - 1], GtLookup(doc)[k])
           /\ \A i \in 1..Len(Tokens(page)) : AnnotateDocument(doc, page).labels[i] \in BioLabels(doc.type)
<1> DEFINE E == GtLookup(doc)
           T == Tokens(page)
           m == Len(T)
           L == BioLabels(doc.type)
           N == {E[k].name : k \in 1..n}
           S == Annotated(L, N, m)
           start == [labels |-> [i \in 1..m |-> Outside], matched |-> {}]
           g == [x \in (1..n) \X S |-> Add(T, x[2], E[x[1]])]
           Eq(h) == h = [k \in 0..n |-> IF k = 0 THEN start ELSE Add(T, h[k - 1], E[k])]
           done == CHOOSE h : Eq(h)
<1>1. Len(E) = n  BY DEF Listed
<1>2. DOMAIN T = 1..m  BY LenProperties DEF Matter
<1>3. AnnotateDocument(doc, page) = done[n]  BY <1>1, <1>2 DEF AnnotateDocument
<1>4. \A k \in 1..n : <<"B", E[k].tag>> \in L /\ <<"I", E[k].tag>> \in L  BY EntryType
<1>5. \A k \in 1..n : E[k].name \in N  OBVIOUS
<1>6. Outside \in L  BY DEF BioLabels, Outside
<1>7. start \in S
  <2>1. [i \in 1..m |-> Outside] \in [1..m -> L]  BY <1>6
  <2>2. {} \in SUBSET N  OBVIOUS
  <2> HIDE DEF L, N, m
  <2> QED BY <2>1, <2>2 DEF Annotated
<1>8. Matter(E, n, T, m)  OBVIOUS
<1> HIDE DEF E, T, m, L, N
<1>9. \A k \in 1..n, d \in S : Add(T, d, E[k]) \in S  BY <1>4, <1>5, <1>8, AddType
<1> HIDE DEF S, start
<1>10. g \in [(1..n) \X S -> S]
  <2>1. \A x \in (1..n) \X S : Add(T, x[2], E[x[1]]) \in S  BY <1>9
  <2> QED BY <2>1
<1>11. PICK h \in [0..n -> S] : h[0] = start /\ \A k \in 1..n : h[k] = g[<<k, h[k - 1]>>]
  <2> HIDE DEF g
  <2>1. \A c \in S : \E h \in [0..n -> S] : Follows(h, n, c, g)
    BY <1>10, Recursion, Zenon
  <2> QED BY <2>1, <1>7 DEF Follows
<1>12. \A k \in 1..n : h[k] = Add(T, h[k - 1], E[k])
  <2> SUFFICES ASSUME NEW k \in 1..n PROVE h[k] = Add(T, h[k - 1], E[k])  OBVIOUS
  <2>1. <<k, h[k - 1]>> \in (1..n) \X S  OBVIOUS
  <2> QED BY <2>1, <1>11
<1>13. Eq(h)  BY <1>11, <1>12
<1>14. Eq(done)
  <2> HIDE DEF Eq
  <2> QED BY <1>13
<1> HIDE DEF done
<1>15. done[0] = start /\ \A k \in 1..n : done[k] = Add(T, done[k - 1], E[k])
  <2>1. 0 \in 0..n  OBVIOUS
  <2>2. done[0] = start  BY <1>14, <2>1
  <2>3. ASSUME NEW k \in 1..n PROVE done[k] = Add(T, done[k - 1], E[k])
    <3>1. k \in 0..n /\ k # 0  OBVIOUS
    <3> QED BY <1>14, <3>1
  <2> QED BY <2>2, <2>3
<1> DEFINE K == {k \in 0..n : done[k] \in S}
<1>16. 0 \in K  BY <1>7, <1>15
<1>17. \A k \in 0..n : k < n /\ k \in K => k + 1 \in K
  <2> SUFFICES ASSUME NEW k \in 0..n, k < n, k \in K PROVE k + 1 \in K  OBVIOUS
  <2>1. k + 1 \in 1..n /\ (k + 1) - 1 = k  OBVIOUS
  <2>2. done[k + 1] = Add(T, done[k], E[k + 1])  BY <2>1, <1>15
  <2>3. done[k + 1] \in S  BY <1>9, <2>1, <2>2
  <2> QED BY <2>1, <2>3
<1> HIDE DEF K
<1>18. \A k \in 0..n : k \in K  BY <1>16, <1>17, InductionUpTo
<1>19. done[n] \in S  BY <1>18 DEF K
<1>20. \A i \in 1..m : done[n].labels[i] \in L  BY <1>19 DEF S, Annotated
<1> QED BY <1>3, <1>15, <1>20 DEF E, T, m, L, start

\* The first k entries are where at says; those of them that have no place can be
\* read at none that is free.
Reached(at, done, E, n, T, m, k) ==
  /\ Placed(at, done, E, n, T, m)
  /\ \A j \in 1..n : k < j => at[j] = 0
  /\ \A j \in 1..n : j <= k /\ at[j] = 0 => \A i \in ReadAt(T, E[j]) : done.labels[i] # Outside

\* Before the first entry nothing has a place.
LEMMA NothingPlaced ==
  ASSUME NEW E, NEW n, NEW T, NEW m, Matter(E, n, T, m)
  PROVE  Reached([j \in 1..n |-> 0], [labels |-> [i \in 1..m |-> Outside], matched |-> {}], E, n, T, m, 0)
<1> DEFINE at == [j \in 1..n |-> 0]
           start == [labels |-> [i \in 1..m |-> Outside], matched |-> {}]
<1>1. \A j \in 1..n : at[j] = 0  OBVIOUS
<1>2. at \in [1..n -> 0..m]  BY DEF Matter
<1>3. DOMAIN start.labels = 1..m /\ \A i \in 1..m : start.labels[i] = Outside  OBVIOUS
<1>4. start.matched = {E[j].name : j \in {h \in 1..n : at[h] # 0}}  BY <1>1
<1>5. \A j \in 1..n : ~(j <= 0)  OBVIOUS
<1> HIDE DEF at, start
<1>6. Placed(at, start, E, n, T, m)  BY <1>1, <1>2, <1>3, <1>4 DEF Placed
<1>7. Reached(at, start, E, n, T, m, 0)  BY <1>1, <1>5, <1>6 DEF Reached
<1> QED BY <1>7 DEF at, start

\* One more entry: it has a place, or none is left for it.
LEMMA OneReached ==
  ASSUME NEW E, NEW n, NEW T, NEW m, Matter(E, n, T, m), NEW k \in 0..n, k < n,
         NEW at, NEW done, Reached(at, done, E, n, T, m, k)
  PROVE  \E bt : Reached(bt, Add(T, done, E[k + 1]), E, n, T, m, k + 1)
<1> DEFINE h == k + 1
           new == Add(T, done, E[h])
           l == done.labels
<1>1. h \in 1..n /\ n \in Nat /\ m \in Nat  BY DEF Matter
<1>2. /\ Placed(at, done, E, n, T, m) /\ at[h] = 0 /\ at \in [1..n -> 0..m]
      /\ \A j \in 1..n : h < j => at[j] = 0
      /\ \A j \in 1..n : j < h /\ at[j] = 0 => \A i \in ReadAt(T, E[j]) : l[i] # Outside
  <2>1. /\ Placed(at, done, E, n, T, m) /\ \A j \in 1..n : k < j => at[j] = 0
        /\ \A j \in 1..n : j <= k /\ at[j] = 0 => \A i \in ReadAt(T, E[j]) : l[i] # Outside
    BY DEF Reached
  <2>2. k < h /\ \A j \in 1..n : (h < j => k < j) /\ (j < h => j <= k)  BY <1>1
  <2>3. at \in [1..n -> 0..m]  BY <2>1 DEF Placed
  <2> HIDE DEF h, l
  <2> QED BY <1>1, <2>1, <2>2, <2>3
<1>3. \A j \in 1..n : j <= h <=> j < h \/ j = h  BY <1>1
<1>4. \/ /\ Places(T, l, E[h]) = {}
         /\ new = done
      \/ \E i \in Places(T, l, E[h]) :
            new = [labels |-> Labelled(l, i, E[h]), matched |-> done.matched \cup {E[h].name}]
  <2> HIDE DEF h
  <2> QED BY <1>1, AddIs
<1> HIDE DEF h, new, l
<1>5. CASE Places(T, l, E[h]) = {} /\ new = done
  <2>1. \A i \in ReadAt(T, E[h]) : l[i] # Outside  BY <1>5 DEF Places
  <2>2. \A j \in 1..n : j <= h /\ at[j] = 0 => \A i \in ReadAt(T, E[j]) : l[i] # Outside
    BY <1>2, <1>3, <2>1
  <2>3. Reached(at, done, E, n, T, m, h)  BY <1>2, <2>2 DEF Reached, l
  <2> QED BY <1>5, <2>3 DEF h, new
<1>6. CASE \E i \in Places(T, l, E[h]) :
              new = [labels |-> Labelled(l, i, E[h]), matched |-> done.matched \cup {E[h].name}]
  <2>1. PICK i \in Places(T, l, E[h]) :
           new = [labels |-> Labelled(l, i, E[h]), matched |-> done.matched \cup {E[h].name}]
    BY <1>6
  <2> DEFINE bt == [at EXCEPT ![h] = i]
  <2>2. Placed(bt, new, E, n, T, m) /\ \A x \in 1..m : l[x] # Outside => new.labels[x] # Outside
    <3>1. i \in Places(T, done.labels, E[h]) /\ at[h] = 0 /\ Placed(at, done, E, n, T, m)  BY <1>2 DEF l
    <3>2. new = [labels |-> Labelled(done.labels, i, E[h]), matched |-> done.matched \cup {E[h].name}]
      BY <2>1 DEF l
    <3>3. Placed(bt, new, E, n, T, m) /\ \A x \in 1..m : done.labels[x] # Outside => new.labels[x] # Outside
      BY <1>1, <3>1, <3>2, OneMore
    <3> QED BY <3>3 DEF l
  <2>3. i \in 1..m
    <3>1. i \in ReadAt(T, E[h])  BY DEF Places
    <3> QED BY <1>1, <3>1, MatchIs
  <2>4. bt[h] # 0 /\ \A j \in 1..n : j # h => bt[j] = at[j]  BY <1>1, <1>2, <2>3
  <2> HIDE DEF bt
  <2>5. \A j \in 1..n : h < j => bt[j] = 0
    <3> SUFFICES ASSUME NEW j \in 1..n, h < j PROVE bt[j] = 0  OBVIOUS
    <3>1. j # h  BY <1>1
    <3> QED BY <1>2, <2>4, <3>1
  <2>6. ASSUME NEW j \in 1..n, j <= h, bt[j] = 0, NEW x \in ReadAt(T, E[j]) PROVE new.labels[x] # Outside
    <3>1. j # h  BY <2>4, <2>6
    <3>2. j < h /\ at[j] = 0  BY <1>3, <2>4, <2>6, <3>1
    <3>3. l[x] # Outside  BY <1>2, <2>6, <3>2
    <3>4. x \in 1..m  BY <2>6, MatchIs
    <3> QED BY <2>2, <3>3, <3>4
  <2>7. Reached(bt, new, E, n, T, m, h)  BY <2>2, <2>5, <2>6 DEF Reached
  <2> QED BY <2>7 DEF h, new
<1> QED BY <1>4, <1>5, <1>6

\* Every label of the whole annotation is one of a value at its place.
LEMMA AllReached ==
  ASSUME NEW E, NEW n, NEW T, NEW m, Matter(E, n, T, m), NEW done,
         done[0] = [labels |-> [i \in 1..m |-> Outside], matched |-> {}],
         \A k \in 1..n : done[k] = Add(T, done[k - 1], E[k])
  PROVE  \E at : Reached(at, done[n], E, n, T, m, n)
<1> DEFINE K == {k \in 0..n : \E at : Reached(at, done[k], E, n, T, m, k)}
<1>1. n \in Nat  BY DEF Matter
<1>2. 0 \in K
  <2> DEFINE at == [j \in 1..n |-> 0]
  <2>1. Reached(at, done[0], E, n, T, m, 0)  BY NothingPlaced
  <2> HIDE DEF at
  <2> QED BY <1>1, <2>1
<1>3. \A k \in 0..n : k < n /\ k \in K => k + 1 \in K
  <2> SUFFICES ASSUME NEW k \in 0..n, k < n, k \in K PROVE k + 1 \in K  OBVIOUS
  <2>1. PICK at : Reached(at, done[k], E, n, T, m, k)  OBVIOUS
  <2>2. k + 1 \in 1..n /\ (k + 1) - 1 = k /\ k + 1 \in 0..n  BY <1>1
  <2>3. done[k + 1] = Add(T, done[k], E[k + 1])  BY <2>2
  <2>4. \E bt : Reached(bt, Add(T, done[k], E[k + 1]), E, n, T, m, k + 1)  BY <2>1, OneReached
  <2> QED BY <2>2, <2>3, <2>4
<1> HIDE DEF K
<1>4. \A k \in 0..n : k \in K  BY <1>1, <1>2, <1>3, InductionUpTo
<1>5. n \in 0..n  BY <1>1
<1> QED BY <1>4, <1>5 DEF K

\* A label that begins a value is at the place of one.
LEMMA BeginningIs ==
  ASSUME NEW E, NEW n, NEW T, NEW m, NEW at, NEW done, Placed(at, done, E, n, T, m),
         NEW i \in 1..m, NEW tag, done.labels[i] = <<"B", tag>>
  PROVE  \E j \in 1..n : at[j] = i /\ at[j] # 0 /\ E[j].tag = tag
<1>1. done.labels[i] # Outside  BY LabelsDiffer
<1>2. PICK j \in 1..n : at[j] # 0 /\ done.labels[i] = LabelAt(at, E, j, i)  BY <1>1 DEF Placed
<1> DEFINE b == IF i = at[j] THEN "B" ELSE "I"
           t == E[j].tag
<1>3. <<b, t>> = <<"B", tag>>  BY <1>2 DEF LabelAt
<1> HIDE DEF b, t
<1>4. b = "B" /\ t = tag  BY <1>3, TwoWords
<1>5. i = at[j]
  <2>1. "B" # "I"  OBVIOUS
  <2> QED BY <1>4, <2>1 DEF b
<1> QED BY <1>2, <1>4, <1>5 DEF t

\* NoneInside of the entries by their places in the lookup.
Clear(E, n, T) ==
  \A j \in 1..n, k \in 1..n : \A a \in ReadAt(T, E[j]), b \in ReadAt(T, E[k]) :
    b \notin (a + 1)..(a + Len(E[j].words) - 1)

\* Where no value is inside another each keeps its labels,
LEMMA KeepsLabels ==
  ASSUME NEW E, NEW n, NEW T, NEW m, Matter(E, n, T, m), Clear(E, n, T),
         NEW at, NEW done, Placed(at, done, E, n, T, m),
         NEW j \in 1..n, at[j] # 0, NEW i \in at[j]..End(at, E, j)
  PROVE  i \in 1..m /\ done.labels[i] = LabelAt(at, E, j, i)
<1>1. at[j] \in ReadAt(T, E[j]) /\ done.labels[i] # Outside  BY DEF Placed
<1>2. at[j] \in 1..m /\ End(at, E, j) \in at[j]..m /\ m \in Nat  BY <1>1, MatchIs DEF End, Matter
<1>3. i \in 1..m  BY <1>2
<1>4. PICK h \in 1..n : at[h] # 0 /\ i \in at[h]..End(at, E, h) /\ done.labels[i] = LabelAt(at, E, h, i)
  BY <1>1, <1>3 DEF Placed
<1>5. at[h] \in ReadAt(T, E[h])  BY <1>4 DEF Placed
<1>6. at[h] \in 1..m /\ End(at, E, h) \in at[h]..m  BY <1>5, MatchIs DEF End
<1>7. at[h] \notin at[j] + 1..End(at, E, j) /\ at[j] \notin at[h] + 1..End(at, E, h)
  BY <1>1, <1>5 DEF Clear, End
<1>8. at[h] = at[j]  BY <1>2, <1>4, <1>6, <1>7
<1>9. h = j  BY <1>4, <1>8 DEF Placed
<1> QED BY <1>3, <1>4, <1>9

\* so that a word inside a value follows one of the same value.
LEMMA InsideFollows ==
  ASSUME NEW E, NEW n, NEW T, NEW m, Matter(E, n, T, m), Clear(E, n, T),
         NEW at, NEW done, Placed(at, done, E, n, T, m), NEW i \in 1..m, done.labels[i][1] = "I"
  PROVE  i > 1 /\ done.labels[i - 1] \in {<<"B", done.labels[i][2]>>, done.labels[i]}
<1> DEFINE l == done.labels
<1>1. l[i] # Outside  BY DEF Outside
<1>2. PICK j \in 1..n : at[j] # 0 /\ i \in at[j]..End(at, E, j) /\ l[i] = LabelAt(at, E, j, i)
  BY <1>1 DEF Placed
<1>3. i # at[j] /\ l[i] = <<"I", E[j].tag>>
  <2>1. l[i][1] = IF i = at[j] THEN "B" ELSE "I"  BY <1>2 DEF LabelAt
  <2>2. l[i][1] = "I" /\ "B" # "I"  OBVIOUS
  <2>3. i # at[j]  BY <2>1, <2>2
  <2> QED BY <1>2, <2>3 DEF LabelAt
<1>4. at[j] \in 1..m /\ End(at, E, j) \in at[j]..m /\ m \in Nat
  <2>1. at[j] \in ReadAt(T, E[j])  BY <1>2 DEF Placed
  <2> QED BY <2>1, MatchIs DEF End, Matter
<1>5. i > 1 /\ i - 1 \in at[j]..End(at, E, j)  BY <1>2, <1>3, <1>4
<1>6. l[i - 1] = LabelAt(at, E, j, i - 1)  BY <1>2, <1>5, KeepsLabels
<1>7. l[i - 1] \in {<<"B", E[j].tag>>, <<"I", E[j].tag>>}  BY <1>6 DEF LabelAt
<1>8. l[i][2] = E[j].tag  BY <1>3
<1> HIDE DEF l
<1> QED BY <1>3, <1>5, <1>7, <1>8 DEF l

\* A function that tells S apart and reaches all of R: they have the same size.
LEMMA SameSize ==
  ASSUME NEW S, IsFiniteSet(S), NEW R, NEW h \in [S -> R],
         \A x \in S, y \in S : h[x] = h[y] => x = y, \A y \in R : \E x \in S : h[x] = y
  PROVE  IsFiniteSet(R) /\ Cardinality(R) = Cardinality(S)
<1>1. h \in Injection(S, R)  BY DEF Injection, IsInjective
<1>2. h \in Surjection(S, R)  BY DEF Surjection
<1>3. ExistsBijection(S, R)  BY <1>1, <1>2 DEF ExistsBijection, Bijection
<1> QED BY <1>3, FS_Bijection

\* The words that begin a value of a tag, the values matched that have it, and
\* their places in the lookup.
BeginningsOf(done, m, tag) == {i \in 1..m : done.labels[i] = <<"B", tag>>}
FoundOf(E, n, done, tag) ==
  {e \in {E[j] : j \in {k \in 1..n : E[k].words # <<>>}} : e.tag = tag /\ e.name \in done.matched}
PlacedOf(at, E, n, tag) == {j \in 1..n : at[j] # 0 /\ E[j].tag = tag}

\* Part of the lookup is finite.
LEMMA PartIsFinite ==
  ASSUME NEW n \in Nat, NEW J \in SUBSET (1..n)
  PROVE  IsFiniteSet(J)
<1>1. \A a \in Int, b \in Int : IsFiniteSet(a..b)  BY FS_Interval
<1>2. IsFiniteSet(1..n)  BY <1>1
<1> QED BY <1>2, FS_Subset

\* No tag has more beginnings than values placed,
LEMMA BeginningsCount ==
  ASSUME NEW E, NEW n, NEW T, NEW m, Matter(E, n, T, m), NEW at, NEW done, Placed(at, done, E, n, T, m), NEW tag
  PROVE  LET B == BeginningsOf(done, m, tag)
             J == PlacedOf(at, E, n, tag)
         IN  /\ IsFiniteSet(B) /\ IsFiniteSet(J) /\ Cardinality(B) <= Cardinality(J)
             /\ Clear(E, n, T) => Cardinality(B) = Cardinality(J)
<1> DEFINE J == PlacedOf(at, E, n, tag)
           B == BeginningsOf(done, m, tag)
           f == [i \in B |-> CHOOSE j \in J : at[j] = i]
           g == [j \in J |-> at[j]]
<1>1. IsFiniteSet(J)
  <2>1. J \in SUBSET (1..n) /\ n \in Nat  BY DEF PlacedOf, Matter
  <2> HIDE DEF J
  <2> QED BY <2>1, PartIsFinite
<1>2. \A i \in B : \E j \in J : at[j] = i
  <2> SUFFICES ASSUME NEW i \in B PROVE \E j \in J : at[j] = i  OBVIOUS
  <2>1. i \in 1..m /\ done.labels[i] = <<"B", tag>>  BY DEF BeginningsOf
  <2>2. PICK j \in 1..n : at[j] = i /\ at[j] # 0 /\ E[j].tag = tag  BY <2>1, BeginningIs
  <2> QED BY <2>2 DEF PlacedOf
<1>3. \A j \in J, h \in J : at[j] = at[h] => j = h  BY DEF PlacedOf, Placed
<1>4. ASSUME Clear(E, n, T) PROVE \A j \in J : at[j] \in B
  <2> SUFFICES ASSUME NEW j \in J PROVE at[j] \in B  OBVIOUS
  <2>1. j \in 1..n /\ at[j] # 0 /\ E[j].tag = tag  BY DEF PlacedOf
  <2>2. at[j] \in ReadAt(T, E[j])  BY <2>1 DEF Placed
  <2>3. at[j] \in 1..m /\ End(at, E, j) \in at[j]..m  BY <2>1, <2>2, MatchIs DEF End
  <2>4. at[j] \in at[j]..End(at, E, j)  BY <2>3
  <2>5. done.labels[at[j]] = LabelAt(at, E, j, at[j])  BY <1>4, <2>1, <2>4, KeepsLabels
  <2> QED BY <2>1, <2>3, <2>5 DEF LabelAt, BeginningsOf
<1> HIDE DEF J, B
<1>5. f \in Injection(B, J)
  <2>1. \A i \in B : f[i] \in J /\ at[f[i]] = i  BY <1>2
  <2>2. f \in [B -> J]  BY <2>1
  <2>3. \A a \in B, b \in B : f[a] = f[b] => a = b  BY <2>1
  <2> HIDE DEF f
  <2> QED BY <2>2, <2>3 DEF Injection, IsInjective
<1>6. IsFiniteSet(B) /\ Cardinality(B) <= Cardinality(J)  BY <1>1, <1>5, FS_Injection
<1>7. ASSUME Clear(E, n, T) PROVE Cardinality(B) = Cardinality(J)
  <2>1. g \in [J -> B]  BY <1>4, <1>7
  <2>2. \A x \in J, y \in J : g[x] = g[y] => x = y  BY <1>3
  <2>3. \A y \in B : \E x \in J : g[x] = y  BY <1>2
  <2> HIDE DEF g
  <2> QED BY <1>1, <2>1, <2>2, <2>3, SameSize
<1> QED BY <1>1, <1>6, <1>7 DEF J, B

\* and the values matched are those placed.
LEMMA FoundCount ==
  ASSUME NEW E, NEW n, NEW T, NEW m, Matter(E, n, T, m), NEW at, NEW done, Placed(at, done, E, n, T, m),
         \A j \in 1..n, k \in 1..n : E[j].name = E[k].name => j = k, NEW tag
  PROVE  Cardinality(FoundOf(E, n, done, tag)) = Cardinality(PlacedOf(at, E, n, tag))
<1> DEFINE J == {j \in 1..n : at[j] # 0 /\ E[j].tag = tag}
           F == {e \in {E[j] : j \in {k \in 1..n : E[k].words # <<>>}} : e.tag = tag /\ e.name \in done.matched}
           h == [j \in J |-> E[j]]
<1>1. IsFiniteSet(J)
  <2>1. J \in SUBSET (1..n) /\ n \in Nat  BY DEF Matter
  <2> HIDE DEF J
  <2> QED BY <2>1, PartIsFinite
<1>2. /\ \A j \in 1..n : at[j] # 0 => E[j].words # <<>>
      /\ done.matched = {E[j].name : j \in {k \in 1..n : at[k] # 0}}
  <2>1. \A j \in 1..n : at[j] # 0 => at[j] \in ReadAt(T, E[j])  BY DEF Placed
  <2>2. \A j \in 1..n : at[j] # 0 => E[j].words # <<>>  BY <2>1, MatchIs
  <2> QED BY <2>2 DEF Placed
<1>3. Cardinality(F) = Cardinality(J)
  <2>1. h \in [J -> F]
    <3> SUFFICES ASSUME NEW j \in J PROVE E[j] \in F  OBVIOUS
    <3>1. E[j].words # <<>> /\ E[j].name \in done.matched  BY <1>2
    <3> QED BY <3>1
  <2>2. \A x \in J, y \in J : h[x] = h[y] => x = y  OBVIOUS
  <2>3. \A y \in F : \E x \in J : h[x] = y
    <3> SUFFICES ASSUME NEW y \in F PROVE \E x \in J : h[x] = y  OBVIOUS
    <3>1. PICK j \in 1..n : y = E[j]  OBVIOUS
    <3>2. PICK k \in 1..n : at[k] # 0 /\ y.name = E[k].name  BY <1>2
    <3>3. j = k  BY <3>1, <3>2
    <3>4. j \in J /\ h[j] = y  BY <3>1, <3>2, <3>3
    <3> QED BY <3>4
  <2> HIDE DEF J, F, h
  <2> QED BY <1>1, <2>1, <2>2, <2>3, SameSize
<1> QED BY <1>3 DEF PlacedOf, FoundOf

\* What annotate_document makes of a page.
LEMMA AnnotationOf ==
  ASSUME NEW doc, DocOk(doc), NEW page, PageOk(page)
  PROVE  \E f \in Nat, n \in Nat : \E at :
           LET E == GtLookup(doc)
               T == Tokens(page)
               done == AnnotateDocument(doc, page)
           IN  /\ Listed(doc, f, n) /\ Matter(E, n, T, Len(T)) /\ Reached(at, done, E, n, T, Len(T), n)
               /\ \A i \in 1..Len(T) : done.labels[i] \in BioLabels(doc.type)
<1> DEFINE E == GtLookup(doc)
           T == Tokens(page)
           m == Len(T)
<1>1. PICK f \in Nat, n \in Nat : Listed(doc, f, n)  BY LookupIs
<1>2. T \in Seq(Word) /\ m \in Nat  BY TokensAre, LenProperties
<1>3. Matter(E, n, T, m)
  <2>1. \A k \in 1..n : E[k].words \in Seq(Word)  BY <1>1, EntryType
  <2> QED BY <1>2, <2>1 DEF Matter
<1>4. PICK done :
        /\ AnnotateDocument(doc, page) = done[n]
        /\ done[0] = [labels |-> [i \in 1..m |-> Outside], matched |-> {}]
        /\ \A k \in 1..n : done[k] = Add(T, done[k - 1], E[k])
        /\ \A i \in 1..m : AnnotateDocument(doc, page).labels[i] \in BioLabels(doc.type)
  BY <1>1, <1>3, AnnotationIs
<1> HIDE DEF E, T, m
<1>5. \E at : Reached(at, done[n], E, n, T, m, n)  BY <1>3, <1>4, AllReached
<1> QED BY <1>1, <1>3, <1>4, <1>5 DEF E, T, m

\* The values and where they can be read, by their places in the lookup.
LEMMA LegibleIs ==
  ASSUME NEW doc, NEW page, NEW f, NEW n, Listed(doc, f, n)
  PROVE  LET E == GtLookup(doc)
             T == Tokens(page)
         IN  /\ Values(doc) = {E[j] : j \in {k \in 1..n : E[k].words # <<>>}}
             /\ ValuesRead(doc, page) = {<<E[j], ReadAt(T, E[j])>> : j \in {k \in 1..n : E[k].words # <<>>}}
<1> DEFINE E == GtLookup(doc)
           T == Tokens(page)
<1>1. DOMAIN E = 1..n  BY DEF Listed
<1> HIDE DEF E
<1>2. Range(E) = {E[j] : j \in 1..n}  BY <1>1 DEF Range
<1>3. Values(doc) = {e \in Range(E) : e.words # <<>>}  BY DEF Values, E
<1>4. Values(doc) = {E[j] : j \in {k \in 1..n : E[k].words # <<>>}}  BY <1>2, <1>3
<1>5. ValuesRead(doc, page) = {<<e, ReadAt(T, e)>> : e \in Values(doc)}  BY DEF ValuesRead
<1> HIDE DEF T
<1>6. ValuesRead(doc, page) = {<<E[j], ReadAt(T, E[j])>> : j \in {k \in 1..n : E[k].words # <<>>}}
  BY <1>4, <1>5
<1> QED BY <1>4, <1>6 DEF E, T

\* The labels are true, and whole where no value is inside another.
LEMMA SoundLabels ==
  ASSUME NEW doc, DocOk(doc), NEW page, PageOk(page)
  PROVE  LET legible == ValuesRead(doc, page)
             done == AnnotateDocument(doc, page)
             l == done.labels
         IN  /\ \A i \in DOMAIN l : l[i] # Outside =>
                  \E x \in legible : \E a \in x[2] :
                    /\ x[1].name \in done.matched /\ i \in a..(a + Len(x[1].words) - 1)
                    /\ l[i] = <<IF i = a THEN "B" ELSE "I", x[1].tag>>
             /\ \A x \in legible : x[1].name \in done.matched \/ \A a \in x[2] : l[a] # Outside
             /\ \A tag : Beginnings(done, tag) <= ValuesMatched(doc, done, tag)
             /\ \A i \in DOMAIN l : l[i] \in BioLabels(doc.type)
             /\ NoneInside(doc, page) =>
                  /\ \A i \in DOMAIN l : l[i][1] = "I" => i > 1 /\ l[i - 1] \in {<<"B", l[i][2]>>, l[i]}
                  /\ \A tag : Beginnings(done, tag) = ValuesMatched(doc, done, tag)
<1> DEFINE E == GtLookup(doc)
           T == Tokens(page)
           m == Len(T)
           done == AnnotateDocument(doc, page)
           l == done.labels
           legible == ValuesRead(doc, page)
<1>0. PICK f \in Nat, n \in Nat : \E at :
        /\ Listed(doc, f, n) /\ Matter(E, n, T, m) /\ Reached(at, done, E, n, T, m, n)
        /\ \A i \in 1..m : l[i] \in BioLabels(doc.type)
  BY AnnotationOf
<1>1. PICK at :
        /\ Listed(doc, f, n) /\ Matter(E, n, T, m) /\ Reached(at, done, E, n, T, m, n)
        /\ \A i \in 1..m : l[i] \in BioLabels(doc.type)
  BY <1>0
<1>2. Placed(at, done, E, n, T, m)  BY <1>1 DEF Reached
<1>3. DOMAIN l = 1..m  BY <1>2 DEF Placed
<1>4. \A j \in 1..n, k \in 1..n : E[j].name = E[k].name => j = k  BY <1>1, DistinctNames
<1>5. /\ Values(doc) = {E[j] : j \in {k \in 1..n : E[k].words # <<>>}}
      /\ legible = {<<E[j], ReadAt(T, E[j])>> : j \in {k \in 1..n : E[k].words # <<>>}}
  <2>1. Listed(doc, f, n)  BY <1>1
  <2>2. Values(doc) = {E[j] : j \in {k \in 1..n : E[k].words # <<>>}}  BY <2>1, LegibleIs
  <2>3. legible = {<<E[j], ReadAt(T, E[j])>> : j \in {k \in 1..n : E[k].words # <<>>}}  BY <2>1, LegibleIs
  <2> QED BY <2>2, <2>3
<1>6. NoneInside(doc, page) => Clear(E, n, T)
  <2> SUFFICES ASSUME NoneInside(doc, page), NEW j \in 1..n, NEW k \in 1..n,
                      NEW a \in ReadAt(T, E[j]), NEW b \in ReadAt(T, E[k])
               PROVE  b \notin (a + 1)..(a + Len(E[j].words) - 1)
    BY DEF Clear
  <2>1. \A x \in legible, y \in legible : \A c \in x[2], d \in y[2] : d \notin (c + 1)..(c + Len(x[1].words) - 1)
    BY DEF NoneInside
  <2> HIDE DEF E, T, legible
  <2>2. E[j].words # <<>> /\ E[k].words # <<>>  BY DEF ReadAt
  <2>3. <<E[j], ReadAt(T, E[j])>> \in legible /\ <<E[k], ReadAt(T, E[k])>> \in legible  BY <1>5, <2>2
  <2>4. \A c \in <<E[j], ReadAt(T, E[j])>>[2], d \in <<E[k], ReadAt(T, E[k])>>[2] :
          d \notin (c + 1)..(c + Len(<<E[j], ReadAt(T, E[j])>>[1].words) - 1)
    BY <2>1, <2>3
  <2> QED BY <2>4
<1>7. \A tag : Beginnings(done, tag) = Cardinality(BeginningsOf(done, m, tag))
  BY <1>3 DEF Beginnings, BeginningsOf
<1>8. \A tag : ValuesMatched(doc, done, tag) = Cardinality(FoundOf(E, n, done, tag))
  BY <1>5 DEF ValuesMatched, FoundOf
<1>9. n \in Nat  BY <1>1 DEF Matter
<1> HIDE DEF E, T, m, done, legible
<1>10. ASSUME NEW i \in DOMAIN l, l[i] # Outside
       PROVE  \E x \in legible : \E a \in x[2] :
                /\ x[1].name \in done.matched /\ i \in a..(a + Len(x[1].words) - 1)
                /\ l[i] = <<IF i = a THEN "B" ELSE "I", x[1].tag>>
  <2>1. PICK j \in 1..n : at[j] # 0 /\ i \in at[j]..End(at, E, j) /\ l[i] = LabelAt(at, E, j, i)
    BY <1>2, <1>3, <1>10 DEF Placed
  <2>2. at[j] \in ReadAt(T, E[j]) /\ E[j].name \in done.matched  BY <1>2, <2>1 DEF Placed
  <2>3. E[j].words # <<>>  BY <2>2 DEF ReadAt
  <2> DEFINE x == <<E[j], ReadAt(T, E[j])>>
  <2>4. x \in legible  BY <1>5, <2>3
  <2>5. x[1] = E[j] /\ x[2] = ReadAt(T, E[j])  OBVIOUS
  <2> HIDE DEF x
  <2>6. /\ at[j] \in x[2] /\ x[1].name \in done.matched
        /\ i \in at[j]..(at[j] + Len(x[1].words) - 1)
        /\ l[i] = <<IF i = at[j] THEN "B" ELSE "I", x[1].tag>>
    BY <2>1, <2>2, <2>5 DEF End, LabelAt
  <2> QED BY <2>4, <2>6
<1>11. ASSUME NEW x \in legible PROVE x[1].name \in done.matched \/ \A a \in x[2] : l[a] # Outside
  <2>1. PICK j \in 1..n : x = <<E[j], ReadAt(T, E[j])>>  BY <1>5
  <2>2. x[1] = E[j] /\ x[2] = ReadAt(T, E[j])  BY <2>1
  <2>3. CASE at[j] = 0
    <3>1. j <= n  BY <1>9
    <3> QED BY <1>1, <2>2, <2>3, <3>1 DEF Reached
  <2>4. CASE at[j] # 0
    <3>1. E[j].name \in done.matched  BY <1>2, <2>4 DEF Placed
    <3> QED BY <2>2, <3>1
  <2> QED BY <2>3, <2>4
<1>12. ASSUME NEW tag
       PROVE  /\ Beginnings(done, tag) <= ValuesMatched(doc, done, tag)
              /\ NoneInside(doc, page) => Beginnings(done, tag) = ValuesMatched(doc, done, tag)
  <2> DEFINE B == BeginningsOf(done, m, tag)
             J == PlacedOf(at, E, n, tag)
  <2>1. /\ Cardinality(B) <= Cardinality(J)
        /\ Clear(E, n, T) => Cardinality(B) = Cardinality(J)
    BY <1>1, <1>2, BeginningsCount
  <2>2. Cardinality(FoundOf(E, n, done, tag)) = Cardinality(J)  BY <1>1, <1>2, <1>4, FoundCount
  <2> HIDE DEF B, J
  <2>3. Beginnings(done, tag) = Cardinality(B)  BY <1>7 DEF B
  <2>4. ValuesMatched(doc, done, tag) = Cardinality(J)  BY <1>8, <2>2
  <2> QED BY <1>6, <2>1, <2>3, <2>4
<1>13. NoneInside(doc, page) =>
         \A i \in DOMAIN l : l[i][1] = "I" => i > 1 /\ l[i - 1] \in {<<"B", l[i][2]>>, l[i]}
  BY <1>1, <1>2, <1>3, <1>6, InsideFollows
<1>14. \A i \in DOMAIN l : l[i] \in BioLabels(doc.type)  BY <1>1, <1>3
<1> QED BY <1>10, <1>11, <1>12, <1>13, <1>14 DEF done, legible

\* Where there are as many places as values that can be read there, no value is
\* left without one.
LEMMA EachHasAPlace ==
  ASSUME NEW E, NEW n, NEW T, NEW m, Matter(E, n, T, m), Clear(E, n, T),
         NEW at, NEW done, Reached(at, done, E, n, T, m, n), NEW k \in 1..n, E[k].words # <<>>,
         \A j \in 1..n : ReadAt(T, E[j]) = ReadAt(T, E[k]) \/ ReadAt(T, E[j]) \cap ReadAt(T, E[k]) = {},
         Cardinality({j \in 1..n : E[j].words # <<>> /\ ReadAt(T, E[j]) = ReadAt(T, E[k])})
           <= Cardinality(ReadAt(T, E[k]))
  PROVE  at[k] # 0
<1> DEFINE O == ReadAt(T, E[k])
           J == {j \in 1..n : E[j].words # <<>> /\ ReadAt(T, E[j]) = O}
           h == [i \in O |-> CHOOSE j \in J \ {k} : at[j] = i]
<1> SUFFICES ASSUME at[k] = 0 PROVE FALSE  OBVIOUS
<1>1. n \in Nat /\ k <= n  BY DEF Matter
<1>2. Placed(at, done, E, n, T, m) /\ \A i \in O : done.labels[i] # Outside  BY <1>1 DEF Reached
<1>3. ASSUME NEW i \in O PROVE \E j \in J \ {k} : at[j] = i
  <2>1. i \in 1..m  BY MatchIs
  <2>2. PICK j \in 1..n : at[j] # 0 /\ i \in at[j]..End(at, E, j)  BY <1>2, <2>1 DEF Placed
  <2>3. at[j] \in ReadAt(T, E[j])  BY <1>2, <2>2 DEF Placed
  <2>4. at[j] \in 1..m /\ End(at, E, j) \in at[j]..m /\ E[j].words # <<>>  BY <2>3, MatchIs DEF End
  <2>5. i \notin at[j] + 1..End(at, E, j)  BY <2>3 DEF Clear, End
  <2>6. at[j] = i  BY <2>1, <2>2, <2>4, <2>5
  <2>7. ReadAt(T, E[j]) = O  BY <2>3, <2>6
  <2>8. j # k  BY <2>2
  <2> QED BY <2>4, <2>6, <2>7, <2>8
<1>4. IsFiniteSet(J)
  <2>1. J \in SUBSET (1..n)  OBVIOUS
  <2> HIDE DEF J
  <2> QED BY <1>1, <2>1, PartIsFinite
<1>5. k \in J /\ Cardinality(J) <= Cardinality(O)  OBVIOUS
<1> HIDE DEF J, O
<1>6. h \in Injection(O, J \ {k})
  <2>1. \A i \in O : h[i] \in J \ {k} /\ at[h[i]] = i  BY <1>3
  <2>2. h \in [O -> J \ {k}]  BY <2>1
  <2>3. \A a \in O, b \in O : h[a] = h[b] => a = b  BY <2>1
  <2> HIDE DEF h
  <2> QED BY <2>2, <2>3 DEF Injection, IsInjective
<1>7. IsFiniteSet(J \ {k}) /\ Cardinality(J \ {k}) = Cardinality(J) - 1
  BY <1>4, <1>5, FS_RemoveElement
<1>8. IsFiniteSet(O) /\ Cardinality(O) <= Cardinality(J \ {k})  BY <1>6, <1>7, FS_Injection
<1>9. Cardinality(J) \in Nat /\ Cardinality(O) \in Nat  BY <1>4, <1>8, FS_CardinalityType
<1> QED BY <1>5, <1>7, <1>8, <1>9

\* What InFull says of the entries by their places in the lookup.
LEMMA FullIs ==
  ASSUME NEW doc, NEW page, NEW f, NEW n \in Nat, Listed(doc, f, n), InFull(doc, page),
         \A j \in 1..n, k \in 1..n : GtLookup(doc)[j].name = GtLookup(doc)[k].name => j = k,
         NEW k \in 1..n, GtLookup(doc)[k].words # <<>>
  PROVE  LET E == GtLookup(doc)
             T == Tokens(page)
         IN  /\ \A j \in 1..n : \/ ReadAt(T, E[j]) = ReadAt(T, E[k])
                                \/ ReadAt(T, E[j]) \cap ReadAt(T, E[k]) = {}
             /\ Cardinality({j \in 1..n : E[j].words # <<>> /\ ReadAt(T, E[j]) = ReadAt(T, E[k])})
                  <= Cardinality(ReadAt(T, E[k]))
<1> DEFINE E == GtLookup(doc)
           T == Tokens(page)
           M(j) == ReadAt(T, E[j])
           legible == ValuesRead(doc, page)
           J == {j \in 1..n : E[j].words # <<>> /\ M(j) = M(k)}
           Y == {y \in legible : y[2] = M(k)}
           h == [j \in J |-> <<E[j], M(j)>>]
<1>1. legible = {<<E[j], M(j)>> : j \in {i \in 1..n : E[i].words # <<>>}}  BY LegibleIs
<1>2. /\ \A x \in legible, y \in legible : x[2] = y[2] \/ x[2] \cap y[2] = {}
      /\ \A x \in legible : Cardinality({y \in legible : y[2] = x[2]}) <= Cardinality(x[2])
  BY DEF InFull
<1>3. \A i \in 1..n, j \in 1..n : E[i].name = E[j].name => i = j  OBVIOUS
<1>4. \A j \in 1..n : E[j].words = <<>> => M(j) = {}  BY DEF ReadAt
<1> HIDE DEF E, T, M, legible
<1>5. \A j \in 1..n : E[j].words # <<>> => <<E[j], M(j)>> \in legible  BY <1>1
<1>6. E[k].words # <<>>  BY DEF E
<1>7. \A j \in 1..n : M(j) = M(k) \/ M(j) \cap M(k) = {}
  <2> SUFFICES ASSUME NEW j \in 1..n PROVE M(j) = M(k) \/ M(j) \cap M(k) = {}  OBVIOUS
  <2>1. CASE E[j].words = <<>>  BY <1>4, <2>1
  <2>2. CASE E[j].words # <<>>
    <3>1. <<E[j], M(j)>> \in legible /\ <<E[k], M(k)>> \in legible  BY <1>5, <1>6, <2>2
    <3>2. <<E[j], M(j)>>[2] = <<E[k], M(k)>>[2] \/ <<E[j], M(j)>>[2] \cap <<E[k], M(k)>>[2] = {}
      BY <1>2, <3>1
    <3> QED BY <3>2
  <2> QED BY <2>1, <2>2
<1>8. Cardinality(Y) <= Cardinality(M(k))
  <2>1. <<E[k], M(k)>> \in legible  BY <1>5, <1>6
  <2>2. Cardinality({y \in legible : y[2] = <<E[k], M(k)>>[2]}) <= Cardinality(<<E[k], M(k)>>[2])
    BY <1>2, <2>1
  <2> QED BY <2>2
<1>9. IsFiniteSet(J)
  <2>1. J \in SUBSET (1..n)  OBVIOUS
  <2> HIDE DEF J
  <2> QED BY <2>1, PartIsFinite
<1>10. Cardinality(Y) = Cardinality(J)
  <2>1. h \in [J -> Y]
    <3> SUFFICES ASSUME NEW j \in J PROVE <<E[j], M(j)>> \in Y  OBVIOUS
    <3>1. <<E[j], M(j)>> \in legible /\ M(j) = M(k)  BY <1>5
    <3> QED BY <3>1
  <2>2. \A x \in J, y \in J : h[x] = h[y] => x = y
    <3> SUFFICES ASSUME NEW x \in J, NEW y \in J, h[x] = h[y] PROVE x = y  OBVIOUS
    <3>1. <<E[x], M(x)>> = <<E[y], M(y)>>  OBVIOUS
    <3>2. E[x] = E[y]  BY <3>1
    <3> QED BY <1>3, <3>2
  <2>3. \A y \in Y : \E x \in J : h[x] = y
    <3> SUFFICES ASSUME NEW y \in Y PROVE \E x \in J : h[x] = y  OBVIOUS
    <3>1. PICK j \in 1..n : E[j].words # <<>> /\ y = <<E[j], M(j)>>  BY <1>1
    <3>2. M(j) = M(k)  BY <3>1
    <3>3. j \in J /\ h[j] = y  BY <3>1, <3>2
    <3> QED BY <3>3
  <2> HIDE DEF J, Y, h
  <2> QED BY <1>9, <2>1, <2>2, <2>3, SameSize
<1> HIDE DEF Y
<1>11. Cardinality(J) <= Cardinality(M(k))  BY <1>8, <1>10
<1> QED BY <1>7, <1>11 DEF E, T, M

\* A page with everything on it has a label of every tag the gate looks for.
LEMMA FullPage ==
  ASSUME NEW doc, DocOk(doc), NEW page, PageOk(page), NoneInside(doc, page), InFull(doc, page)
  PROVE  LET gate == Validate(doc, AnnotateDocument(doc, page).labels, 80)
         IN  gate.passed /\ gate.covered = Expected(doc)
<1> DEFINE E == GtLookup(doc)
           T == Tokens(page)
           m == Len(T)
           done == AnnotateDocument(doc, page)
           l == done.labels
           tags == {x[2] : x \in {l[i] : i \in DOMAIN l} \ {Outside}}
           gate == Validate(doc, l, 80)
           legible == ValuesRead(doc, page)
<1>0. PICK f \in Nat, n \in Nat : \E at :
        Listed(doc, f, n) /\ Matter(E, n, T, m) /\ Reached(at, done, E, n, T, m, n)
  BY AnnotationOf
<1>1. PICK at : Listed(doc, f, n) /\ Matter(E, n, T, m) /\ Reached(at, done, E, n, T, m, n)
  BY <1>0
<1>2. \A j \in 1..n, k \in 1..n : E[j].name = E[k].name => j = k  BY <1>1, DistinctNames
<1>3. Clear(E, n, T)
  <2> SUFFICES ASSUME NEW j \in 1..n, NEW k \in 1..n, NEW a \in ReadAt(T, E[j]), NEW b \in ReadAt(T, E[k])
               PROVE  b \notin (a + 1)..(a + Len(E[j].words) - 1)
    BY DEF Clear
  <2>1. \A x \in legible, y \in legible : \A c \in x[2], d \in y[2] : d \notin (c + 1)..(c + Len(x[1].words) - 1)
    BY DEF NoneInside
  <2>2. legible = {<<E[i], ReadAt(T, E[i])>> : i \in {h \in 1..n : E[h].words # <<>>}}  BY <1>1, LegibleIs
  <2> HIDE DEF E, T, legible
  <2>3. E[j].words # <<>> /\ E[k].words # <<>>  BY DEF ReadAt
  <2>4. <<E[j], ReadAt(T, E[j])>> \in legible /\ <<E[k], ReadAt(T, E[k])>> \in legible  BY <2>2, <2>3
  <2>5. \A c \in <<E[j], ReadAt(T, E[j])>>[2], d \in <<E[k], ReadAt(T, E[k])>>[2] :
          d \notin (c + 1)..(c + Len(<<E[j], ReadAt(T, E[j])>>[1].words) - 1)
    BY <2>1, <2>4
  <2> QED BY <2>5
<1>4. UsedColumns(doc)  BY DEF InFull, UsedColumns
<1>5. Expected(doc) # {}  BY DEF InFull
<1>6. \A j \in 1..n : E[j].words # <<>> => at[j] \in 1..m /\ at[j] # 0 /\ at[j] \in DOMAIN l
  <2> SUFFICES ASSUME NEW j \in 1..n, E[j].words # <<>> PROVE at[j] \in 1..m /\ at[j] # 0 /\ at[j] \in DOMAIN l
    OBVIOUS
  <2>1. /\ \A i \in 1..n : \/ ReadAt(T, E[i]) = ReadAt(T, E[j])
                           \/ ReadAt(T, E[i]) \cap ReadAt(T, E[j]) = {}
        /\ Cardinality({i \in 1..n : E[i].words # <<>> /\ ReadAt(T, E[i]) = ReadAt(T, E[j])})
             <= Cardinality(ReadAt(T, E[j]))
    BY <1>1, <1>2, FullIs
  <2> HIDE DEF E, T, m, done
  <2>2. at[j] # 0  BY <1>1, <1>3, <2>1, EachHasAPlace
  <2>3. at[j] \in 0..m /\ DOMAIN l = 1..m /\ m \in Nat  BY <1>1 DEF Reached, Placed, Matter
  <2> QED BY <2>2, <2>3
<1>7. \A j \in 1..n : E[j].words # <<>> => E[j].tag \in tags
  <2> SUFFICES ASSUME NEW j \in 1..n, E[j].words # <<>> PROVE E[j].tag \in tags  OBVIOUS
  <2> HIDE DEF E, T, m, done
  <2>1. at[j] \in ReadAt(T, E[j])  BY <1>1, <1>6 DEF Reached, Placed
  <2>2. at[j] \in at[j]..End(at, E, j)
    <3>1. at[j] \in 1..m /\ End(at, E, j) \in at[j]..m  BY <1>1, <2>1, MatchIs DEF End
    <3> QED BY <3>1
  <2>3. Placed(at, done, E, n, T, m)  BY <1>1 DEF Reached
  <2>4. l[at[j]] = LabelAt(at, E, j, at[j])  BY <1>1, <1>3, <1>6, <2>2, <2>3, KeepsLabels
  <2>5. l[at[j]] # Outside /\ l[at[j]][2] = E[j].tag  BY <2>4, LabelsDiffer DEF LabelAt
  <2> QED BY <1>6, <2>5
<1>8. \A x \in Expected(doc) : x[2] \in tags
  <2> SUFFICES ASSUME NEW x \in Expected(doc) PROVE x[2] \in tags  OBVIOUS
  <2>1. PICK k \in 1..n : E[k].words # <<>> /\ E[k].tag = x[2]  BY <1>1, <1>4, ExpectedHaveEntries
  <2> HIDE DEF tags, E
  <2> QED BY <1>7, <2>1
<1> HIDE DEF E, T, m, done
<1>9. gate.covered = {x \in Expected(doc) : x[2] \in tags}  BY DEF Validate
<1>10. gate.covered = Expected(doc)
  <2> HIDE DEF tags, gate
  <2> QED BY <1>8, <1>9
<1>11. Cardinality(Expected(doc)) \in Nat \ {0}
  <2>1. IsFiniteSet(Expected(doc))  BY <1>1, ExpectedIsFinite
  <2> QED BY <1>5, <2>1, FS_EmptySet, FS_CardinalityType
<1>12. gate.passed
  <2> DEFINE c == {x \in Expected(doc) : x[2] \in tags}
             t == Cardinality(Expected(doc))
  <2>1. gate.passed = (100 * Cardinality(c) >= 80 * (IF t = 0 THEN 1 ELSE t))  BY DEF Validate
  <2>2. c = Expected(doc)  BY <1>9, <1>10
  <2> HIDE DEF tags, gate
  <2>3. Cardinality(c) = t /\ t \in Nat \ {0}  BY <1>11, <2>2
  <2> HIDE DEF c, t
  <2>4. 100 * Cardinality(c) >= 80 * (IF t = 0 THEN 1 ELSE t)  BY <2>3
  <2> QED BY <2>1, <2>4
<1> QED BY <1>10, <1>12 DEF gate, done

-----------------------------------------------------------------------------
(* The theorems                                                            *)

\* An input is of its kind, in every reachable state.
Taken ==
  /\ kind = "aadhaar" => subject \in AadhaarStems
  /\ kind = "mrz" => subject \in MrzStems
  /\ kind = "form" => subject \in Forms
  /\ kind = "document" => subject \in Documents
  /\ kind = "line" => subject \in TextLines

LEMMA InputIsTaken == InputSpec => []Taken
<1>1. NoInput => Taken  BY DEF NoInput, Taken
<1>2. Taken /\ [TakeInput]_inputs => Taken'
  <2>1. CASE TakeInput  BY <2>1 DEF TakeInput, Take, Taken
  <2>2. CASE UNCHANGED inputs  BY <2>2 DEF inputs, Taken
  <2> QED BY <2>1, <2>2
<1> QED BY <1>1, <1>2, PTL DEF InputSpec

\* Whatever numbers and lines the installation meets, verhoeff_validate notices
\* a wrong digit and two neighbours in the wrong order, and mrz_validate accepts
\* what ICAO makes and notices a change of one character but for those a check
\* digit cannot tell: the tables typed in by hand are those of a group and of
\* the powers of one permutation, and the weights ICAO's.
THEOREM NumberErrorsAreCaught == InputSpec => []WrongNumbersAreTold
<1>1. Taken => WrongNumbersAreTold
  <2> SUFFICES ASSUME Taken PROVE WrongNumbersAreTold  OBVIOUS
  <2>1. AadhaarErrorsAreCaught
    <3>1. CASE kind = "aadhaar"
      <4>1. subject \in [1..11 -> Digit] /\ subject[1] \notin {0, 1}
        BY <3>1, InputAssumption DEF Taken
      <4> QED BY <3>1, <4>1, AadhaarNumbers
    <3> QED BY <3>1 DEF AadhaarErrorsAreCaught
  <2>2. MrzErrorsAreCaught
    <3>1. CASE kind = "mrz"
      <4>1. subject \in Line
        BY <3>1, InputAssumption DEF Taken, Line
      <4> QED BY <3>1, <4>1, MrzLines
    <3> QED BY <3>1 DEF MrzErrorsAreCaught
  <2> QED BY <2>1, <2>2 DEF WrongNumbersAreTold
<1> QED BY <1>1, InputIsTaken, PTL

\* For any form and any documents, whatever incomes are on them: _cross_check
\* raises no message on one's own, and tells another's.
THEOREM FormsAreToldApart == InputSpec => []FormTellsWhoseDocuments
<1>1. Taken => FormTellsWhoseDocuments
  <2> SUFFICES ASSUME Taken PROVE FormTellsWhoseDocuments  OBVIOUS
  <2>1. CASE kind = "form"
    <3>1. subject \in Forms  BY <2>1 DEF Taken
    <3> QED BY <2>1, <3>1, OwnForm, ForeignForm DEF FormTellsWhoseDocuments
  <2> QED BY <2>1 DEF FormTellsWhoseDocuments, OwnDocumentsPass, ForeignDocumentsAreTold
<1> QED BY <1>1, InputIsTaken, PTL

\* For a line of any number of words of any lengths, on a page of any width: the
\* boxes of the words are in their order and end with the line, give or take
\* half a unit a word, which is what Python's round may add.
THEOREM BoxesAreInTheirLine == InputSpec => []BoxesStayInLine
<1>1. Taken => BoxesStayInLine
  <2> SUFFICES ASSUME Taken PROVE BoxesStayInLine  OBVIOUS
  <2>1. CASE kind = "line"
    <3>1. subject \in TextLines  BY <2>1 DEF Taken
    <3> QED BY <2>1, <3>1, LineBoxes
  <2> QED BY <2>1 DEF BoxesStayInLine
<1> QED BY <1>1, InputIsTaken, PTL

\* For any document and any page: the labels annotate_document writes are those of
\* values within two edits of what they label, whatever it overwrites, and a value
\* without one has no place left; where no value is inside another they are a BIO
\* labelling with as many beginnings as values it says it matched, and
\* validate_annotation passes a page that has everything on it, near values too,
\* whatever the order of its lines.
THEOREM AnnotationsAreSound == InputSpec => []AnnotationIsSound
<1>1. Taken => AnnotationIsSound
  <2> SUFFICES ASSUME Taken, kind = "document" PROVE AnnotationIsSound
    BY DEF AnnotationIsSound, LabelsAreTrue, LabelsAreWhole, FullPagePasses
  <2>1. subject \in Documents  BY DEF Taken
  <2>2. DocOk(subject.doc) /\ PageOk(subject.page)
    BY <2>1, InputAssumption DEF DocOk, PageOk
  <2>3. LabelsAreTrue  BY <2>2, SoundLabels DEF LabelsAreTrue
  <2>4. LabelsAreWhole  BY <2>2, SoundLabels DEF LabelsAreWhole
  <2>5. FullPagePasses  BY <2>2, FullPage DEF FullPagePasses
  <2> QED BY <2>3, <2>4, <2>5 DEF AnnotationIsSound
<1> QED BY <1>1, InputIsTaken, PTL
=============================================================================
