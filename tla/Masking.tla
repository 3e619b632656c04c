------------------------------ MODULE Masking ------------------------------
(***************************************************************************)
(* ComplianceProcessor.mask_pii_in_text without Presidio: four patterns    *)
(* are looked for one after the other, each in what the one before left,   *)
(* and every match is replaced wherever it occurs.                         *)
(*                                                                         *)
(* A text is a sequence of symbols: <<"digit", i, k, high>> is the k-th    *)
(* digit of number i, high where it is 6 to 9, k being -1 and 0 for the    *)
(* two of a country code; <<"pan", i>> a PAN;                              *)
(* <<"word", w>> letters an address may hold, <<"at", d>> the rest of an   *)
(* e-mail address; <<"space">>, <<"comma">>, <<"plus">>, the last before   *)
(* the digits of a country code; a mask leaves <<"star">>,                 *)
(* <<"initial", w>> and <<"panmask", i>>.                                  *)
(***************************************************************************)
EXTENDS Naturals, Sequences, FiniteSets, SequencesExt

Kind(text, i) == IF i \in DOMAIN text THEN text[i][1] ELSE "end"
AreDigits(text, i, n) == \A k \in i..(i + n - 1) : Kind(text, k) = "digit"

(* Where a match that starts at i ends, 0 if none does.                    *)

\* PAN_PATTERN
PanEnd(text, i) == IF Kind(text, i) = "pan" THEN i ELSE 0

\* Fault: the three groups of four must be written without spaces.
AadhaarEnd_Unspaced(text, i) == IF AreDigits(text, i, 12) THEN i + 11 ELSE 0

\* AADHAAR_PATTERN: three groups of four digits, a space allowed between them,
\* whatever comes before and after.
AadhaarEnd(text, i) ==
  LET group(k) == IF Kind(text, k) = "space" THEN k + 1 ELSE k
      second == group(i + 4)
      third  == group(second + 4)
  IN  IF \A k \in {i, second, third} : AreDigits(text, k, 4) THEN third + 3 ELSE 0

\* PHONE_PATTERN: ten digits, the first of them high, after an optional +91.
PhoneEnd(text, i) ==
  LET start == IF Kind(text, i) # "plus" THEN i
               ELSE IF Kind(text, i + 3) = "space" THEN i + 4 ELSE i + 3
  IN  IF AreDigits(text, start, 10) /\ text[start][4] THEN start + 9 ELSE 0

\* EMAIL_PATTERN: all of the local part before the "@".
EmailEnd(text, i) ==
  LET at == {k \in i + 1..Len(text) : /\ Kind(text, k) = "at"
                                      /\ \A j \in i..k - 1 : Kind(text, j) \in {"word", "digit"}}
  IN  IF at = {} THEN 0 ELSE CHOOSE k \in at : TRUE

(* What a match is replaced with.                                          *)

MaskPan(match) == <<<<"panmask", match[1][2]>>>>

\* mask_aadhaar and mask_phone: the last four digits stay.
MaskNumber(match) == <<<<"star">>>> \o SubSeq(match, Len(match) - 3, Len(match))

\* mask_email: of the local part, the first character.
MaskEmail(match) ==
  LET first == IF Kind(match, 1) = "word" THEN <<"initial", match[1][2]>> ELSE match[1]
  IN  <<first, <<"star">>, match[Len(match)]>>

\* Where each of the four patterns ends, and what is put for a match of it.
MatchEnd(pattern, text, i) ==
  CASE pattern = "pan"     -> PanEnd(text, i)
    [] pattern = "aadhaar" -> AadhaarEnd(text, i)
    [] pattern = "phone"   -> PhoneEnd(text, i)
    [] pattern = "email"   -> EmailEnd(text, i)
Mask(pattern, match) ==
  CASE pattern = "pan"   -> MaskPan(match)
    [] pattern = "email" -> MaskEmail(match)
    [] OTHER             -> MaskNumber(match)

\* finditer: the matches from left to right, without overlap.
FindAll(pattern, text) ==
  LET from[i \in 1..Len(text) + 1] ==
        LET last == MatchEnd(pattern, text, i)
        IN  IF i > Len(text) THEN <<>>
            ELSE IF last = 0 THEN from[i + 1]
            ELSE <<SubSeq(text, i, last)>> \o from[last + 1]
  IN  from[1]

\* str.replace
Replace(text, old, new) ==
  LET from[i \in 1..Len(text) + 1] ==
        IF i > Len(text) THEN <<>>
        ELSE IF IsPrefix(old, SubSeq(text, i, Len(text))) THEN new \o from[i + Len(old)]
        ELSE <<text[i]>> \o from[i + 1]
  IN  from[1]

\* One pattern: each of its matches in turn is replaced, in what is left by then.
Masked(text, pattern) ==
  LET matches == FindAll(pattern, text)
      left[k \in 0..Len(matches)] ==
        IF k = 0 THEN text ELSE Replace(left[k - 1], matches[k], Mask(pattern, matches[k]))
  IN  left[Len(matches)]

MaskPiiInText(text) == Masked(Masked(Masked(Masked(text, "pan"), "aadhaar"), "phone"), "email")
=============================================================================
