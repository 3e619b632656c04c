-------------------------- MODULE DocumentNumbers --------------------------
(***************************************************************************)
(* The check digits of validation.py: Verhoeff's for Aadhaar numbers and   *)
(* ICAO 9303's for the second line of a passport's machine-readable zone.  *)
(* A digit is a number, a character of the MRZ its value in ICAO's order   *)
(* 0..9, A..Z, and 36 for the filler "<".                                  *)
(***************************************************************************)
EXTENDS Naturals, Sequences, RunningTotal

Digit == 0..9

-----------------------------------------------------------------------------
(* Aadhaar                                                                 *)

\* _VERHOEFF_D, row and column from 1.
VerhoeffD ==
  << <<0, 1, 2, 3, 4, 5, 6, 7, 8, 9>>, <<1, 2, 3, 4, 0, 6, 7, 8, 9, 5>>,
     <<2, 3, 4, 0, 1, 7, 8, 9, 5, 6>>, <<3, 4, 0, 1, 2, 8, 9, 5, 6, 7>>,
     <<4, 0, 1, 2, 3, 9, 5, 6, 7, 8>>, <<5, 9, 8, 7, 6, 0, 4, 3, 2, 1>>,
     <<6, 5, 9, 8, 7, 1, 0, 4, 3, 2>>, <<7, 6, 5, 9, 8, 2, 1, 0, 4, 3>>,
     <<8, 7, 6, 5, 9, 3, 2, 1, 0, 4>>, <<9, 8, 7, 6, 5, 4, 3, 2, 1, 0>> >>

\* Fault: two entries of the third row are swapped.
VerhoeffP_Typo ==
  << <<0, 1, 2, 3, 4, 5, 6, 7, 8, 9>>, <<1, 5, 7, 6, 2, 8, 3, 0, 9, 4>>,
     <<5, 8, 0, 3, 7, 9, 6, 1, 2, 4>>, <<8, 9, 1, 6, 0, 4, 3, 5, 2, 7>>,
     <<9, 4, 5, 3, 1, 2, 6, 8, 7, 0>>, <<4, 2, 8, 6, 5, 7, 3, 9, 0, 1>>,
     <<2, 7, 9, 3, 8, 0, 6, 4, 1, 5>>, <<7, 0, 4, 6, 9, 1, 3, 2, 5, 8>> >>

VerhoeffP ==
  << <<0, 1, 2, 3, 4, 5, 6, 7, 8, 9>>, <<1, 5, 7, 6, 2, 8, 3, 0, 9, 4>>,
     <<5, 8, 0, 3, 7, 9, 6, 1, 4, 2>>, <<8, 9, 1, 6, 0, 4, 3, 5, 2, 7>>,
     <<9, 4, 5, 3, 1, 2, 6, 8, 7, 0>>, <<4, 2, 8, 6, 5, 7, 3, 9, 0, 1>>,
     <<2, 7, 9, 3, 8, 0, 6, 4, 1, 5>>, <<7, 0, 4, 6, 9, 1, 3, 2, 5, 8>> >>

\* verhoeff_checksum_valid: the digits are taken from the last to the first;
\* VerhoeffCheck(number)[i] is the check after i of them.
VerhoeffStep(check, i, digit) == VerhoeffD[check + 1][VerhoeffP[(i % 8) + 1][digit + 1] + 1]

VerhoeffCheck(number) ==
  LET check[i \in 0..Len(number)] ==
        IF i = 0 THEN 0 ELSE VerhoeffStep(check[i - 1], i - 1, number[Len(number) - i + 1])
  IN  check

VerhoeffValid(number) == VerhoeffCheck(number)[Len(number)] = 0

ValidAadhaar(number) ==
  Len(number) = 12 /\ number[1] \notin {0, 1} /\ VerhoeffValid(number)

-----------------------------------------------------------------------------
(* Passport                                                                *)

Filler == 36
MrzChar == 0..36
MrzValue(ch) == IF ch = Filler THEN 0 ELSE ch

MrzWeights == <<7, 3, 1>>

\* mrz_check_digit
MrzProducts(data) == [i \in 1..Len(data) |-> MrzValue(data[i]) * MrzWeights[((i - 1) % 3) + 1]]
MrzCheckDigit(data) == SumOf(MrzProducts(data)) % 10

\* The fields with a check digit behind them: number, birth, expiry, personal.
Fields(line) ==
  <<SubSeq(line, 1, 9), SubSeq(line, 14, 19), SubSeq(line, 22, 27), SubSeq(line, 29, 42)>>
CheckAt == <<10, 20, 28, 43>>

\* The fields with their digits, one after the other.
Composite(line) == SubSeq(line, 1, 10) \o SubSeq(line, 14, 20) \o SubSeq(line, 22, 43)

\* validate_mrz_td3
MrzValid(line) ==
  /\ Len(line) = 44
  /\ \A k \in 1..4 : MrzCheckDigit(Fields(line)[k]) = line[CheckAt[k]]
  /\ MrzCheckDigit(Composite(line)) = line[44]
=============================================================================
