----------------------------- MODULE Annotation -----------------------------
(***************************************************************************)
(* Training annotations (scripts/annotate): the words OCR found on a       *)
(* rendered document get BIO labels by matching them with the values the   *)
(* document was generated from; a gate then counts which values have a     *)
(* label.                                                                  *)
(*                                                                         *)
(* A word is the letters _fuzzy_match compares: in capitals, and without   *)
(* the commas, signs of rupees and, as read, colons it takes out.          *)
(***************************************************************************)
EXTENDS Naturals, Sequences, FiniteSets, Functions, RunningTotal

(* A document: type; values, the words of each field of its label schema,  *)
(* none where there is no value; address and transactions alike, by part   *)
(* and by column.  A page: a sequence of lines, [words, sure].             *)

Word == Seq(STRING)

\* LABEL_SCHEMAS: the fields in their order; a tag is a field's name in capitals.
Schema ==
  [pan |-> <<"pan_number", "full_name", "father_name", "date_of_birth">>,
   aadhaar |-> <<"aadhaar_number", "full_name", "date_of_birth", "gender", "pincode">>,
   salary_slip |-> <<"employer_name", "employee_name", "employee_pan", "uan", "gross_pay", "net_pay",
                     "basic", "hra", "pf_deduction", "tds_deduction", "pay_month", "pay_year">>,
   bank_statement |-> <<"bank_name", "account_number", "account_holder_name", "period_start",
                        "period_end", "opening_balance", "closing_balance">>,
   form16 |-> <<"employer_tan", "employee_pan", "assessment_year", "gross_salary", "taxable_income",
                "tds_deducted">>,
   itr |-> <<"pan_number", "full_name", "assessment_year", "gross_total_income", "total_tax_paid">>,
   gst_return |-> <<"gstin", "legal_name", "return_period", "total_taxable_value", "total_tax_payable">>]

AddressParts == <<"door", "street", "locality", "city", "state">>
AddressTag == "address_line"

\* BANK_STATEMENT_TXN_LABELS
TxnColumns == <<"date", "narration", "credit", "debit">>
TxnTag == [date |-> "txn_date", narration |-> "txn_narration", credit |-> "txn_credit", debit |-> "txn_debit"]

\* _is_exact_field and _is_numeric_field: what is not matched with edits.
ExactFields ==
  {"pan_number", "aadhaar_number", "account_number", "employee_pan", "employer_tan", "gstin", "uan",
   "pincode", "gross_pay", "net_pay", "basic", "hra", "pf_deduction", "tds_deduction",
   "opening_balance", "closing_balance", "gross_salary", "taxable_income", "tds_deducted",
   "gross_total_income", "total_tax_paid", "total_taxable_value", "total_tax_payable", "pay_year",
   "assessment_year"}

\* get_bio_labels: the labels that have an id of their own; any other label a
\* token has is written with the id 0.
BioLabels(type) ==
  LET tags == Range(Schema[type])
                \cup (IF type = "bank_statement" THEN Range(TxnTag) ELSE {})
                \cup (IF type = "aadhaar" THEN {AddressTag} ELSE {})
  IN  {<<"O">>} \cup {<<"B", t>> : t \in tags} \cup {<<"I", t>> : t \in tags}

\* _build_gt_lookup: the fields in their order, then the address lines or the
\* transactions of the types that have them; those without words are no values.
Entry(name, tag, words) == [name |-> name, tag |-> tag, words |-> words, exact |-> name[1] \in ExactFields]

FieldEntries(doc) ==
  [i \in DOMAIN Schema[doc.type] |-> LET f == Schema[doc.type][i] IN Entry(<<f>>, f, doc.values[f])]

AddressEntries(doc) ==
  [i \in DOMAIN AddressParts |-> Entry(<<AddressParts[i]>>, AddressTag, doc.address[AddressParts[i]])]

TxnEntries(doc) ==
  LET column(k) == TxnColumns[((k - 1) % 4) + 1]
      row(k) == ((k - 1) \div 4) + 1
  IN  [k \in 1..4 * Len(doc.txns) |->
         Entry(<<column(k), row(k)>>, TxnTag[column(k)], doc.txns[row(k)][column(k)])]

GtLookup(doc) ==
  FieldEntries(doc) \o (CASE doc.type = "aadhaar" -> AddressEntries(doc)
                          [] doc.type = "bank_statement" -> TxnEntries(doc)
                          [] OTHER -> <<>>)

Values(doc) == {e \in Range(GtLookup(doc)) : e.words # <<>>}

\* _normalize_bbox: a line's edge in thousandths of the page.
NormalizeX(x, width) == (x * 1000) \div width

\* Python's round: to the nearest, halves to the even one.
Round(num, den) ==
  LET floor == num \div den
      twice == 2 * (num % den)
  IN  IF twice > den \/ (twice = den /\ floor % 2 = 1) THEN floor + 1 ELSE floor

\* Fault: the share is cut off, not rounded, and the line's end is left bare.
WordWidth_Floor(width, length, chars) == (width * length) \div chars

\* A word's share of the line's width.
WordWidth(width, length, chars) == Round(width * length, chars)

\* _split_line_into_word_tokens: where each word begins and ends, the line's
\* width shared out by the lengths of its words.
WordBoxes(lengths, left, right) ==
  LET width(k) == WordWidth(right - left, lengths[k], SumOf(lengths))
      end(k) == left + Total([j \in DOMAIN lengths |-> width(j)])[k]
  IN  [k \in DOMAIN lengths |-> <<end(k - 1), end(k)>>]

\* The words of the lines OCR is sure of, in the order they were read.
Tokens(page) ==
  LET tokens[i \in 0..Len(page)] ==
        IF i = 0 THEN <<>> ELSE tokens[i - 1] \o (IF page[i].sure THEN page[i].words ELSE <<>>)
  IN  tokens[Len(page)]

\* " ".join: the words with a blank between them.
Text(words) ==
  LET text[i \in 0..Len(words)] ==
        IF i = 0 THEN <<>> ELSE text[i - 1] \o (IF i = 1 THEN <<>> ELSE <<" ">>) \o words[i]
  IN  text[Len(words)]

\* _levenshtein: row by row, the edits from the first i letters of s to the
\* first j - 1 of t.
Levenshtein(s, t) ==
  LET min(a, b) == IF a < b THEN a ELSE b
      row[i \in 0..Len(s)] ==
        IF i = 0 THEN [j \in 1..Len(t) + 1 |-> j - 1]
        ELSE LET prev == row[i - 1]
                 curr[j \in 0..Len(t)] ==
                   IF j = 0 THEN <<i>>
                   ELSE LET done == curr[j - 1]
                            cost == IF s[i] = t[j] THEN 0 ELSE 1
                        IN  Append(done, min(min(done[j], prev[j + 1]) + 1, prev[j] + cost))
             IN  curr[Len(t)]
  IN  row[Len(s)][Len(t) + 1]

\* _fuzzy_match of what was read with a value; a value of one or two letters is
\* matched as it is.
FuzzyMatch(read, value, exact) ==
  /\ read # <<>> /\ value # <<>>
  /\ \/ read = value
     \/ ~exact /\ Len(value) >= 3 /\ Levenshtein(read, value) <= 2

Outside == <<"O">>

\* Where entry e can be read; a value of several words is matched as a whole, and
\* never exactly.
ReadAt(tokens, e) ==
  {i \in DOMAIN tokens :
     /\ e.words # <<>> /\ i + Len(e.words) - 1 <= Len(tokens)
     /\ FuzzyMatch(Text(SubSeq(tokens, i, i + Len(e.words) - 1)), Text(e.words), e.exact /\ Len(e.words) = 1)}

\* Of these, the places whose first word has no label yet.
Places(tokens, labels, e) == {i \in ReadAt(tokens, e) : labels[i] = Outside}

\* Fault: every word of a value is labelled as one inside it.
Labelled_AllInside(labels, i, e) ==
  [k \in DOMAIN labels |->
     IF k \in i..(i + Len(e.words) - 1) THEN <<"I", e.tag>> ELSE labels[k]]

Labelled(labels, i, e) ==
  [k \in DOMAIN labels |->
     IF k = i THEN <<"B", e.tag>>
     ELSE IF k \in i..(i + Len(e.words) - 1) THEN <<"I", e.tag>> ELSE labels[k]]

\* The first place is the value's.
Add(tokens, done, e) ==
  LET at == Places(tokens, done.labels, e)
      i  == CHOOSE k \in at : \A j \in at : k <= j
  IN  IF at = {} THEN done
      ELSE [labels |-> Labelled(done.labels, i, e), matched |-> done.matched \cup {e.name}]

\* annotate_document: the labels of the tokens, and the values it found.
AnnotateDocument(doc, page) ==
  LET tokens == Tokens(page)
      entries == GtLookup(doc)
      done[k \in 0..Len(entries)] ==
        IF k = 0 THEN [labels |-> [i \in DOMAIN tokens |-> Outside], matched |-> {}]
        ELSE Add(tokens, done[k - 1], entries[k])
  IN  done[Len(entries)]

\* What the gate looks for: the fields that have a value, an address that has
\* a door, a street or a city, and every column of a statement.
Expected(doc) ==
  {<<f, f>> : f \in {g \in Range(Schema[doc.type]) : doc.values[g] # <<>>}}
    \cup (IF doc.type = "aadhaar" /\ \E p \in {"door", "street", "city"} : doc.address[p] # <<>>
            THEN {<<"address", AddressTag>>} ELSE {})
    \cup (IF doc.type = "bank_statement" /\ doc.txns # <<>>
            THEN {<<c, TxnTag[c]>> : c \in Range(TxnColumns)} ELSE {})

\* validate_annotation: how many of them have a label, and whether it passes.
Validate(doc, labels, minPercent) ==
  LET tags == {l[2] : l \in {labels[i] : i \in DOMAIN labels} \ {Outside}}
      covered == {f \in Expected(doc) : f[2] \in tags}
      total == Cardinality(Expected(doc))
  IN  [covered |-> covered,
       passed |-> 100 * Cardinality(covered) >= minPercent * (IF total = 0 THEN 1 ELSE total)]
=============================================================================
