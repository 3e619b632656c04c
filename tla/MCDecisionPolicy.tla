-------------------------- MODULE MCDecisionPolicy --------------------------
(* Applicants on both sides of every threshold of the assessment.          *)
EXTENDS DecisionPolicy

Clean ==
  [pan |-> "active", panMatch |-> TRUE, aadhaar |-> "valid", otp |-> "matched",
   liveness |-> "live", face |-> "matched", wrongName |-> FALSE, wrongDob |-> FALSE,
   edited |-> FALSE, qrMissing |-> FALSE, qrUnreadable |-> FALSE, signature |-> "valid",
   qrWrong |-> {}, ela |-> FALSE, exif |-> FALSE, mrzInvalid |-> FALSE, ring |-> 0, graph |-> 5,
   slip |-> 720, itr |-> 0, itrBefore |-> 0, gst |-> 0, bank |-> 720, statement |-> TRUE,
   slipFault |-> FALSE, declared |-> 720, minimum |-> 20, emi |-> 20, salaried |-> TRUE,
   highValue |-> FALSE, vcip |-> "none", cibil |-> 750, dpd90 |-> FALSE, overdue |-> 0,
   activeLoans |-> 2, tier |-> 3, score |-> 85]

\* One thing wrong with the identity or its documents.
Blemished(e) ==
  {[e EXCEPT !.pan = p] : p \in {"unread", "incomplete", "format_invalid", "inactive"}}
  \cup {[e EXCEPT !.panMatch = FALSE], [e EXCEPT !.aadhaar = "invalid"],
        [e EXCEPT !.otp = "failed"], [e EXCEPT !.face = "mismatch"],
        [e EXCEPT !.face = "not_compared"], [e EXCEPT !.wrongName = TRUE],
        [e EXCEPT !.wrongDob = TRUE], [e EXCEPT !.edited = TRUE],
        [e EXCEPT !.qrMissing = TRUE], [e EXCEPT !.qrUnreadable = TRUE],
        [e EXCEPT !.ela = TRUE], [e EXCEPT !.exif = TRUE],
        [e EXCEPT !.ela = TRUE, !.exif = TRUE], [e EXCEPT !.mrzInvalid = TRUE]}
  \cup {[e EXCEPT !.liveness = v] : v \in {"borderline", "spoof"}}
  \cup {[e EXCEPT !.signature = s] : s \in {"missing", "invalid"}}
  \cup {[e EXCEPT !.qrWrong = w] : w \in {{"address"}, {"name"}, {"uid", "pan"}, QrField}}
  \cup {[e EXCEPT !.ring = r] : r \in {80, 81}} \cup {[e EXCEPT !.graph = g] : g \in {80, 90}}

\* One or two things wrong.
Suspicious == UNION {Blemished(b) : b \in Blemished(Clean) \cup {Clean}}

\* Incomes shown by one, two or three sources, near the minimum, the FOIR
\* limits and the expenses, and statements without a credit.
Incomes ==
  {[Clean EXCEPT !.slip = s, !.bank = b, !.itr = i, !.gst = g, !.declared = d, !.emi = m,
                 !.statement = st, !.salaried = sal] :
     s \in {0, 240, 480, 720}, b \in {0, 480, 510}, i \in {0, 230, 600}, g \in {0, 300},
     d \in {0, 480}, m \in {0, 20, 25, 30}, st \in BOOLEAN, sal \in BOOLEAN}

Credit ==
  {[Clean EXCEPT !.highValue = hv, !.vcip = v, !.cibil = c, !.emi = m, !.score = s,
                 !.tier = t, !.activeLoans = n, !.dpd90 = d, !.overdue = o] :
     hv \in BOOLEAN, v \in {"none", "open", "completed", "failed"},
     c \in {649, 650, 699, 700}, m \in {20, 31, 37}, s \in {39, 40, 69, 70},
     t \in {3, 4}, n \in {3, 4}, d \in BOOLEAN, o \in {0, 1}}

ThresholdApplicants == {e \in Suspicious \cup Incomes \cup Credit : Coherent(e)}

ToCleaner ==
  {<<"pan", "incomplete">>, <<"pan", "active">>, <<"panMatch", TRUE>>, <<"aadhaar", "valid">>,
   <<"otp", "matched">>, <<"liveness", "borderline">>, <<"liveness", "live">>,
   <<"face", "not_compared">>, <<"face", "matched">>, <<"signature", "missing">>,
   <<"signature", "valid">>, <<"qrWrong", {"address"}>>, <<"qrWrong", {}>>, <<"ring", 80>>,
   <<"ring", 0>>, <<"graph", 5>>, <<"emi", 25>>, <<"emi", 20>>, <<"minimum", 15>>, <<"overdue", 0>>,
   <<"activeLoans", 3>>, <<"tier", 3>>, <<"cibil", 650>>, <<"cibil", 700>>, <<"score", 40>>,
   <<"score", 70>>, <<"vcip", "open">>, <<"vcip", "completed">>}
  \cup {<<f, FALSE>> : f \in {"wrongName", "wrongDob", "edited", "qrMissing", "qrUnreadable",
                              "ela", "exif", "mrzInvalid", "slipFault", "dpd90", "highValue"}}
=============================================================================
