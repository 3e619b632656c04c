----------------------------- MODULE MCQrTrust -----------------------------
(* Instances of QrTrust for TLC: the cards of an applicant and of another  *)
(* person, with every kind of code, read well or badly, retouched or not.  *)
EXTENDS QrTrust, TLC

CONSTANTS ann, bob

TwoPeople == {ann, bob}
Kind(k, of) == [kind |-> k, of |-> of]

AadhaarShows == {"name", "dob", "address", "uid"}
PanShows     == {"name", "dob", "pan"}

Clean(class, owner, shows, code) ==
  [class |-> class, owner |-> owner, shows |-> shows, code |-> code,
   resaved |-> FALSE, edited |-> FALSE]

AadhaarCards ==
  {Clean("aadhaar", ann, AadhaarShows, c) :
     c \in {Kind(k, ann) : k \in {"secure", "resigned", "truncated", "digits"}}
           \cup {Kind("secure", bob), NoCode}}
PanCards ==
  {Clean("pan", ann, PanShows, c) :
     c \in {Kind(k, ann) : k \in {"record", "lower", "malformed"}}
           \cup {Kind("record", bob), NoCode}}
OddCards ==
  {Clean("aadhaar", ann, {"name"}, Kind("secure", ann)),
   [Clean("aadhaar", ann, AadhaarShows, Kind("resigned", bob)) EXCEPT !.resaved = TRUE, !.edited = TRUE],
   [Clean("pan", ann, PanShows, Kind("record", ann)) EXCEPT !.resaved = TRUE],
   Clean("passport", bob, {"name"}, NoCode)}

AllCards == AadhaarCards \cup PanCards \cup OddCards

\* A mock installation, and real ones with and without pyzbar and a key.
SomeSetups ==
  {[mock |-> TRUE, key |-> "absent", zbar |-> FALSE],
   [mock |-> FALSE, key |-> "garbled", zbar |-> TRUE],
   [mock |-> FALSE, key |-> "pem", zbar |-> FALSE],
   [mock |-> FALSE, key |-> "pem", zbar |-> TRUE]}
=============================================================================
