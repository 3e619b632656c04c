---------------------------- MODULE IdentityGraph ----------------------------
(***************************************************************************)
(* The two graphs fraud scoring looks at, as values and the operations on  *)
(* them.  Neo4j (graph.py): an edge links an application to the value of   *)
(* one of its attributes; three queries look for rings.  GraphSAGEWrapper: *)
(* a node per application, kept in memory, with its PAN and Aadhaar.       *)
(***************************************************************************)
EXTENDS Integers, FiniteSets, Sequences

CONSTANT None       \* an attribute that is missing or blank

-----------------------------------------------------------------------------
(* Neo4j                                                                   *)

\* _ATTRIBUTES, in the order ingest_application links them.
Attributes == <<"pan", "aadhaar", "phone", "email", "device", "address">>
Attribute  == {Attributes[i] : i \in 1..Len(Attributes)}

\* ingest_application up to its n-th attribute, each a transaction of its own:
\* what remains when the connection breaks there.
Ingested(edges, a, held, n) ==
  edges \cup {[app |-> a, field |-> f, value |-> held[f]] :
                f \in {Attributes[i] : i \in {j \in 1..n : held[Attributes[j]] # None}}}

ValuesOf(edges, a, f) == {e.value : e \in {x \in edges : x.app = a /\ x.field = f}}
Sharers(edges, a, f, v) ==
  {e.app : e \in {x \in edges : x.field = f /\ x.value = v /\ x.app # a}}

Ring(type, peers, severity) == [type |-> type, peers |-> peers, severity |-> severity]
AtMostOne(tenths) == IF tenths > 10 THEN 10 ELSE tenths

\* One phone or email linked to several PANs; severities are in tenths.
PanFarming(edges, a) ==
  LET pans == ValuesOf(edges, a, "pan")
      others(b) == {y \in ValuesOf(edges, b, "pan") : pans \ {y} # {}}
      peers(f, v) == {b \in Sharers(edges, a, f, v) : others(b) # {}}
  IN  {Ring("pan_farming", peers(s[1], s[2]),
            AtMostOne(6 + Cardinality(UNION {others(b) : b \in peers(s[1], s[2])}))) :
         s \in {t \in {<<f, v>> : f \in {"phone", "email"},
                                   v \in {e.value : e \in edges}} :
                  /\ t[2] \in ValuesOf(edges, a, t[1])
                  /\ peers(t[1], t[2]) # {}}}

\* One device shared with another application.
DeviceRings(edges, a) ==
  {Ring("synthetic_identity_ring", Sharers(edges, a, "device", v),
        AtMostOne(7 + Cardinality(Sharers(edges, a, "device", v)))) :
     v \in {w \in ValuesOf(edges, a, "device") : Sharers(edges, a, "device", w) # {}}}

\* One address shared with two others or more.
AddressRings(edges, a) ==
  {Ring("address_inconsistency_ring", Sharers(edges, a, "address", v),
        AtMostOne(5 + Cardinality(Sharers(edges, a, "address", v)))) :
     v \in {w \in ValuesOf(edges, a, "address") : Cardinality(Sharers(edges, a, "address", w)) >= 2}}

DetectFraudRings(edges, a) ==
  PanFarming(edges, a) \cup DeviceRings(edges, a) \cup AddressRings(edges, a)

-----------------------------------------------------------------------------
(* GraphSAGEWrapper                                                        *)

SameIdentity(m, n) ==
  m.pan # None /\ m.aadhaar # None /\ m.pan = n.pan /\ m.aadhaar = n.aadhaar

\* _graph_features: an older node of the same identity is dropped, and the
\* application's own is replaced.
Inserted(nodes, new) ==
  {n \in nodes : n.app # new.app /\ ~SameIdentity(new, n)} \cup {new}

Matches(m, n) ==
  \/ m.pan # None /\ m.pan = n.pan
  \/ m.aadhaar # None /\ m.aadhaar = n.aadhaar

Neighbours(nodes, new) == {n \in nodes : n.app # new.app /\ Matches(new, n)}
=============================================================================
