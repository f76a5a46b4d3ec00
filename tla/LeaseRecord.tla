---------------------------- MODULE LeaseRecord ----------------------------
(***************************************************************************)
(* What a lease file promises to whoever reads it: it is granted once, open *)
(* with version 1; every later change of it takes the version one further;  *)
(* a change of owner takes the owner token with it; and a closed lease      *)
(* never changes again.  The tokens are random in the code and counted      *)
(* here: a token that is not the current one has a smaller number.          *)
(***************************************************************************)
EXTENDS Naturals

CONSTANT Servers

VARIABLE record

Unleased == [status |-> "none", token |-> 0, version |-> 0]
Granted  == [status |-> "open", token |-> 1, version |-> 1]

Closed(l)     == [l EXCEPT !.status = "closed", !.version = @ + 1]
HandedOver(l) == [l EXCEPT !.token = @ + 1, !.version = @ + 1]

Init == record = [s \in Servers |-> Unleased]

Grant(s) == /\ record[s] = Unleased
            /\ record' = [record EXCEPT ![s] = Granted]

HandOver(s) == /\ record[s].status = "open"
               /\ record' = [record EXCEPT ![s] = HandedOver(@)]

Close(s) == /\ record[s].status = "open"
            /\ record' = [record EXCEPT ![s] = Closed(@)]

Next == \E s \in Servers : Grant(s) \/ HandOver(s) \/ Close(s)

Spec == Init /\ [][Next]_record
=============================================================================
