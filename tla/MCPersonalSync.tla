--------------------------- MODULE MCPersonalSync ---------------------------
(***************************************************************************)
(* Instances of PersonalSync for TLC.                                      *)
(***************************************************************************)
EXTENDS PersonalSync

CONSTANTS a, b, c, v, w, it

\* a and c reach each other only by way of b.
Chain == {<<a, b>>, <<b, a>>, <<b, c>>, <<c, b>>}
Pair == {<<a, b>>, <<b, a>>}
OneWay == {<<a, b>>}

\* Two paired devices, each with one edit it has not published yet: a state two
\* Edit steps after Init, from which conflicts and their resolution are near.
EditedApart ==
    /\ changes = <<[item |-> it, over |-> {}, value |-> v], [item |-> it, over |-> {}, value |-> w]>>
    /\ certs = <<[members |-> Founders, line |-> {1}]>>
    /\ history = [d \in Devices |-> IF d = a THEN {1} ELSE {2}]
    /\ record = [d \in Devices |-> [x \in Items |-> IF d = a THEN v ELSE w]]
    /\ pending = [d \in Devices |-> Items]
    /\ prepared = [d \in Devices |-> None]
    /\ receipts = [d \in Devices |-> {}]
    /\ pinned = [d \in Devices |-> 1]
    /\ joining = [d \in Devices |-> FALSE]
    /\ group = pinned
    /\ spool = [d \in Devices |-> {}]
    /\ step = [d \in Devices |-> "idle"]
    /\ shown = [d \in Devices |-> [x \in Items |-> {}]]

ApartSpec == EditedApart /\ [][Next]_vars

=============================================================================
