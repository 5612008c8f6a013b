--------------------------- MODULE MCEventStream ---------------------------
(* Small instances of EventStream for TLC. *)
EXTENDS EventStream

CONSTANTS s1, s2, alert, note

OneSub   == {s1}
TwoSubs  == {s1, s2}
OneType  == {alert}
TwoTypes == {alert, note}

(* The first client wants everything, the second only alerts. *)
AllOrAlerts == [s \in Subs |-> IF s = s1 THEN {} ELSE {alert}]
Alerts      == [s \in Subs |-> {alert}]
=============================================================================
