---------------------------- MODULE MCLinkChange ----------------------------
(* Instances of LinkChange for TLC: every parameter has two values, those of   *)
(* the spreading factor 7 and 12; a send on the latter outlasts RspWait        *)
EXTENDS LinkChange

McValid    == [p \in Param |-> {7, 12}]
McDefault  == [p \in Param |-> 7]
McSendWait == [s \in Setting |-> IF \E p \in AirParam : s[p] = 12 THEN 3 ELSE 1]

=============================================================================
