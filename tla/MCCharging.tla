----------------------------- MODULE MCCharging -----------------------------
(* A session with a charged flow and a charged whole, of one rating group.   *)
EXTENDS Charging

CONSTANTS flow, pdu

OneGroup == [u \in {flow, pdu} |-> 1]
=============================================================================
