---------------------------- MODULE IdAllocator ----------------------------
(* What a pool of identifiers promises its users: an identifier has at most *)
(* one user at a time, a request fails only when it cannot be served, and   *)
(* giving back an identifier that nobody uses is refused.                   *)
EXTENDS Integers

CONSTANTS MinValue, MaxValue     \* the range of identifiers the pool is built with

VARIABLES
  inUse,                  \* the identifiers handed out or withdrawn
  res                     \* what the last operation answered: [ok, value]

vars == <<inUse, res>>

Ids == MinValue .. MaxValue

Init == /\ inUse = {}
        /\ res = [ok |-> TRUE, value |-> 0]

\* Any unused identifier may be handed out; the request fails when none is left.
Take == \/ \E v \in Ids \ inUse : /\ inUse' = inUse \cup {v}
                                  /\ res' = [ok |-> TRUE, value |-> v]
        \/ /\ Ids \subseteq inUse
           /\ res' = [ok |-> FALSE, value |-> 0]
           /\ UNCHANGED inUse

\* A given identifier is handed out exactly when it is unused.
TakeThis(v) == /\ res' = [ok |-> v \in Ids \ inUse, value |-> v]
               /\ inUse' = IF v \in Ids THEN inUse \cup {v} ELSE inUse

\* An identifier is taken back exactly when it is in use.
Give(v) == /\ res' = [ok |-> v \in inUse, value |-> v]
           /\ inUse' = inUse \ {v}

\* A range is withdrawn from use before the pool serves anybody.
Withdraw(first, last) == /\ inUse' = inUse \cup ((first .. last) \cap Ids)
                         /\ UNCHANGED res

Next == \/ Take
        \/ \E v \in MinValue - 1 .. MaxValue + 1 : TakeThis(v) \/ Give(v)
        \/ \E first, last \in Ids : Withdraw(first, last)

Spec == Init /\ [][Next]_vars
=============================================================================
