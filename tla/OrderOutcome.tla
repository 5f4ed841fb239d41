---------------------------- MODULE OrderOutcome ----------------------------
(***************************************************************************)
(* What LiveExecutionEngine.PlaceOrder promises its callers about an order *)
(* the exchange has accepted: it is followed until it has exactly one      *)
(* outcome, and the position moves by the order's signed amount when, and  *)
(* only when, that outcome is "booked".                                    *)
(*                                                                         *)
(*   none    -> pending     accepted, and a PlaceOrder call follows it     *)
(*   none    -> lost        accepted, but the reply never arrived          *)
(*   pending -> booked      a transaction was seen: the books record it    *)
(*   pending -> closed      the call gave up: a cancelled row is written   *)
(***************************************************************************)
EXTENDS Integers

CONSTANT Orders  \* the order identifiers the exchange hands out

VARIABLES
    outcome,  \* outcome[o]: how far order o has come
    signed,   \* signed[o]: its amount, negative for a sell
    net       \* the position the engine reports

vars == <<outcome, signed, net>>

Outcome == {"none", "pending", "lost", "booked", "closed"}

Init ==
    /\ outcome = [o \in Orders |-> "none"]
    /\ signed = [o \in Orders |-> 0]
    /\ net = 0

Place(o, result) ==
    /\ outcome[o] = "none"
    /\ outcome' = [outcome EXCEPT ![o] = result]
    /\ signed' = [signed EXCEPT ![o] = signed'[o]]
    /\ signed'[o] # 0
    /\ UNCHANGED net

Book(o) ==
    /\ outcome[o] = "pending"
    /\ outcome' = [outcome EXCEPT ![o] = "booked"]
    /\ net' = net + signed[o]
    /\ UNCHANGED signed

Close(o) ==
    /\ outcome[o] = "pending"
    /\ outcome' = [outcome EXCEPT ![o] = "closed"]
    /\ UNCHANGED <<signed, net>>

Next ==
    \E o \in Orders :
        \/ \E result \in {"pending", "lost"} : Place(o, result)
        \/ Book(o)
        \/ Close(o)

Spec == Init /\ [][Next]_vars
=============================================================================
