---------------------------- MODULE OrderMonitor ----------------------------
(***************************************************************************)
(* The order monitor (orderMonitor in cmd/bot/main.go): every 15 seconds   *)
(* it lists the account's open orders, and each one whose price is no      *)
(* longer competitive is cancelled and placed again, with the amount that  *)
(* was pending when it was listed.  It works through its list one order at *)
(* a time, and PlaceOrder blocks until the new order is seen to be filled  *)
(* or times out: what the list says grows old meanwhile.                   *)
(*                                                                         *)
(* The exchange executes orders at any time; the goroutine that placed an  *)
(* order first still follows it and cancels it at its deadline.  Prices    *)
(* are left out: whether an order is competitive is any answer.            *)
(***************************************************************************)
EXTENDS Integers, FiniteSets, FiniteSetsExt, Sequences, SequencesExt

CONSTANTS
    Wanted,       \* amounts of the orders the bot has placed, as a sequence
    MaxOrders     \* bound: orders ever placed, those of the monitor included

ASSUME WantedAssumption == Wanted \in Seq(Nat \ {0}) /\ Len(Wanted) <= MaxOrders
ASSUME MaxOrdersAssumption == MaxOrders \in Nat

VARIABLES
    orders,   \* the exchange's orders, in the order they were placed
    monitor,  \* locals of orderMonitor
    drift     \* history: what was filled of an order between the monitor's
              \* list and its cancellation, per order first wanted

ordersVars == <<orders, monitor, drift>>

Origins == 1..Len(Wanted)

\* An order descends from the order first wanted that it replaces.
NewOrder(origin, amount) ==
    [origin |-> origin, amount |-> amount, filled |-> 0, open |-> TRUE]
Pending(o) == orders[o].amount - orders[o].filled
OpenOrders == {o \in 1..Len(orders) : orders[o].open}

\* Between ticks the monitor remembers nothing.
Waiting == [pc |-> "tick", list |-> <<>>, order |-> 0]

-----------------------------------------------------------------------------
(***************************************************************************)
(* The exchange, and the callers that placed the orders.                   *)
(***************************************************************************)
\* Some or all of what an order asks for is executed.
Fill(o) ==
    /\ o \in OpenOrders
    /\ \E q \in 1..Pending(o) :
          orders' = [orders EXCEPT ![o].filled = @ + q, ![o].open = q # Pending(o)]
    /\ UNCHANGED <<monitor, drift>>

\* The deadline of the PlaceOrder call that follows an order of the bot.
CallerCancels(o) ==
    /\ o \in OpenOrders \cap Origins
    /\ orders' = [orders EXCEPT ![o].open = FALSE]
    /\ UNCHANGED <<monitor, drift>>

-----------------------------------------------------------------------------
(***************************************************************************)
(* The monitor.                                                            *)
(***************************************************************************)
\* A tick that finds open orders: GetOpenOrders gives each, in the order the
\* exchange chooses, with its pending amount.  Ticks with an error, without
\* orders or without prices do nothing.
List ==
    /\ monitor.pc = "tick"
    /\ OpenOrders # {}
    /\ \E open \in SetToSeqs(OpenOrders) :
          monitor' = [pc |-> "order", order |-> 0,
                      list |-> [i \in 1..Len(open) |->
                                  [order |-> open[i], pending |-> Pending(open[i])]]]
    /\ UNCHANGED <<orders, drift>>

\* Done with the first order of the list.
Forward ==
    monitor' = IF Len(monitor.list) = 1 THEN Waiting
               ELSE [pc |-> "order", list |-> Tail(monitor.list), order |-> 0]

\* The first order of the list is competitive.
Competitive ==
    /\ monitor.pc = "order"
    /\ Forward
    /\ UNCHANGED <<orders, drift>>

\* It is not, and CancelOrder succeeds: the order was still open.  (The pending
\* amount that counts is the listed one.)
Cancelled ==
    LET first == Head(monitor.list) IN
    /\ monitor.pc = "order"
    /\ first.order \in OpenOrders
    /\ orders' = [orders EXCEPT ![first.order].open = FALSE]
    /\ drift' = [drift EXCEPT ![orders[first.order].origin] =
                    @ + first.pending - Pending(first.order)]
    /\ monitor' = [monitor EXCEPT !.pc = "replace"]

\* Mutant: a failed cancellation is only logged.
NotCancelledReplaces ==
    /\ monitor.pc = "order"
    /\ monitor' = [monitor EXCEPT !.pc = "replace"]
    /\ UNCHANGED <<orders, drift>>

\* It is not, and CancelOrder fails, because the order is no longer open or the
\* request is lost: the monitor goes on with the next one.
NotCancelled ==
    /\ monitor.pc = "order"
    /\ Forward
    /\ UNCHANGED <<orders, drift>>

\* The cancellation is executed, its reply lost: an error as well.
CancelReplyLost ==
    /\ monitor.pc = "order"
    /\ Head(monitor.list).order \in OpenOrders
    /\ orders' = [orders EXCEPT ![Head(monitor.list).order].open = FALSE]
    /\ Forward
    /\ UNCHANGED drift

\* PlaceOrder for the pending amount of the list: the exchange accepts the order,
\* and PlaceOrder monitors it, or the reply is lost and PlaceOrder returns.
Replace ==
    LET first == Head(monitor.list) IN
    /\ monitor.pc = "replace"
    /\ Len(orders) < MaxOrders
    /\ orders' = Append(orders, NewOrder(orders[first.order].origin, first.pending))
    /\ \/ monitor' = [monitor EXCEPT !.pc = "follow", !.order = Len(orders) + 1]
       \/ Forward
    /\ UNCHANGED drift

\* PlaceOrder fails: a risk check, a refused or lost request.
ReplaceFails ==
    /\ monitor.pc = "replace"
    /\ Forward
    /\ UNCHANGED <<orders, drift>>

\* PlaceOrder sees an execution of the new order and returns ...
FollowFilled ==
    /\ monitor.pc = "follow"
    /\ orders[monitor.order].filled > 0
    /\ Forward
    /\ UNCHANGED <<orders, drift>>

\* ... or its deadline passes and it cancels the order, if that succeeds.
FollowTimesOut ==
    /\ monitor.pc = "follow"
    /\ Forward
    /\ \/ orders' = [orders EXCEPT ![monitor.order].open = FALSE]
       \/ UNCHANGED orders
    /\ UNCHANGED drift

-----------------------------------------------------------------------------
InitOrders ==
    /\ orders = [o \in Origins |-> NewOrder(o, Wanted[o])]
    /\ monitor = Waiting
    /\ drift = [o \in Origins |-> 0]

Exchange == \E o \in 1..Len(orders) : Fill(o) \/ CallerCancels(o)

Monitor ==
    \/ Competitive \/ Cancelled \/ NotCancelled \/ CancelReplyLost
    \/ Replace \/ ReplaceFails \/ FollowFilled \/ FollowTimesOut

-----------------------------------------------------------------------------
\* What an order still stands for: what was executed of it, and what may be.
Exposure ==
    [o \in 1..Len(orders) |-> IF orders[o].open THEN orders[o].amount ELSE orders[o].filled]
Family(origin) == {o \in 1..Len(orders) : orders[o].origin = origin}

\* An order and its replacements together never ask for more than was wanted,
\* but for what was executed between the monitor's list and its cancellation:
\* that part is ordered twice.  A replacement that is replaced again, a lost
\* reply and the deadline of the first caller do not add to it.
OrderedOnceButForDrift ==
    \A origin \in Origins :
        SumFunctionOnSet(Exposure, Family(origin)) <= Wanted[origin] + drift[origin]
=============================================================================
