----------------------------- MODULE LiveEngine -----------------------------
(***************************************************************************)
(* LiveExecutionEngine.PlaceOrder (internal/engine/execution_engine.go):   *)
(* the goroutines that call it, the exchange it talks to, and the books    *)
(* (position, realized PnL, rows handed to the database writer) it keeps.  *)
(*                                                                         *)
(* The bot calls PlaceOrder from the signal loop, from every TWAP          *)
(* goroutine and from the order monitor, without a lock around the call:   *)
(* only the position and the PnL calculator are locked, one access at a    *)
(* time.  Callers are those goroutines.  Each call runs through            *)
(*                                                                         *)
(*   idle -> drawdown -> position -> submit -> monitor -> book -> pnl      *)
(*                                               |                         *)
(*                                               +-----> record            *)
(*                                                                         *)
(* and goes back to idle where the code returns.  One step of the model is *)
(* one access to something other goroutines or the exchange can change.    *)
(*                                                                         *)
(* The exchange is external: it accepts, fills (in parts) and cancels      *)
(* orders, and any request or reply may be lost.                           *)
(***************************************************************************)
EXTENDS Integers, FiniteSets, FiniteSetsExt, Position

CONSTANTS
    Callers,         \* goroutines that call PlaceOrder
    Requests,        \* the TradeParams they pass: [side, amount, rate]
    MaxOrders,       \* bound: orders the exchange accepts in one behaviour
    InitJpy,         \* yen on the account at the start
    InitBtc,         \* lots on the account at the start
    MaxDrawdownPct,  \* cfg.Trade.Risk.MaxDrawdownPercent
    MaxPositionPct   \* cfg.Trade.Risk.MaxPositionRatio, in percent

Request == [side : {"buy", "sell"}, amount : Nat \ {0}, rate : Nat \ {0}]

ASSUME CallersAssumption == IsFiniteSet(Callers)
ASSUME RequestsAssumption == Requests # {} /\ Requests \subseteq Request
ASSUME BoundAssumption == MaxOrders \in Nat \ {0}
ASSUME BalanceAssumption == InitJpy \in Nat /\ InitBtc \in Nat
ASSUME RiskAssumption == MaxDrawdownPct \in Nat /\ MaxPositionPct \in Nat

Orders == 1..MaxOrders
NoOrder == 0

VARIABLES
    exited,   \* main has returned: every goroutine is gone
    call,     \* call[c]: the locals of c's call of PlaceOrder
    orders,   \* the exchange's orders: [side, amount, rate, filled, status]
    placed,   \* how many it has accepted; their identifiers are 1..placed
    account,  \* the account there: the yen and the lots free to spend
    pos,      \* e.position
    pnl,      \* e.pnlCalculator.RealizedPnL
    rows,     \* rows[o]: how many trade rows were saved for order o
    lost      \* orders accepted whose reply never arrived (a history variable)

exchange == <<orders, placed, account>>
books == <<pos, pnl, rows>>
vars == <<exited, call, exchange, books, lost>>

\* The locals: pc, the parameters, the balance read, the order monitored and
\* the realized PnL position.Update returned.  A local no later line reads is
\* reset, so that an idle caller has no memory.
Idle ==
    [pc |-> "idle", req |-> [side |-> "buy", amount |-> 1, rate |-> 1],
     bal |-> [jpy |-> 0, btc |-> 0], ord |-> NoOrder, delta |-> ZeroYen]

-----------------------------------------------------------------------------
(***************************************************************************)
(* The exchange's account.                                                 *)
(***************************************************************************)
Unplaced == [side |-> "buy", amount |-> 1, rate |-> 1, filled |-> 0, status |-> "none"]

\* What an order for q more lots sets aside on the account, and what their
\* execution brings in.
Reserved(r, q) ==
    IF r.side = "buy" THEN [jpy |-> q * r.rate, btc |-> 0] ELSE [jpy |-> 0, btc |-> q]
Gained(r, q) ==
    IF r.side = "buy" THEN [jpy |-> 0, btc |-> q] ELSE [jpy |-> q * r.rate, btc |-> 0]

Plus(a, b) == [jpy |-> a.jpy + b.jpy, btc |-> a.btc + b.btc]
Minus(a, b) == [jpy |-> a.jpy - b.jpy, btc |-> a.btc - b.btc]

Affordable(r) ==
    LET rest == Minus(account, Reserved(r, r.amount)) IN rest.jpy >= 0 /\ rest.btc >= 0

\* The order is accepted under the next identifier.
Accept(r) ==
    /\ placed < MaxOrders
    /\ Affordable(r)
    /\ placed' = placed + 1
    /\ orders' = [orders EXCEPT ![placed + 1] =
                    [side |-> r.side, amount |-> r.amount, rate |-> r.rate,
                     filled |-> 0, status |-> "open"]]
    /\ account' = Minus(account, Reserved(r, r.amount))

\* Some or all of what an open order still asks for is executed.
Fill(o) ==
    /\ orders[o].status = "open"
    /\ \E q \in 1..(orders[o].amount - orders[o].filled) :
          /\ orders' = [orders EXCEPT
                          ![o].filled = @ + q,
                          ![o].status = IF orders[o].filled + q = orders[o].amount
                                        THEN "filled" ELSE "open"]
          /\ account' = Plus(account, Gained(orders[o], q))
    /\ UNCHANGED <<exited, call, placed, books, lost>>

\* The order is taken off the book, and what it still reserves is released.  An
\* order that is no longer open stays as it is.
TakeOff(o) ==
    IF orders[o].status = "open"
    THEN /\ orders' = [orders EXCEPT ![o].status = "cancelled"]
         /\ account' = Plus(account, Reserved(orders[o], orders[o].amount - orders[o].filled))
    ELSE UNCHANGED <<orders, account>>

-----------------------------------------------------------------------------
(***************************************************************************)
(* PlaceOrder.                                                             *)
(***************************************************************************)
At(c, label) == call[c].pc = label /\ ~exited
Goto(c, label) == call' = [call EXCEPT ![c].pc = label]
Return(c) == call' = [call EXCEPT ![c] = Idle]

\* A call of PlaceOrder up to the reply of GetBalance.  With trading disabled
\* (ENABLE_TRADE, fixed when the process starts), or without a reply, it returns
\* at once and nothing has changed.  Calls that may still submit leave room below
\* MaxOrders.
MaySubmit == {c \in Callers : call[c].pc \in {"drawdown", "position", "submit"}}

Call(c) ==
    /\ At(c, "idle")
    /\ placed + Cardinality(MaySubmit) < MaxOrders
    /\ \E r \in Requests :
          call' = [call EXCEPT ![c] = [Idle EXCEPT !.pc = "drawdown", !.req = r,
                                                   !.bal = account]]
    /\ UNCHANGED <<exited, exchange, books, lost>>

\* A check passes to the next one, or PlaceOrder returns a RiskCheckError.
Check(c, failed, next) ==
    /\ IF failed THEN Return(c) ELSE Goto(c, next)
    /\ UNCHANGED <<exited, exchange, books, lost>>

\* Mutant: the sign of the realized loss is forgotten.
UnsignedDrawdown(b) == pnl.num * 100 > b.jpy * MaxDrawdownPct * pnl.den

\* The maximum drawdown check: the loss against the yen balance.
DrawdownExceeded(b) == -pnl.num * 100 > b.jpy * MaxDrawdownPct * pnl.den

CheckDrawdown(c) ==
    /\ At(c, "drawdown")
    /\ Check(c, DrawdownExceeded(call[c].bal), "position")

\* Mutant: the value of the position already held is left out.
OrderAloneExceeds(r, b) ==
    IF r.side = "buy" THEN r.amount * r.rate * 100 > b.jpy * MaxPositionPct
    ELSE r.amount > b.btc

\* The position size check: the value of a buy and of the position held against
\* the yen balance, the amount of a sell against the coins on the account.
PositionExceeded(r, b) ==
    IF r.side = "buy"
    THEN (Abs(CostOf(pos).num) + r.amount * r.rate * pos.den) * 100
            > b.jpy * MaxPositionPct * pos.den
    ELSE r.amount > b.btc

CheckPosition(c) ==
    /\ At(c, "position")
    /\ Check(c, PositionExceeded(call[c].req, call[c].bal), "submit")

\* NewOrder, answered: the call goes on to monitor the order.
SubmitAccepted(c) ==
    /\ At(c, "submit")
    /\ Accept(call[c].req)
    /\ call' = [call EXCEPT ![c] = [Idle EXCEPT !.pc = "monitor", !.ord = placed + 1]]
    /\ UNCHANGED <<exited, books, lost>>

\* NewOrder executed by the exchange, its reply lost: PlaceOrder returns the
\* error and forgets the order, whose identifier it never learned.
SubmitReplyLost(c) ==
    /\ At(c, "submit")
    /\ Accept(call[c].req)
    /\ lost' = lost \cup {placed + 1}
    /\ Return(c)
    /\ UNCHANGED <<exited, books>>

\* NewOrder refused (success = false), or its request lost: an error as well.
SubmitRefused(c) ==
    /\ At(c, "submit")
    /\ Return(c)
    /\ UNCHANGED <<exited, exchange, books, lost>>

\* Mutant: an error of GetTransactions ends the call.
PollMissReturns(c) ==
    /\ At(c, "monitor")
    /\ Return(c)
    /\ UNCHANGED <<exited, exchange, books, lost>>

\* A poll that finds no transaction of the order, or gets an error: the loop
\* waits for the next tick.
PollMiss(c) == At(c, "monitor") /\ UNCHANGED vars

\* A poll that finds a transaction of the order: the first one ends the loop,
\* even when it executes only part of the amount.
PollHit(c) ==
    /\ At(c, "monitor")
    /\ orders[call[c].ord].filled > 0
    /\ Goto(c, "book")
    /\ UNCHANGED <<exited, exchange, books, lost>>

SignedAmount(o) == IF orders[o].side = "sell" THEN -orders[o].amount ELSE orders[o].amount

\* SaveTrade and position.Update, with the order's whole amount as the size.
BookTrade(c) ==
    LET o == call[c].ord
        t == SignedAmount(o)
    IN  /\ At(c, "book")
        /\ rows' = [rows EXCEPT ![o].booked = @ + 1]
        /\ pos' = Update(pos, t, orders[o].rate)
        /\ call' = [call EXCEPT ![c].pc = "pnl",
                                ![c].delta = RealizedBy(pos, t, orders[o].rate)]
        /\ UNCHANGED <<exited, exchange, pnl, lost>>

\* pnlCalculator.UpdateRealizedPnL, skipped when nothing was realized.
AddRealized(c) ==
    pnl' = IF call[c].delta.num = 0 THEN pnl ELSE AddYen(pnl, call[c].delta)

\* The realized PnL is added and the filled order is returned.
BookPnl(c) ==
    /\ At(c, "pnl")
    /\ AddRealized(c)
    /\ Return(c)
    /\ UNCHANGED <<exited, exchange, pos, rows, lost>>

\* The deadline has passed or the parent context is done.  CancelOrder reaches
\* the exchange, which cancels the order if it is still open ...
CancelReached(c) ==
    /\ At(c, "monitor")
    /\ TakeOff(call[c].ord)
    /\ Goto(c, "record")
    /\ UNCHANGED <<exited, placed, books, lost>>

\* ... or it does not.  The error is logged and the call goes on alike.
CancelFailed(c) ==
    /\ At(c, "monitor")
    /\ Goto(c, "record")
    /\ UNCHANGED <<exited, exchange, books, lost>>

\* Mutant: the timed-out call saves its row and monitors the order again.
RecordCancelledKeepsPolling(c) ==
    /\ At(c, "record")
    /\ rows' = [rows EXCEPT ![call[c].ord].cancelled = 1]
    /\ Goto(c, "monitor")
    /\ UNCHANGED <<exited, exchange, pos, pnl, lost>>

\* The row with is_cancelled = TRUE, and the return of a timed-out order.
RecordCancelled(c) ==
    /\ At(c, "record")
    /\ rows' = [rows EXCEPT ![call[c].ord].cancelled = @ + 1]
    /\ Return(c)
    /\ UNCHANGED <<exited, exchange, pos, pnl, lost>>

-----------------------------------------------------------------------------
(***************************************************************************)
(* The rest of the process.                                                *)
(***************************************************************************)
\* CancelOrder called by another goroutine: the order monitor takes any open
\* order of the account off the book before it places it again.
CancelOrder(o) ==
    /\ ~exited
    /\ orders[o].status = "open"
    /\ TakeOff(o)
    /\ UNCHANGED <<exited, call, placed, books, lost>>

\* main cancels the context, sleeps one second and returns, wherever the
\* goroutines stand.
Exit ==
    /\ ~exited
    /\ exited' = TRUE
    /\ UNCHANGED <<call, exchange, books, lost>>

-----------------------------------------------------------------------------
Init ==
    /\ exited = FALSE
    /\ call = [c \in Callers |-> Idle]
    /\ orders = [o \in Orders |-> Unplaced]
    /\ placed = 0
    /\ account = [jpy |-> InitJpy, btc |-> InitBtc]
    /\ pos = Flat
    /\ pnl = ZeroYen
    /\ rows = [o \in Orders |-> [booked |-> 0, cancelled |-> 0]]
    /\ lost = {}

\* The steps by which a call that has begun comes to its end.
Proceed(c) ==
    \/ CheckDrawdown(c)
    \/ CheckPosition(c)
    \/ SubmitAccepted(c)
    \/ SubmitReplyLost(c)
    \/ SubmitRefused(c)
    \/ BookTrade(c)
    \/ BookPnl(c)
    \/ RecordCancelled(c)

\* Mutant: a cancellation that did not succeed is tried again.
ExpireUntilCancelled(c) ==
    /\ CancelReached(c)
    /\ orders[call[c].ord].status = "open"

\* The timeout of the call's context.
Expire(c) == CancelReached(c) \/ CancelFailed(c)

Next ==
    \/ \E c \in Callers : Call(c) \/ Proceed(c) \/ PollMiss(c) \/ PollHit(c) \/ Expire(c)
    \/ \E o \in Orders : Fill(o) \/ CancelOrder(o)
    \/ Exit

Spec == Init /\ [][Next]_vars

\* A goroutine that can run does run: its HTTP requests end within the client's
\* timeout of ten seconds, and the deadline of its context passes.  Nothing is
\* assumed of the exchange, of the callers, or of a poll finding anything.
Fairness == \A c \in Callers : WF_vars(Proceed(c)) /\ WF_vars(Expire(c))

FairSpec == Spec /\ Fairness

-----------------------------------------------------------------------------
(***************************************************************************)
(* Properties.                                                             *)
(***************************************************************************)
Label == {"idle", "drawdown", "position", "submit", "monitor", "book", "pnl", "record"}
Status == {"none", "open", "filled", "cancelled"}

Account == [jpy : Int, btc : Int]
CallType == [pc : Label, req : Request, bal : Account,
             ord : Orders \cup {NoOrder}, delta : Frac]
OrderType == [side : {"buy", "sell"}, amount : Nat \ {0}, rate : Nat \ {0},
              filled : Nat, status : Status]

\* The types of the variables.
TypeOK ==
    /\ exited \in BOOLEAN
    /\ call \in [Callers -> CallType]
    /\ orders \in [Orders -> OrderType]
    /\ placed \in 0..MaxOrders
    /\ account \in Account
    /\ pos \in PositionType
    /\ pnl \in Frac
    /\ rows \in [Orders -> [booked : Nat, cancelled : Nat]]
    /\ lost \subseteq Orders

\* The calls that follow order o: PlaceOrder knows its identifier and has not
\* returned.
Following(o) == {c \in Callers : call[c].ord = o}
Unsettled(o) == {c \in Following(o) : call[c].pc \in {"monitor", "book", "record"}}

\* Every order the exchange accepted is, at any time, in exactly one of four
\* situations: one call still has its outcome to settle, its fill was booked
\* once, its cancellation was recorded once, or its reply was lost.  So no
\* fill is booked twice, no order is both booked and recorded as cancelled, and
\* no order is dropped without a trace (PlaceOrder's loop and its two returns).
OneOutcomePerOrder ==
    \A o \in 1..placed :
        Cardinality(Unsettled(o)) + rows[o].booked + rows[o].cancelled
            + (IF o \in lost THEN 1 ELSE 0) = 1

\* The books agree with the rows: the position is the sum of the booked
\* amounts, and the yen paid for it is what the position cost less what was
\* realized, a realized PnL on its way from position.Update to
\* UpdateRealizedPnL included.  The two updates are two separately locked steps
\* which the calls interleave.
BookedSize(o) == IF rows[o].booked = 0 THEN 0 ELSE SignedAmount(o)
Size == [o \in Orders |-> BookedSize(o)]
Paid == [o \in Orders |-> BookedSize(o) * orders[o].rate]
InTransit == [c \in Callers |-> call[c].delta]

BooksBalance ==
    /\ pos.size = SumFunctionOnSet(Size, Orders)
    /\ LET paid == [num |-> SumFunctionOnSet(Paid, Orders), den |-> 1]
           realized == AddYen(pnl, SumOfYen(InTransit, Callers))
       IN  SameYen(AddYen(paid, realized), CostOf(pos))

\* PlaceOrder implements the lifecycle of OrderOutcome: an outcome, once there,
\* is final, and the position moves by the order's amount exactly when the
\* order becomes booked.
OutcomeOf(o) ==
    IF o > placed THEN "none"
    ELSE IF o \in lost THEN "lost"
    ELSE IF rows[o].booked > 0 THEN "booked"
    ELSE IF rows[o].cancelled > 0 THEN "closed"
    ELSE "pending"

Outcomes == INSTANCE OrderOutcome WITH
    outcome <- [o \in Orders |-> OutcomeOf(o)],
    signed  <- [o \in Orders |-> IF o > placed THEN 0 ELSE SignedAmount(o)],
    net     <- pos.size

ImplementsOrderOutcome == Outcomes!Spec

-----------------------------------------------------------------------------
\* A row with is_cancelled = TRUE is about an order that was cancelled, not about
\* one that was executed in full (the column says "whether the order was
\* cancelled", db/schema/001_tables.sql:83).  The code saves the row, and leaves
\* the position alone, whatever CancelOrder answers.
CancelledRowsNotFilled ==
    \A o \in Orders : rows[o].cancelled > 0 => orders[o].status # "filled"

\* An order that PlaceOrder returned as filled is filled ("Order filled",
\* execution_engine.go:316).
BookedOrdersAreFilled ==
    \A o \in Orders : rows[o].booked > 0 => orders[o].status = "filled"

\* A long position was bought within MaxPositionRatio of the yen the account
\* ever held: what it started with and what sales brought in.
Proceeds ==
    [o \in Orders |-> IF orders[o].side = "sell" THEN orders[o].filled * orders[o].rate ELSE 0]
YenEverHeld == InitJpy + SumFunctionOnSet(Proceeds, Orders)

LongPositionWithinRatio ==
    pos.size > 0 => CostOf(pos).num * 100 <= YenEverHeld * MaxPositionPct * pos.den

\* With one caller, an order reaches the exchange only while the realized loss
\* is within MaxDrawdownPercent of the balance the call has read: nothing is
\* booked between its check and its request.
NoOrderBeyondDrawdown ==
    [][placed' # placed =>
         \E c \in Callers :
            /\ call[c].pc = "submit"
            /\ -pnl.num * 100 <= call[c].bal.jpy * MaxDrawdownPct * pnl.den]_vars

\* Every call of PlaceOrder returns, unless the process exits first.
CallsReturn == \A c \in Callers : call[c].pc # "idle" ~> call[c].pc = "idle" \/ exited
=============================================================================
