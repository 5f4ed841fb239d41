---------------------------- MODULE ReplayEngine ----------------------------
(***************************************************************************)
(* The ReplayExecutionEngine of internal/engine/execution_engine.go, and   *)
(* the summary of a simulation (getSimulationSummaryMap, cmd/bot/main.go). *)
(*                                                                         *)
(* The engine is a record that only the goroutine of one simulation        *)
(* touches; its methods are operators from a record to a record.  A price  *)
(* of 0 means, as in the code, that a side of the book is empty.  Times    *)
(* (EntryTime, ExitTime) and the statistics made of them are left out.     *)
(***************************************************************************)
EXTENDS Position, TradeAnalysis

\* The 0.001 BTC below which an order is refused, in lots.
MinAmount == 1

NewReplayExecutionEngine ==
    [position |-> Flat, realized |-> ZeroYen, trades |-> <<>>,
     tp |-> 0, sl |-> 0, lastPrice |-> 0]

Signed(side, amount) == IF side = "buy" THEN amount ELSE -amount

Record(e, side, amount, price, pnl, positionSide) ==
    [e EXCEPT
        !.position = Update(e.position, Signed(side, amount), price),
        !.trades   = Append(@, [id |-> Len(e.trades) + 1, side |-> side, price |-> price,
                                size |-> amount, cancelled |-> FALSE, pnl |-> pnl,
                                positionSide |-> positionSide])]

(***************************************************************************)
(* executeClosingOrder: the whole position is closed at price.  It was     *)
(* opened by one trade, so its average is that trade's price and the       *)
(* denominator of the profit is 1.                                         *)
(***************************************************************************)
ClosingProfit(e, price) == RealizedBy(e.position, -e.position.size, price)

ClosingTrade(e, price) ==
    LET size == e.position.size
    IN  Record(e, IF size > 0 THEN "sell" ELSE "buy", Abs(size), price,
               ClosingProfit(e, price).num, IF size > 0 THEN "long" ELSE "short")

\* Mutant: the profit of a closing replaces what was realized before.
ExecuteClosingOrderAlone(e, price) ==
    [ClosingTrade(e, price) EXCEPT !.realized = ClosingProfit(e, price), !.tp = 0, !.sl = 0]

ExecuteClosingOrder(e, price) ==
    [ClosingTrade(e, price) EXCEPT
        !.realized = AddYen(@, ClosingProfit(e, price)), !.tp = 0, !.sl = 0]

StopLossHit(e, bid, ask) ==
    /\ e.sl > 0
    /\ \/ e.position.size > 0 /\ bid <= e.sl
       \/ e.position.size < 0 /\ ask >= e.sl

TakeProfitHit(e, bid, ask) ==
    /\ e.tp > 0
    /\ \/ e.position.size > 0 /\ bid >= e.tp
       \/ e.position.size < 0 /\ ask <= e.tp

\* Nothing to do: a position is open, the order is too small or the side empty.
Refused(e, quote, order) ==
    e.position.size # 0 \/ order.amount < MinAmount \/ quote = 0

\* Mutant: a position is closed at the market, as a live engine would.
PlaceOrderAtMarket(e, bid, ask, order) ==
    LET quote == IF order.side = "buy" THEN ask ELSE bid
        exit  == IF e.position.size > 0 THEN bid ELSE ask
    IN  IF StopLossHit(e, bid, ask) \/ TakeProfitHit(e, bid, ask) THEN ExecuteClosingOrder(e, exit)
        ELSE IF Refused(e, quote, order) THEN e
        ELSE [Record(e, order.side, order.amount, quote, 0, "none")
                 EXCEPT !.tp = order.tp, !.sl = order.sl]

(***************************************************************************)
(* PlaceOrder: the levels of the open position are looked at only here,    *)
(* that is when a signal arrives, and before the signal itself.            *)
(***************************************************************************)
PlaceOrder(e, bid, ask, order) ==
    LET quote == IF order.side = "buy" THEN ask ELSE bid
    IN  IF StopLossHit(e, bid, ask) THEN ExecuteClosingOrder(e, e.sl)
        ELSE IF TakeProfitHit(e, bid, ask) THEN ExecuteClosingOrder(e, e.tp)
        ELSE IF Refused(e, quote, order) THEN e
        ELSE [Record(e, order.side, order.amount, quote, 0, "none")
                 EXCEPT !.tp = order.tp, !.sl = order.sl]

UpdateLastPrice(e, price) == [e EXCEPT !.lastPrice = price]
-----------------------------------------------------------------------------
(***************************************************************************)
(* getSimulationSummaryMap: the trades that realized something are the     *)
(* closings; an open position is valued at the last traded price, which is *)
(* 0 when the file holds no trade.                                         *)
(***************************************************************************)
\* One turn of the loop over the trades: the outcome of a closing is kept.
KeepClosing(kept, trade) ==
    IF trade.pnl = 0 THEN kept
    ELSE Append(kept, [long |-> trade.positionSide = "long", pnl |-> trade.pnl])

Closings(e) == FoldLeft(KeepClosing, <<>>, e.trades)

CalculateUnrealizedPnL(e) == (e.lastPrice - e.position.num) * e.position.size

Summary(e) ==
    [totalProfit |-> e.realized.num + CalculateUnrealizedPnL(e),
     totalTrades |-> Len(Closings(e)),
     figures     |-> Statistics(Closings(e))]

=============================================================================
