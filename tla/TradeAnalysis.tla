---------------------------- MODULE TradeAnalysis ----------------------------
(***************************************************************************)
(* The analysis of a list of trades in internal/report/report.go           *)
(* (AnalyzeTrades), as pure operators: executed trades are matched first   *)
(* in, first out, and the statistics of the matches make the report.       *)
(*                                                                         *)
(* A trade is a record with at least side, price, size, id, cancelled.     *)
(* The ratios that are floating point functions of the figures below       *)
(* (win rates, Sharpe, Sortino, Calmar, holding periods) are left out.     *)
(***************************************************************************)
EXTENDS Integers, Sequences, SequencesExt

Lesser(a, b) == IF a < b THEN a ELSE b
Greater(a, b) == IF a > b THEN a ELSE b

SumOf(s) == FoldLeft(+, 0, s)

\* One turn of the loop that leaves the cancelled trades out.
Keep(kept, trade) == IF trade.cancelled THEN kept ELSE Append(kept, trade)

Executed(trades) == FoldLeft(Keep, <<>>, trades)

\* Mutant: the profit of a match ignores the size that is matched.
MatchPnLOfOne(open, trade, size) ==
    IF trade.side = "sell" THEN trade.price - open.price ELSE open.price - trade.price

(***************************************************************************)
(* The match of a closing trade with one trade still open, and the profit  *)
(* it makes: sold minus bought, whichever came first.                      *)
(***************************************************************************)
MatchPnL(open, trade, size) ==
    (IF trade.side = "sell" THEN trade.price - open.price
                            ELSE open.price - trade.price) * size

(***************************************************************************)
(* One turn of the inner loop: acc.left of the trade is still unmatched,   *)
(* acc.rest is what the queue keeps.                                       *)
(***************************************************************************)
MatchWith(trade, acc, open) ==
    LET size == Lesser(open.size, acc.left)
    IN  IF acc.left = 0 THEN [acc EXCEPT !.rest = Append(@, open)]
        ELSE [left    |-> acc.left - size,
              rest    |-> IF size = open.size THEN acc.rest
                          ELSE Append(acc.rest, [open EXCEPT !.size = @ - size]),
              matches |-> Append(acc.matches,
                                 [long |-> open.side = "buy", pnl |-> MatchPnL(open, trade, size)])]

MatchAgainst(queue, trade) ==
    FoldLeft(LAMBDA acc, open : MatchWith(trade, acc, open),
             [left |-> trade.size, rest |-> <<>>, matches |-> <<>>], queue)

Leftover(queue, trade, left) ==
    IF left > 0 THEN Append(queue, [trade EXCEPT !.size = left]) ELSE queue

\* The body of the outer loop, for a buy and for a sell.
TakeTrade(acc, trade) ==
    LET opposite == IF trade.side = "buy" THEN "sell" ELSE "buy"
        met      == MatchAgainst(acc.open[opposite], trade)
        own      == Leftover(acc.open[trade.side], trade, met.left)
    IN  [open    |-> [acc.open EXCEPT ![opposite] = met.rest, ![trade.side] = own],
         matches |-> acc.matches \o met.matches]

Matching(trades) ==
    FoldLeft(TakeTrade,
             [open |-> [buy |-> <<>>, sell |-> <<>>], matches |-> <<>>],
             Executed(trades))
-----------------------------------------------------------------------------
(***************************************************************************)
(* Statistics.  An outcome is the profit of a closed position, long or     *)
(* short: wins and losses so far, the runs of them now and at most, the    *)
(* equity curve, its peak and its deepest fall below it.                   *)
(***************************************************************************)
NoOutcomes ==
    [longWins |-> 0, longLosses |-> 0, shortWins |-> 0, shortLosses |-> 0,
     wins |-> 0, maxWins |-> 0, losses |-> 0, maxLosses |-> 0,
     equity |-> 0, peak |-> 0, maxDrawdown |-> 0]

\* A profit of zero neither counts nor interrupts a run.
Counted(c, o) ==
    IF o.pnl > 0
    THEN [c EXCEPT !.longWins = IF o.long THEN @ + 1 ELSE @,
                   !.shortWins = IF o.long THEN @ ELSE @ + 1,
                   !.wins = @ + 1, !.losses = 0, !.maxWins = Greater(@, c.wins + 1)]
    ELSE IF o.pnl < 0
    THEN [c EXCEPT !.longLosses = IF o.long THEN @ + 1 ELSE @,
                   !.shortLosses = IF o.long THEN @ ELSE @ + 1,
                   !.losses = @ + 1, !.wins = 0, !.maxLosses = Greater(@, c.losses + 1)]
    ELSE c

OnCurve(c, pnl) ==
    LET equity == c.equity + pnl
        peak   == Greater(c.peak, equity)
    IN  [c EXCEPT !.equity = equity, !.peak = peak,
                  !.maxDrawdown = Greater(@, peak - equity)]

Account(c, o) == OnCurve(Counted(c, o), o.pnl)

Statistics(outcomes) == FoldLeft(Account, NoOutcomes, outcomes)

(***************************************************************************)
(* AnalyzeTrades: ErrNoExecutedTrades (or no trades at all) is ok = FALSE. *)
(* A match is a long trade when the trade it closes is a buy.              *)
(***************************************************************************)
AnalyzeTrades(trades) ==
    LET figures == Statistics(Matching(trades).matches)
    IN  IF Executed(trades) = <<>> THEN [ok |-> FALSE]
        ELSE [ok          |-> TRUE,
              totalTrades |-> figures.longWins + figures.shortWins
                              + figures.longLosses + figures.shortLosses,
              totalPnL    |-> figures.equity,
              cancelled   |-> Len(trades) - Len(Executed(trades)),
              lastTradeID |-> Last(Executed(trades)).id,
              figures     |-> figures]
-----------------------------------------------------------------------------
(***************************************************************************)
(* The reference: of the units bought and the units sold, in the order of  *)
(* their trades, the k-th bought is paid for by the k-th sold.             *)
(***************************************************************************)
UnitsOf(trade) == [k \in 1 .. trade.size |-> trade.price]

Units(trades, side) ==
    FoldLeft(LAMBDA units, t : IF t.side = side THEN units \o UnitsOf(t) ELSE units, <<>>, trades)

FifoPnL(trades) ==
    LET bought == Units(trades, "buy")
        sold   == Units(trades, "sell")
    IN  SumOf([k \in 1 .. Lesser(Len(bought), Len(sold)) |-> sold[k] - bought[k]])

\* Units bought and sold are equal in number: nothing is left in the queues.
Balanced(trades) ==
    Len(Units(Executed(trades), "buy")) = Len(Units(Executed(trades), "sell"))

=============================================================================
