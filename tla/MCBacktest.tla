----------------------------- MODULE MCBacktest -----------------------------
(***************************************************************************)
(* Files for TLC: every file of at most MaxRows rows over a few kinds, and *)
(* some longer ones in which positions are opened and closed.              *)
(***************************************************************************)
EXTENDS Backtest

CONSTANT MaxRows

Level(time, side, price) ==
    [type |-> "book", time |-> time, side |-> side, price |-> price, gone |-> FALSE]
Gone(time, side, price) == [Level(time, side, price) EXCEPT !.gone = TRUE]
Traded == [type |-> "trade", price |-> 11]
BadTime == [type |-> "badTime"]
Broken == [type |-> "broken"]

Kinds == {Level(1, "bid", 10), Level(2, "ask", 12), Level(2, "bid", 9), Traded, BadTime, Broken}

Opening == <<Level(1, "bid", 10), Level(1, "ask", 12), Traded, Traded>>

\* The market rises, then falls: levels of both sides are hit.
RiseAndFall ==
    Opening \o <<Level(2, "bid", 14), Gone(2, "ask", 12), Level(2, "ask", 16), Traded,
                 Traded, Gone(3, "bid", 14), Level(3, "ask", 12), Traded>>

\* It rises again: a second and a third position may be closed.
RiseFallRise == RiseAndFall \o <<Traded, Level(4, "bid", 18), Gone(4, "ask", 12), Traded, Traded>>

\* A side of the book is emptied while a position may be open.
OneSided(side, price) == Opening \o <<Gone(2, side, price), Traded, Traded, BadTime>>

\* A position is opened while the bids are missing, at an ask that the levels,
\* which are made of the last valid quote, do not know.
OldQuote ==
    <<Level(1, "bid", 10), Level(1, "ask", 12), Traded, Gone(2, "bid", 10), Gone(2, "ask", 12),
      Level(2, "ask", 16), Traded, Traded, Level(3, "bid", 14), Traded, Traded>>

MCFiles ==
    {RiseFallRise, OneSided("bid", 10), OneSided("ask", 12), OldQuote} \cup BoundedSeq(Kinds, MaxRows)

=============================================================================
