------------------------------- MODULE MCReport -------------------------------
(***************************************************************************)
(* Histories for TLC: two round trips with a cancelled order, whose id is  *)
(* beyond every transaction or before them; two trades of one second; a    *)
(* short that is turned into a long.                                       *)
(***************************************************************************)
EXTENDS Report

Executes(id, time, side, price, size) ==
    [id |-> id, time |-> time, side |-> side, price |-> price, size |-> size, cancelled |-> FALSE]
Cancels(id, time) == [Executes(id, time, "buy", 9, 1) EXCEPT !.cancelled = TRUE]

RoundTrips(cancelledId) ==
    {Executes(2, 1, "buy", 10, 2), Executes(3, 2, "sell", 12, 1), Cancels(cancelledId, 2),
     Executes(4, 3, "sell", 9, 1), Executes(5, 4, "buy", 11, 1)}

SameSecond ==
    {Executes(2, 1, "buy", 10, 1), Executes(3, 2, "sell", 12, 2), Executes(4, 2, "sell", 13, 1),
     Executes(5, 3, "buy", 11, 2)}

TurnedAround ==
    {Executes(2, 1, "sell", 10, 1), Executes(3, 2, "buy", 12, 3), Executes(4, 3, "sell", 15, 2)}

MCHistories == {RoundTrips(1), RoundTrips(9), SameSecond, TurnedAround}

=============================================================================
