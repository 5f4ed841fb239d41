---------------------------- MODULE MCMarketFeed ----------------------------
(***************************************************************************)
(* Instances of MarketFeed for TLC.                                        *)
(***************************************************************************)
EXTENDS MarketFeed

Book(bids, asks) == [bids |-> [p \in bids |-> 1], asks |-> [p \in asks |-> 1]]

\* Prices move, sides get deeper, and a side runs empty.
MCMarkets == {Book({1}, {3}), Book({1, 2}, {3}), Book({2}, {}), Book({}, {2, 3})}
=============================================================================
