---------------------------- MODULE MCLiveEngine ----------------------------
(***************************************************************************)
(* Instances of LiveEngine for TLC.                                        *)
(***************************************************************************)
EXTENDS LiveEngine, TLC

Order(side, amount, rate) == [side |-> side, amount |-> amount, rate |-> rate]

\* A purchase in two lots (which can fill in parts), a sale at a loss, and a
\* sale that flips a single lot to a short position.
MCRequests == {Order("buy", 2, 3), Order("sell", 1, 2), Order("sell", 3, 2)}

\* One caller: cheap and dear purchases, so that the ratio binds, and a sale at
\* a loss, so that the drawdown binds.
MCSingleRequests == {Order("buy", 2, 3), Order("buy", 1, 5), Order("sell", 1, 1)}

CallerSymmetry == Permutations(Callers)
=============================================================================
