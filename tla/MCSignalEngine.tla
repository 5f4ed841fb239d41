--------------------------- MODULE MCSignalEngine ---------------------------
(***************************************************************************)
(* Configurations of SignalEngine for TLC.                                 *)
(***************************************************************************)
EXTENDS SignalEngine

\* Hold duration: with flows of -1 and 1 the scores are on either side of the
\* threshold of 2, well beyond it, and neutral.
Holding ==
    [obi |-> {-3, 2, 3}, flow |-> {-1, 1}, volatilities |-> {0}, hold |-> 2, threshold |-> 2,
     dynamic |-> {}, slopePeriod |-> 0, slopeThreshold |-> 0, maxTime |-> 4, maxEvaluations |-> 6]

\* Slope filter over three values; the volatility moves the threshold of 2.00
\* by 1.50 a unit, between 1.50 and 4.00.
Filtering ==
    [obi |-> {-4, 0, 3, 4}, flow |-> {0}, volatilities |-> {0, 2}, hold |-> 1, threshold |-> 2,
     dynamic |-> {[vol |-> 150, min |-> 75, max |-> 200]}, slopePeriod |-> 3, slopeThreshold |-> 1,
     maxTime |-> 5, maxEvaluations |-> 5]

\* A lower clamp above the upper one.
Crossed ==
    [Filtering EXCEPT !.dynamic = {[vol |-> 150, min |-> 200, max |-> 75]}, !.slopePeriod = 0,
                      !.maxTime = 3, !.maxEvaluations = 3]

MCConfigs == {Holding, Filtering, Crossed}
=============================================================================
