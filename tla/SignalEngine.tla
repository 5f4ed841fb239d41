---------------------------- MODULE SignalEngine ----------------------------
(***************************************************************************)
(* SignalEngine.Evaluate (internal/signal/signal.go) in the loop that      *)
(* calls it (processSignalsAndExecute, cmd/bot/main.go).                   *)
(*                                                                         *)
(* The OBI calculator publishes results; marketState keeps the latest, and *)
(* keeps it after it has been read.  A ticker evaluates whatever is there, *)
(* with the timestamp of the result as the current time: results between   *)
(* two ticks are missed, and a result with no successor is evaluated again *)
(* at the same time.                                                       *)
(*                                                                         *)
(* The composite score is the OBI plus a second component, flow, for the   *)
(* other indicators.  Scores are integers, thresholds hundredths of them.  *)
(***************************************************************************)
EXTENDS Integers, Sequences, SequencesExt

CONSTANT Configs  \* the configurations and inputs a behaviour may have

\* A configuration: what the indicators may bring (obi, the values of the OBI
\* times its weight; flow, what the other indicators add; volatilities), the
\* parameters of the engine, and bounds on the timestamps and the evaluations.
\* dynamic is {} when DynamicOBI is disabled, else {[vol, min, max]}: the
\* volatility factor and the clamps in percent.  slopePeriod is 0 when the
\* filter is disabled.
ASSUME ConfigsAssumption ==
    \A c \in Configs :
        /\ c.obi \subseteq Int /\ c.flow \subseteq Int /\ c.volatilities \subseteq Nat
        /\ c.hold \in Nat /\ c.threshold \in Nat \ {0}
        /\ c.dynamic \subseteq [vol : Int, min : Nat, max : Nat]
        /\ \A f, g \in c.dynamic : f = g
        /\ c.slopePeriod \in Nat /\ c.slopeThreshold \in Int
        /\ c.maxTime \in Nat /\ c.maxEvaluations \in Nat

VARIABLES
    config,      \* e.config, and the inputs of the behaviour
    result,      \* marketState: the latest OBI result, [time, obi, wide]
    current,     \* e.currentSignal
    since,       \* e.currentSignalSince
    last,        \* e.lastSignal
    obiHistory,  \* e.obiHistory
    log          \* what the evaluations saw and returned (a history variable)

vars == <<config, result, current, since, last, obiHistory, log>>

-----------------------------------------------------------------------------
(***************************************************************************)
(* Thresholds, in hundredths, and the slope of the OBI.                    *)
(***************************************************************************)
\* Mutant: the upper clamp is forgotten.
UnclampedAbove(x, f) == Max({x, config.threshold * f.min})

\* GetCurrentLongOBIThreshold clamps from below, then from above ...
ClampedLong(x, f) ==
    Min({Max({x, config.threshold * f.min}), config.threshold * f.max})

\* ... and GetCurrentShortOBIThreshold, whose thresholds are negative, the other
\* way round.
ClampedShort(x, f) ==
    Max({Min({x, config.threshold * f.max}), config.threshold * f.min})

Threshold(v, Clamped(_, _)) ==
    IF config.dynamic = {} THEN 100 * config.threshold
    ELSE LET f == CHOOSE x \in config.dynamic : TRUE
         IN  Clamped(100 * config.threshold + v * f.vol, f)

LongThreshold(v) == Threshold(v, ClampedLong)
ShortThreshold(v) == -Threshold(v, ClampedShort)

\* The history of the last slopePeriod values.
Remember(h, obi) == LET g == Append(h, obi) IN IF Len(g) > config.slopePeriod THEN Tail(g) ELSE g

\* calculateOBISlope: the regression line's slope, num / den with den > 0, over
\* the last slopePeriod values; zero until there are as many.
Weighted(h, w(_)) == FoldLeft(+, 0, [n \in 1..Len(h) |-> w(n - 1) * h[n]])

Slope(h) ==
    LET n == Len(h)
        sumX == Weighted([k \in 1..n |-> 1], LAMBDA x : x)
        sumX2 == Weighted([k \in 1..n |-> 1], LAMBDA x : x * x)
        den == n * sumX2 - sumX * sumX
    IN  IF n < config.slopePeriod \/ den = 0 THEN [num |-> 0, den |-> 1]
        ELSE [num |-> n * Weighted(h, LAMBDA x : x) - sumX * Weighted(h, LAMBDA x : 1),
              den |-> den]

-----------------------------------------------------------------------------
(***************************************************************************)
(* Evaluate.                                                               *)
(***************************************************************************)
\* The side the score is on.
Side(score, v) ==
    IF 100 * score >= LongThreshold(v) THEN "long"
    ELSE IF 100 * score <= ShortThreshold(v) THEN "short"
    ELSE "none"

\* Mutant: the slope filter looks at long signals only.
AgainstSlopeLong(side, h) == side = "long" /\ Slope(h).num < config.slopeThreshold * Slope(h).den

\* The slope filter discards a signal the OBI does not move towards.
AgainstSlope(side, h) ==
    LET s == Slope(h)
    IN  \/ side = "long" /\ s.num < config.slopeThreshold * s.den
        \/ side = "short" /\ s.num > -config.slopeThreshold * s.den

\* A signal one and a half times beyond its threshold.
Stable(side, score, v) ==
    \/ side = "long" /\ 200 * score >= 3 * LongThreshold(v)
    \/ side = "short" /\ 200 * score <= 3 * ShortThreshold(v)

\* Mutant: a change of state confirms at once.
ConfirmsOnChange(raw, stable) ==
    /\ raw # "none"
    /\ raw # last
    /\ config.hold = 0 \/ result.time - since >= config.hold \/ stable

\* Mutant: whether the signal was triggered before is not looked at.
ConfirmsAgain(raw, stable) ==
    /\ raw = current
    /\ raw # "none"
    /\ config.hold = 0 \/ result.time - since >= config.hold \/ stable

\* What Evaluate makes of the raw signal: it changes state, or, when the signal
\* it is in was not triggered yet, confirms it.
Confirms(raw, stable) ==
    /\ raw = current
    /\ raw # "none"
    /\ last # current
    /\ config.hold = 0 \/ result.time - since >= config.hold \/ stable

\* Mutant: a neutral score does not make way for the next signal.
TriggeredForGood(raw, confirms) == IF confirms THEN raw ELSE last

\* e.lastSignal: set by a confirmation, reset when the state becomes neutral.
Triggered(raw, confirms) ==
    IF confirms THEN raw ELSE IF raw # current /\ raw = "none" THEN "none" ELSE last

Evaluate(flow, v) ==
    LET score == result.obi + flow
        history == IF config.slopePeriod = 0 THEN obiHistory ELSE Remember(obiHistory, result.obi)
        side == Side(score, v)
        raw == IF config.slopePeriod > 0 /\ AgainstSlope(side, history) THEN "none" ELSE side
        stable == Stable(raw, score, v)
    IN  /\ obiHistory' = history
        /\ current' = raw
        /\ since' = IF raw # current THEN result.time ELSE since
        /\ last' = Triggered(raw, Confirms(raw, stable))
        /\ log' = Append(log, [time |-> result.time, obi |-> result.obi, score |-> score,
                               side |-> side, raw |-> raw, stable |-> stable,
                               confirmed |-> Confirms(raw, stable)])

-----------------------------------------------------------------------------
(***************************************************************************)
(* The loop around it.                                                     *)
(***************************************************************************)
\* A new OBI result replaces the latest one, read or unread.
Publish ==
    /\ result.time < config.maxTime
    /\ \E obi \in config.obi, wide \in BOOLEAN :
          result' = [time |-> result.time + 1, obi |-> obi, wide |-> wide]
    /\ UNCHANGED <<config, current, since, last, obiHistory, log>>

\* A tick: with the spread beyond its limit Evaluate returns at once, and
\* nothing has changed.  Before the first result there is nothing to evaluate.
Tick ==
    /\ result.time > 0
    /\ ~result.wide
    /\ Len(log) < config.maxEvaluations
    /\ \E flow \in config.flow, v \in config.volatilities : Evaluate(flow, v)
    /\ UNCHANGED <<config, result>>

Init ==
    /\ config \in Configs
    /\ result = [time |-> 0, obi |-> 0, wide |-> FALSE]
    /\ current = "none"
    /\ since = 0
    /\ last = "none"
    /\ obiHistory = <<>>
    /\ log = <<>>

Next == Publish \/ Tick

Spec == Init /\ [][Next]_vars

-----------------------------------------------------------------------------
(***************************************************************************)
(* Properties.                                                             *)
(***************************************************************************)
Confirmed == {n \in DOMAIN log : log[n].confirmed}

\* The evaluations from m to n all came to the signal of n.
Same(m, n) == \A k \in m..n : log[k].raw = log[n].raw

Held(m, n) == m < n /\ Same(m, n) /\ log[n].time - log[m].time >= config.hold

\* A confirmed signal was there at the evaluation before, and at every one for
\* the hold duration, unless its score is well beyond the threshold.
ConfirmedIsHeld ==
    \A n \in Confirmed :
        /\ n > 1 /\ log[n - 1].raw = log[n].raw /\ log[n].raw # "none"
        /\ log[n].stable \/ \E m \in 1..(n - 1) : Held(m, n)

\* One signal, one order: between two confirmations of the same side the score
\* was neutral, or the other side was confirmed.
ConfirmedOnce ==
    \A m, n \in Confirmed :
        m < n /\ log[m].raw = log[n].raw =>
            \E k \in m..n : \/ log[k].raw = "none"
                            \/ k \in Confirmed /\ log[k].raw # log[n].raw

\* No signal is missed: one that was held for the hold duration has been
\* confirmed by then, during the time it was held or before, and was not
\* cancelled by a neutral score or the other side's confirmation since.
HeldIsConfirmed ==
    \A m, n \in DOMAIN log :
        Held(m, n) /\ log[n].raw # "none" =>
            \E k \in Confirmed :
                /\ k <= n /\ log[k].raw = log[n].raw
                /\ \A j \in k..n : /\ log[j].raw # "none"
                                   /\ j \in Confirmed => log[j].raw = log[n].raw

\* With the slope filter, an order follows the OBI: among the last slopePeriod
\* values some rise precedes a long signal, some fall a short one.
FollowsObi ==
    config.slopePeriod > 0 /\ config.slopeThreshold > 0 =>
        \A n \in Confirmed :
            \E i, j \in (n - config.slopePeriod + 1)..n :
                /\ 1 <= i /\ i < j
                /\ IF log[n].raw = "long" THEN log[i].obi < log[j].obi ELSE log[i].obi > log[j].obi

\* Whatever the volatility, the threshold stays between its clamps, which no
\* validation of the configuration keeps in order: a confirmed score is at least
\* one of them away from zero, and one beyond both is never taken for neutral.
WithinClamps ==
    \A f \in config.dynamic, n \in DOMAIN log :
        LET size == IF log[n].score < 0 THEN -log[n].score ELSE log[n].score
            Beyond(factor) == 100 * size >= config.threshold * factor
        IN  /\ log[n].raw # "none" => Beyond(f.min) \/ Beyond(f.max)
            /\ Beyond(f.min) /\ Beyond(f.max) => log[n].side # "none"

-----------------------------------------------------------------------------
\* "The signal is confirmed only when its state has lasted for the hold
\* duration, so that a spike does not lead to an order"
\* (docs/bot/README.md:207).  The code confirms a score of one and a half times
\* the threshold at the next evaluation.
NoSpikeConfirmed == \A n \in Confirmed : \E m \in 1..(n - 1) : Held(m, n)
=============================================================================
