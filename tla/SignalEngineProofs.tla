------------------------- MODULE SignalEngineProofs -------------------------
(***************************************************************************)
(* Theorems about the signal engine, for any configurations, values of the *)
(* indicators, hold duration, thresholds and clamps, and any number of     *)
(* results and evaluations.                                                *)
(***************************************************************************)
EXTENDS SignalEngine, ArithmeticProofs

Sides == {"none", "long", "short"}
Entry == [time : Nat, obi : Int, score : Int, side : Sides, raw : Sides,
          stable : BOOLEAN, confirmed : BOOLEAN]

TypeOK ==
    /\ config \in Configs
    /\ result.time \in Nat /\ result.obi \in Int
    /\ current \in Sides /\ last \in Sides /\ since \in Nat
    /\ log \in Seq(Entry)

-----------------------------------------------------------------------------
(***************************************************************************)
(* What one evaluation does, whatever the score: the entry it logs, and    *)
(* the state it leaves.                                                    *)
(***************************************************************************)
\* The signal was held, or need not be.
HeldLong(e) == config.hold = 0 \/ e.time - since >= config.hold \/ e.stable

Logged(e) ==
    /\ log' = Append(log, e)
    /\ e.time = result.time
    /\ e.confirmed <=> e.raw = current /\ e.raw # "none" /\ last # current /\ HeldLong(e)
    /\ current' = e.raw
    /\ since' = IF e.raw # current THEN result.time ELSE since
    /\ last' = IF e.confirmed THEN e.raw
               ELSE IF e.raw # current /\ e.raw = "none" THEN "none" ELSE last

\* The side comes of a score and a volatility, and the slope filter may only
\* discard it.
Seen(e) == /\ e.raw \in {e.side, "none"}
           /\ \E v \in config.volatilities : e.side = Side(e.score, v)

\* The filter looks at the history the evaluation has added its value to.
Filtered(e) ==
    config.slopePeriod > 0 =>
        /\ obiHistory' = Remember(obiHistory, e.obi)
        /\ e.raw # "none" => ~AgainstSlope(e.raw, obiHistory')

LEMMA SideType == ASSUME NEW score, NEW v PROVE Side(score, v) \in Sides
BY DEF Side, Sides

LEMMA EvaluateLogs ==
  ASSUME TypeOK, Tick
  PROVE  \E e \in Entry : Logged(e) /\ Seen(e) /\ Filtered(e)
<1>1. PICK flow \in config.flow, v \in config.volatilities : Evaluate(flow, v)
  BY DEF Tick
<1>2. PICK score, history, side, raw, stable :
        /\ score = result.obi + flow
        /\ history = (IF config.slopePeriod = 0 THEN obiHistory ELSE Remember(obiHistory, result.obi))
        /\ side = Side(score, v)
        /\ raw = (IF config.slopePeriod > 0 /\ AgainstSlope(side, history) THEN "none" ELSE side)
        /\ stable = Stable(raw, score, v)
  OBVIOUS
<1>3. PICK confirmed : confirmed = Confirms(raw, stable)
  OBVIOUS
<1>4. PICK e : e = [time |-> result.time, obi |-> result.obi, score |-> score,
                    side |-> side, raw |-> raw, stable |-> stable, confirmed |-> confirmed]
  OBVIOUS
<1>5. /\ current' = raw
      /\ since' = IF raw # current THEN result.time ELSE since
      /\ last' = Triggered(raw, confirmed)
      /\ log' = Append(log, e)
  BY <1>1, <1>2, <1>3, <1>4 DEF Evaluate
<1>6. side \in Sides /\ raw \in {side, "none"} /\ raw \in Sides
  BY <1>2, SideType DEF Sides
<1>7. stable \in BOOLEAN /\ confirmed \in BOOLEAN
  BY <1>2, <1>3 DEF Stable, Confirms
<1>8. score \in Int
  BY <1>2, ConfigsAssumption DEF TypeOK
<1>9. e \in Entry
  BY <1>4, <1>6, <1>7, <1>8 DEF TypeOK, Entry
<1>10. e.confirmed <=> e.raw = current /\ e.raw # "none" /\ last # current /\ HeldLong(e)
  BY <1>3, <1>4 DEF Confirms, HeldLong
<1>11. Logged(e)
  BY <1>4, <1>5, <1>10 DEF Logged, Triggered
<1>12. Seen(e)
  BY <1>2, <1>4, <1>6 DEF Seen
<1>13. Filtered(e)
  <2>1. obiHistory' = history /\ e.obi = result.obi /\ e.raw = raw
    BY <1>1, <1>2, <1>4 DEF Evaluate
  <2>2. ASSUME config.slopePeriod > 0, raw # "none" PROVE ~AgainstSlope(raw, history)
    BY <1>2, <2>2
  <2>3. config.slopePeriod > 0 => history = Remember(obiHistory, result.obi)
    BY <1>2
  <2> QED
    BY <2>1, <2>2, <2>3 DEF Filtered
<1> QED
  BY <1>9, <1>11, <1>12, <1>13

LEMMA LogGrows ==
  ASSUME log \in Seq(Entry), NEW e \in Entry, log' = Append(log, e), NEW n, n = Len(log) + 1
  PROVE  /\ Len(log) \in Nat /\ n \in Nat \ {0} /\ Len(log') = n /\ log' \in Seq(Entry)
         /\ DOMAIN log = 1..Len(log) /\ DOMAIN log' = 1..n
         /\ log'[n] = e /\ \A k \in 1..Len(log) : log'[k] = log[k]
         /\ \A k \in 1..n : k \in 1..Len(log) \/ k = n
         /\ \A k \in 1..Len(log) : k \in 1..n /\ k # n
OBVIOUS

LEMMA InitType == Init => TypeOK
<1> SUFFICES ASSUME Init PROVE TypeOK
  OBVIOUS
<1>1. log \in Seq(Entry)
  BY DEF Init
<1> QED
  BY <1>1 DEF Init, TypeOK, Sides

LEMMA PublishType == ASSUME TypeOK, Publish PROVE TypeOK'
<1>1. PICK obi \in config.obi, wide \in BOOLEAN :
        result' = [time |-> result.time + 1, obi |-> obi, wide |-> wide]
  BY DEF Publish
<1>2. obi \in Int
  BY ConfigsAssumption DEF TypeOK
<1> QED
  BY <1>1, <1>2 DEF Publish, TypeOK

LEMMA LoggedType ==
  ASSUME TypeOK, NEW e \in Entry, Logged(e), UNCHANGED <<config, result>>
  PROVE  TypeOK'
<1>1. log' \in Seq(Entry)
  BY DEF Logged, TypeOK
<1> QED
  BY <1>1 DEF Logged, TypeOK, Entry, Sides

-----------------------------------------------------------------------------
(***************************************************************************)
(* Confirmation.  The engine's three variables say of the log:             *)
(*   - current is the signal of the last evaluation;                       *)
(*   - since is the time of the first evaluation of its run;               *)
(*   - last is the signal confirmed last, unless the score was neutral     *)
(*     since then.                                                         *)
(***************************************************************************)
\* All evaluations from m on came to signal s.
RunFrom(m, s) == \A k \in m..Len(log) : log[k].raw = s

\* Nothing cancelled the confirmation k of signal s.
Standing(k, s) ==
    /\ log[k].confirmed /\ log[k].raw = s
    /\ \A j \in k..Len(log) : log[j].raw # "none" /\ (log[j].confirmed => log[j].raw = s)

CurrentIsLatest ==
    /\ log = <<>> => current = "none"
    /\ log # <<>> => current = log[Len(log)].raw

SinceIsStart ==
    /\ since <= result.time
    /\ current # "none" =>
          /\ \E m \in 1..Len(log) : log[m].time = since /\ RunFrom(m, current)
          /\ \A m \in 1..Len(log) : RunFrom(m, current) => since <= log[m].time

LastIsStanding ==
    /\ current = "none" => last = "none"
    /\ last # "none" => \E k \in 1..Len(log) : Standing(k, last)
    /\ \A k \in 1..Len(log) : log[k].confirmed =>
          \/ last = log[k].raw
          \/ \E j \in k..Len(log) : \/ log[j].raw = "none"
                                    \/ log[j].confirmed /\ log[j].raw # log[k].raw

SignalInv ==
    /\ TypeOK /\ CurrentIsLatest /\ SinceIsStart /\ LastIsStanding
    /\ ConfirmedIsHeld /\ ConfirmedOnce /\ HeldIsConfirmed

LEMMA InitSignal == Init => SignalInv
<1> SUFFICES ASSUME Init PROVE SignalInv
  OBVIOUS
<1>1. log = <<>> /\ current = "none" /\ last = "none" /\ since = 0 /\ result.time = 0
  BY DEF Init
<1>2. Len(log) = 0 /\ DOMAIN log = {} /\ 1..Len(log) = {}
  BY <1>1
<1>3. CurrentIsLatest /\ SinceIsStart /\ LastIsStanding
  BY <1>1, <1>2 DEF CurrentIsLatest, SinceIsStart, LastIsStanding
<1>4. ConfirmedIsHeld /\ ConfirmedOnce /\ HeldIsConfirmed
  BY <1>2 DEF ConfirmedIsHeld, ConfirmedOnce, HeldIsConfirmed, Confirmed
<1> QED
  BY <1>3, <1>4, InitType DEF SignalInv

\* A step of the log.
LEMMA LatestKept ==
  ASSUME SignalInv, NEW e \in Entry, Logged(e), UNCHANGED <<config, result>>
  PROVE  CurrentIsLatest'
<1>1. PICK n : n = Len(log) + 1
  OBVIOUS
<1>2. Len(log') = n /\ log'[n] = e /\ log' # <<>>
  BY <1>1, LogGrows DEF SignalInv, TypeOK, Logged
<1> QED
  BY <1>2 DEF CurrentIsLatest, Logged

\* The evaluation before one that comes to the same signal was of its run.
LEMMA RunsMeet ==
  ASSUME SignalInv, NEW e \in Entry, Logged(e), NEW n, n = Len(log) + 1,
         NEW m \in 1..Len(log), RunFrom(m, e.raw)'
  PROVE  e.raw = current /\ RunFrom(m, current)
<1>1. /\ Len(log) \in Nat /\ Len(log') = n
      /\ log'[n] = e /\ \A k \in 1..Len(log) : log'[k] = log[k]
  BY LogGrows DEF SignalInv, TypeOK, Logged
<1>2. \A k \in m..Len(log) : log[k].raw = e.raw
  BY <1>1 DEF RunFrom
<1>3. Len(log) \in m..Len(log) /\ log # <<>>
  BY <1>1
<1>4. e.raw = current
  BY <1>2, <1>3 DEF SignalInv, CurrentIsLatest
<1> QED
  BY <1>2, <1>4 DEF RunFrom

LEMMA StartKept ==
  ASSUME SignalInv, NEW e \in Entry, Logged(e), UNCHANGED <<config, result>>
  PROVE  SinceIsStart'
<1>1. PICK n : n = Len(log) + 1
  OBVIOUS
<1>2. /\ Len(log) \in Nat /\ n \in Nat \ {0} /\ Len(log') = n
      /\ log'[n] = e /\ \A k \in 1..Len(log) : log'[k] = log[k]
      /\ \A k \in 1..n : k \in 1..Len(log) \/ k = n
      /\ \A k \in 1..Len(log) : k \in 1..n /\ k # n
  BY <1>1, LogGrows DEF SignalInv, TypeOK, Logged
<1>3. current' = e.raw /\ e.time = result.time /\ since' = IF e.raw # current THEN result.time ELSE since
  BY DEF Logged
<1>4. since' <= result'.time /\ since \in Nat /\ result.time \in Nat /\ since <= result.time
  BY <1>3 DEF SignalInv, TypeOK, SinceIsStart
<1>5. ASSUME e.raw # "none" PROVE \E m \in 1..n : log'[m].time = since' /\ RunFrom(m, e.raw)'
  <2>1. CASE e.raw # current
    <3>1. n \in 1..n /\ log'[n].time = since' /\ \A k \in n..n : log'[k].raw = e.raw
      BY <1>2, <1>3, <2>1
    <3> QED
      BY <1>2, <3>1 DEF RunFrom
  <2>2. CASE e.raw = current
    <3>1. PICK m \in 1..Len(log) : log[m].time = since /\ RunFrom(m, current)
      BY <1>5, <2>2 DEF SignalInv, SinceIsStart
    <3>2. \A k \in m..n : k \in m..Len(log) \/ k = n
      BY <1>1, <1>2
    <3>3. \A k \in m..Len(log) : k \in 1..Len(log)
      BY <1>2
    <3>4. \A k \in m..n : log'[k].raw = e.raw
      BY <1>2, <2>2, <3>1, <3>2, <3>3 DEF RunFrom
    <3> QED
      BY <1>2, <1>3, <2>2, <3>1, <3>4 DEF RunFrom
  <2> QED
    BY <2>1, <2>2
<1>6. ASSUME e.raw # "none", NEW m \in 1..n, RunFrom(m, e.raw)' PROVE since' <= log'[m].time
  <2>1. CASE m = n
    BY <1>2, <1>3, <1>4, <2>1
  <2>2. CASE m \in 1..Len(log)
    <3>1. e.raw = current /\ RunFrom(m, current)
      BY <1>1, <1>6, <2>2, RunsMeet
    <3>2. since <= log[m].time
      BY <1>6, <2>2, <3>1 DEF SignalInv, SinceIsStart
    <3> QED
      BY <1>2, <1>3, <2>2, <3>1, <3>2
  <2> QED
    BY <1>2, <2>1, <2>2
<1> QED
  BY <1>2, <1>3, <1>4, <1>5, <1>6 DEF SinceIsStart

LEMMA StandingKept ==
  ASSUME SignalInv, NEW e \in Entry, Logged(e), UNCHANGED <<config, result>>
  PROVE  LastIsStanding'
<1>1. PICK n : n = Len(log) + 1
  OBVIOUS
<1>2. /\ Len(log) \in Nat /\ n \in Nat \ {0} /\ Len(log') = n
      /\ log'[n] = e /\ \A k \in 1..Len(log) : log'[k] = log[k]
      /\ \A k \in 1..n : k \in 1..Len(log) \/ k = n
      /\ \A k \in 1..Len(log) : k \in 1..n /\ k # n
  BY <1>1, LogGrows DEF SignalInv, TypeOK, Logged
<1>3. \A k \in 1..Len(log) : /\ k..n = (k..Len(log)) \cup {n}
                             /\ \A j \in k..Len(log) : j \in 1..Len(log)
  BY <1>1, <1>2
<1>4. current' = e.raw /\ last' = IF e.confirmed THEN e.raw
                                  ELSE IF e.raw # current /\ e.raw = "none" THEN "none" ELSE last
  BY DEF Logged
<1>5. current' = "none" => last' = "none"
  BY <1>4 DEF Logged, SignalInv, LastIsStanding
<1>6. ASSUME last' # "none" PROVE \E k \in 1..n : Standing(k, last)'
  <2>1. CASE e.confirmed
    <3>1. e.raw # "none" /\ last' = e.raw
      BY <1>4, <2>1 DEF Logged
    <3>2. \A j \in n..n : j = n
      BY <1>2
    <3> QED
      BY <1>2, <2>1, <3>1, <3>2 DEF Standing
  <2>2. CASE ~e.confirmed
    <3>1. last' = last /\ e.raw # "none"
      BY <1>4, <1>5, <1>6, <2>2
    <3>2. PICK k \in 1..Len(log) : Standing(k, last)
      BY <1>6, <3>1 DEF SignalInv, LastIsStanding
    <3>3. log'[k] = log[k] /\ \A j \in k..Len(log) : log'[j] = log[j]
      BY <1>2, <1>3
    <3>4. \A j \in k..n : log'[j].raw # "none" /\ (log'[j].confirmed => log'[j].raw = last)
      BY <1>2, <1>3, <2>2, <3>1, <3>2, <3>3 DEF Standing
    <3> QED
      BY <1>2, <3>1, <3>2, <3>3, <3>4 DEF Standing
  <2> QED
    BY <2>1, <2>2
<1>7. ASSUME NEW k \in 1..n, log'[k].confirmed
      PROVE  \/ last' = log'[k].raw
             \/ \E j \in k..n : \/ log'[j].raw = "none"
                                \/ log'[j].confirmed /\ log'[j].raw # log'[k].raw
  <2>1. CASE k = n
    BY <1>2, <1>4, <1>7, <2>1
  <2>2. CASE k \in 1..Len(log)
    <3>1. log'[k] = log[k] /\ n \in k..n /\ \A j \in k..Len(log) : j \in k..n /\ log'[j] = log[j]
      BY <1>2, <1>3, <2>2
    <3>2. CASE last = log[k].raw
      BY <1>2, <1>4, <3>1, <3>2
    <3>3. CASE last # log[k].raw
      <4>1. PICK j \in k..Len(log) : \/ log[j].raw = "none"
                                     \/ log[j].confirmed /\ log[j].raw # log[k].raw
        BY <1>7, <2>2, <3>1, <3>3 DEF SignalInv, LastIsStanding
      <4> QED
        BY <3>1, <4>1
    <3> QED
      BY <3>2, <3>3
  <2> QED
    BY <1>2, <2>1, <2>2
<1> QED
  BY <1>2, <1>5, <1>6, <1>7 DEF LastIsStanding

\* A confirmation comes after the run of its signal began.
LEMMA HeldKept ==
  ASSUME SignalInv, NEW e \in Entry, Logged(e), UNCHANGED <<config, result>>
  PROVE  ConfirmedIsHeld'
<1>1. PICK n : n = Len(log) + 1
  OBVIOUS
<1>2. /\ Len(log) \in Nat /\ n \in Nat \ {0} /\ Len(log') = n
      /\ DOMAIN log = 1..Len(log) /\ DOMAIN log' = 1..n
      /\ log'[n] = e /\ \A k \in 1..Len(log) : log'[k] = log[k]
      /\ \A k \in 1..n : k \in 1..Len(log) \/ k = n
      /\ \A k \in 1..Len(log) : k \in 1..n /\ k # n
  BY <1>1, LogGrows DEF SignalInv, TypeOK, Logged
<1> SUFFICES ASSUME NEW k \in 1..n, log'[k].confirmed
             PROVE  /\ k > 1 /\ log'[k - 1].raw = log'[k].raw /\ log'[k].raw # "none"
                    /\ log'[k].stable \/ \E m \in 1..(k - 1) : Held(m, k)'
  BY <1>2 DEF ConfirmedIsHeld, Confirmed
<1>3. CASE k \in 1..Len(log)
  <2>1. /\ k > 1 /\ log[k - 1].raw = log[k].raw /\ log[k].raw # "none"
        /\ log[k].stable \/ \E m \in 1..(k - 1) : Held(m, k)
    BY <1>2, <1>3 DEF SignalInv, ConfirmedIsHeld, Confirmed
  <2>2. log'[k] = log[k] /\ \A m \in 1..k : log'[m] = log[m]
    BY <1>2, <1>3
  <2>3. k - 1 \in 1..k
    BY <1>2, <1>3, <2>1
  <2>4. ASSUME NEW m \in 1..(k - 1), Held(m, k) PROVE Held(m, k)'
    <3>1. m \in 1..k /\ \A j \in m..k : j \in 1..k
      BY <1>2, <1>3
    <3> QED
      BY <2>2, <2>4, <3>1 DEF Held, Same
  <2> QED
    BY <2>1, <2>2, <2>3, <2>4
<1>4. CASE k = n
  <2>1. e.raw = current /\ e.raw # "none" /\ HeldLong(e) /\ e.time = result.time
    BY <1>2, <1>4 DEF Logged
  <2>2. PICK m \in 1..Len(log) : log[m].time = since /\ RunFrom(m, current)
    BY <2>1 DEF SignalInv, SinceIsStart
  <2>3. n > 1 /\ n - 1 = Len(log) /\ m < n /\ Len(log) \in m..Len(log) /\ Len(log) \in 1..Len(log)
    BY <1>1, <1>2
  <2>4. log'[n - 1].raw = e.raw
    BY <1>2, <2>1, <2>2, <2>3 DEF RunFrom
  <2>5. ASSUME ~e.stable PROVE Held(m, n)'
    <3>1. \A j \in m..n : j \in m..Len(log) \/ j = n
      BY <1>1, <1>2
    <3>2. \A j \in m..Len(log) : j \in 1..Len(log)
      BY <1>2
    <3>3. \A j \in m..n : log'[j].raw = log'[n].raw
      BY <1>2, <2>1, <2>2, <3>1, <3>2 DEF RunFrom
    <3>4. log'[n].time = result.time /\ log'[m].time = since
      BY <1>2, <2>1, <2>2
    <3>5. result.time - since >= config.hold
      <4>1. since <= result.time /\ since \in Nat /\ result.time \in Nat /\ config.hold \in Nat
        BY ConfigsAssumption DEF SignalInv, TypeOK, SinceIsStart
      <4> QED
        BY <2>1, <2>5, <4>1 DEF HeldLong
    <3> QED
      BY <2>3, <3>3, <3>4, <3>5 DEF Held, Same
  <2> QED
    BY <1>2, <1>4, <2>1, <2>3, <2>4, <2>5
<1> QED
  BY <1>2, <1>3, <1>4

\* A signal confirmed again was cancelled meanwhile.
LEMMA OnceKept ==
  ASSUME SignalInv, NEW e \in Entry, Logged(e), UNCHANGED <<config, result>>
  PROVE  ConfirmedOnce'
<1>1. PICK n : n = Len(log) + 1
  OBVIOUS
<1>2. /\ Len(log) \in Nat /\ n \in Nat \ {0} /\ Len(log') = n
      /\ DOMAIN log = 1..Len(log) /\ DOMAIN log' = 1..n
      /\ log'[n] = e /\ \A k \in 1..Len(log) : log'[k] = log[k]
      /\ \A k \in 1..n : k \in 1..Len(log) \/ k = n
      /\ \A k \in 1..Len(log) : k \in 1..n /\ k # n
  BY <1>1, LogGrows DEF SignalInv, TypeOK, Logged
<1> SUFFICES ASSUME NEW m \in 1..n, NEW k \in 1..n, log'[m].confirmed, log'[k].confirmed,
                    m < k, log'[m].raw = log'[k].raw
             PROVE  \E j \in m..k : \/ log'[j].raw = "none"
                                    \/ j \in 1..n /\ log'[j].confirmed /\ log'[j].raw # log'[k].raw
  BY <1>2 DEF ConfirmedOnce, Confirmed
<1>3. m \in 1..Len(log)
  BY <1>1, <1>2
<1>4. CASE k \in 1..Len(log)
  <2>1. PICK j \in m..k : \/ log[j].raw = "none"
                          \/ j \in 1..Len(log) /\ log[j].confirmed /\ log[j].raw # log[k].raw
    BY <1>2, <1>3, <1>4 DEF SignalInv, ConfirmedOnce, Confirmed
  <2>2. j \in 1..Len(log)
    BY <1>2, <1>3, <1>4
  <2> QED
    BY <1>2, <1>4, <2>1, <2>2
<1>5. CASE k = n
  <2>1. e.raw = current /\ last # e.raw /\ log[m].raw = e.raw /\ log[m].confirmed
    BY <1>2, <1>3, <1>5 DEF Logged
  <2>2. PICK j \in m..Len(log) : log[j].raw = "none" \/ (log[j].confirmed /\ log[j].raw # log[m].raw)
    BY <1>3, <2>1 DEF SignalInv, LastIsStanding
  <2>3. j \in 1..Len(log) /\ j \in m..n
    BY <1>1, <1>2, <1>3
  <2> QED
    BY <1>2, <1>5, <2>1, <2>2, <2>3
<1> QED
  BY <1>2, <1>4, <1>5

\* A signal that was held is the one confirmed last, or is confirmed now.
LEMMA NoneMissed ==
  ASSUME SignalInv, NEW e \in Entry, Logged(e), UNCHANGED <<config, result>>, LastIsStanding'
  PROVE  HeldIsConfirmed'
<1>1. PICK n : n = Len(log) + 1
  OBVIOUS
<1>2. /\ Len(log) \in Nat /\ n \in Nat \ {0} /\ Len(log') = n
      /\ DOMAIN log = 1..Len(log) /\ DOMAIN log' = 1..n
      /\ log'[n] = e /\ \A k \in 1..Len(log) : log'[k] = log[k]
      /\ \A k \in 1..n : k \in 1..Len(log) \/ k = n
      /\ \A k \in 1..Len(log) : k \in 1..n /\ k # n
  BY <1>1, LogGrows DEF SignalInv, TypeOK, Logged
<1> SUFFICES ASSUME NEW m \in 1..n, NEW q \in 1..n, Held(m, q)', log'[q].raw # "none"
             PROVE  \E k \in 1..n :
                      /\ log'[k].confirmed /\ k <= q /\ log'[k].raw = log'[q].raw
                      /\ \A j \in k..q : /\ log'[j].raw # "none"
                                         /\ j \in 1..n /\ log'[j].confirmed => log'[j].raw = log'[q].raw
  BY <1>2 DEF HeldIsConfirmed, Confirmed
<1>3. m < q /\ m \in 1..Len(log)
  BY <1>1, <1>2 DEF Held
<1>4. CASE q \in 1..Len(log)
  <2>1. \A j \in 1..q : j \in 1..Len(log) /\ log'[j] = log[j]
    BY <1>2, <1>4
  <2>2. Held(m, q)
    <3>1. \A j \in m..q : j \in 1..q
      BY <1>2, <1>3, <1>4
    <3>2. m \in 1..q /\ q \in 1..q
      BY <1>2, <1>3, <1>4
    <3> QED
      BY <2>1, <3>1, <3>2 DEF Held, Same
  <2>3. PICK k \in Confirmed :
          /\ k <= q /\ log[k].raw = log[q].raw
          /\ \A j \in k..q : log[j].raw # "none" /\ (j \in Confirmed => log[j].raw = log[q].raw)
    <3>1. m \in DOMAIN log /\ q \in DOMAIN log /\ log[q].raw # "none"
      BY <1>2, <1>3, <1>4
    <3> QED
      BY <2>2, <3>1 DEF SignalInv, HeldIsConfirmed
  <2>4. k \in 1..Len(log) /\ log[k].confirmed /\ \A j \in k..q : j \in 1..q
    BY <1>2, <1>4, <2>3 DEF Confirmed
  <2>5. \A j \in k..q : log[j].confirmed => j \in Confirmed
    BY <1>2, <2>1, <2>4 DEF Confirmed
  <2> QED
    BY <1>2, <1>4, <2>1, <2>3, <2>4, <2>5
<1>5. CASE q = n
  <2>1. RunFrom(m, e.raw)'
    BY <1>2, <1>5 DEF Held, Same, RunFrom
  <2>2. e.raw = current /\ RunFrom(m, current) /\ e.raw # "none"
    BY <1>1, <1>2, <1>3, <1>5, <2>1, RunsMeet
  <2>3. since <= log[m].time
    BY <1>3, <2>2 DEF SignalInv, SinceIsStart
  <2>4. e.time - log[m].time >= config.hold
    BY <1>2, <1>3, <1>5 DEF Held
  <2>5. HeldLong(e)
    <3>1. log[m] \in Entry
      BY <1>3 DEF SignalInv, TypeOK
    <3>2. since \in Nat /\ log[m].time \in Nat /\ e.time \in Nat /\ config.hold \in Nat
      BY <3>1, ConfigsAssumption DEF SignalInv, TypeOK, Entry
    <3> QED
      BY <2>3, <2>4, <3>2 DEF HeldLong
  <2>6. last' = e.raw
    BY <2>2, <2>5 DEF Logged
  <2>7. PICK k \in 1..n : Standing(k, last)'
    BY <1>2, <2>2, <2>6 DEF LastIsStanding
  <2> QED
    BY <1>2, <1>5, <2>6, <2>7 DEF Standing
<1> QED
  BY <1>2, <1>4, <1>5

LEMMA NextSignal == SignalInv /\ [Next]_vars => SignalInv'
<1> SUFFICES ASSUME SignalInv, [Next]_vars PROVE SignalInv'
  OBVIOUS
<1>1. CASE Tick
  <2>1. PICK e \in Entry : Logged(e)
    BY <1>1, EvaluateLogs DEF SignalInv
  <2>2. UNCHANGED <<config, result>>
    BY <1>1 DEF Tick
  <2> QED
    BY <2>1, <2>2, LoggedType, LatestKept, StartKept, StandingKept, HeldKept, OnceKept, NoneMissed
       DEF SignalInv
<1>2. ASSUME TypeOK', UNCHANGED <<config, current, since, last, log>>, result'.time >= result.time
      PROVE  SignalInv'
  <2>1. CurrentIsLatest' /\ LastIsStanding'
    BY <1>2 DEF SignalInv, CurrentIsLatest, LastIsStanding, Standing
  <2>2. SinceIsStart'
    <3>1. since' <= result'.time
      BY <1>2 DEF SignalInv, SinceIsStart, TypeOK
    <3> QED
      BY <1>2, <3>1 DEF SignalInv, SinceIsStart, RunFrom
  <2>3. ConfirmedIsHeld' /\ ConfirmedOnce' /\ HeldIsConfirmed'
    BY <1>2 DEF SignalInv, ConfirmedIsHeld, ConfirmedOnce, HeldIsConfirmed, Confirmed, Held, Same
  <2> QED
    BY <1>2, <2>1, <2>2, <2>3 DEF SignalInv
<1>3. CASE Publish
  <2>1. TypeOK'
    BY <1>3, PublishType DEF SignalInv
  <2>2. result'.time >= result.time
    BY <1>3 DEF Publish, SignalInv, TypeOK
  <2> QED
    BY <1>2, <1>3, <2>1, <2>2 DEF Publish
<1>4. CASE UNCHANGED vars
  <2>1. TypeOK' /\ result'.time >= result.time
    BY <1>4 DEF vars, SignalInv, TypeOK
  <2> QED
    BY <1>2, <1>4, <2>1 DEF vars
<1> QED
  BY <1>1, <1>3, <1>4 DEF Next

LEMMA SignalInvariance == Spec => []SignalInv
  BY InitSignal, NextSignal, PTL DEF Spec

\* ConfirmedIsHeld: no signal is confirmed at the evaluation that first comes to
\* it, and none that is not far beyond its threshold before it was held.
THEOREM ConfirmedWasHeld == Spec => []ConfirmedIsHeld
<1>1. SignalInv => ConfirmedIsHeld
  BY DEF SignalInv
<1> QED
  BY SignalInvariance, <1>1, PTL

\* ConfirmedOnce: a signal is confirmed again only after a neutral score or the
\* confirmation of the other side.
THEOREM OneSignalOneOrder == Spec => []ConfirmedOnce
<1>1. SignalInv => ConfirmedOnce
  BY DEF SignalInv
<1> QED
  BY SignalInvariance, <1>1, PTL

\* HeldIsConfirmed: a signal held for the hold duration has been confirmed.
THEOREM NoSignalMissed == Spec => []HeldIsConfirmed
<1>1. SignalInv => HeldIsConfirmed
  BY DEF SignalInv
<1> QED
  BY SignalInvariance, <1>1, PTL

-----------------------------------------------------------------------------
(***************************************************************************)
(* The clamps.                                                             *)
(***************************************************************************)
LEMMA MaxOfTwo ==
  ASSUME NEW a \in Int, NEW b \in Int
  PROVE  /\ Max({a, b}) \in {a, b} /\ Max({a, b}) >= a /\ Max({a, b}) >= b
         /\ Min({a, b}) \in {a, b} /\ Min({a, b}) <= a /\ Min({a, b}) <= b
<1>1. \E x \in {a, b} : \A y \in {a, b} : x >= y
  BY SMT
<1>2. \E x \in {a, b} : \A y \in {a, b} : x =< y
  BY SMT
<1>3. Max({a, b}) \in {a, b} /\ \A y \in {a, b} : Max({a, b}) >= y
  BY <1>1 DEF Max
<1>4. Min({a, b}) \in {a, b} /\ \A y \in {a, b} : Min({a, b}) =< y
  BY <1>2 DEF Min
<1> QED
  BY <1>3, <1>4

\* Either clamp may be the larger one; the threshold lies between the two.
LEMMA ThresholdsBetween ==
  ASSUME TypeOK, NEW f \in config.dynamic, NEW v \in config.volatilities
  PROVE  /\ config.threshold * f.min \in Nat /\ config.threshold * f.max \in Nat
         /\ LongThreshold(v) \in Int /\ ShortThreshold(v) \in Int
         /\ \/ LongThreshold(v) >= config.threshold * f.min
            \/ LongThreshold(v) >= config.threshold * f.max
         /\ \/ LongThreshold(v) <= config.threshold * f.min
            \/ LongThreshold(v) <= config.threshold * f.max
         /\ \/ -ShortThreshold(v) >= config.threshold * f.min
            \/ -ShortThreshold(v) >= config.threshold * f.max
         /\ \/ -ShortThreshold(v) <= config.threshold * f.min
            \/ -ShortThreshold(v) <= config.threshold * f.max
<1>1. /\ config.threshold \in Nat /\ v \in Nat
      /\ f.vol \in Int /\ f.min \in Nat /\ f.max \in Nat
  BY ConfigsAssumption DEF TypeOK
<1>2. (CHOOSE x \in config.dynamic : TRUE) = f
  BY ConfigsAssumption DEF TypeOK
<1>3. PICK x, low, high : /\ x = 100 * config.threshold + v * f.vol
                          /\ low = config.threshold * f.min /\ high = config.threshold * f.max
  OBVIOUS
<1>4. x \in Int /\ low \in Int /\ high \in Int /\ low \in Nat /\ high \in Nat
  BY <1>1, <1>3
<1>5. /\ LongThreshold(v) = Min({Max({x, low}), high})
      /\ ShortThreshold(v) = -Max({Min({x, high}), low})
  BY <1>2, <1>3 DEF LongThreshold, ShortThreshold, Threshold, ClampedLong, ClampedShort
<1>6. PICK y, z : y = Max({x, low}) /\ z = Min({x, high})
  OBVIOUS
<1>7. y \in {x, low} /\ y >= low
  BY <1>4, <1>6, MaxOfTwo, Zenon
<1>8. z \in {x, high} /\ z <= high
  BY <1>4, <1>6, MaxOfTwo, Zenon
<1>. PICK s, t : s = Min({y, high}) /\ t = Max({z, low})
  OBVIOUS
<1>. y \in Int /\ z \in Int
  BY <1>4, <1>7, <1>8
<1>9. s \in {y, high} /\ s <= high /\ s <= y
  BY <1>4, MaxOfTwo, Zenon
<1>10. t \in {z, low} /\ t >= low /\ t >= z
  BY <1>4, MaxOfTwo, Zenon
<1>11. /\ s \in Int /\ (s >= low \/ s >= high) /\ (s <= low \/ s <= high)
       /\ t \in Int /\ (t >= low \/ t >= high) /\ (t <= low \/ t <= high)
  BY <1>4, <1>7, <1>8, <1>9, <1>10
<1>12. LongThreshold(v) = s /\ ShortThreshold(v) = -t /\ -ShortThreshold(v) = t
  BY <1>5, <1>6, <1>11
<1> QED
  BY <1>3, <1>4, <1>11, <1>12

LEMMA ClampStep == TypeOK /\ WithinClamps /\ [Next]_vars => WithinClamps'
<1> SUFFICES ASSUME TypeOK, WithinClamps, [Next]_vars PROVE WithinClamps'
  OBVIOUS
<1>1. CASE UNCHANGED <<config, log>>
  BY <1>1 DEF WithinClamps
<1>2. CASE Tick
  <2>1. PICK e \in Entry : Logged(e) /\ Seen(e)
    BY <1>2, EvaluateLogs
  <2>2. PICK n : n = Len(log) + 1
    OBVIOUS
  <2>3. /\ DOMAIN log = 1..Len(log) /\ DOMAIN log' = 1..n
        /\ log'[n] = e /\ \A k \in 1..Len(log) : log'[k] = log[k]
        /\ \A k \in 1..n : k \in 1..Len(log) \/ k = n
    BY <2>1, <2>2, LogGrows DEF TypeOK, Logged
  <2>4. UNCHANGED config
    BY <1>2 DEF Tick
  <2>5. ASSUME NEW f \in config.dynamic, NEW size \in Int,
               size = IF e.score < 0 THEN -e.score ELSE e.score
        PROVE  /\ e.raw # "none" => \/ 100 * size >= config.threshold * f.min
                                    \/ 100 * size >= config.threshold * f.max
               /\ 100 * size >= config.threshold * f.min /\ 100 * size >= config.threshold * f.max
                     => e.side # "none"
    <3>1. PICK v \in config.volatilities : e.side = Side(e.score, v)
      BY <2>1 DEF Seen
    <3>2. PICK low, high, s, t : /\ low = config.threshold * f.min /\ high = config.threshold * f.max
                                 /\ s = LongThreshold(v) /\ t = ShortThreshold(v)
      OBVIOUS
    <3>3. /\ low \in Nat /\ high \in Nat /\ s \in Int /\ t \in Int
          /\ s >= low \/ s >= high
          /\ s <= low \/ s <= high
          /\ -t >= low \/ -t >= high
          /\ -t <= low \/ -t <= high
      BY <3>2, ThresholdsBetween
    <3>4. e.side = IF 100 * e.score >= s THEN "long" ELSE IF 100 * e.score <= t THEN "short" ELSE "none"
      BY <3>1, <3>2 DEF Side
    <3>5. e.score \in Int /\ e.raw \in {e.side, "none"}
      BY <2>1 DEF Entry, Seen
    <3>6. e.side # "none" => 100 * size >= low \/ 100 * size >= high
      BY <2>5, <3>3, <3>4, <3>5
    <3>7. 100 * size >= low /\ 100 * size >= high => e.side # "none"
      BY <2>5, <3>3, <3>4, <3>5
    <3> QED
      BY <3>2, <3>5, <3>6, <3>7
  <2>6. \A f \in config.dynamic :
          LET size == IF e.score < 0 THEN -e.score ELSE e.score
          IN  /\ e.raw # "none" => \/ 100 * size >= config.threshold * f.min
                                   \/ 100 * size >= config.threshold * f.max
              /\ 100 * size >= config.threshold * f.min /\ 100 * size >= config.threshold * f.max
                    => e.side # "none"
    <3>1. e.score \in Int
      BY DEF Entry
    <3> QED
      BY <2>5, <3>1
  <2> QED
    BY <2>3, <2>4, <2>6 DEF WithinClamps
<1> QED
  BY <1>1, <1>2 DEF Next, Publish, vars

\* WithinClamps: whatever the volatility and however the clamps are configured,
\* a signal lies beyond one of them, and a score beyond both is one.
THEOREM ThresholdsClamped == Spec => []WithinClamps
<1>1. Init => WithinClamps
  <2>1. Init => DOMAIN log = {}
    BY DEF Init
  <2> QED
    BY <2>1 DEF WithinClamps
<1>2. SignalInv => TypeOK
  BY DEF SignalInv
<1> QED
  BY SignalInvariance, <1>1, <1>2, ClampStep, PTL DEF Spec

-----------------------------------------------------------------------------
(***************************************************************************)
(* The slope of the OBI: its sign, and the history it is computed from.    *)
(***************************************************************************)
\* The sequences whose sums the slope is computed from: 0 .. n-1, the squares,
\* the values, and the products of the values with 0 .. n-1.
Terms(n, h, sx, sxx, sy, sxy) ==
    /\ sx \in Seq(Int) /\ sxx \in Seq(Int) /\ sy \in Seq(Int) /\ sxy \in Seq(Int)
    /\ Len(sx) = n /\ Len(sxx) = n /\ Len(sy) = n /\ Len(sxy) = n
    /\ \A i \in 1..n : /\ sx[i] = i - 1 /\ sxx[i] = (i - 1) * (i - 1)
                       /\ sy[i] = h[i] /\ sxy[i] = (i - 1) * h[i]

\* n times the sum of the squares is at least the square of the sum; the sum of
\* the products is on the one or the other side when the values only fall or rise.
LEMMA RegressionSums ==
  ASSUME NEW n \in Nat, NEW h \in [1..n -> Int],
         NEW sx, NEW sxx, NEW sy, NEW sxy, Terms(n, h, sx, sxx, sy, sxy),
         NEW a, NEW q, NEW b, NEW c,
         PrefixSums(a, sx), PrefixSums(q, sxx), PrefixSums(b, sy), PrefixSums(c, sxy)
  PROVE  /\ a[n] \in Int /\ q[n] \in Int /\ b[n] \in Int /\ c[n] \in Int
         /\ n * q[n] - a[n] * a[n] >= 0
         /\ (\A i, j \in 1..n : i < j => h[i] >= h[j]) => n * c[n] - a[n] * b[n] <= 0
         /\ (\A i, j \in 1..n : i < j => h[i] <= h[j]) => n * c[n] - a[n] * b[n] >= 0
<1> PICK tx, txx, ty, txy : tx = a[n] /\ txx = q[n] /\ ty = b[n] /\ txy = c[n]
  OBVIOUS
<1>1. /\ sx \in Seq(Int) /\ sxx \in Seq(Int) /\ sy \in Seq(Int) /\ sxy \in Seq(Int)
      /\ Len(sx) = n /\ Len(sxx) = n /\ Len(sy) = n /\ Len(sxy) = n
  BY DEF Terms
<1>2. \A i \in 1..n : sx[i] = i - 1 /\ sy[i] = h[i]
  BY DEF Terms
<1>3. Products(sxx, sx, sx) /\ Products(sxy, sx, sy)
  BY <1>1, Zenon DEF Terms, Products
<1>4. Rises(sx)
  BY <1>1, <1>2 DEF Rises
<1>5. tx \in Int /\ txx \in Int /\ ty \in Int /\ txy \in Int
  <2>1. n \in 0..n
    OBVIOUS
  <2>2. a \in [0..n -> Int] /\ q \in [0..n -> Int] /\ b \in [0..n -> Int] /\ c \in [0..n -> Int]
    BY <1>1, Zenon DEF PrefixSums
  <2> QED
    BY <2>1, <2>2
<1>6. /\ n * txx \in Int /\ tx * tx \in Int /\ n * txy \in Int /\ tx * ty \in Int
      /\ n * (-txx) = -(n * txx) /\ tx * (-tx) = -(tx * tx)
      /\ n * (-txy) = -(n * txy) /\ tx * (-ty) = -(tx * ty)
  BY ONLY n \in Int, <1>5, NegatedProduct
<1>7. n * txx - tx * tx >= 0
  <2>1. n * (-txx) <= tx * (-tx)
    BY <1>1, <1>3, <1>4, FallingSums
  <2> QED
    BY ONLY <1>6, <2>1
<1>8. ASSUME \A i, j \in 1..n : i < j => h[i] >= h[j] PROVE n * txy - tx * ty <= 0
  <2>1. Falls(sy)
    BY <1>1, <1>2, <1>8 DEF Falls
  <2>2. n * txy <= tx * ty
    BY <1>1, <1>3, <1>4, <2>1, OppositeSums
  <2> QED
    BY ONLY <1>6, <2>2
<1>9. ASSUME \A i, j \in 1..n : i < j => h[i] <= h[j] PROVE n * txy - tx * ty >= 0
  <2>1. Rises(sy)
    BY <1>1, <1>2, <1>9 DEF Rises
  <2>2. n * (-txy) <= tx * (-ty)
    BY <1>1, <1>3, <1>4, <2>1, FallingSums
  <2> QED
    BY ONLY <1>6, <2>2
<1> QED
  BY <1>5, <1>7, <1>8, <1>9

\* The regression line of values that never rise does not rise, that of values
\* that never fall does not fall; den is positive.
LEMMA SlopeSign ==
  ASSUME TypeOK, NEW h \in Seq(Int)
  PROVE  /\ Slope(h).num \in Int /\ Slope(h).den \in Int /\ Slope(h).den > 0
         /\ (\A i, j \in 1..Len(h) : i < j => h[i] >= h[j]) => Slope(h).num <= 0
         /\ (\A i, j \in 1..Len(h) : i < j => h[i] <= h[j]) => Slope(h).num >= 0
<1> PICK n \in Nat : n = Len(h)
  OBVIOUS
<1>1. PICK sx, sxx, sy, sxy :
      /\ sx = [m \in 1..n |-> m - 1] /\ sxx = [m \in 1..n |-> (m - 1) * (m - 1)]
      /\ sy = [m \in 1..n |-> h[m]] /\ sxy = [m \in 1..n |-> (m - 1) * h[m]]
  OBVIOUS
<1>2. Terms(n, h, sx, sxx, sy, sxy) /\ h \in [1..n -> Int]
  <2>1. \A m \in 1..n : /\ m - 1 \in Int /\ (m - 1) * (m - 1) \in Int
                        /\ h[m] \in Int /\ (m - 1) * h[m] \in Int
    OBVIOUS
  <2> QED
    BY <1>1, <2>1 DEF Terms
<1>3. PICK a : PrefixSums(a, sx) /\ FoldLeft(+, 0, sx) = a[Len(sx)]
  BY <1>2, SumOfSequence, Zenon DEF Terms
<1>4. PICK q : PrefixSums(q, sxx) /\ FoldLeft(+, 0, sxx) = q[Len(sxx)]
  BY <1>2, SumOfSequence, Zenon DEF Terms
<1>5. PICK b : PrefixSums(b, sy) /\ FoldLeft(+, 0, sy) = b[Len(sy)]
  BY <1>2, SumOfSequence, Zenon DEF Terms
<1>6. PICK c : PrefixSums(c, sxy) /\ FoldLeft(+, 0, sxy) = c[Len(sxy)]
  BY <1>2, SumOfSequence, Zenon DEF Terms
<1>7. PICK tx, txx, ty, txy : tx = a[n] /\ txx = q[n] /\ ty = b[n] /\ txy = c[n]
  OBVIOUS
<1>8. /\ tx = FoldLeft(+, 0, sx) /\ txx = FoldLeft(+, 0, sxx)
      /\ ty = FoldLeft(+, 0, sy) /\ txy = FoldLeft(+, 0, sxy)
  BY <1>2, <1>3, <1>4, <1>5, <1>6, <1>7, Zenon DEF Terms
<1>9. PrefixSums(a, sx) /\ PrefixSums(q, sxx) /\ PrefixSums(b, sy) /\ PrefixSums(c, sxy)
  BY <1>3, <1>4, <1>5, <1>6, Zenon
<1>10. \A m \in 1..n : (m - 1) * 1 = m - 1 /\ ((m - 1) * (m - 1)) * 1 = (m - 1) * (m - 1)
                      /\ 1 * h[m] = h[m]
  OBVIOUS
<1>11. Weighted([k \in 1..n |-> 1], LAMBDA w : w) = tx
  <2>1. Len([k \in 1..n |-> 1]) = n
    OBVIOUS
  <2>2. [m \in 1..n |-> (m - 1) * [k \in 1..n |-> 1][m]] = sx
    BY <1>1, <1>10
  <2> QED
    BY <1>8, <2>1, <2>2 DEF Weighted
<1>12. Weighted([k \in 1..n |-> 1], LAMBDA w : w * w) = txx
  <2>1. Len([k \in 1..n |-> 1]) = n
    OBVIOUS
  <2>2. [m \in 1..n |-> ((m - 1) * (m - 1)) * [k \in 1..n |-> 1][m]] = sxx
    BY <1>1, <1>10
  <2> QED
    BY <1>8, <2>1, <2>2 DEF Weighted
<1>13. Weighted(h, LAMBDA w : w) = txy
  BY <1>1, <1>8 DEF Weighted
<1>14. Weighted(h, LAMBDA w : 1) = ty
  <2>1. [m \in 1..n |-> 1 * h[m]] = sy
    BY <1>1, <1>10
  <2> QED
    BY <1>8, <2>1 DEF Weighted
<1>15. PICK den, num : den = n * txx - tx * tx /\ num = n * txy - tx * ty
  OBVIOUS
<1>16. Slope(h) = IF n < config.slopePeriod \/ den = 0 THEN [num |-> 0, den |-> 1]
                 ELSE [num |-> num, den |-> den]
  BY <1>11, <1>12, <1>13, <1>14, <1>15 DEF Slope
<1>17. /\ tx \in Int /\ txx \in Int /\ ty \in Int /\ txy \in Int
       /\ n * txx - tx * tx >= 0
       /\ (\A i, j \in 1..n : i < j => h[i] >= h[j]) => n * txy - tx * ty <= 0
       /\ (\A i, j \in 1..n : i < j => h[i] <= h[j]) => n * txy - tx * ty >= 0
  <2>1. /\ a[n] \in Int /\ q[n] \in Int /\ b[n] \in Int /\ c[n] \in Int
        /\ n * q[n] - a[n] * a[n] >= 0
        /\ (\A i, j \in 1..n : i < j => h[i] >= h[j]) => n * c[n] - a[n] * b[n] <= 0
        /\ (\A i, j \in 1..n : i < j => h[i] <= h[j]) => n * c[n] - a[n] * b[n] >= 0
    BY ONLY n \in Nat, <1>2, <1>9, RegressionSums
  <2> QED
    BY <1>7, <2>1
<1>18. /\ den \in Int /\ num \in Int /\ den >= 0
       /\ (\A i, j \in 1..n : i < j => h[i] >= h[j]) => num <= 0
       /\ (\A i, j \in 1..n : i < j => h[i] <= h[j]) => num >= 0
  <2>1. n * txx \in Int /\ tx * tx \in Int /\ n * txy \in Int /\ tx * ty \in Int
    BY <1>17
  <2> QED
    BY <1>15, <1>17, <2>1
<1>19. /\ Slope(h).num \in {0, num} /\ Slope(h).den \in Int /\ Slope(h).den > 0
  <2>1. CASE n < config.slopePeriod \/ den = 0
    BY <1>16, <2>1
  <2>2. CASE ~(n < config.slopePeriod \/ den = 0)
    BY <1>16, <1>18, <2>2
  <2> QED
    BY <2>1, <2>2
<1> QED
  BY <1>18, <1>19

\* The history holds the OBI of the latest evaluations, in their order.
HistoryIsLog ==
    config.slopePeriod > 0 =>
        /\ obiHistory \in Seq(Int)
        /\ Len(obiHistory) <= config.slopePeriod /\ Len(obiHistory) <= Len(log)
        /\ \A i \in 1..Len(obiHistory) : obiHistory[i] = log[Len(log) - Len(obiHistory) + i].obi

LEMMA HistoryKept ==
  ASSUME TypeOK, HistoryIsLog, config.slopePeriod > 0, UNCHANGED config,
         NEW e \in Entry, Logged(e), Filtered(e)
  PROVE  HistoryIsLog'
<1> PICK n, l, p \in Nat : n = Len(log) /\ l = Len(obiHistory) /\ p = config.slopePeriod
  BY ConfigsAssumption DEF TypeOK, HistoryIsLog
<1>1. /\ Len(log') = n + 1 /\ log'[n + 1] = e
      /\ \A k \in 1..n : log'[k] = log[k]
  <2>1. PICK m : m = Len(log) + 1
    OBVIOUS
  <2>2. Len(log') = m /\ log'[m] = e /\ \A k \in 1..Len(log) : log'[k] = log[k]
    BY <2>1, LogGrows DEF TypeOK, Logged
  <2> QED
    BY <2>1, <2>2
<1>2. e.obi \in Int /\ obiHistory \in Seq(Int) /\ l <= p /\ l <= n /\ p > 0
  BY DEF Entry, HistoryIsLog
<1> PICK g : g = Append(obiHistory, e.obi)
  OBVIOUS
<1>3. /\ g \in Seq(Int) /\ Len(g) = l + 1 /\ g[l + 1] = e.obi
      /\ \A i \in 1..l : g[i] = obiHistory[i]
  BY <1>2
<1>4. \A i \in 1..(l + 1) : g[i] = log'[(n + 1) - (l + 1) + i].obi
  <2> TAKE i \in 1..(l + 1)
  <2>1. CASE i = l + 1
    <3>1. (n + 1) - (l + 1) + i = n + 1
      BY <2>1
    <3> QED
      BY <1>1, <1>3, <2>1, <3>1
  <2>2. CASE i \in 1..l
    <3>1. /\ (n + 1) - (l + 1) + i = n - l + i /\ n - l + i \in 1..n
      BY <1>2, <2>2
    <3>2. obiHistory[i] = log[n - l + i].obi
      BY <2>2 DEF HistoryIsLog
    <3> QED
      BY <1>1, <1>3, <2>2, <3>1, <3>2
  <2> QED
    BY <2>1, <2>2
<1>5. obiHistory' = IF l + 1 > p THEN Tail(g) ELSE g
  BY <1>3 DEF Filtered, Remember
<1>6. CASE l + 1 > p
  <2>1. obiHistory' = Tail(g) /\ Len(Tail(g)) = l /\ Tail(g) \in Seq(Int)
    BY <1>3, <1>5, <1>6
  <2>2. \A i \in 1..l : Tail(g)[i] = log'[(n + 1) - l + i].obi
    <3> TAKE i \in 1..l
    <3>1. Tail(g)[i] = g[i + 1] /\ i + 1 \in 1..(l + 1)
      BY <1>3
    <3>2. (n + 1) - (l + 1) + (i + 1) = (n + 1) - l + i
      OBVIOUS
    <3> QED
      BY <1>4, <3>1, <3>2
  <2>3. l <= config.slopePeriod /\ l <= n + 1
    BY <1>2
  <2>4. Len(obiHistory') = l /\ obiHistory' \in Seq(Int)
    BY ONLY <2>1
  <2>5. Len(log') = n + 1 /\ config' = config
    BY <1>1
  <2>6. \A i \in 1..l : obiHistory'[i] = log'[(n + 1) - l + i].obi
    BY ONLY <2>1, <2>2
  <2> QED
    BY ONLY <2>3, <2>4, <2>5, <2>6 DEF HistoryIsLog
<1>7. CASE ~(l + 1 > p)
  <2>1. obiHistory' = g /\ l + 1 <= p /\ l + 1 <= n + 1
    BY <1>2, <1>5, <1>7
  <2> QED
    BY <1>1, <1>3, <1>4, <2>1 DEF HistoryIsLog
<1> QED
  BY <1>6, <1>7

\* A signal the filter lets pass has a move of the OBI to its side behind it.
LEMMA SlopeFollows ==
  ASSUME TypeOK, NEW h \in Seq(Int), NEW side \in {"long", "short"}, ~AgainstSlope(side, h),
         config.slopeThreshold > 0
  PROVE  \E i, j \in 1..Len(h) :
            i < j /\ IF side = "long" THEN h[i] < h[j] ELSE h[i] > h[j]
<1> PICK num, den, t : num = Slope(h).num /\ den = Slope(h).den /\ t = config.slopeThreshold
  OBVIOUS
<1>1. num \in Int /\ den \in Int /\ den > 0 /\ t \in Int /\ t > 0
  BY SlopeSign, ConfigsAssumption DEF TypeOK
<1>2. t * den > 0 /\ (-t) * den < 0
  BY <1>1
<1>3. \A i \in 1..Len(h) : h[i] \in Int
  OBVIOUS
<1>4. CASE side = "long"
  <2>1. ~(num < t * den)
    BY <1>4 DEF AgainstSlope
  <2>2. ~(num <= 0)
    BY <1>1, <1>2, <2>1
  <2>3. ~ \A i, j \in 1..Len(h) : i < j => h[i] >= h[j]
    BY <2>2, SlopeSign
  <2> QED
    BY <1>3, <1>4, <2>3
<1>5. CASE side = "short"
  <2>1. ~(num > -t * den)
    BY <1>5 DEF AgainstSlope
  <2>2. ~(num >= 0)
    BY <1>1, <1>2, <2>1
  <2>3. ~ \A i, j \in 1..Len(h) : i < j => h[i] <= h[j]
    BY <2>2, SlopeSign
  <2> QED
    BY <1>3, <1>5, <2>3
<1> QED
  BY <1>4, <1>5

LEMMA FollowStep ==
  TypeOK /\ HistoryIsLog /\ FollowsObi /\ [Next]_vars => HistoryIsLog' /\ FollowsObi'
<1> SUFFICES ASSUME TypeOK, HistoryIsLog, FollowsObi, [Next]_vars
             PROVE  HistoryIsLog' /\ FollowsObi'
  OBVIOUS
<1>1. CASE UNCHANGED <<config, obiHistory, log>>
  BY <1>1 DEF HistoryIsLog, FollowsObi, Confirmed
<1>2. CASE Tick
  <2>1. PICK e \in Entry : Logged(e) /\ Filtered(e)
    BY <1>2, EvaluateLogs
  <2>2. UNCHANGED config
    BY <1>2 DEF Tick
  <2>3. CASE ~(config.slopePeriod > 0)
    BY <2>2, <2>3 DEF HistoryIsLog, FollowsObi
  <2>4. CASE config.slopePeriod > 0
    <3>1. HistoryIsLog'
      BY <2>1, <2>2, <2>4, HistoryKept
    <3> PICK n : n = Len(log) + 1
      OBVIOUS
    <3>2. /\ n \in Nat /\ n = Len(log') /\ DOMAIN log = 1..Len(log) /\ DOMAIN log' = 1..n
          /\ log'[n] = e /\ \A k \in 1..Len(log) : log'[k] = log[k]
          /\ \A k \in 1..n : k \in 1..Len(log) \/ k = n
          /\ \A k \in 1..Len(log) : k \in 1..n
      BY <2>1, LogGrows DEF TypeOK, Logged
    <3> PICK p \in Nat : p = config.slopePeriod
      BY ConfigsAssumption DEF TypeOK
    <3>3. ASSUME config.slopeThreshold > 0, e.confirmed
          PROVE  \E i, j \in (n - p + 1)..n :
                   /\ 1 <= i /\ i < j
                   /\ IF e.raw = "long" THEN log'[i].obi < log'[j].obi
                      ELSE log'[i].obi > log'[j].obi
      <4>1. e.raw \in {"long", "short"} /\ ~AgainstSlope(e.raw, obiHistory')
        BY <2>1, <2>4, <3>3 DEF Logged, Filtered, Entry, Sides
      <4> PICK h : h = obiHistory'
        OBVIOUS
      <4>2. /\ h \in Seq(Int) /\ Len(h) <= p /\ Len(h) <= n
            /\ \A i \in 1..Len(h) : h[i] = log'[n - Len(h) + i].obi
        BY <2>2, <2>4, <3>1, <3>2 DEF HistoryIsLog
      <4>3. PICK i, j \in 1..Len(h) :
              i < j /\ IF e.raw = "long" THEN h[i] < h[j] ELSE h[i] > h[j]
        <5>1. e.raw \in {"long", "short"} /\ ~AgainstSlope(e.raw, h) /\ h \in Seq(Int)
          BY <4>1, <4>2
        <5> QED
          BY ONLY <3>3, <5>1, TypeOK, SlopeFollows
      <4> PICK l \in Nat : l = Len(h)
        BY <4>2
      <4>4. l <= p /\ l <= n /\ i \in 1..l /\ j \in 1..l /\ i < j
        BY <4>2, <4>3
      <4>5. /\ n - l + i \in (n - p + 1)..n /\ n - l + j \in (n - p + 1)..n
            /\ 1 <= n - l + i /\ n - l + i < n - l + j
        BY ONLY n \in Nat, l \in Nat, p \in Nat, i \in Int, j \in Int, <4>4
      <4>6. h[i] = log'[n - l + i].obi /\ h[j] = log'[n - l + j].obi
        BY <4>2
      <4> QED
        BY <4>3, <4>5, <4>6
    <3>4. ASSUME config.slopeThreshold > 0, NEW k \in 1..Len(log), log[k].confirmed
          PROVE  \E i, j \in (k - p + 1)..k :
                   /\ 1 <= i /\ i < j
                   /\ IF log'[k].raw = "long" THEN log'[i].obi < log'[j].obi
                      ELSE log'[i].obi > log'[j].obi
      <4>1. PICK i, j \in (k - p + 1)..k :
               /\ 1 <= i /\ i < j
               /\ IF log[k].raw = "long" THEN log[i].obi < log[j].obi ELSE log[i].obi > log[j].obi
        BY <2>4, <3>2, <3>4 DEF FollowsObi, Confirmed
      <4>2. i \in 1..Len(log) /\ j \in 1..Len(log)
        BY <3>2, <4>1
      <4> QED
        BY <3>2, <4>1, <4>2
    <3>5. FollowsObi'
      BY <2>2, <3>2, <3>3, <3>4 DEF FollowsObi, Confirmed
    <3> QED
      BY <3>1, <3>5
  <2> QED
    BY <2>3, <2>4
<1> QED
  BY <1>1, <1>2 DEF Next, Publish, vars

\* FollowsObi: with the slope filter and a positive slope threshold, the OBI rose
\* between two of the last slopePeriod evaluations before a long signal is
\* confirmed, and fell before a short one, however long the period.
THEOREM SignalFollowsObi == Spec => []FollowsObi
<1>1. Init => HistoryIsLog /\ FollowsObi
  <2> SUFFICES ASSUME Init PROVE HistoryIsLog /\ FollowsObi
    OBVIOUS
  <2>1. log = <<>> /\ obiHistory = <<>> /\ config \in Configs
    BY DEF Init
  <2>2. Len(obiHistory) = 0 /\ Len(log) = 0 /\ DOMAIN log = {} /\ obiHistory \in Seq(Int)
    BY <2>1
  <2>3. config.slopePeriod \in Nat
    BY <2>1, ConfigsAssumption
  <2> QED
    BY <2>2, <2>3 DEF HistoryIsLog, FollowsObi, Confirmed
<1>2. SignalInv => TypeOK
  BY DEF SignalInv
<1> QED
  BY SignalInvariance, <1>1, <1>2, FollowStep, PTL DEF Spec
=============================================================================
