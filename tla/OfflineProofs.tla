----------------------------- MODULE OfflineProofs -----------------------------
(***************************************************************************)
(* Theorems about the programs beside the trading bot, which share nothing *)
(* but the database and the configuration: the report generator, for any   *)
(* set of trades and any number of reports; a simulation, for any files;   *)
(* the loop of drift monitor, optimizer and reload, for any number of      *)
(* folds, jobs and crashes and any threshold; and the server simulations   *)
(* run on, for any number of trials and processors, any size of the pipe   *)
(* and any number of log lines.                                            *)
(***************************************************************************)
EXTENDS Backtest, Optimizer, Report, ArithmeticProofs, SequenceTheorems

-----------------------------------------------------------------------------
\* The steps of Executed, over trades of W.
Keeping(W) == [t \in W |-> [kept \in Seq(W) |-> Keep(kept, t)]]

LEMMA KeepType ==
  ASSUME NEW W, NEW t \in W, NEW kept \in Seq(W)
  PROVE  Keep(kept, t) \in Seq(W) /\ Keeping(W)[t][kept] = Keep(kept, t)
<1>1. Append(kept, t) \in Seq(W)
  OBVIOUS
<1>2. Keep(kept, t) \in Seq(W)
  BY <1>1 DEF Keep
<1> QED
  BY <1>2 DEF Keeping

\* Executed is a fold with these steps.
LEMMA ExecutedUnfold ==
  ASSUME NEW Of, NEW s \in Seq(Of)
  PROVE  \E it : /\ Executed(s) = it[1 .. Len(s)]
                 /\ Unfolds(it, s, Of, Seq(Of), Keeping(Of), <<>>)
<1> PICK S : S = 1 .. Len(s)
  OBVIOUS
<1> PICK W, V, P, base : W = Of /\ V = Seq(Of) /\ P = Keeping(Of) /\ base = <<>>
  OBVIOUS
<1> DEFINE Eq(h) == h = [T \in SUBSET S |->
                           IF T = {} THEN <<>> ELSE Keep(h[T \ {Max(T)}], s[Max(T)])]
<1>1. /\ DOMAIN s = S /\ s \in Seq(W) /\ Folds(W, V, P, base)
      /\ \A x \in W, v \in V : P[x][v] = Keep(v, x)
  BY KeepType DEF Keeping, Folds
<1>2. PICK k \in [SUBSET S -> V] :
         /\ k[{}] = base
         /\ \A T \in SUBSET S : T # {} => /\ s[Max(T)] \in W /\ k[T \ {Max(T)}] \in V
                                          /\ k[T] = P[s[Max(T)]][k[T \ {Max(T)}]]
  <2>1. Folds(W, V, P, base) /\ s \in Seq(W)
    BY <1>1
  <2>2. \E k : Unfolding(k, s, W, V, P, base)
    BY ONLY <2>1, UnfoldingExists
  <2> QED
    BY ONLY <2>2, S = 1 .. Len(s) DEF Unfolding
<1>3. Eq(k)
  <2>1. \A T \in SUBSET S : T # {} => k[T] = Keep(k[T \ {Max(T)}], s[Max(T)])
    BY ONLY <1>1, <1>2
  <2> QED
    BY ONLY <1>1, <1>2, <2>1, base = <<>>
<1> DEFINE it == CHOOSE h : Eq(h)
<1>4. Eq(it)
  <2> HIDE DEF Eq
  <2> QED
    BY <1>3
<1>5. Executed(s) = it[S]
  BY <1>1 DEF Executed, FoldLeft, MapThenFoldSet
<1> HIDE DEF it
<1>6. Unfolds(it, s, W, V, P, base)
  <2>1. it[{}] = base
    BY ONLY <1>1, <1>4, base = <<>>
  <2>2. \A T \in SUBSET S : T # {} => it[T] = Keep(it[T \ {Max(T)}], s[Max(T)])
    BY ONLY <1>4
  <2> QED
    BY ONLY <1>1, <1>2, <2>1, <2>2, S = 1 .. Len(s) DEF Unfolds
<1> QED
  BY <1>5, <1>6

\* What is executed of no trades, of any, and of one more.
LEMMA ExecutedSteps ==
  ASSUME NEW Of
  PROVE  /\ Executed(<<>>) = <<>>
         /\ \A s \in Seq(Of) : Executed(s) \in Seq(Of)
         /\ \A s \in Seq(Of), x \in Of : Executed(Append(s, x)) = Keep(Executed(s), x)
<1> PICK F : F = [s \in Seq(Of) |-> Executed(s)]
  OBVIOUS
<1>1. FoldsBy(F, Of, Seq(Of), Keeping(Of), <<>>)
  BY ExecutedUnfold DEF FoldsBy
<1>2. /\ F[<<>>] = <<>>
      /\ \A s \in Seq(Of) : F[s] \in Seq(Of)
      /\ \A s \in Seq(Of), x \in Of : F[Append(s, x)] = Keeping(Of)[x][F[s]]
  BY ONLY <1>1, FoldSteps
<1>3. <<>> \in Seq(Of) /\ \A s \in Seq(Of), x \in Of : Append(s, x) \in Seq(Of)
  OBVIOUS
<1> QED
  BY <1>2, <1>3 DEF Keeping

\* The last of the executed trades: those after it are cancelled.
LEMMA LastExecuted ==
  ASSUME NEW W, NEW s \in Seq(W), Executed(s) # <<>>
  PROVE  \E n \in DOMAIN s : /\ Last(Executed(s)) = s[n] /\ ~s[n].cancelled
                             /\ \A m \in DOMAIN s : m > n => s[m].cancelled
<1> PICK len \in Nat : len = Len(s)
  OBVIOUS
<1>1. PICK h : Executed(s) = h[1 .. Len(s)] /\ Unfolds(h, s, W, Seq(W), Keeping(W), <<>>)
  BY ExecutedUnfold
<1> PICK V, P, base : V = Seq(W) /\ P = Keeping(W) /\ base = <<>>
  OBVIOUS
<1>2. Unfolds(h, s, W, V, P, base)
  BY <1>1
<1>3. /\ h[1 .. 0] = base
      /\ \A i \in 0 .. Len(s) - 1 : h[1 .. i + 1] = P[s[i + 1]][h[1 .. i]]
      /\ \A i \in 0 .. Len(s) : h[1 .. i] \in V
  BY ONLY <1>2, UnfoldingStep
<1> DEFINE k(i) == h[1 .. i]
           Is(i, n) == /\ Last(k(i)) = s[n] /\ ~s[n].cancelled
                       /\ \A m \in 1 .. i : m > n => s[m].cancelled
           Q == {i \in Nat : i <= len /\ k(i) # <<>> => \E n \in 1 .. i : Is(i, n)}
<1>4. k(0) = <<>> /\ \A i \in 0 .. len : k(i) \in Seq(W)
  BY <1>3
<1>5. \A i \in 0 .. len - 1 : s[i + 1] \in W /\ k(i + 1) = Keep(k(i), s[i + 1])
  <2> SUFFICES ASSUME NEW i \in 0 .. len - 1
               PROVE  s[i + 1] \in W /\ k(i + 1) = Keep(k(i), s[i + 1])
    OBVIOUS
  <2>1. s[i + 1] \in W /\ k(i) \in Seq(W)
    BY <1>4
  <2>2. k(i + 1) = Keeping(W)[s[i + 1]][k(i)]
    BY <1>3
  <2> QED
    BY <2>1, <2>2, KeepType
<1> HIDE DEF k
<1>6. 0 \in Q
  BY <1>4
<1>7. ASSUME NEW i \in Nat, i \in Q PROVE i + 1 \in Q
  <2> SUFFICES ASSUME i + 1 <= len, k(i + 1) # <<>> PROVE \E n \in 1 .. i + 1 : Is(i + 1, n)
    OBVIOUS
  <2>1. k(i + 1) = Keep(k(i), s[i + 1]) /\ k(i) \in Seq(W) /\ s[i + 1] \in W
    BY <1>4, <1>5
  <2>2. CASE s[i + 1].cancelled
    <3>1. k(i + 1) = k(i)
      BY <2>1, <2>2 DEF Keep
    <3>2. PICK n \in 1 .. i : Is(i, n)
      BY <1>7, <3>1
    <3>3. Is(i + 1, n)
      BY <2>2, <3>1, <3>2
    <3> QED
      BY <3>2, <3>3
  <2>3. CASE ~s[i + 1].cancelled
    <3>1. Last(k(i + 1)) = s[i + 1]
      BY <2>1, <2>3 DEF Keep, Last
    <3>2. Is(i + 1, i + 1)
      BY <2>3, <3>1
    <3> QED
      BY <3>2
  <2> QED
    BY <2>2, <2>3
<1> HIDE DEF Q
<1>8. len \in Q
  BY <1>6, <1>7, SetInduction
<1>9. Executed(s) = k(len)
  BY <1>1 DEF k
<1>10. PICK n \in 1 .. len : Is(len, n)
  BY <1>8, <1>9 DEF Q
<1>11. DOMAIN s = 1 .. len
  OBVIOUS
<1> QED
  BY <1>9, <1>10, <1>11
-----------------------------------------------------------------------------
(***************************************************************************)
(* The reports.                                                            *)
(***************************************************************************)
\* A listing of a finite set has each of its elements, once.
LEMMA ListingIsOnto ==
  ASSUME NEW S, IsFiniteSet(S), NEW s \in SetToSeqs(S)
  PROVE  s \in Seq(S) /\ S = {s[i] : i \in DOMAIN s} /\ IsInjective(s)
<1>1. PICK n \in Nat : n = Cardinality(S)
  BY FS_CardinalityType
<1>2. s \in [1 .. n -> S] /\ \A i, j \in 1 .. n : i # j => s[i] # s[j]
  BY <1>1 DEF SetToSeqs
<1>3. IsFiniteSet(1 .. n) /\ Cardinality(1 .. n) = n
  BY FS_Interval
<1>4. s \in Injection(1 .. n, S)
  BY <1>2 DEF Injection, IsInjective
<1>5. s \in Surjection(1 .. n, S)
  BY <1>1, <1>3, <1>4, FS_Injection
<1>6. s \in Seq(S)
  BY <1>2
<1> QED
  BY <1>2, <1>4, <1>5, <1>6 DEF Surjection, Injection
-----------------------------------------------------------------------------
\* What the query finds among the first known rows of the table.
Found(rows, last, known) ==
    /\ known \in 0 .. Len(table) /\ Ordered(rows) /\ IsInjective(rows)
    /\ {rows[i] : i \in DOMAIN rows} = {t \in {table[i] : i \in 1 .. known} : t.id > last}

Analyzed == {[analysis |-> AnalyzeTrades(rows), rows |-> rows, known |-> known] :
                rows \in {r \in Seq(trades) : Completed(r)}, known \in Nat}

ReportTypes ==
    /\ trades \in Histories
    /\ table \in Seq(trades)
    /\ gen \in [pc : {"idle", "fetch", "analyze"}, last : Nat, rows : Seq(trades), known : Nat]
    /\ reports \in Seq(Analyzed)
    /\ restarted \in BOOLEAN

\* The id of the last executed trade of report n, which the next one starts from.
Watermark(n) == IF n = 0 THEN 0 ELSE reports[n].analysis.lastTradeID

FromWatermark ==
    /\ gen.pc # "idle" => gen.last = Watermark(Len(reports))
    /\ \A n \in 1 .. Len(reports) :
           Found(reports[n].rows, Watermark(n - 1), reports[n].known)

Rising == \A m, n \in 0 .. Len(reports) : m <= n => Watermark(m) <= Watermark(n)

Covered == \A t \in InsertedExecuted, n \in 1 .. Len(reports) :
    t.id <= Watermark(n) => PassedBy(t) \/ \E m \in 1 .. n : t \in Reported(m)

ReportInv ==
    /\ ReportTypes
    /\ gen.pc = "analyze" => Found(gen.rows, gen.last, gen.known)
    /\ ~restarted => FromWatermark /\ Rising /\ Covered

LEMMA HistoryFacts ==
  \A h \in Histories :
      /\ h \subseteq BotTrades
      /\ \A t \in h : t.id \in Nat \ {0} /\ t.time \in Nat /\ t.cancelled \in BOOLEAN
      /\ \A t, u \in h : ~t.cancelled /\ ~u.cancelled /\ t.id < u.id => t.time <= u.time
BY HistoriesAssumption DEF BotTrades

\* A saved report has executed trades, and ends with the last of them.
LEMMA CompletedEnds ==
  ASSUME NEW rows \in Seq(trades), Completed(rows)
  PROVE  Executed(rows) # <<>> /\ AnalyzeTrades(rows).lastTradeID = Last(Executed(rows)).id
<1>1. AnalyzeTrades(rows).ok
  BY DEF Completed
<1>2. Executed(rows) # <<>>
  BY <1>1 DEF AnalyzeTrades
<1>3. AnalyzeTrades(rows).lastTradeID = Last(Executed(rows)).id
  BY <1>2 DEF AnalyzeTrades
<1> QED
  BY <1>2, <1>3

LEMMA LastIsTrade ==
  ASSUME ReportTypes, NEW rows \in Seq(trades), Executed(rows) # <<>>
  PROVE  \E n \in DOMAIN rows :
            /\ Last(Executed(rows)) = rows[n] /\ rows[n] \in trades
            /\ rows[n].id \in Nat \ {0} /\ ~rows[n].cancelled
            /\ \A m \in DOMAIN rows : m > n => rows[m].cancelled
<1>1. PICK n \in DOMAIN rows : /\ Last(Executed(rows)) = rows[n] /\ ~rows[n].cancelled
                               /\ \A m \in DOMAIN rows : m > n => rows[m].cancelled
  BY LastExecuted
<1>2. rows[n] \in trades
  OBVIOUS
<1>3. rows[n].id \in Nat \ {0}
  BY <1>2, HistoryFacts DEF ReportTypes
<1> QED
  BY <1>1, <1>2, <1>3

LEMMA AnalyzedEnds ==
  ASSUME ReportTypes, NEW r \in Analyzed
  PROVE  /\ r.rows \in Seq(trades) /\ r.known \in Nat /\ Executed(r.rows) # <<>>
         /\ r.analysis.lastTradeID = Last(Executed(r.rows)).id
         /\ r.analysis.lastTradeID \in Nat \ {0}
<1>1. PICK rows \in Seq(trades), known \in Nat :
         Completed(rows) /\ r = [analysis |-> AnalyzeTrades(rows), rows |-> rows, known |-> known]
  BY DEF Analyzed
<1>2. r.analysis = AnalyzeTrades(rows) /\ r.rows = rows /\ r.known = known
  BY <1>1
<1>3. Executed(rows) # <<>> /\ r.analysis.lastTradeID = Last(Executed(rows)).id
  BY <1>1, <1>2, CompletedEnds
<1>4. Last(Executed(rows)).id \in Nat \ {0}
  BY <1>3, LastIsTrade
<1> QED
  BY <1>2, <1>3, <1>4

LEMMA WatermarkType ==
  ASSUME ReportTypes, NEW n \in 0 .. Len(reports)
  PROVE  Watermark(n) \in Nat
<1>1. CASE n = 0
  BY <1>1 DEF Watermark
<1>2. CASE n # 0
  <2>1. reports[n] \in Analyzed
    BY <1>2 DEF ReportTypes
  <2> QED
    BY <1>2, <2>1, AnalyzedEnds DEF Watermark
<1> QED
  BY <1>1, <1>2

(***************************************************************************)
(* The executed trades of a report come before those of later ones.        *)
(***************************************************************************)
LEMMA ReportsInTime ==
  ASSUME ReportInv, ~restarted, NEW m \in 1 .. Len(reports), NEW n \in 1 .. Len(reports), m < n,
         NEW t \in Reported(m), NEW u \in Reported(n), ~t.cancelled, ~u.cancelled
  PROVE  /\ t.time \in Nat /\ u.time \in Nat /\ LastOf(m).time \in Nat
         /\ t.time <= LastOf(m).time /\ LastOf(m).time <= u.time
         /\ LastOf(m) \in Reported(m) /\ ~LastOf(m).cancelled /\ LastOf(m) # u
<1> USE DEF ReportInv, FromWatermark
<1>1. reports[m] \in Analyzed /\ reports[n] \in Analyzed
  BY DEF ReportTypes
<1> PICK rows : rows = reports[m].rows
  OBVIOUS
<1>2. rows \in Seq(trades) /\ Executed(rows) # <<>> /\ Watermark(m) = Last(Executed(rows)).id
  BY <1>1, AnalyzedEnds DEF Watermark
<1>3. PICK k \in DOMAIN rows :
         /\ Last(Executed(rows)) = rows[k] /\ rows[k] \in trades
         /\ rows[k].id \in Nat \ {0} /\ ~rows[k].cancelled
         /\ \A j \in DOMAIN rows : j > k => rows[j].cancelled
  BY <1>2, LastIsTrade
<1>4. PICK j \in DOMAIN rows : t = rows[j]
  BY DEF Reported
<1>5. /\ t \in trades /\ t.time \in Nat /\ rows[k].time \in Nat
      /\ u \in trades /\ u.time \in Nat /\ u.id \in Nat /\ trades \in Histories
  <2>1. trades \in Histories
    BY DEF ReportTypes
  <2>2. t \in trades
    BY ONLY <1>2, <1>4
  <2>3. u \in trades
    <3>1. reports[n].rows \in Seq(trades)
      BY <1>1, AnalyzedEnds
    <3> QED
      BY ONLY <3>1, u \in Reported(n) DEF Reported
  <2>4. \A v \in trades : v.id \in Nat /\ v.time \in Nat
    BY ONLY <2>1, HistoryFacts
  <2> QED
    BY ONLY <1>3, <2>1, <2>2, <2>3, <2>4
<1>6. j <= k
  <2>1. j \in Nat /\ k \in Nat
    BY <1>2
  <2> QED
    BY <1>3, <1>4, <2>1
<1>7. t.time <= rows[k].time
  <2>1. Ordered(rows)
    BY DEF Found
  <2>2. CASE j = k
    BY <1>4, <1>5, <2>2
  <2>3. CASE j < k
    BY <1>4, <2>1, <2>3 DEF Ordered
  <2> QED
    BY <1>2, <1>6, <2>2, <2>3
<1>8. rows[k].id < u.id
  <2>1. u.id > Watermark(n - 1)
    BY DEF Found, Reported
  <2>2. Watermark(m) <= Watermark(n - 1) /\ Watermark(n - 1) \in Nat
    BY WatermarkType DEF Rising
  <2> QED
    BY <1>2, <1>3, <1>5, <2>1, <2>2
<1>9. rows[k].time <= u.time /\ rows[k] # u
  <2>1. \A v, w \in trades : ~v.cancelled /\ ~w.cancelled /\ v.id < w.id => v.time <= w.time
    BY ONLY <1>5, HistoryFacts
  <2>2. rows[k].time <= u.time
    BY ONLY <1>3, <1>5, <1>8, <2>1, ~u.cancelled
  <2>3. rows[k] # u
    BY ONLY <1>3, <1>5, <1>8
  <2> QED
    BY <2>2, <2>3
<1>10. LastOf(m) = rows[k] /\ rows[k] \in Reported(m)
  BY <1>3 DEF LastOf, Reported
<1> QED
  BY ONLY <1>3, <1>5, <1>7, <1>9, <1>10

LEMMA ReportedOnce ==
  ASSUME ReportInv, ~restarted, NEW m \in 1 .. Len(reports), NEW n \in 1 .. Len(reports), m < n,
         NEW t \in Reported(m) \cap Reported(n), ~t.cancelled
  PROVE  t.time = LastOf(m).time
<1>1. /\ t.time \in Nat /\ LastOf(m).time \in Nat
      /\ t.time <= LastOf(m).time /\ LastOf(m).time <= t.time
  BY ReportsInTime
<1> QED
  BY ONLY <1>1

LEMMA ReportsCover == ReportInv => EachTradeReportedOnce
<1> SUFFICES ASSUME ReportInv, ~restarted, NEW t \in InsertedExecuted
             PROVE  /\ \A m, n \in DOMAIN reports :
                          m < n /\ t \in Reported(m) \cap Reported(n) => t.time = LastOf(m).time
                    /\ \A n \in DOMAIN reports :
                          t.id <= reports[n].analysis.lastTradeID
                              => PassedBy(t) \/ \E m \in 1 .. n : t \in Reported(m)
  BY DEF EachTradeReportedOnce
<1>1. DOMAIN reports = 1 .. Len(reports) /\ ~t.cancelled
  BY DEF ReportInv, ReportTypes, InsertedExecuted
<1>2. \A m, n \in DOMAIN reports :
          m < n /\ t \in Reported(m) \cap Reported(n) => t.time = LastOf(m).time
  BY <1>1, ReportedOnce
<1>3. \A n \in 1 .. Len(reports) : Watermark(n) = reports[n].analysis.lastTradeID
  BY DEF Watermark
<1>4. ASSUME NEW n \in DOMAIN reports, t.id <= reports[n].analysis.lastTradeID
      PROVE  PassedBy(t) \/ \E m \in 1 .. n : t \in Reported(m)
  BY <1>1, <1>3, <1>4 DEF ReportInv, Covered
<1> QED
  BY <1>2, <1>4
-----------------------------------------------------------------------------
LEMMA InitReports == ReportInit => ReportInv
<1> SUFFICES ASSUME ReportInit PROVE ReportInv
  OBVIOUS
<1> USE DEF ReportInit, Idle
<1>1. ReportTypes
  <2>1. <<>> \in Seq(trades) /\ <<>> \in Seq(Analyzed)
    OBVIOUS
  <2> QED
    BY <2>1 DEF ReportTypes
<1>2. FromWatermark /\ Rising /\ Covered
  <2>1. FromWatermark /\ Covered
    BY DEF FromWatermark, Covered
  <2>2. Watermark(0) = 0
    BY DEF Watermark
  <2>3. Rising
    BY <2>2 DEF Rising
  <2> QED
    BY <2>1, <2>3
<1> QED
  BY <1>1, <1>2 DEF ReportInv

\* A row that is inserted comes after those a report was made from.
LEMMA InsertKeeps == ReportInv /\ Insert => ReportInv'
<1> SUFFICES ASSUME ReportInv, Insert PROVE ReportInv'
  OBVIOUS
<1> USE DEF ReportInv
<1>1. PICK u \in trades \ Inserted : table' = Append(table, u)
  BY DEF Insert
<1>2. UNCHANGED <<trades, gen, reports, restarted>>
  BY DEF Insert
<1> PICK len \in Nat : len = Len(table)
  BY DEF ReportTypes
<1>3. /\ table' \in Seq(trades) /\ Len(table') = len + 1 /\ table'[len + 1] = u
      /\ DOMAIN table = 1 .. len /\ DOMAIN table' = 1 .. len + 1
      /\ \A i \in 1 .. len : table'[i] = table[i]
  BY <1>1 DEF ReportTypes
<1>4. ReportTypes'
  BY <1>2, <1>3 DEF ReportTypes, Analyzed
<1>5. ASSUME NEW rows, NEW last, NEW known, Found(rows, last, known)
      PROVE  Found(rows, last, known)'
  <2>1. known \in 0 .. len /\ \A i \in 1 .. known : i \in 1 .. len
    BY <1>5 DEF Found
  <2>2. {table'[i] : i \in 1 .. known} = {table[i] : i \in 1 .. known}
    BY <1>3, <2>1
  <2> QED
    BY <1>3, <1>5, <2>1, <2>2 DEF Found, Ordered, IsInjective
<1>6. (gen.pc = "analyze" => Found(gen.rows, gen.last, gen.known))'
  <2> SUFFICES ASSUME gen'.pc = "analyze" PROVE Found(gen.rows, gen.last, gen.known)'
    OBVIOUS
  <2> PICK rows, last, known : rows = gen.rows /\ last = gen.last /\ known = gen.known
    OBVIOUS
  <2>1. Found(rows, last, known)'
    BY <1>2, <1>5
  <2> QED
    BY <1>2, <2>1 DEF Found, Ordered, IsInjective
<1>7. ASSUME ~restarted PROVE FromWatermark' /\ Rising' /\ Covered'
  <2>1. Rising'
    BY <1>2, <1>7 DEF Rising, Watermark
  <2>2. FromWatermark'
    <3>1. (gen.pc # "idle" => gen.last = Watermark(Len(reports)))'
      BY <1>2, <1>7 DEF FromWatermark, Watermark
    <3>2. ASSUME NEW n \in 1 .. Len(reports)
          PROVE  Found(reports[n].rows, Watermark(n - 1), reports[n].known)'
      <4> PICK rows, last, known : /\ rows = reports[n].rows /\ last = Watermark(n - 1)
                                   /\ known = reports[n].known
        OBVIOUS
      <4>1. Found(rows, last, known)
        BY <1>7 DEF FromWatermark
      <4>2. Found(rows, last, known)'
        BY <1>5, <4>1
      <4>3. Watermark(n - 1)' = last /\ reports'[n] = reports[n]
        BY <1>2 DEF Watermark
      <4> QED
        BY <4>2, <4>3 DEF Found, Ordered, IsInjective
    <3> QED
      BY <1>2, <3>1, <3>2 DEF FromWatermark
  <2>3. ASSUME NEW t \in InsertedExecuted', NEW n \in 1 .. Len(reports), t.id <= Watermark(n)'
        PROVE  PassedBy(t)' \/ \E m \in 1 .. n : t \in Reported(m)'
    <3>1. reports[n].analysis.lastTradeID = Watermark(n) /\ Watermark(n)' = Watermark(n)
      BY <1>2 DEF Watermark
    <3>2. CASE t = u
      <4>1. reports[n].known \in 0 .. len
        BY <1>7 DEF FromWatermark, Found
      <4>2. len + 1 \in DOMAIN table' /\ table'[len + 1] = t /\ len + 1 > reports[n].known
        BY <1>3, <3>2, <4>1
      <4>3. n \in DOMAIN reports'
        BY <1>2 DEF ReportTypes
      <4> QED
        BY <1>2, <2>3, <3>1, <4>2, <4>3 DEF PassedBy
    <3>3. CASE t \in InsertedExecuted
      <4>1. PassedBy(t) \/ \E m \in 1 .. n : t \in Reported(m)
        BY <1>7, <2>3, <3>1, <3>3 DEF Covered
      <4>2. PassedBy(t) => PassedBy(t)'
        <5> SUFFICES ASSUME PassedBy(t) PROVE PassedBy(t)'
          OBVIOUS
        <5>1. PICK q \in DOMAIN reports, i \in 1 .. len :
                 t.id <= reports[q].analysis.lastTradeID /\ table[i] = t /\ i > reports[q].known
          BY <1>3 DEF PassedBy
        <5>2. i \in DOMAIN table' /\ table'[i] = t
          BY <1>3, <5>1
        <5> QED
          BY <1>2, <5>1, <5>2 DEF PassedBy
      <4>3. \A m : Reported(m)' = Reported(m)
        BY <1>2 DEF Reported
      <4> QED
        BY <4>1, <4>2, <4>3
    <3>4. t = u \/ t \in InsertedExecuted
      BY <1>3 DEF InsertedExecuted, Inserted
    <3> QED
      BY <3>2, <3>3, <3>4
  <2> QED
    BY <1>2, <2>1, <2>2, <2>3 DEF Covered
<1> QED
  BY <1>2, <1>4, <1>6, <1>7
\* The generator's own steps leave the reports and the rows alone.
LEMMA GenKeeps ==
  ASSUME ReportInv, UNCHANGED <<trades, table, reports>>,
         gen' \in [pc : {"idle", "fetch", "analyze"}, last : Nat, rows : Seq(trades), known : Nat],
         restarted' \in BOOLEAN, restarted => restarted',
         gen'.pc = "analyze" => Found(gen'.rows, gen'.last, gen'.known),
         ~restarted' /\ gen'.pc # "idle" => gen'.last = Watermark(Len(reports))
  PROVE  ReportInv'
<1> USE DEF ReportInv
<1>1. ReportTypes'
  BY DEF ReportTypes, Analyzed
<1>2. (gen.pc = "analyze" => Found(gen.rows, gen.last, gen.known))'
  BY DEF Found, Ordered, IsInjective
<1>3. ASSUME ~restarted' PROVE (FromWatermark /\ Rising /\ Covered)'
  <2>1. Rising'
    BY <1>3 DEF Rising, Watermark
  <2>2. FromWatermark'
    <3>1. (gen.pc # "idle" => gen.last = Watermark(Len(reports)))'
      BY <1>3 DEF Watermark
    <3>2. ASSUME NEW n \in 1 .. Len(reports)
          PROVE  Found(reports[n].rows, Watermark(n - 1), reports[n].known)'
      <4>1. Found(reports[n].rows, Watermark(n - 1), reports[n].known)
        BY <1>3 DEF FromWatermark
      <4>2. Watermark(n - 1)' = Watermark(n - 1) /\ reports'[n] = reports[n]
        BY DEF Watermark
      <4> QED
        BY <4>1, <4>2 DEF Found, Ordered, IsInjective
    <3> QED
      BY <3>1, <3>2 DEF FromWatermark
  <2>3. Covered'
    BY <1>3 DEF Covered, InsertedExecuted, Inserted, PassedBy, Reported, Watermark
  <2> QED
    BY <2>1, <2>2, <2>3
<1> QED
  BY <1>1, <1>2, <1>3

LEMMA FetchLatestKeeps == ReportInv /\ FetchLatest => ReportInv'
<1> SUFFICES ASSUME ReportInv, FetchLatest PROVE ReportInv'
  OBVIOUS
<1> USE DEF ReportInv
<1>1. /\ reports # <<>> /\ UNCHANGED <<trades, table, reports, restarted>>
      /\ gen' = [Idle EXCEPT !.pc = "fetch", !.last = reports[Len(reports)].analysis.lastTradeID]
  BY DEF FetchLatest
<1>2. Len(reports) # 0 /\ Len(reports) \in Nat
  BY <1>1 DEF ReportTypes
<1>3. Watermark(Len(reports)) = reports[Len(reports)].analysis.lastTradeID
  BY <1>2 DEF Watermark
<1>4. Watermark(Len(reports)) \in Nat
  BY <1>2, WatermarkType
<1>5. <<>> \in Seq(trades)
  OBVIOUS
<1>6. gen' = [pc |-> "fetch", last |-> Watermark(Len(reports)), rows |-> <<>>, known |-> 0]
  BY <1>1, <1>3 DEF Idle
<1>7. gen' \in [pc : {"idle", "fetch", "analyze"}, last : Nat, rows : Seq(trades), known : Nat]
  BY <1>4, <1>5, <1>6
<1>8. gen'.pc = "fetch" /\ gen'.last = Watermark(Len(reports))
  BY <1>6
<1>9. restarted' \in BOOLEAN
  BY <1>1 DEF ReportTypes
<1> QED
  BY <1>1, <1>7, <1>8, <1>9, GenKeeps

\* An error starts the next report from the beginning: a restart, if there was one.
LEMMA FetchLatestFailsKeeps == ReportInv /\ FetchLatestFails => ReportInv'
<1> SUFFICES ASSUME ReportInv, FetchLatestFails PROVE ReportInv'
  OBVIOUS
<1> USE DEF ReportInv
<1>1. /\ restarted' = (restarted \/ reports # <<>>) /\ UNCHANGED <<trades, table, reports>>
      /\ gen' = [Idle EXCEPT !.pc = "fetch"]
  BY DEF FetchLatestFails
<1>2. <<>> \in Seq(trades)
  OBVIOUS
<1>3. gen' = [pc |-> "fetch", last |-> 0, rows |-> <<>>, known |-> 0]
  BY <1>1 DEF Idle
<1>4. gen' \in [pc : {"idle", "fetch", "analyze"}, last : Nat, rows : Seq(trades), known : Nat]
  BY <1>2, <1>3
<1>5. ~restarted' => Watermark(Len(reports)) = 0
  <2>1. reports = <<>> => Len(reports) = 0
    OBVIOUS
  <2> QED
    BY <1>1, <2>1 DEF Watermark
<1>6. restarted' \in BOOLEAN /\ (restarted => restarted')
  BY <1>1 DEF ReportTypes
<1> QED
  BY <1>1, <1>3, <1>4, <1>5, <1>6, GenKeeps

LEMMA FetchTradesKeeps == ReportInv /\ FetchTradesForReportSince => ReportInv'
<1> SUFFICES ASSUME ReportInv, FetchTradesForReportSince PROVE ReportInv'
  OBVIOUS
<1> USE DEF ReportInv
<1>1. gen.pc = "fetch" /\ UNCHANGED <<trades, table, reports, restarted>>
  BY DEF FetchTradesForReportSince
<1> PICK S : S = {t \in Inserted : t.id > gen.last}
  OBVIOUS
<1>2. PICK rows \in SetToSeqs(S) :
         /\ Ordered(rows)
         /\ gen' = [gen EXCEPT !.pc = "analyze", !.rows = rows, !.known = Len(table)]
  BY DEF FetchTradesForReportSince
<1> PICK len \in Nat : len = Len(table)
  BY DEF ReportTypes
<1>3. DOMAIN table = 1 .. len /\ \A i \in 1 .. len : table[i] \in trades
  BY DEF ReportTypes
<1>4. Inserted = {table[i] : i \in 1 .. len} /\ S \subseteq trades
  BY <1>3 DEF Inserted
<1>5. IsFiniteSet(S)
  <2>1. IsFiniteSet(1 .. len)
    BY FS_Interval
  <2> DEFINE f == [i \in 1 .. len |-> table[i]]
  <2>2. f \in Surjection(1 .. len, Inserted)
    BY <1>4 DEF Surjection
  <2>3. IsFiniteSet(Inserted)
    BY <2>1, <2>2, FS_Surjection
  <2>4. S \subseteq Inserted
    OBVIOUS
  <2> QED
    BY <2>3, <2>4, FS_Subset
<1>6. rows \in Seq(S) /\ S = {rows[i] : i \in DOMAIN rows} /\ IsInjective(rows)
  <2>1. rows \in SetToSeqs(S)
    BY <1>2
  <2> QED
    BY ONLY <2>1, <1>5, ListingIsOnto
<1>7. rows \in Seq(trades)
  BY <1>4, <1>6
<1>8. /\ gen' \in [pc : {"idle", "fetch", "analyze"}, last : Nat, rows : Seq(trades), known : Nat]
      /\ gen'.rows = rows /\ gen'.last = gen.last /\ gen'.known = len
  BY <1>2, <1>7 DEF ReportTypes
<1>9. Found(rows, gen.last, len)
  BY <1>2, <1>4, <1>6 DEF Found
<1>10. ~restarted => gen.last = Watermark(Len(reports))
  BY <1>1 DEF FromWatermark
<1> QED
  BY <1>1, <1>8, <1>9, <1>10, GenKeeps DEF ReportTypes

LEMMA ToIdleKeeps ==
  ASSUME ReportInv, gen' = Idle, UNCHANGED <<trades, table, reports, restarted>>
  PROVE  ReportInv'
<1> USE DEF ReportInv
<1>1. <<>> \in Seq(trades)
  OBVIOUS
<1>2. gen' \in [pc : {"idle", "fetch", "analyze"}, last : Nat, rows : Seq(trades), known : Nat]
  BY <1>1 DEF Idle
<1>3. gen'.pc = "idle"
  BY DEF Idle
<1> QED
  BY <1>2, <1>3, GenKeeps DEF ReportTypes

(***************************************************************************)
(* A saved report starts where the last one ended, and ends no earlier.    *)
(***************************************************************************)
LEMMA SaveKeeps == ReportInv /\ SavePnlReport => ReportInv'
<1> SUFFICES ASSUME ReportInv, SavePnlReport PROVE ReportInv'
  OBVIOUS
<1> USE DEF ReportInv
<1>1. gen.pc = "analyze" /\ Completed(gen.rows) /\ gen' = Idle
  BY DEF SavePnlReport
<1>2. UNCHANGED <<trades, table, restarted>>
  BY DEF SavePnlReport
<1> PICK rows, known, last : rows = gen.rows /\ known = gen.known /\ last = gen.last
  OBVIOUS
<1> PICK r : r = [analysis |-> AnalyzeTrades(rows), rows |-> rows, known |-> known]
  OBVIOUS
<1> PICK len \in Nat : len = Len(reports)
  BY DEF ReportTypes
<1>3. rows \in Seq(trades) /\ known \in Nat /\ last \in Nat /\ r \in Analyzed
  BY <1>1 DEF ReportTypes, Analyzed
<1>4. /\ reports' = Append(reports, r)
      /\ reports \in Seq(Analyzed) /\ reports' \in Seq(Analyzed) /\ Len(reports') = len + 1
      /\ reports'[len + 1] = r /\ \A n \in 1 .. len : reports'[n] = reports[n]
  BY <1>3 DEF SavePnlReport, ReportTypes
<1>5. ReportTypes'
  <2>1. gen' \in [pc : {"idle", "fetch", "analyze"}, last : Nat, rows : Seq(trades), known : Nat]
    <3>1. <<>> \in Seq(trades)
      OBVIOUS
    <3> QED
      BY <1>1, <3>1 DEF Idle
  <2>2. Analyzed' = Analyzed
    BY <1>2 DEF Analyzed
  <2> QED
    BY <1>2, <1>4, <2>1, <2>2 DEF ReportTypes
<1>6. gen'.pc = "idle"
  BY <1>1 DEF Idle
<1>7. ASSUME ~restarted PROVE (FromWatermark /\ Rising /\ Covered)'
  <2>1. Watermark(len + 1)' = Last(Executed(rows)).id
    <3>1. r.analysis.lastTradeID = Last(Executed(rows)).id
      BY <1>1, <1>3, CompletedEnds
    <3> QED
      BY <1>4, <3>1 DEF Watermark
  <2>2. \A n \in 0 .. len : Watermark(n)' = Watermark(n) /\ Watermark(n) \in Nat
    <3>1. \A n \in 0 .. len : Watermark(n)' = Watermark(n)
      BY <1>4 DEF Watermark
    <3> QED
      BY <3>1, WatermarkType
  <2>3. /\ \A n \in 0 .. len : Reported(n)' = Reported(n) \/ n = 0
        /\ Reported(len + 1)' = {rows[i] : i \in DOMAIN rows}
    BY <1>4 DEF Reported
  <2>4. Found(rows, last, known) /\ last = Watermark(len)
    BY <1>1, <1>7 DEF FromWatermark
  <2> PICK end : end = Last(Executed(rows)).id
    OBVIOUS
  <2>5. end \in Nat /\ end > last
    <3>1. Executed(rows) # <<>>
      BY <1>1, <1>3, CompletedEnds
    <3>2. PICK k \in DOMAIN rows : Last(Executed(rows)) = rows[k] /\ rows[k].id \in Nat
      BY <1>3, <3>1, LastIsTrade
    <3>3. rows[k].id > last
      BY <2>4 DEF Found
    <3> QED
      BY <3>2, <3>3
  <2>6. Rising'
    <3> SUFFICES ASSUME NEW m \in 0 .. len + 1, NEW n \in 0 .. len + 1, m <= n
                 PROVE  Watermark(m)' <= Watermark(n)'
      BY <1>4 DEF Rising
    <3>1. CASE n <= len
      <4>1. m \in 0 .. len /\ n \in 0 .. len
        BY <3>1
      <4>2. Watermark(m) <= Watermark(n)
        BY <1>7, <4>1 DEF Rising
      <4> QED
        BY <2>2, <4>1, <4>2
    <3>2. CASE n = len + 1 /\ m <= len
      <4>1. m \in 0 .. len /\ len \in 0 .. len
        BY <3>2
      <4>2. Watermark(m) <= Watermark(len)
        BY <1>7, <4>1 DEF Rising
      <4>3. Watermark(m)' = Watermark(m) /\ Watermark(m) \in Nat
        BY <2>2, <4>1
      <4>4. Watermark(n)' = end
        BY <2>1, <3>2
      <4> QED
        BY <2>4, <2>5, <4>2, <4>3, <4>4, <1>3
    <3>3. CASE n = len + 1 /\ m = len + 1
      BY <2>1, <2>5, <3>3
    <3> QED
      BY <3>1, <3>2, <3>3
  <2>7. FromWatermark'
    <3>1. ASSUME NEW n \in 1 .. len PROVE Found(reports[n].rows, Watermark(n - 1), reports[n].known)'
      <4>1. Found(reports[n].rows, Watermark(n - 1), reports[n].known)
        BY <1>7 DEF FromWatermark
      <4>2. Watermark(n - 1)' = Watermark(n - 1) /\ reports'[n] = reports[n]
        BY <1>4, <2>2
      <4> QED
        BY <1>2, <4>1, <4>2 DEF Found, Ordered, IsInjective
    <3>2. Found(reports[len + 1].rows, Watermark(len), reports[len + 1].known)'
      <4>1. reports'[len + 1].rows = rows /\ reports'[len + 1].known = known
        BY <1>4
      <4>2. Watermark(len)' = last
        BY <2>2, <2>4
      <4>3. Found(rows, last, known)'
        BY <1>2, <2>4 DEF Found, Ordered, IsInjective
      <4> QED
        BY <4>1, <4>2, <4>3 DEF Found, Ordered, IsInjective
    <3>3. \A n \in 1 .. len + 1 : n \in 1 .. len \/ n = len + 1
      OBVIOUS
    <3>4. (len + 1) - 1 = len
      OBVIOUS
    <3>5. \A n \in 1 .. len + 1 : Found(reports[n].rows, Watermark(n - 1), reports[n].known)'
      BY <3>1, <3>2, <3>3, <3>4
    <3> QED
      BY <1>4, <1>6, <3>5 DEF FromWatermark
  <2>8. ASSUME NEW t \in InsertedExecuted, NEW n \in 1 .. len + 1, t.id <= Watermark(n)'
        PROVE  PassedBy(t)' \/ \E m \in 1 .. n : t \in Reported(m)'
    <3>1. PICK i \in DOMAIN table : t = table[i]
      BY DEF InsertedExecuted, Inserted
    <3>2. i \in Nat \ {0} /\ t \in trades /\ t.id \in Nat \ {0}
      BY <3>1, HistoryFacts DEF ReportTypes
    <3>3. PassedBy(t) => PassedBy(t)'
      BY <1>2, <1>4 DEF PassedBy
    <3>4. CASE \E q \in 1 .. len : q <= n /\ t.id <= Watermark(q)
      <4>1. PICK q \in 1 .. len : q <= n /\ t.id <= Watermark(q)
        BY <3>4
      <4>2. PassedBy(t) \/ \E m \in 1 .. q : t \in Reported(m)
        BY <1>7, <4>1 DEF Covered
      <4>3. \A m \in 1 .. q : m \in 1 .. n /\ Reported(m)' = Reported(m)
        BY <2>3, <4>1
      <4> QED
        BY <3>3, <4>2, <4>3
    <3>5. CASE n = len + 1 /\ t.id > last
      <4>1. CASE i <= known
        <5>1. t \in {table[j] : j \in 1 .. known}
          BY <3>1, <3>2, <4>1
        <5>2. t \in {rows[j] : j \in DOMAIN rows}
          BY <2>4, <3>5, <5>1 DEF Found
        <5> QED
          BY <2>3, <3>5, <5>2
      <4>2. CASE i > known
        <5>1. t.id <= reports'[n].analysis.lastTradeID
          BY <2>8 DEF Watermark
        <5>2. n \in DOMAIN reports' /\ reports'[n].known = known
          BY <1>4, <3>5
        <5> QED
          BY <1>2, <3>1, <4>2, <5>1, <5>2 DEF PassedBy
      <4> QED
        BY <1>3, <3>2, <4>1, <4>2
    <3>6. CASE n \in 1 .. len
      BY <2>2, <2>8, <3>4, <3>6
    <3>7. CASE n = len + 1 /\ t.id <= last
      <4>1. len # 0
        <5>1. Watermark(0) = 0
          BY DEF Watermark
        <5> QED
          BY <2>4, <3>2, <3>7, <5>1
      <4> QED
        BY <2>4, <3>4, <3>7, <4>1
    <3> QED
      BY <1>3, <3>2, <3>5, <3>6, <3>7
  <2>9. Covered'
    <3>1. InsertedExecuted' = InsertedExecuted
      BY <1>2 DEF InsertedExecuted, Inserted
    <3> QED
      BY <1>4, <2>8, <3>1 DEF Covered
  <2> QED
    BY <2>6, <2>7, <2>9
<1> QED
  BY <1>2, <1>5, <1>6, <1>7

LEMMA ReportStep == ReportInv /\ [ReportNext]_reportVars => ReportInv'
<1> SUFFICES ASSUME ReportInv, [ReportNext]_reportVars PROVE ReportInv'
  OBVIOUS
<1>1. CASE Insert
  BY <1>1, InsertKeeps
<1>2. CASE FetchLatest
  BY <1>2, FetchLatestKeeps
<1>3. CASE FetchLatestFails
  BY <1>3, FetchLatestFailsKeeps
<1>4. CASE FetchTradesForReportSince
  BY <1>4, FetchTradesKeeps
<1>5. CASE FetchTradesFails
  BY <1>5, ToIdleKeeps DEF FetchTradesFails
<1>6. CASE NoReport
  BY <1>6, ToIdleKeeps DEF NoReport
<1>7. CASE SavePnlReport
  BY <1>7, SaveKeeps
<1>8. CASE SaveReportFails
  BY <1>8, ToIdleKeeps DEF SaveReportFails
<1>9. CASE UNCHANGED reportVars
  <2>1. UNCHANGED <<trades, table, gen, reports, restarted>>
    BY <1>9 DEF reportVars
  <2> QED
    BY <2>1, GenKeeps DEF ReportInv, ReportTypes, FromWatermark
<1> QED
  BY <1>1, <1>2, <1>3, <1>4, <1>5, <1>6, <1>7, <1>8, <1>9 DEF ReportNext, RunReportGeneration

(***************************************************************************)
(* Report.EachTradeReportedOnce.                                           *)
(***************************************************************************)
THEOREM ReportedTrades == ReportSpec => []EachTradeReportedOnce
<1>1. ReportSpec => []ReportInv
  BY InitReports, ReportStep, PTL DEF ReportSpec
<1> QED
  BY <1>1, ReportsCover, PTL
-----------------------------------------------------------------------------
(***************************************************************************)
(* The simulation.  Reading a file into memory is a folding too.           *)
(***************************************************************************)
Sound == Levels \cup Trades \cup [type : {"badTime"}]
Events == Trades \cup [type : {"book"}, levels : Seq(Levels)]
Loading == [events : Seq(Events), group : Seq(Levels), time : Nat]
Unread == [events |-> <<>>, group |-> <<>>, time |-> 0]

LoadedRows(rows) == FoldLeft(LoadRow, Unread, rows)
LoadSteps == [row \in Sound |-> [acc \in Loading |-> LoadRow(acc, row)]]

LEMMA FlushedType == ASSUME NEW group \in Seq(Levels) PROVE Flushed(group) \in Seq(Events)
<1>1. BookEvent(group) \in Events
  BY DEF BookEvent, Events
<1>2. <<BookEvent(group)>> \in Seq(Events) /\ <<>> \in Seq(Events)
  BY <1>1
<1> QED
  BY <1>2 DEF Flushed

\* A row adds events, and is taken as the reader takes it.
LEMMA LoadRowType ==
  ASSUME NEW acc \in Loading, NEW row \in Sound
  PROVE  /\ LoadRow(acc, row) \in Loading
         /\ \E more \in Seq(Events) : LoadRow(acc, row).events = acc.events \o more
<1> PICK flush : flush = Flushed(acc.group)
  OBVIOUS
<1>1. /\ acc.events \in Seq(Events) /\ acc.group \in Seq(Levels) /\ acc.time \in Nat
      /\ flush \in Seq(Events) /\ acc.events \o flush \in Seq(Events)
  <2>1. acc.events \in Seq(Events) /\ acc.group \in Seq(Levels) /\ acc.time \in Nat
    BY DEF Loading
  <2>2. flush \in Seq(Events)
    BY <2>1, FlushedType
  <2> QED
    BY <2>1, <2>2
<1>2. CASE row.type = "badTime"
  <2>1. LoadRow(acc, row) = acc
    BY <1>2 DEF LoadRow
  <2>2. acc.events = acc.events \o <<>> /\ <<>> \in Seq(Events)
    BY <1>1, ConcatEmptySeq
  <2> QED
    BY <2>1, <2>2
<1>3. CASE row.type = "trade"
  <2>1. row \in Trades /\ row \in Events
    BY <1>3 DEF Sound, Levels, Trades, Events
  <2>2. LoadRow(acc, row) = [acc EXCEPT !.events = (acc.events \o flush) \o <<row>>, !.group = <<>>]
    BY <1>3 DEF LoadRow
  <2>3. <<row>> \in Seq(Events) /\ <<>> \in Seq(Levels)
    BY <2>1
  <2>4. (acc.events \o flush) \o <<row>> = acc.events \o (flush \o <<row>>)
    <3> PICK a, b, c : a = acc.events /\ b = flush /\ c = <<row>>
      OBVIOUS
    <3>1. a \in Seq(Events) /\ b \in Seq(Events) /\ c \in Seq(Events)
      BY <1>1, <2>3
    <3>2. (a \o b) \o c = a \o (b \o c)
      BY ONLY <3>1, ConcatAssociative
    <3> QED
      BY <3>2
  <2>5. flush \o <<row>> \in Seq(Events) /\ (acc.events \o flush) \o <<row>> \in Seq(Events)
    BY <1>1, <2>3, ConcatProperties
  <2>6. LoadRow(acc, row) \in Loading
    BY <2>2, <2>3, <2>5 DEF Loading
  <2>7. LoadRow(acc, row).events = acc.events \o (flush \o <<row>>)
    BY <2>2, <2>4 DEF Loading
  <2> QED
    BY <2>5, <2>6, <2>7
<1>4. CASE row.type = "book"
  <2>1. row \in Levels /\ row.time \in Nat
    BY <1>4 DEF Sound, Levels, Trades
  <2>2. CASE acc.time \in {0, row.time}
    <3>1. LoadRow(acc, row) = [acc EXCEPT !.group = Append(acc.group, row), !.time = row.time]
      BY <1>4, <2>2 DEF LoadRow
    <3>2. Append(acc.group, row) \in Seq(Levels)
      BY <1>1, <2>1
    <3>3. LoadRow(acc, row) \in Loading /\ LoadRow(acc, row).events = acc.events
      BY <2>1, <3>1, <3>2 DEF Loading
    <3>4. acc.events = acc.events \o <<>> /\ <<>> \in Seq(Events)
      BY <1>1, ConcatEmptySeq
    <3> QED
      BY <3>3, <3>4
  <2>3. CASE acc.time \notin {0, row.time}
    <3>1. LoadRow(acc, row) = [events |-> acc.events \o flush, group |-> <<row>>, time |-> row.time]
      BY <1>4, <2>3 DEF LoadRow
    <3>2. <<row>> \in Seq(Levels)
      BY <2>1
    <3>3. LoadRow(acc, row) \in Loading /\ LoadRow(acc, row).events = acc.events \o flush
      BY <1>1, <2>1, <3>1, <3>2 DEF Loading
    <3> QED
      BY <1>1, <3>3
  <2> QED
    BY <2>2, <2>3
<1>5. row.type \in {"badTime", "trade", "book"}
  BY DEF Sound, Levels, Trades
<1> QED
  BY <1>2, <1>3, <1>4, <1>5

LEMMA LoadStepsType ==
  /\ LoadSteps \in [Sound -> [Loading -> Loading]] /\ Unread \in Loading
  /\ \A row \in Sound, acc \in Loading : LoadSteps[row][acc] = LoadRow(acc, row)
<1>1. \A row \in Sound, acc \in Loading : LoadRow(acc, row) \in Loading
  BY LoadRowType
<1>2. Unread \in Loading
  <2>1. <<>> \in Seq(Events) /\ <<>> \in Seq(Levels)
    OBVIOUS
  <2> QED
    BY <2>1 DEF Unread, Loading
<1> QED
  BY <1>1, <1>2 DEF LoadSteps

LEMMA LoadUnfold ==
  ASSUME NEW s \in Seq(Sound)
  PROVE  \E it : /\ LoadedRows(s) = it[1 .. Len(s)]
                 /\ Unfolds(it, s, Sound, Loading, LoadSteps, Unread)
<1> PICK S : S = 1 .. Len(s)
  OBVIOUS
<1> PICK W, V, P, base : W = Sound /\ V = Loading /\ P = LoadSteps /\ base = Unread
  OBVIOUS
<1> DEFINE Eq(h) == h = [T \in SUBSET S |->
                           IF T = {} THEN Unread ELSE LoadRow(h[T \ {Max(T)}], s[Max(T)])]
<1>1. /\ DOMAIN s = S /\ s \in Seq(W) /\ Folds(W, V, P, base)
      /\ \A x \in W, v \in V : P[x][v] = LoadRow(v, x)
  BY LoadStepsType DEF Folds
<1>2. PICK k \in [SUBSET S -> V] :
         /\ k[{}] = base
         /\ \A T \in SUBSET S : T # {} => /\ s[Max(T)] \in W /\ k[T \ {Max(T)}] \in V
                                          /\ k[T] = P[s[Max(T)]][k[T \ {Max(T)}]]
  <2>1. Folds(W, V, P, base) /\ s \in Seq(W)
    BY <1>1
  <2>2. \E k : Unfolding(k, s, W, V, P, base)
    BY ONLY <2>1, UnfoldingExists
  <2> QED
    BY ONLY <2>2, S = 1 .. Len(s) DEF Unfolding
<1>3. Eq(k)
  <2>1. \A T \in SUBSET S : T # {} => k[T] = LoadRow(k[T \ {Max(T)}], s[Max(T)])
    BY ONLY <1>1, <1>2
  <2> QED
    BY ONLY <1>1, <1>2, <2>1, base = Unread
<1> DEFINE it == CHOOSE h : Eq(h)
<1>4. Eq(it)
  <2> HIDE DEF Eq
  <2> QED
    BY <1>3
<1>5. LoadedRows(s) = it[S]
  BY <1>1 DEF LoadedRows, FoldLeft, MapThenFoldSet
<1> HIDE DEF it
<1>6. Unfolds(it, s, W, V, P, base)
  <2>1. it[{}] = base
    BY ONLY <1>1, <1>4, base = Unread
  <2>2. \A T \in SUBSET S : T # {} => it[T] = LoadRow(it[T \ {Max(T)}], s[Max(T)])
    BY ONLY <1>4
  <2> QED
    BY ONLY <1>1, <1>2, <2>1, <2>2, S = 1 .. Len(s) DEF Unfolds
<1> QED
  BY <1>5, <1>6

LEMMA LoadedSteps ==
  /\ LoadedRows(<<>>) = Unread
  /\ \A s \in Seq(Sound) : LoadedRows(s) \in Loading
  /\ \A s \in Seq(Sound), x \in Sound : LoadedRows(Append(s, x)) = LoadRow(LoadedRows(s), x)
<1> PICK F : F = [s \in Seq(Sound) |-> LoadedRows(s)]
  OBVIOUS
<1>1. FoldsBy(F, Sound, Loading, LoadSteps, Unread)
  BY LoadUnfold DEF FoldsBy
<1>2. /\ F[<<>>] = Unread
      /\ \A s \in Seq(Sound) : F[s] \in Loading
      /\ \A s \in Seq(Sound), x \in Sound : F[Append(s, x)] = LoadSteps[x][F[s]]
  BY ONLY <1>1, FoldSteps
<1>3. <<>> \in Seq(Sound) /\ \A s \in Seq(Sound), x \in Sound : Append(s, x) \in Seq(Sound)
  OBVIOUS
<1> QED
  BY <1>2, <1>3 DEF LoadSteps

(***************************************************************************)
(* What is loaded of a file with one more row.                             *)
(***************************************************************************)
LEMMA LoadOneMore ==
  ASSUME NEW s \in Seq(Sound), NEW i \in 0 .. Len(s) - 1
  PROVE  /\ LoadedRows(SubSeq(s, 1, 0)) = Unread
         /\ LoadedRows(SubSeq(s, 1, i)) \in Loading
         /\ LoadedRows(SubSeq(s, 1, i + 1)) = LoadRow(LoadedRows(SubSeq(s, 1, i)), s[i + 1])
<1> PICK t, u : t = SubSeq(s, 1, i) /\ u = SubSeq(s, 1, i + 1)
  OBVIOUS
<1>1. t \in Seq(Sound) /\ s[i + 1] \in Sound /\ SubSeq(s, 1, 0) = <<>>
  OBVIOUS
<1>2. u = Append(t, s[i + 1])
  OBVIOUS
<1> QED
  BY <1>1, <1>2, LoadedSteps

LEMMA LoadType ==
  ASSUME NEW s \in Seq(Sound)
  PROVE  LoadedRows(s) \in Loading /\ (s = <<>> => LoadedRows(s) = Unread)
BY LoadedSteps

\* The events loaded of a part of a file are the first ones of the whole.
Begins(s, t) == \E more \in Seq(Events) : t = s \o more

LEMMA BeginsFurther ==
  ASSUME NEW s \in Seq(Events), NEW t \in Seq(Events), NEW u \in Seq(Events), Begins(s, t)
  PROVE  Begins(s, t \o u) /\ IsPrefix(s, t)
<1>1. PICK more \in Seq(Events) : t = s \o more
  BY DEF Begins
<1>2. t \o u = s \o (more \o u) /\ more \o u \in Seq(Events)
  BY <1>1, ConcatAssociative, ConcatProperties
<1>3. Len(s) <= Len(t) /\ \A i \in 1 .. Len(s) : t[i] = s[i]
  BY <1>1
<1>4. SubSeq(s, 1, Len(s)) = SubSeq(t, 1, Len(s))
  BY <1>3
<1> QED
  BY <1>2, <1>3, <1>4 DEF Begins, IsPrefix

LEMMA LoadGrows ==
  ASSUME NEW s \in Seq(Sound), NEW i \in 0 .. Len(s)
  PROVE  Begins(LoadedRows(SubSeq(s, 1, i)).events, LoadedRows(s).events)
<1> PICK n \in Nat : n = Len(s)
  OBVIOUS
<1> PICK e : e = [j \in 0 .. n |-> LoadedRows(SubSeq(s, 1, j)).events]
  OBVIOUS
<1>1. \A j \in 0 .. n : e[j] \in Seq(Events)
  <2> SUFFICES ASSUME NEW j \in 0 .. n PROVE e[j] \in Seq(Events)
    OBVIOUS
  <2>1. SubSeq(s, 1, j) \in Seq(Sound)
    OBVIOUS
  <2>2. LoadedRows(SubSeq(s, 1, j)) \in Loading
    BY <2>1, LoadType
  <2>3. e[j] = LoadedRows(SubSeq(s, 1, j)).events
    OBVIOUS
  <2> QED
    BY <2>2, <2>3 DEF Loading
<1>2. \A j \in 0 .. n - 1 : \E more \in Seq(Events) : e[j + 1] = e[j] \o more
  <2> SUFFICES ASSUME NEW j \in 0 .. n - 1 PROVE \E more \in Seq(Events) : e[j + 1] = e[j] \o more
    OBVIOUS
  <2> PICK acc, row : acc = LoadedRows(SubSeq(s, 1, j)) /\ row = s[j + 1]
    OBVIOUS
  <2>1. acc \in Loading /\ row \in Sound /\ LoadedRows(SubSeq(s, 1, j + 1)) = LoadRow(acc, row)
    BY LoadOneMore
  <2>2. \E more \in Seq(Events) : LoadRow(acc, row).events = acc.events \o more
    BY <2>1, LoadRowType
  <2>3. e[j] = acc.events /\ e[j + 1] = LoadedRows(SubSeq(s, 1, j + 1)).events
    <3>1. j \in 0 .. n /\ j + 1 \in 0 .. n
      OBVIOUS
    <3> QED
      BY <3>1
  <2> QED
    BY <2>1, <2>2, <2>3
<1> DEFINE Q == {d \in Nat : i + d <= n => Begins(e[i], e[i + d])}
<1>3. 0 \in Q
  <2>1. e[i] \in Seq(Events)
    BY <1>1
  <2>2. e[i] = e[i] \o <<>> /\ <<>> \in Seq(Events)
    BY <2>1, ConcatEmptySeq
  <2> QED
    BY <2>2 DEF Begins
<1>4. ASSUME NEW d \in Nat, d \in Q PROVE d + 1 \in Q
  <2> SUFFICES ASSUME i + (d + 1) <= n PROVE Begins(e[i], e[i + (d + 1)])
    OBVIOUS
  <2> PICK j : j = i + d
    OBVIOUS
  <2>1. j \in 0 .. n - 1 /\ i + (d + 1) = j + 1 /\ i \in 0 .. n /\ j \in 0 .. n /\ i + d <= n
    OBVIOUS
  <2>2. PICK more \in Seq(Events) : e[j + 1] = e[j] \o more
    BY <1>2, <2>1
  <2>3. Begins(e[i], e[j])
    BY <1>4, <2>1
  <2>4. e[i] \in Seq(Events) /\ e[j] \in Seq(Events)
    BY <1>1, <2>1
  <2> QED
    BY <2>1, <2>2, <2>3, <2>4, BeginsFurther
<1> HIDE DEF Q
<1>5. n - i \in Q
  <2>1. n - i \in Nat
    OBVIOUS
  <2> QED
    BY <1>3, <1>4, <2>1, SetInduction
<1>6. i + (n - i) = n /\ SubSeq(s, 1, n) = s
  BY SubSeqFull
<1>7. Begins(e[i], e[n])
  BY <1>5, <1>6 DEF Q
<1> QED
  BY <1>6, <1>7
-----------------------------------------------------------------------------
\* What is loaded of the first n rows of the file.
Parsed(n) == LoadedRows(SubSeq(file, 1, n))
Unbroken(n) == n \in 0 .. Len(file) /\ \A i \in 1 .. n : file[i].type # "broken"
Whole == LoadMarketEventsFromCSV(Readable(file))

LEMMA LeastExists ==
  ASSUME NEW T \in SUBSET Nat, T # {}
  PROVE  Min(T) \in T /\ \A y \in T : Min(T) <= y
<1> DEFINE Q == {m \in Nat : (\E x \in T : x <= m) => \E x \in T : \A y \in T : x <= y}
<1>1. 0 \in Q
  <2>1. \A y \in T : y >= 0
    OBVIOUS
  <2> QED
    BY <2>1
<1>2. ASSUME NEW m \in Nat, m \in Q PROVE m + 1 \in Q
  <2> SUFFICES ASSUME NEW x \in T, x <= m + 1 PROVE \E z \in T : \A y \in T : z <= y
    OBVIOUS
  <2>1. CASE \E z \in T : z <= m
    BY <1>2, <2>1
  <2>2. CASE ~\E z \in T : z <= m
    <3>1. \A y \in T : y \in Nat /\ ~(y <= m) /\ x \in Nat
      BY <2>2
    <3>2. \A y \in T : x <= y
      BY <3>1
    <3> QED
      BY <3>2
  <2> QED
    BY <2>1, <2>2
<1> HIDE DEF Q
<1>3. PICK z : z \in T
  OBVIOUS
<1>4. z \in Q
  BY <1>1, <1>2, <1>3, SetInduction
<1>5. \E x \in T : \A y \in T : x <= y
  BY <1>3, <1>4 DEF Q
<1> QED
  BY <1>5 DEF Min

LEMMA FirstBroken ==
  ASSUME file \in Seq(Rows), IsBroken(file)
  PROVE  \E m \in 1 .. Len(file) :
            /\ file[m].type = "broken" /\ Readable(file) = SubSeq(file, 1, m - 1)
            /\ \A i \in 1 .. m - 1 : file[i].type # "broken"
<1> PICK len \in Nat : len = Len(file)
  OBVIOUS
<1> PICK T : T = {i \in DOMAIN file : file[i].type = "broken"}
  OBVIOUS
<1>1. T # {} /\ T \in SUBSET Nat
  BY DEF IsBroken
<1> PICK m : m = Min(T)
  OBVIOUS
<1>2. m \in T /\ \A y \in T : m <= y
  BY <1>1, LeastExists
<1>3. Readable(file) = SubSeq(file, 1, m - 1)
  BY DEF Readable
<1>4. m \in 1 .. len /\ file[m].type = "broken"
  BY <1>2
<1>5. ASSUME NEW i \in 1 .. m - 1, file[i].type = "broken" PROVE FALSE
  <2>1. i \in 1 .. len /\ i < m
    BY <1>4
  <2>2. i \in T
    BY <1>5, <2>1
  <2>3. m <= i
    BY <1>2, <2>2
  <2> QED
    BY <1>4, <2>1, <2>3
<1> QED
  BY <1>3, <1>4, <1>5

\* The rows the reader gets to are those before the first broken one.
LEMMA ReadableRows ==
  ASSUME file \in Seq(Rows), NEW n, Unbroken(n)
  PROVE  /\ SubSeq(file, 1, n) \in Seq(Sound)
         /\ n <= Len(Readable(file)) /\ SubSeq(Readable(file), 1, n) = SubSeq(file, 1, n)
         /\ n < Len(file) /\ file[n + 1].type = "broken" => Readable(file) = SubSeq(file, 1, n)
<1> PICK len \in Nat : len = Len(file)
  OBVIOUS
<1>1. n \in 0 .. len /\ \A i \in 1 .. n : file[i].type # "broken"
  BY DEF Unbroken
<1>2. \A i \in 1 .. len : file[i] \in Rows
  OBVIOUS
<1>3. \A row \in Rows : row.type # "broken" => row \in Sound
  BY DEF Rows, Sound, Levels, Trades
<1>4. SubSeq(file, 1, n) \in Seq(Sound)
  <2>1. \A i \in 1 .. n : file[i] \in Sound
    BY <1>1, <1>2, <1>3
  <2> QED
    BY <1>1, <2>1, SubSeqProperties
<1>5. CASE ~IsBroken(file)
  <2>1. Readable(file) = file
    BY <1>5 DEF Readable
  <2>2. n < len => file[n + 1].type # "broken"
    <3>1. n < len => n + 1 \in DOMAIN file
      BY <1>1
    <3> QED
      BY <1>5, <3>1 DEF IsBroken
  <2> QED
    BY <1>1, <1>4, <2>1, <2>2
<1>6. CASE IsBroken(file)
  <2>1. PICK m \in 1 .. len :
           /\ file[m].type = "broken" /\ Readable(file) = SubSeq(file, 1, m - 1)
           /\ \A i \in 1 .. m - 1 : file[i].type # "broken"
    BY <1>6, FirstBroken
  <2>2. n < m
    BY <1>1, <2>1
  <2> PICK k \in Nat : k = m - 1
    OBVIOUS
  <2>3. k \in 0 .. len /\ n \in 0 .. k
    BY <1>1, <2>2
  <2>4. Len(SubSeq(file, 1, k)) = k /\ SubSeq(SubSeq(file, 1, k), 1, n) = SubSeq(file, 1, n)
    BY <2>3
  <2>5. file[n + 1].type = "broken" => k = n
    BY <2>1, <2>3
  <2> QED
    BY <1>4, <2>1, <2>3, <2>4, <2>5
<1> QED
  BY <1>5, <1>6

LEMMA WholeFile ==
  ASSUME file \in Seq(Rows)
  PROVE  /\ Readable(file) \in Seq(Sound) /\ LoadedRows(Readable(file)) \in Loading
         /\ Whole = LoadedRows(Readable(file)).events \o Flushed(LoadedRows(Readable(file)).group)
         /\ Whole \in Seq(Events)
         /\ ~IsBroken(file) => Readable(file) = file /\ Unbroken(Len(file))
<1> PICK len \in Nat : len = Len(file)
  OBVIOUS
<1>1. ~IsBroken(file) => Readable(file) = file /\ Unbroken(Len(file))
  BY DEF Readable, IsBroken, Unbroken
<1>2. Readable(file) \in Seq(Sound)
  <2>1. CASE ~IsBroken(file)
    <3>1. SubSeq(file, 1, Len(file)) \in Seq(Sound)
      BY <1>1, <2>1, ReadableRows
    <3>2. SubSeq(file, 1, Len(file)) = file
      BY SubSeqFull
    <3> QED
      BY <1>1, <2>1, <3>1, <3>2
  <2>2. CASE IsBroken(file)
    <3>1. PICK m \in 1 .. len :
             /\ file[m].type = "broken" /\ Readable(file) = SubSeq(file, 1, m - 1)
             /\ \A i \in 1 .. m - 1 : file[i].type # "broken"
      BY <2>2, FirstBroken
    <3>2. Unbroken(m - 1)
      BY <3>1 DEF Unbroken
    <3> QED
      BY <3>1, <3>2, ReadableRows
  <2> QED
    BY <2>1, <2>2
<1> PICK acc : acc = LoadedRows(Readable(file))
  OBVIOUS
<1>3. acc \in Loading
  BY <1>2, LoadType
<1>4. Whole = acc.events \o Flushed(acc.group)
  BY DEF Whole, LoadMarketEventsFromCSV, LoadedRows, Unread
<1>5. acc.events \in Seq(Events) /\ Flushed(acc.group) \in Seq(Events)
  BY <1>3, FlushedType DEF Loading
<1>6. acc.events \o Flushed(acc.group) \in Seq(Events)
  BY <1>5, ConcatProperties
<1> QED
  BY <1>1, <1>2, <1>3, <1>4, <1>6

LEMMA ParsedBegins ==
  ASSUME file \in Seq(Rows), NEW n, Unbroken(n)
  PROVE  Parsed(n) \in Loading /\ Begins(Parsed(n).events, Whole)
<1> PICK s : s = Readable(file)
  OBVIOUS
<1>1. /\ s \in Seq(Sound) /\ LoadedRows(s) \in Loading
      /\ Whole = LoadedRows(s).events \o Flushed(LoadedRows(s).group)
      /\ n \in 0 .. Len(s) /\ SubSeq(s, 1, n) = SubSeq(file, 1, n)
      /\ SubSeq(file, 1, n) \in Seq(Sound)
  <2>1. /\ s \in Seq(Sound) /\ LoadedRows(s) \in Loading
        /\ Whole = LoadedRows(s).events \o Flushed(LoadedRows(s).group)
    BY WholeFile
  <2>2. /\ n <= Len(s) /\ SubSeq(s, 1, n) = SubSeq(file, 1, n)
        /\ SubSeq(file, 1, n) \in Seq(Sound)
    BY ReadableRows
  <2>3. n \in Nat
    BY DEF Unbroken
  <2>4. Len(s) \in Nat
    BY <2>1
  <2> QED
    BY <2>1, <2>2, <2>3, <2>4
<1>2. Parsed(n) \in Loading
  BY <1>1, LoadType DEF Parsed
<1>3. Begins(Parsed(n).events, LoadedRows(s).events)
  BY <1>1, LoadGrows DEF Parsed
<1>4. Parsed(n).events \in Seq(Events) /\ LoadedRows(s).events \in Seq(Events)
  BY <1>1, <1>2 DEF Loading
<1>5. Flushed(LoadedRows(s).group) \in Seq(Events)
  BY <1>1, FlushedType DEF Loading
<1>6. Begins(Parsed(n).events, LoadedRows(s).events \o Flushed(LoadedRows(s).group))
  BY <1>3, <1>4, <1>5, BeginsFurther
<1> QED
  BY <1>1, <1>2, <1>6

LEMMA ParsedOneMore ==
  ASSUME file \in Seq(Rows), NEW n \in Nat, Unbroken(n + 1)
  PROVE  /\ Unbroken(n) /\ file[n + 1] \in Sound
         /\ Parsed(n + 1) = LoadRow(Parsed(n), file[n + 1])
<1>1. Unbroken(n) /\ n + 1 <= Len(file)
  BY DEF Unbroken
<1> PICK s : s = SubSeq(file, 1, n + 1)
  OBVIOUS
<1>2. s \in Seq(Sound) /\ Len(s) = n + 1
  BY <1>1, ReadableRows
<1>3. SubSeq(s, 1, n) = SubSeq(file, 1, n) /\ SubSeq(s, 1, n + 1) = s /\ s[n + 1] = file[n + 1]
  BY <1>1, <1>2
<1>4. n \in 0 .. Len(s) - 1 /\ n + 1 \in 1 .. Len(s)
  BY <1>2
<1>5. LoadedRows(SubSeq(s, 1, n + 1)) = LoadRow(LoadedRows(SubSeq(s, 1, n)), s[n + 1])
  BY <1>2, <1>4, LoadOneMore
<1>6. s[n + 1] \in Sound
  BY <1>2, <1>4
<1> QED
  BY <1>1, <1>3, <1>5, <1>6 DEF Parsed
-----------------------------------------------------------------------------
Ended == reader.pc \in {"errClosed", "closed"}
Reports(s) == s # <<>> /\ "error" \notin DOMAIN s[1]
Taken == handled \o reader.out

SimTypes ==
    /\ file \in Seq(Rows)
    /\ reader \in [pc : {"reading", "closing", "errClosed", "closed"}, next : Nat \ {0},
                   group : Seq(Levels), time : Nat, out : Seq(Events)]
    /\ handled \in Seq(Events)
    /\ DOMAIN sim = {"pc", "book", "quote", "signal", "oneSided"}

\* Until it ends, the reader has what loading its rows so far gives.
Follows ==
    LET n == reader.next - 1
    IN  /\ Unbroken(n)
        /\ reader.pc = "reading" => /\ Taken = Parsed(n).events
                                    /\ reader.group = Parsed(n).group
                                    /\ reader.time = Parsed(n).time

SimInv ==
    /\ SimTypes
    /\ Follows
    /\ reader.pc # "reading" => /\ Begins(Taken, Whole)
                                /\ ~IsBroken(file) => Taken = Whole
    /\ Ended => reader.out = <<>>
    /\ sim.pc \in {"select", "noConfig"} => summary = <<>>
    /\ Reports(summary) \/ Reports(printed) => Ended

LEMMA InitSimulation == Init => SimInv
<1> SUFFICES ASSUME Init PROVE SimInv
  OBVIOUS
<1> USE DEF Init
<1>1. SimTypes
  <2>1. file \in Seq(Rows)
    BY FilesAssumption
  <2>2. <<>> \in Seq(Events) /\ <<>> \in Seq(Levels)
    OBVIOUS
  <2>3. DOMAIN sim = {"pc", "book", "quote", "signal", "oneSided"}
    OBVIOUS
  <2> QED
    BY <2>1, <2>2, <2>3 DEF SimTypes
<1>2. reader.next - 1 = 0 /\ Unbroken(0)
  <2>1. Len(file) \in Nat
    BY <1>1 DEF SimTypes
  <2> QED
    BY <2>1 DEF Unbroken
<1>3. Parsed(0) = Unread
  <2>1. SubSeq(file, 1, 0) = <<>> /\ <<>> \in Seq(Sound)
    BY SubSeqEmpty
  <2> QED
    BY <2>1, LoadType DEF Parsed
<1>4. Taken = <<>>
  BY DEF Taken
<1>5. Follows
  BY <1>2, <1>3, <1>4 DEF Follows, Unread
<1>6. sim.pc \in {"select", "noConfig"} => summary = <<>>
  OBVIOUS
<1>7. ~Ended /\ reader.pc = "reading" /\ ~Reports(summary) /\ ~Reports(printed)
  BY DEF Ended, Reports
<1> QED
  BY <1>1, <1>5, <1>6, <1>7 DEF SimInv

LEMMA FileKept ==
  ASSUME file' = file
  PROVE  Whole' = Whole /\ IsBroken(file)' = IsBroken(file)
         /\ \A n : Parsed(n)' = Parsed(n) /\ Unbroken(n)' = Unbroken(n)
BY DEF Whole, Parsed, Unbroken, IsBroken, Readable, LoadMarketEventsFromCSV

\* The events taken out of the channel and those in it stay the same.
LEMMA TakesKeeps ==
  ASSUME NEW s \in Seq(Events), NEW t \in Seq(Events), t # <<>>
  PROVE  /\ Append(s, Head(t)) \in Seq(Events) /\ Tail(t) \in Seq(Events)
         /\ Append(s, Head(t)) \o Tail(t) = s \o t
         /\ Last(Append(s, Head(t))) = Head(t)
<1> PICK m, n \in Nat : m = Len(s) /\ n = Len(t)
  OBVIOUS
<1> PICK u : u = Append(s, Head(t)) \o Tail(t)
  OBVIOUS
<1> PICK v : v = s \o t
  OBVIOUS
<1>1. n > 0 /\ Head(t) = t[1] /\ Head(t) \in Events /\ Tail(t) \in Seq(Events)
  OBVIOUS
<1>2. Len(Tail(t)) = n - 1 /\ \A i \in 1 .. n - 1 : Tail(t)[i] = t[i + 1]
  BY <1>1
<1>3. /\ Append(s, Head(t)) \in Seq(Events) /\ Len(Append(s, Head(t))) = m + 1
      /\ Append(s, Head(t))[m + 1] = t[1] /\ \A i \in 1 .. m : Append(s, Head(t))[i] = s[i]
  BY <1>1
<1>4. /\ u \in Seq(Events) /\ Len(u) = m + n
      /\ \A i \in 1 .. m + n : u[i] = IF i <= m + 1 THEN Append(s, Head(t))[i]
                                      ELSE Tail(t)[i - (m + 1)]
  BY <1>1, <1>2, <1>3, ConcatProperties
<1>5. /\ v \in Seq(Events) /\ Len(v) = m + n
      /\ \A i \in 1 .. m + n : v[i] = IF i <= m THEN s[i] ELSE t[i - m]
  BY ConcatProperties
<1>6. ASSUME NEW i \in 1 .. m + n PROVE u[i] = v[i]
  <2>1. CASE i <= m
    BY <1>3, <1>4, <1>5, <2>1
  <2>2. CASE i = m + 1
    BY <1>3, <1>4, <1>5, <2>2
  <2>3. CASE i > m + 1
    <3>1. i - (m + 1) \in 1 .. n - 1 /\ (i - (m + 1)) + 1 = i - m
      BY <2>3
    <3>2. Tail(t)[i - (m + 1)] = t[i - m]
      BY <1>2, <3>1
    <3> QED
      BY <1>4, <1>5, <2>3, <3>2
  <2> QED
    BY <2>1, <2>2, <2>3
<1>7. u = v
  BY <1>4, <1>5, <1>6, SeqEqual
<1>8. Last(Append(s, Head(t))) = Head(t)
  BY <1>1, <1>3 DEF Last
<1> QED
  BY <1>1, <1>3, <1>7, <1>8

(***************************************************************************)
(* The steps that neither read a row nor take an event.                    *)
(***************************************************************************)
LEMMA OthersKeep ==
  ASSUME SimInv, UNCHANGED <<file, handled>>, DOMAIN sim' = DOMAIN sim,
         \/ reader' = reader
         \/ reader' = [reader EXCEPT !.pc = "errClosed"] /\ reader.pc = "closing" /\ reader.out = <<>>
         \/ reader' = [reader EXCEPT !.pc = "closed"] /\ reader.pc = "errClosed",
         sim'.pc \in {"select", "noConfig"} => summary' = <<>>,
         Reports(summary') \/ Reports(printed') => Ended \/ Reports(summary) \/ Reports(printed)
  PROVE  SimInv'
<1> USE DEF SimInv
<1>1. /\ reader'.next = reader.next /\ reader'.group = reader.group /\ reader'.time = reader.time
      /\ reader'.out = reader.out /\ (reader'.pc = "reading" <=> reader.pc = "reading")
      /\ (Ended => Ended') /\ (Ended' => reader.out = <<>>)
      /\ reader'.pc \in {"reading", "closing", "errClosed", "closed"}
      /\ DOMAIN reader' = DOMAIN reader
  BY DEF SimTypes, Ended
<1>2. SimTypes'
  BY DEF SimTypes
<1>3. Taken' = Taken
  BY <1>1 DEF Taken
<1>4. Follows'
  BY <1>1, <1>3, FileKept DEF Follows
<1>5. reader'.pc # "reading" => /\ Begins(Taken, Whole)'
                                /\ ~IsBroken(file)' => Taken' = Whole'
  BY <1>1, <1>3, FileKept DEF Begins
<1>6. (Reports(summary) \/ Reports(printed) => Ended)'
  BY <1>1 DEF Reports
<1> QED
  BY <1>1, <1>2, <1>4, <1>5, <1>6
-----------------------------------------------------------------------------
(***************************************************************************)
(* A row that is read is taken as loading takes it.                        *)
(***************************************************************************)
LEMMA RowKeeps ==
  ASSUME SimInv, Reading, UNCHANGED <<file, sim, handled, summary, printed>>,
         reader.next <= Len(file), file[reader.next].type # "broken",
         NEW acc, acc = LoadRow([events |-> handled, group |-> reader.group, time |-> reader.time],
                                file[reader.next]),
         NEW out \in Seq(Events), acc.events = handled \o out,
         reader' = [reader EXCEPT !.next = @ + 1, !.group = acc.group, !.time = acc.time, !.out = out]
  PROVE  SimInv'
<1> USE DEF SimInv
<1> PICK n \in Nat : n = reader.next - 1
  BY DEF SimTypes
<1>1. /\ reader.next = n + 1 /\ reader.pc = "reading" /\ reader.out = <<>>
      /\ Unbroken(n) /\ Parsed(n).events = Taken
      /\ Parsed(n).group = reader.group /\ Parsed(n).time = reader.time
  BY DEF SimTypes, Follows, Reading
<1>2. Taken = handled
  BY <1>1, ConcatEmptySeq DEF Taken, SimTypes
<1>3. Unbroken(n + 1)
  BY <1>1 DEF Unbroken, SimTypes
<1>4. Parsed(n) \in Loading /\ file[n + 1] \in Sound /\ Parsed(n + 1) = LoadRow(Parsed(n), file[n + 1])
  BY <1>1, <1>3, ParsedBegins, ParsedOneMore DEF SimTypes
<1>5. Parsed(n) = [events |-> handled, group |-> reader.group, time |-> reader.time]
  BY <1>1, <1>2, <1>4 DEF Loading
<1>6. Parsed(n + 1) = acc /\ acc \in Loading
  BY <1>1, <1>4, <1>5, LoadRowType
<1>7. /\ reader'.next = n + 2 /\ reader'.group = acc.group /\ reader'.time = acc.time
      /\ reader'.out = out /\ reader'.pc = "reading"
  BY <1>1 DEF SimTypes
<1>8. SimTypes'
  <2>1. acc.group \in Seq(Levels) /\ acc.time \in Nat
    BY <1>6 DEF Loading
  <2>2. reader' \in [pc : {"reading", "closing", "errClosed", "closed"}, next : Nat \ {0},
                     group : Seq(Levels), time : Nat, out : Seq(Events)]
    <3>1. n + 2 \in Nat \ {0} /\ reader.next + 1 = n + 2
      BY <1>1
    <3> QED
      BY <2>1, <3>1 DEF SimTypes
  <2> QED
    BY <2>2 DEF SimTypes
<1>9. Taken' = acc.events
  BY <1>7 DEF Taken
<1>10. Follows'
  <2>1. reader'.next - 1 = n + 1
    BY <1>7
  <2>2. Unbroken(n + 1)' /\ Parsed(n + 1)' = acc
    BY <1>3, <1>6, FileKept
  <2> QED
    BY <1>7, <1>9, <2>1, <2>2 DEF Follows
<1>11. (Reports(summary) \/ Reports(printed) => Ended)'
  BY <1>1 DEF Reports, Ended
<1>12. ~Ended'
  BY <1>7 DEF Ended
<1> QED
  BY <1>7, <1>8, <1>10, <1>11, <1>12

LEMMA ReadBookKeeps == SimInv /\ ReadBook => SimInv'
<1> SUFFICES ASSUME SimInv, ReadBook PROVE SimInv'
  OBVIOUS
<1> USE DEF SimInv
<1> PICK row : row = file[reader.next]
  OBVIOUS
<1> PICK was : was = [events |-> handled, group |-> reader.group, time |-> reader.time]
  OBVIOUS
<1>1. Reading /\ reader.next <= Len(file) /\ row.type = "book"
  BY DEF ReadBook, AtRow
<1>2. UNCHANGED <<file, sim, handled, summary, printed>>
  BY DEF ReadBook, simVars, mainVars
<1>3. /\ handled \in Seq(Events) /\ reader.group \in Seq(Levels)
      /\ Flushed(reader.group) \in Seq(Events)
      /\ <<>> \in Seq(Events) /\ handled \o <<>> = handled /\ reader.out = <<>>
  <2>1. handled \in Seq(Events) /\ reader.group \in Seq(Levels)
    BY DEF SimTypes
  <2>2. handled \o <<>> = handled
    BY <2>1, ConcatEmptySeq
  <2> QED
    BY <1>1, <2>1, <2>2, FlushedType DEF Reading
<1>4. CASE reader.time \in {0, row.time}
  <2>1. LoadRow(was, row) = [was EXCEPT !.group = Append(@, row), !.time = row.time]
    BY <1>1, <1>4 DEF LoadRow
  <2>2. reader' = [reader EXCEPT !.next = @ + 1, !.time = row.time, !.out = <<>>,
                                 !.group = Append(reader.group, row)]
    BY <1>4 DEF ReadBook
  <2>3. /\ LoadRow(was, row).events = handled \o <<>>
        /\ LoadRow(was, row).group = Append(reader.group, row) /\ LoadRow(was, row).time = row.time
    BY <1>3, <2>1
  <2>4. reader' = [reader EXCEPT !.next = @ + 1, !.group = LoadRow(was, row).group,
                                 !.time = LoadRow(was, row).time, !.out = <<>>]
    BY <2>2, <2>3
  <2> QED
    BY <1>1, <1>2, <1>3, <2>3, <2>4, RowKeeps
<1>5. CASE reader.time \notin {0, row.time}
  <2>1. LoadRow(was, row) = [events |-> handled \o Flushed(reader.group), group |-> <<row>>,
                             time |-> row.time]
    BY <1>1, <1>5 DEF LoadRow
  <2>2. reader' = [reader EXCEPT !.next = @ + 1, !.time = row.time, !.out = Flushed(reader.group),
                                 !.group = <<row>>]
    BY <1>5 DEF ReadBook
  <2>4. reader' = [reader EXCEPT !.next = @ + 1, !.group = LoadRow(was, row).group,
                                 !.time = LoadRow(was, row).time, !.out = Flushed(reader.group)]
    <3>1. LoadRow(was, row).group = <<row>> /\ LoadRow(was, row).time = row.time
      BY <2>1
    <3> QED
      BY <2>2, <3>1
  <2>5. LoadRow(was, row).events = handled \o Flushed(reader.group)
    BY <2>1
  <2> QED
    BY <1>1, <1>2, <1>3, <2>4, <2>5, RowKeeps
<1> QED
  BY <1>4, <1>5

LEMMA ReadTradeKeeps == SimInv /\ ReadTrade => SimInv'
<1> SUFFICES ASSUME SimInv, ReadTrade PROVE SimInv'
  OBVIOUS
<1> USE DEF SimInv
<1> PICK row : row = file[reader.next]
  OBVIOUS
<1> PICK was : was = [events |-> handled, group |-> reader.group, time |-> reader.time]
  OBVIOUS
<1> PICK flush : flush = Flushed(reader.group)
  OBVIOUS
<1>1. Reading /\ reader.next <= Len(file) /\ row.type = "trade"
  BY DEF ReadTrade, AtRow
<1>2. UNCHANGED <<file, sim, handled, summary, printed>>
  BY DEF ReadTrade, simVars, mainVars
<1>3. row \in Events
  <2>1. reader.next \in 1 .. Len(file) /\ file \in Seq(Rows)
    BY <1>1 DEF SimTypes
  <2>2. row \in Rows
    BY <2>1
  <2> QED
    BY <1>1, <2>2 DEF Rows, Levels, Trades, Events
<1>4. handled \in Seq(Events) /\ flush \in Seq(Events) /\ <<row>> \in Seq(Events)
  BY <1>3, FlushedType DEF SimTypes
<1> PICK out : out = Append(flush, row)
  OBVIOUS
<1>5. out = flush \o <<row>> /\ out \in Seq(Events)
  BY <1>3, <1>4, AppendIsConcat
<1>6. (handled \o flush) \o <<row>> = handled \o out
  <2> PICK a, b, c : a = handled /\ b = flush /\ c = <<row>>
    OBVIOUS
  <2>1. a \in Seq(Events) /\ b \in Seq(Events) /\ c \in Seq(Events)
    BY <1>4
  <2>2. (a \o b) \o c = a \o (b \o c)
    BY ONLY <2>1, ConcatAssociative
  <2> QED
    BY <1>5, <2>2
<1>7. LoadRow(was, row) = [was EXCEPT !.events = (handled \o flush) \o <<row>>, !.group = <<>>]
  BY <1>1 DEF LoadRow
<1>8. /\ LoadRow(was, row).events = handled \o out
      /\ LoadRow(was, row).group = <<>> /\ LoadRow(was, row).time = reader.time
  BY <1>6, <1>7
<1>9. reader' = [reader EXCEPT !.next = @ + 1, !.group = <<>>, !.out = out]
  BY DEF ReadTrade
<1>10. reader' = [reader EXCEPT !.next = @ + 1, !.group = LoadRow(was, row).group,
                                !.time = LoadRow(was, row).time, !.out = out]
  BY <1>8, <1>9 DEF SimTypes
<1> QED
  BY <1>1, <1>2, <1>5, <1>8, <1>10, RowKeeps

LEMMA SkipRowKeeps == SimInv /\ SkipRow => SimInv'
<1> SUFFICES ASSUME SimInv, SkipRow PROVE SimInv'
  OBVIOUS
<1> USE DEF SimInv
<1> PICK row : row = file[reader.next]
  OBVIOUS
<1> PICK was : was = [events |-> handled, group |-> reader.group, time |-> reader.time]
  OBVIOUS
<1>1. Reading /\ reader.next <= Len(file) /\ row.type = "badTime"
  BY DEF SkipRow, AtRow
<1>2. UNCHANGED <<file, sim, handled, summary, printed>>
  BY DEF SkipRow, simVars, mainVars
<1>3. handled \in Seq(Events) /\ <<>> \in Seq(Events) /\ handled \o <<>> = handled
  BY ConcatEmptySeq DEF SimTypes
<1>4. LoadRow(was, row) = was
  BY <1>1 DEF LoadRow
<1>5. reader' = [reader EXCEPT !.next = @ + 1] /\ reader.out = <<>>
  BY <1>1 DEF SkipRow, Reading
<1>6. reader' = [reader EXCEPT !.next = @ + 1, !.group = LoadRow(was, row).group,
                               !.time = LoadRow(was, row).time, !.out = <<>>]
  <2>1. LoadRow(was, row).group = reader.group /\ LoadRow(was, row).time = reader.time
    BY <1>4
  <2>2. reader = [pc |-> reader.pc, next |-> reader.next, group |-> reader.group,
                  time |-> reader.time, out |-> <<>>]
    BY <1>5 DEF SimTypes
  <2> QED
    BY <1>5, <2>1, <2>2
<1>7. LoadRow(was, row).events = handled \o <<>>
  BY <1>3, <1>4
<1> QED
  BY <1>1, <1>2, <1>3, <1>6, <1>7, RowKeeps

\* The reader stops: at the end with its last group, at a broken row without.
LEMMA StopKeeps ==
  ASSUME SimInv, Reading, UNCHANGED <<file, sim, handled, summary, printed>>,
         NEW out, reader' = [reader EXCEPT !.pc = "closing", !.out = out],
         \/ reader.next > Len(file) /\ out = Flushed(reader.group)
         \/ AtRow("broken") /\ out = <<>>
  PROVE  SimInv'
<1> USE DEF SimInv
<1> PICK n \in Nat : n = reader.next - 1
  BY DEF SimTypes
<1> PICK len \in Nat : len = Len(file)
  BY DEF SimTypes
<1>1. /\ reader.next = n + 1 /\ reader.pc = "reading" /\ reader.out = <<>>
      /\ Unbroken(n) /\ Parsed(n).events = Taken /\ Parsed(n).group = reader.group
      /\ reader.group \in Seq(Levels) /\ handled \in Seq(Events) /\ file \in Seq(Rows)
  BY DEF SimTypes, Follows, Reading
<1>2. Taken = handled
  BY <1>1, ConcatEmptySeq DEF Taken
<1>3. out \in Seq(Events)
  <2>1. Flushed(reader.group) \in Seq(Events)
    BY <1>1, FlushedType
  <2>2. <<>> \in Seq(Events)
    OBVIOUS
  <2> QED
    BY <2>1, <2>2
<1>4. /\ reader'.next = n + 1 /\ reader'.out = out /\ reader'.pc = "closing"
      /\ Taken' = handled \o out
  BY <1>1 DEF SimTypes, Taken
<1>5. SimTypes'
  BY <1>3 DEF SimTypes
<1>6. Follows'
  <2>1. Unbroken(n)'
    BY <1>1, FileKept
  <2> QED
    BY <1>4, <2>1 DEF Follows
<1>7. Begins(handled \o out, Whole) /\ (~IsBroken(file) => handled \o out = Whole)
  <2>1. CASE reader.next > len /\ out = Flushed(reader.group)
    <3>1. n = len
      BY <1>1, <2>1 DEF Unbroken
    <3>2. ~IsBroken(file)
      BY <1>1, <3>1 DEF Unbroken, IsBroken
    <3>3. Readable(file) = file /\ SubSeq(file, 1, len) = file
      BY <1>1, <3>2, SubSeqFull DEF Readable
    <3>4. Whole = handled \o out
      BY <1>1, <1>2, <2>1, <3>1, <3>3, WholeFile DEF Parsed
    <3>5. Whole \in Seq(Events) /\ <<>> \in Seq(Events) /\ Whole \o <<>> = Whole
      BY <1>1, WholeFile, ConcatEmptySeq
    <3> QED
      BY <3>4, <3>5 DEF Begins
  <2>2. CASE AtRow("broken") /\ out = <<>>
    <3>1. IsBroken(file)
      <4>1. reader.next \in DOMAIN file
        BY <1>1, <2>2 DEF AtRow
      <4> QED
        BY <2>2, <4>1 DEF IsBroken, AtRow
    <3>2. Begins(handled, Whole)
      BY <1>1, <1>2, ParsedBegins
    <3>3. handled \o out = handled
      BY <1>1, <2>2, ConcatEmptySeq
    <3> QED
      BY <3>1, <3>2, <3>3
  <2> QED
    BY <2>1, <2>2
<1>8. Begins(Taken, Whole)' /\ (~IsBroken(file)' => Taken' = Whole')
  BY <1>4, <1>7, FileKept DEF Begins
<1>9. (Reports(summary) \/ Reports(printed) => Ended)'
  BY <1>1 DEF Reports, Ended
<1>10. ~Ended'
  BY <1>4 DEF Ended
<1> QED
  BY <1>4, <1>5, <1>6, <1>8, <1>9, <1>10

\* An event goes from the channel to the simulation.
LEMMA TakeKeeps ==
  ASSUME SimInv, NEW type, Takes(type), UNCHANGED printed, DOMAIN sim' = DOMAIN sim, sim'.pc = sim.pc
  PROVE  SimInv'
<1> USE DEF SimInv
<1>1. /\ reader.out # <<>> /\ reader' = [reader EXCEPT !.out = Tail(reader.out)]
      /\ handled' = Append(handled, Head(reader.out)) /\ UNCHANGED <<file, summary, printed>>
      /\ sim.pc = "select"
  BY DEF Takes
<1>2. handled \in Seq(Events) /\ reader.out \in Seq(Events)
  BY DEF SimTypes
<1>3. /\ handled' \in Seq(Events) /\ Tail(reader.out) \in Seq(Events)
      /\ handled' \o Tail(reader.out) = handled \o reader.out
  BY <1>1, <1>2, TakesKeeps
<1>4. /\ reader'.next = reader.next /\ reader'.group = reader.group /\ reader'.time = reader.time
      /\ reader'.pc = reader.pc /\ reader'.out = Tail(reader.out)
  BY <1>1 DEF SimTypes
<1>5. SimTypes'
  BY <1>1, <1>3 DEF SimTypes
<1>6. Taken' = Taken
  BY <1>3, <1>4 DEF Taken
<1>7. Follows'
  BY <1>1, <1>4, <1>6, FileKept DEF Follows
<1>8. reader'.pc # "reading" => /\ Begins(Taken, Whole)'
                                /\ ~IsBroken(file)' => Taken' = Whole'
  BY <1>1, <1>4, <1>6, FileKept DEF Begins
<1>9. ~Ended /\ ~Ended'
  BY <1>1, <1>4 DEF Ended
<1>10. (Reports(summary) \/ Reports(printed) => Ended)'
  BY <1>1, <1>9 DEF Reports
<1> QED
  BY <1>1, <1>5, <1>7, <1>8, <1>9, <1>10
-----------------------------------------------------------------------------
LEMMA TradeShape ==
  ASSUME NEW e, NEW book, NEW quote, Trade(e, book, quote),
         DOMAIN sim = {"pc", "book", "quote", "signal", "oneSided"}
  PROVE  /\ DOMAIN sim' = DOMAIN sim /\ sim'.pc = sim.pc
         /\ sim'.book = book /\ sim'.quote = quote
         /\ sim'.oneSided = IF e.position.size = 0 /\ engine'.position.size # 0
                            THEN 0 \in {BestBid(book), BestAsk(book)} ELSE sim.oneSided
BY DEF Trade

LEMMA HandleBookKeeps == SimInv /\ HandleBook => SimInv'
<1> SUFFICES ASSUME SimInv, HandleBook PROVE SimInv'
  OBVIOUS
<1>1. Takes("book") /\ UNCHANGED printed
  BY DEF HandleBook, Takes, mainVars
<1>2. DOMAIN sim' = DOMAIN sim /\ sim'.pc = sim.pc
  <2>1. DOMAIN sim = {"pc", "book", "quote", "signal", "oneSided"}
    BY DEF SimInv, SimTypes
  <2>2. (\E e, book, quote : Trade(e, book, quote)) \/ \E book : sim' = [sim EXCEPT !.book = book]
    BY DEF HandleBook
  <2> QED
    BY <2>1, <2>2, TradeShape
<1> QED
  BY <1>1, <1>2, TakeKeeps

LEMMA HandleTradeKeeps == SimInv /\ HandleTrade => SimInv'
<1> SUFFICES ASSUME SimInv, HandleTrade PROVE SimInv'
  OBVIOUS
<1>1. Takes("trade") /\ UNCHANGED printed
  BY DEF HandleTrade, Takes, mainVars
<1>2. DOMAIN sim' = DOMAIN sim /\ sim'.pc = sim.pc
  <2>1. DOMAIN sim = {"pc", "book", "quote", "signal", "oneSided"}
    BY DEF SimInv, SimTypes
  <2>2. (\E e, book, quote : Trade(e, book, quote)) \/ sim' = sim
    BY DEF HandleTrade
  <2> QED
    BY <2>1, <2>2, TradeShape
<1> QED
  BY <1>1, <1>2, TakeKeeps

LEMMA FinishKeeps ==
  ASSUME SimInv, Finish, sim.pc = "select", Ended, UNCHANGED <<file, reader, handled, printed>>
  PROVE  SimInv'
<1>1. DOMAIN sim' = DOMAIN sim /\ sim'.pc = "signal"
  BY DEF Finish, SimInv, SimTypes
<1> QED
  BY <1>1, OthersKeep

LEMMA SimulationStep == SimInv /\ [Next]_vars => SimInv'
<1> SUFFICES ASSUME SimInv, [Next]_vars PROVE SimInv'
  OBVIOUS
<1> USE DEF simVars, mainVars
<1>0. DOMAIN sim = {"pc", "book", "quote", "signal", "oneSided"}
  BY DEF SimInv, SimTypes
<1>1. CASE ReadBook
  BY <1>1, ReadBookKeeps
<1>2. CASE ReadTrade
  BY <1>2, ReadTradeKeeps
<1>3. CASE SkipRow
  BY <1>3, SkipRowKeeps
<1>4. CASE ReadError
  <2>1. reader' = [reader EXCEPT !.pc = "closing", !.out = <<>>]
    <3>1. reader' = [reader EXCEPT !.pc = "closing"] /\ reader.out = <<>>
      BY <1>4 DEF ReadError, Reading
    <3>2. reader = [pc |-> reader.pc, next |-> reader.next, group |-> reader.group,
                    time |-> reader.time, out |-> <<>>]
      BY <3>1 DEF SimInv, SimTypes
    <3> QED
      BY <3>1, <3>2
  <2> QED
    BY <1>4, <2>1, StopKeeps DEF ReadError
<1>5. CASE ReadEnd
  BY <1>5, StopKeeps DEF ReadEnd
<1>6. CASE CloseErrCh
  BY <1>6, OthersKeep DEF CloseErrCh, SimInv
<1>7. CASE CloseEventCh
  BY <1>7, OthersKeep DEF CloseEventCh, SimInv
<1>8. CASE HandleBook
  BY <1>8, HandleBookKeeps
<1>9. CASE HandleTrade
  BY <1>9, HandleTradeKeeps
<1>10. CASE EventsClosed
  BY <1>10, FinishKeeps DEF EventsClosed, Ended
<1>11. CASE ErrClosed
  BY <1>11, FinishKeeps DEF ErrClosed, Ended
<1>12. CASE ErrReceived
  BY <1>12, OthersKeep DEF ErrReceived, SimInv
<1>13. CASE NoConfig
  <2>1. summary' = <<[error |-> TRUE]>>
    <3>1. summary' = Append(<<>>, [error |-> TRUE])
      BY <1>13 DEF NoConfig, SimInv
    <3> PICK x : x = [error |-> TRUE]
      OBVIOUS
    <3>2. Append(<<>>, x) = <<x>>
      OBVIOUS
    <3> QED
      BY <3>1, <3>2
  <2>2. ~Reports(summary')
    BY <2>1 DEF Reports
  <2>3. DOMAIN sim' = DOMAIN sim /\ sim'.pc = "done"
    BY <1>0, <1>13 DEF NoConfig
  <2> QED
    BY <1>13, <2>2, <2>3, OthersKeep DEF NoConfig
<1>14. CASE SendSigterm
  <2>1. DOMAIN sim' = DOMAIN sim /\ sim'.pc = "done"
    BY <1>0, <1>14 DEF SendSigterm
  <2> QED
    BY <1>14, <2>1, OthersKeep DEF SendSigterm
<1>15. CASE PrintSummary
  <2>1. ~Reports(<<>>)
    BY DEF Reports
  <2> QED
    BY <1>15, <2>1, OthersKeep DEF PrintSummary
<1>16. CASE MainSignals
  BY <1>16, OthersKeep DEF MainSignals, SimInv
<1>17. CASE WaitForShutdownSignal
  BY <1>17, OthersKeep DEF WaitForShutdownSignal, SimInv
<1>18. CASE UserSignal
  BY <1>18, OthersKeep DEF UserSignal, SimInv
<1>19. CASE UNCHANGED vars
  BY <1>19, OthersKeep DEF vars, SimInv
<1> QED
  BY <1>1, <1>2, <1>3, <1>4, <1>5, <1>6, <1>7, <1>8, <1>9, <1>10, <1>11, <1>12, <1>13, <1>14,
     <1>15, <1>16, <1>17, <1>18, <1>19 DEF Next, Reader, Simulate, RunMainLoop

LEMMA StreamFollows == SimInv => StreamMatchesLoad
<1> SUFFICES ASSUME SimInv PROVE StreamMatchesLoad
  OBVIOUS
<1> USE DEF SimInv
<1>1. handled \in Seq(Events) /\ reader.out \in Seq(Events) /\ file \in Seq(Rows)
  BY DEF SimTypes
<1>2. Whole \in Seq(Events)
  BY <1>1, WholeFile
<1>3. Begins(Taken, Whole)
  <2>1. CASE reader.pc = "reading"
    BY <1>1, <2>1, ParsedBegins DEF Follows
  <2> QED
    BY <2>1
<1>4. IsPrefix(handled, Whole)
  <2>1. PICK more \in Seq(Events) : Whole = (handled \o reader.out) \o more
    BY <1>3 DEF Begins, Taken
  <2>2. Whole = handled \o (reader.out \o more) /\ reader.out \o more \in Seq(Events)
    <3> PICK s, t : s = handled /\ t = reader.out
      OBVIOUS
    <3>1. s \in Seq(Events) /\ t \in Seq(Events)
      BY <1>1
    <3>2. (s \o t) \o more = s \o (t \o more) /\ t \o more \in Seq(Events)
      BY ONLY <2>1, <3>1, more \in Seq(Events), ConcatAssociative, ConcatProperties
    <3> QED
      BY <2>1, <3>2
  <2>3. Begins(handled, Whole)
    BY <2>2 DEF Begins
  <2>4. <<>> \in Seq(Events)
    OBVIOUS
  <2> QED
    BY <1>1, <1>2, <2>3, <2>4, BeginsFurther
<1>5. ASSUME Reports(printed), ~IsBroken(file) PROVE handled = LoadMarketEventsFromCSV(file)
  <2>1. Ended /\ reader.out = <<>> /\ reader.pc # "reading"
    BY <1>5 DEF Ended
  <2>2. Taken = Whole /\ Taken = handled
    BY <1>1, <1>5, <2>1, ConcatEmptySeq DEF Taken
  <2> QED
    BY <1>1, <1>5, <2>2, WholeFile DEF Whole
<1> QED
  BY <1>4, <1>5 DEF StreamMatchesLoad, Reports, Whole

\* A replay moves as a simulation does, or not at all.
LEMMA BacktestMoves == [BacktestNext]_backtestVars => [Next]_vars
BY DEF BacktestNext, Serving, backtestVars

(***************************************************************************)
(* Simulation.StreamMatchesLoad.                                           *)
(***************************************************************************)
THEOREM StreamLoaded == BacktestSpec => []StreamMatchesLoad
<1>1. BacktestInit => SimInv
  BY InitSimulation DEF BacktestInit
<1>2. SimInv /\ [BacktestNext]_backtestVars => SimInv'
  BY SimulationStep, BacktestMoves
<1>3. BacktestSpec => []SimInv
  BY <1>1, <1>2, PTL DEF BacktestSpec
<1> QED
  BY <1>3, StreamFollows, PTL
-----------------------------------------------------------------------------
(***************************************************************************)
(* The statistics of the outcomes.                                         *)
(***************************************************************************)
Outcomes == [long : BOOLEAN, pnl : Int]
Tallies == [longWins : Nat, longLosses : Nat, shortWins : Nat, shortLosses : Nat,
            wins : Nat, maxWins : Nat, losses : Nat, maxLosses : Nat,
            equity : Int, peak : Int, maxDrawdown : Int]
Figures == {c \in Tallies : c.equity <= c.peak /\ c.peak - c.equity <= c.maxDrawdown}
Closed4(c) == c.longWins + c.shortWins + c.longLosses + c.shortLosses

LEMMA CountedType ==
  ASSUME NEW c \in Tallies, NEW o \in Outcomes
  PROVE  /\ Counted(c, o) \in Tallies
         /\ Counted(c, o).equity = c.equity /\ Counted(c, o).peak = c.peak
         /\ Counted(c, o).maxDrawdown = c.maxDrawdown
         /\ Closed4(Counted(c, o)) = Closed4(c) + (IF o.pnl = 0 THEN 0 ELSE 1)
         /\ (o.pnl = 0 => Counted(c, o) = c)
<1> PICK d : d = Counted(c, o)
  OBVIOUS
<1>1. o.pnl \in Int /\ o.long \in BOOLEAN
  BY DEF Outcomes
<1>2. /\ c.longWins \in Nat /\ c.longLosses \in Nat /\ c.shortWins \in Nat /\ c.shortLosses \in Nat
      /\ c.wins \in Nat /\ c.maxWins \in Nat /\ c.losses \in Nat /\ c.maxLosses \in Nat
      /\ c.equity \in Int /\ c.peak \in Int /\ c.maxDrawdown \in Int
  BY DEF Tallies
<1>3. CASE o.pnl > 0
  <2> PICK l, s, w : /\ l = (IF o.long THEN c.longWins + 1 ELSE c.longWins)
                     /\ s = (IF o.long THEN c.shortWins ELSE c.shortWins + 1)
                     /\ w = Greater(c.maxWins, c.wins + 1)
    OBVIOUS
  <2>1. d = [c EXCEPT !.longWins = l, !.shortWins = s,
                      !.wins = c.wins + 1, !.losses = 0, !.maxWins = w]
    BY <1>3 DEF Counted
  <2>2. d = [longWins |-> l, longLosses |-> c.longLosses, shortWins |-> s, shortLosses |-> c.shortLosses,
             wins |-> c.wins + 1, maxWins |-> w, losses |-> 0, maxLosses |-> c.maxLosses,
             equity |-> c.equity, peak |-> c.peak, maxDrawdown |-> c.maxDrawdown]
    BY ONLY c \in Tallies, <2>1 DEF Tallies
  <2>3. l \in Nat /\ s \in Nat /\ w \in Nat /\ l + s = c.longWins + c.shortWins + 1 /\ c.wins + 1 \in Nat
    BY <1>1, <1>2 DEF Greater
  <2>4. d \in Tallies
    BY ONLY <1>2, <2>2, <2>3 DEF Tallies
  <2>5. Closed4(d) = Closed4(c) + 1
    BY ONLY <1>2, <2>2, <2>3 DEF Closed4
  <2> QED
    BY <1>1, <1>3, <2>2, <2>4, <2>5
<1>4. CASE o.pnl < 0
  <2> PICK l, s, w : /\ l = (IF o.long THEN c.longLosses + 1 ELSE c.longLosses)
                     /\ s = (IF o.long THEN c.shortLosses ELSE c.shortLosses + 1)
                     /\ w = Greater(c.maxLosses, c.losses + 1)
    OBVIOUS
  <2>1. d = [c EXCEPT !.longLosses = l, !.shortLosses = s,
                      !.losses = c.losses + 1, !.wins = 0, !.maxLosses = w]
    BY <1>1, <1>4 DEF Counted
  <2>2. d = [longWins |-> c.longWins, longLosses |-> l, shortWins |-> c.shortWins, shortLosses |-> s,
             wins |-> 0, maxWins |-> c.maxWins, losses |-> c.losses + 1, maxLosses |-> w,
             equity |-> c.equity, peak |-> c.peak, maxDrawdown |-> c.maxDrawdown]
    BY ONLY c \in Tallies, <2>1 DEF Tallies
  <2>3. /\ l \in Nat /\ s \in Nat /\ w \in Nat /\ l + s = c.longLosses + c.shortLosses + 1
        /\ c.losses + 1 \in Nat
    BY <1>1, <1>2 DEF Greater
  <2>4. d \in Tallies
    BY ONLY <1>2, <2>2, <2>3 DEF Tallies
  <2>5. Closed4(d) = Closed4(c) + 1
    BY ONLY <1>2, <2>2, <2>3 DEF Closed4
  <2> QED
    BY <1>1, <1>4, <2>2, <2>4, <2>5
<1>5. CASE o.pnl = 0
  <2>1. d = c
    BY <1>5 DEF Counted
  <2>2. Closed4(c) \in Nat
    BY <1>2 DEF Closed4
  <2> QED
    BY <1>5, <2>1, <2>2
<1> QED
  BY <1>1, <1>3, <1>4, <1>5

LEMMA OnCurveType ==
  ASSUME NEW c \in Figures, NEW pnl \in Int
  PROVE  /\ OnCurve(c, pnl) \in Figures /\ OnCurve(c, pnl).equity = c.equity + pnl
         /\ Closed4(OnCurve(c, pnl)) = Closed4(c)
         /\ (pnl = 0 => OnCurve(c, pnl) = c)
<1> PICK d, e, p, w : /\ e = c.equity + pnl /\ p = Greater(c.peak, e)
                      /\ w = Greater(c.maxDrawdown, p - e) /\ d = OnCurve(c, pnl)
  OBVIOUS
<1>1. /\ c.longWins \in Nat /\ c.longLosses \in Nat /\ c.shortWins \in Nat /\ c.shortLosses \in Nat
      /\ c.wins \in Nat /\ c.maxWins \in Nat /\ c.losses \in Nat /\ c.maxLosses \in Nat
      /\ c.equity \in Int /\ c.peak \in Int /\ c.maxDrawdown \in Int
      /\ c.equity <= c.peak /\ c.peak - c.equity <= c.maxDrawdown /\ c \in Tallies
  BY DEF Figures, Tallies
<1>2. d = [c EXCEPT !.equity = e, !.peak = p, !.maxDrawdown = w]
  BY DEF OnCurve
<1>3. d = [longWins |-> c.longWins, longLosses |-> c.longLosses,
           shortWins |-> c.shortWins, shortLosses |-> c.shortLosses,
           wins |-> c.wins, maxWins |-> c.maxWins, losses |-> c.losses, maxLosses |-> c.maxLosses,
           equity |-> e, peak |-> p, maxDrawdown |-> w]
  BY ONLY <1>1, <1>2 DEF Tallies
<1>4. /\ e \in Int /\ p \in Int /\ w \in Int /\ e <= p /\ p - e <= w
      /\ (pnl = 0 => e = c.equity /\ p = c.peak /\ w = c.maxDrawdown)
  <2> PICK x, y, z \in Int : x = c.equity /\ y = c.peak /\ z = c.maxDrawdown
    BY <1>1
  <2>1. /\ e = x + pnl /\ p = (IF y > e THEN y ELSE e) /\ w = (IF z > p - e THEN z ELSE p - e)
        /\ x <= y /\ y - x <= z
    BY <1>1 DEF Greater
  <2>2. /\ e \in Int /\ p \in Int /\ w \in Int /\ e <= p /\ p - e <= w
        /\ (pnl = 0 => e = x /\ p = y /\ w = z)
    BY ONLY <2>1, pnl \in Int, x \in Int, y \in Int, z \in Int
  <2> QED
    BY ONLY <2>2, x = c.equity /\ y = c.peak /\ z = c.maxDrawdown
<1>5. d \in Tallies
  BY ONLY <1>1, <1>3, <1>4 DEF Tallies
<1>6. d.equity = e /\ d.peak = p /\ d.maxDrawdown = w /\ Closed4(d) = Closed4(c)
  BY <1>3 DEF Closed4
<1>7. pnl = 0 => d = c
  <2>1. c = [longWins |-> c.longWins, longLosses |-> c.longLosses,
             shortWins |-> c.shortWins, shortLosses |-> c.shortLosses,
             wins |-> c.wins, maxWins |-> c.maxWins, losses |-> c.losses, maxLosses |-> c.maxLosses,
             equity |-> c.equity, peak |-> c.peak, maxDrawdown |-> c.maxDrawdown]
    BY ONLY <1>1 DEF Tallies
  <2> QED
    BY ONLY <1>3, <1>4, <2>1
<1> QED
  BY <1>4, <1>5, <1>6, <1>7 DEF Figures

\* An outcome of zero changes no figure.
LEMMA AccountType ==
  ASSUME NEW c \in Figures, NEW o \in Outcomes
  PROVE  /\ Account(c, o) \in Figures
         /\ Account(c, o).equity = c.equity + o.pnl
         /\ Closed4(Account(c, o)) = Closed4(c) + (IF o.pnl = 0 THEN 0 ELSE 1)
         /\ (o.pnl = 0 => Account(c, o) = c)
<1> PICK d, p : d = Counted(c, o) /\ p = o.pnl
  OBVIOUS
<1>1. /\ d \in Tallies /\ d.equity = c.equity /\ d.peak = c.peak /\ d.maxDrawdown = c.maxDrawdown
      /\ Closed4(d) = Closed4(c) + (IF p = 0 THEN 0 ELSE 1) /\ (p = 0 => d = c)
  BY CountedType DEF Figures
<1>2. d \in Figures /\ Account(c, o) = OnCurve(d, p) /\ p \in Int
  BY <1>1 DEF Figures, Account, Outcomes
<1>3. /\ OnCurve(d, p) \in Figures /\ OnCurve(d, p).equity = d.equity + p
      /\ Closed4(OnCurve(d, p)) = Closed4(d) /\ (p = 0 => OnCurve(d, p) = d)
  BY <1>2, OnCurveType
<1> QED
  BY <1>1, <1>2, <1>3

Accounting == [o \in Outcomes |-> [c \in Figures |-> Account(c, o)]]

LEMMA StatisticsUnfold ==
  ASSUME NEW s \in Seq(Outcomes)
  PROVE  \E it : /\ Statistics(s) = it[1 .. Len(s)]
                 /\ Unfolds(it, s, Outcomes, Figures, Accounting, NoOutcomes)
<1> PICK S : S = 1 .. Len(s)
  OBVIOUS
<1> PICK W, V, P, base : W = Outcomes /\ V = Figures /\ P = Accounting /\ base = NoOutcomes
  OBVIOUS
<1> DEFINE Eq(h) == h = [T \in SUBSET S |->
                           IF T = {} THEN NoOutcomes ELSE Account(h[T \ {Max(T)}], s[Max(T)])]
<1>1. /\ DOMAIN s = S /\ s \in Seq(W) /\ Folds(W, V, P, base)
      /\ \A x \in W, v \in V : P[x][v] = Account(v, x)
  <2>1. NoOutcomes \in Figures
    BY DEF NoOutcomes, Figures, Tallies
  <2> QED
    BY <2>1, AccountType DEF Accounting, Folds
<1>2. PICK k \in [SUBSET S -> V] :
         /\ k[{}] = base
         /\ \A T \in SUBSET S : T # {} => /\ s[Max(T)] \in W /\ k[T \ {Max(T)}] \in V
                                          /\ k[T] = P[s[Max(T)]][k[T \ {Max(T)}]]
  <2>1. Folds(W, V, P, base) /\ s \in Seq(W)
    BY <1>1
  <2>2. \E k : Unfolding(k, s, W, V, P, base)
    BY ONLY <2>1, UnfoldingExists
  <2> QED
    BY ONLY <2>2, S = 1 .. Len(s) DEF Unfolding
<1>3. Eq(k)
  <2>1. \A T \in SUBSET S : T # {} => k[T] = Account(k[T \ {Max(T)}], s[Max(T)])
    BY ONLY <1>1, <1>2
  <2> QED
    BY ONLY <1>1, <1>2, <2>1, base = NoOutcomes
<1> DEFINE it == CHOOSE h : Eq(h)
<1>4. Eq(it)
  <2> HIDE DEF Eq
  <2> QED
    BY <1>3
<1>5. Statistics(s) = it[S]
  BY <1>1 DEF Statistics, FoldLeft, MapThenFoldSet
<1> HIDE DEF it
<1>6. Unfolds(it, s, W, V, P, base)
  <2>1. it[{}] = base
    BY ONLY <1>1, <1>4, base = NoOutcomes
  <2>2. \A T \in SUBSET S : T # {} => it[T] = Account(it[T \ {Max(T)}], s[Max(T)])
    BY ONLY <1>4
  <2> QED
    BY ONLY <1>1, <1>2, <2>1, <2>2, S = 1 .. Len(s) DEF Unfolds
<1> QED
  BY <1>5, <1>6

\* The statistics of no outcome, of any, and of one more.
LEMMA StatisticsSteps ==
  /\ Statistics(<<>>) = NoOutcomes
  /\ \A s \in Seq(Outcomes) : Statistics(s) \in Figures
  /\ \A s \in Seq(Outcomes), o \in Outcomes : Statistics(Append(s, o)) = Account(Statistics(s), o)
<1> PICK F : F = [s \in Seq(Outcomes) |-> Statistics(s)]
  OBVIOUS
<1>1. FoldsBy(F, Outcomes, Figures, Accounting, NoOutcomes)
  BY StatisticsUnfold DEF FoldsBy
<1>2. /\ F[<<>>] = NoOutcomes
      /\ \A s \in Seq(Outcomes) : F[s] \in Figures
      /\ \A s \in Seq(Outcomes), x \in Outcomes : F[Append(s, x)] = Accounting[x][F[s]]
  BY ONLY <1>1, FoldSteps
<1>3. <<>> \in Seq(Outcomes) /\ \A s \in Seq(Outcomes), x \in Outcomes : Append(s, x) \in Seq(Outcomes)
  OBVIOUS
<1> QED
  BY <1>2, <1>3 DEF Accounting

(***************************************************************************)
(* The trades of a replay: those executed, and the outcomes of closings.   *)
(***************************************************************************)
ReplayTrades == [id : Nat, side : {"buy", "sell"}, price : Int, size : Nat \ {0},
                 cancelled : BOOLEAN, pnl : Int, positionSide : {"none", "long", "short"}]

ClosingsOf(s) == FoldLeft(KeepClosing, <<>>, s)
OutcomeSteps == [t \in ReplayTrades |-> [kept \in Seq(Outcomes) |-> KeepClosing(kept, t)]]

LEMMA KeepClosingType ==
  ASSUME NEW kept \in Seq(Outcomes), NEW t \in ReplayTrades
  PROVE  KeepClosing(kept, t) \in Seq(Outcomes)
<1>1. [long |-> t.positionSide = "long", pnl |-> t.pnl] \in Outcomes
  BY DEF Outcomes, ReplayTrades
<1> QED
  BY <1>1 DEF KeepClosing

LEMMA ClosingUnfold ==
  ASSUME NEW s \in Seq(ReplayTrades)
  PROVE  \E it : /\ ClosingsOf(s) = it[1 .. Len(s)]
                 /\ Unfolds(it, s, ReplayTrades, Seq(Outcomes), OutcomeSteps, <<>>)
<1> PICK S : S = 1 .. Len(s)
  OBVIOUS
<1> PICK W, V, P, base : W = ReplayTrades /\ V = Seq(Outcomes) /\ P = OutcomeSteps /\ base = <<>>
  OBVIOUS
<1> DEFINE Eq(h) == h = [T \in SUBSET S |->
                           IF T = {} THEN <<>> ELSE KeepClosing(h[T \ {Max(T)}], s[Max(T)])]
<1>1. /\ DOMAIN s = S /\ s \in Seq(W) /\ Folds(W, V, P, base)
      /\ \A x \in W, v \in V : P[x][v] = KeepClosing(v, x)
  BY KeepClosingType DEF OutcomeSteps, Folds
<1>2. PICK k \in [SUBSET S -> V] :
         /\ k[{}] = base
         /\ \A T \in SUBSET S : T # {} => /\ s[Max(T)] \in W /\ k[T \ {Max(T)}] \in V
                                          /\ k[T] = P[s[Max(T)]][k[T \ {Max(T)}]]
  <2>1. Folds(W, V, P, base) /\ s \in Seq(W)
    BY <1>1
  <2>2. \E k : Unfolding(k, s, W, V, P, base)
    BY ONLY <2>1, UnfoldingExists
  <2> QED
    BY ONLY <2>2, S = 1 .. Len(s) DEF Unfolding
<1>3. Eq(k)
  <2>1. \A T \in SUBSET S : T # {} => k[T] = KeepClosing(k[T \ {Max(T)}], s[Max(T)])
    BY ONLY <1>1, <1>2
  <2> QED
    BY ONLY <1>1, <1>2, <2>1, base = <<>>
<1> DEFINE it == CHOOSE h : Eq(h)
<1>4. Eq(it)
  <2> HIDE DEF Eq
  <2> QED
    BY <1>3
<1>5. ClosingsOf(s) = it[S]
  BY <1>1 DEF ClosingsOf, FoldLeft, MapThenFoldSet
<1> HIDE DEF it
<1>6. Unfolds(it, s, W, V, P, base)
  <2>1. it[{}] = base
    BY ONLY <1>1, <1>4, base = <<>>
  <2>2. \A T \in SUBSET S : T # {} => it[T] = KeepClosing(it[T \ {Max(T)}], s[Max(T)])
    BY ONLY <1>4
  <2> QED
    BY ONLY <1>1, <1>2, <2>1, <2>2, S = 1 .. Len(s) DEF Unfolds
<1> QED
  BY <1>5, <1>6

LEMMA ClosingSteps ==
  /\ ClosingsOf(<<>>) = <<>>
  /\ \A s \in Seq(ReplayTrades) : ClosingsOf(s) \in Seq(Outcomes)
  /\ \A s \in Seq(ReplayTrades), x \in ReplayTrades : ClosingsOf(Append(s, x)) = KeepClosing(ClosingsOf(s), x)
<1> PICK F : F = [s \in Seq(ReplayTrades) |-> ClosingsOf(s)]
  OBVIOUS
<1>1. FoldsBy(F, ReplayTrades, Seq(Outcomes), OutcomeSteps, <<>>)
  BY ClosingUnfold DEF FoldsBy
<1>2. /\ F[<<>>] = <<>>
      /\ \A s \in Seq(ReplayTrades) : F[s] \in Seq(Outcomes)
      /\ \A s \in Seq(ReplayTrades), x \in ReplayTrades : F[Append(s, x)] = OutcomeSteps[x][F[s]]
  BY ONLY <1>1, FoldSteps
<1>3. <<>> \in Seq(ReplayTrades) /\ \A s \in Seq(ReplayTrades), x \in ReplayTrades : Append(s, x) \in Seq(ReplayTrades)
  OBVIOUS
<1> QED
  BY <1>2, <1>3 DEF OutcomeSteps

(***************************************************************************)
(* The sides of the replayed book stay finite sets of prices.              *)
(***************************************************************************)
Prices == {B \in SUBSET Nat : IsFiniteSet(B)}
Books == [bid : Prices, ask : Prices]
LevelSteps == [level \in Levels |-> [book \in Books |-> ApplyLevel(book, level)]]

LEMMA ApplyLevelType ==
  ASSUME NEW book \in Books, NEW level \in Levels
  PROVE  ApplyLevel(book, level) \in Books
<1>1. level.side \in {"bid", "ask"} /\ level.price \in Nat
  BY DEF Levels
<1>2. \A B \in Prices : B \ {level.price} \in Prices /\ B \cup {level.price} \in Prices
  <2> TAKE B \in Prices
  <2>1. B \subseteq Nat /\ IsFiniteSet(B)
    BY DEF Prices
  <2>2. IsFiniteSet(B \ {level.price}) /\ IsFiniteSet(B \cup {level.price})
    BY <2>1, FS_AddElement, FS_RemoveElement
  <2>3. B \ {level.price} \subseteq Nat /\ B \cup {level.price} \subseteq Nat
    BY <1>1, <2>1
  <2> QED
    BY <2>2, <2>3 DEF Prices
<1>3. book.bid \in Prices /\ book.ask \in Prices
  BY DEF Books
<1>4. CASE level.side = "bid"
  BY <1>2, <1>3, <1>4 DEF ApplyLevel, Books
<1>5. CASE level.side = "ask"
  BY <1>2, <1>3, <1>5 DEF ApplyLevel, Books
<1> QED
  BY <1>1, <1>4, <1>5

LEMMA UpdateUnfold ==
  ASSUME NEW book \in Books, NEW s \in Seq(Levels)
  PROVE  \E it : /\ ApplyUpdate(book, s) = it[1 .. Len(s)]
                 /\ Unfolds(it, s, Levels, Books, LevelSteps, book)
<1> PICK S : S = 1 .. Len(s)
  OBVIOUS
<1> PICK W, V, P, base : W = Levels /\ V = Books /\ P = LevelSteps /\ base = book
  OBVIOUS
<1> DEFINE Eq(h) == h = [T \in SUBSET S |->
                           IF T = {} THEN book ELSE ApplyLevel(h[T \ {Max(T)}], s[Max(T)])]
<1>1. /\ DOMAIN s = S /\ s \in Seq(W) /\ Folds(W, V, P, base)
      /\ \A x \in W, v \in V : P[x][v] = ApplyLevel(v, x)
  BY ApplyLevelType DEF LevelSteps, Folds
<1>2. PICK k \in [SUBSET S -> V] :
         /\ k[{}] = base
         /\ \A T \in SUBSET S : T # {} => /\ s[Max(T)] \in W /\ k[T \ {Max(T)}] \in V
                                          /\ k[T] = P[s[Max(T)]][k[T \ {Max(T)}]]
  <2>1. Folds(W, V, P, base) /\ s \in Seq(W)
    BY <1>1
  <2>2. \E k : Unfolding(k, s, W, V, P, base)
    BY ONLY <2>1, UnfoldingExists
  <2> QED
    BY ONLY <2>2, S = 1 .. Len(s) DEF Unfolding
<1>3. Eq(k)
  <2>1. \A T \in SUBSET S : T # {} => k[T] = ApplyLevel(k[T \ {Max(T)}], s[Max(T)])
    BY ONLY <1>1, <1>2
  <2> QED
    BY ONLY <1>1, <1>2, <2>1, base = book
<1> DEFINE it == CHOOSE h : Eq(h)
<1>4. Eq(it)
  <2> HIDE DEF Eq
  <2> QED
    BY <1>3
<1>5. ApplyUpdate(book, s) = it[S]
  BY <1>1 DEF ApplyUpdate, FoldLeft, MapThenFoldSet
<1> HIDE DEF it
<1>6. Unfolds(it, s, W, V, P, base)
  <2>1. it[{}] = base
    BY ONLY <1>1, <1>4, base = book
  <2>2. \A T \in SUBSET S : T # {} => it[T] = ApplyLevel(it[T \ {Max(T)}], s[Max(T)])
    BY ONLY <1>4
  <2> QED
    BY ONLY <1>1, <1>2, <2>1, <2>2, S = 1 .. Len(s) DEF Unfolds
<1> QED
  BY <1>5, <1>6

LEMMA UpdateSteps ==
  ASSUME NEW book \in Books
  PROVE  /\ ApplyUpdate(book, <<>>) = book
         /\ \A s \in Seq(Levels) : ApplyUpdate(book, s) \in Books
         /\ \A s \in Seq(Levels), x \in Levels : ApplyUpdate(book, Append(s, x)) = ApplyLevel(ApplyUpdate(book, s), x)
<1> PICK F : F = [s \in Seq(Levels) |-> ApplyUpdate(book, s)]
  OBVIOUS
<1>1. FoldsBy(F, Levels, Books, LevelSteps, book)
  BY UpdateUnfold DEF FoldsBy
<1>2. /\ F[<<>>] = book
      /\ \A s \in Seq(Levels) : F[s] \in Books
      /\ \A s \in Seq(Levels), x \in Levels : F[Append(s, x)] = LevelSteps[x][F[s]]
  BY ONLY <1>1, FoldSteps
<1>3. <<>> \in Seq(Levels) /\ \A s \in Seq(Levels), x \in Levels : Append(s, x) \in Seq(Levels)
  OBVIOUS
<1> QED
  BY <1>2, <1>3 DEF LevelSteps

LEMMA GreatestExists ==
  ASSUME NEW B \in Prices, B # {}
  PROVE  Max(B) \in B
<1> DEFINE Q == {U \in SUBSET B : U # {} => \E x \in U : \A y \in U : x >= y}
<1>1. IsFiniteSet(B) /\ B \subseteq Nat
  BY DEF Prices
<1>2. {} \in Q
  OBVIOUS
<1>3. ASSUME NEW U \in SUBSET B, U # {}, \A x \in U : U \ {x} \in Q PROVE U \in Q
  <2>1. PICK x \in U : TRUE
    BY <1>3
  <2>2. CASE U = {x}
    BY <1>1, <2>1, <2>2
  <2>3. CASE U \ {x} # {}
    <3>1. PICK y \in U \ {x} : \A z \in U \ {x} : y >= z
      BY <1>3, <2>1, <2>3
    <3>2. x \in Nat /\ y \in Nat /\ \A z \in U : z \in Nat
      BY <1>1, <2>1
    <3>3. \E w \in {x, y} : \A z \in U : w >= z
      BY <3>1, <3>2
    <3> QED
      BY <2>1, <3>1, <3>3
  <2> QED
    BY <2>1, <2>2, <2>3
<1> HIDE DEF Q
<1>4. \A U \in SUBSET B : U \in Q
  BY <1>1, <1>2, <1>3, SubsetInduction
<1> QED
  BY <1>4 DEF Q, Max

LEMMA BestPrices ==
  ASSUME NEW book \in Books
  PROVE  BestBid(book) \in Nat /\ BestAsk(book) \in Nat
<1>1. ASSUME NEW B \in Prices, B # {} PROVE Max(B) \in Nat /\ Min(B) \in Nat
  <2>1. B \in SUBSET Nat
    BY DEF Prices
  <2>2. Max(B) \in B
    BY <1>1, GreatestExists
  <2>3. Min(B) \in B
    BY <1>1, <2>1, LeastExists
  <2> QED
    BY <2>1, <2>2, <2>3
<1>2. book.bid \in Prices /\ book.ask \in Prices
  BY DEF Books
<1> QED
  BY <1>1, <1>2 DEF BestBid, BestAsk

(***************************************************************************)
(* The matching of trades: what meets a trade, and what is left open.      *)
(***************************************************************************)
Tradable(Of) ==
    \A t \in Of :
        /\ t.side \in {"buy", "sell"} /\ t.price \in Int /\ t.size \in Nat \ {0}
        /\ [t EXCEPT !.size = t.size] = t
        /\ \A k \in Nat \ {0} : /\ [t EXCEPT !.size = k] \in Of
                                /\ [t EXCEPT !.size = k].size = k
                                /\ [t EXCEPT !.size = k].price = t.price
                                /\ [t EXCEPT !.size = k].side = t.side

LEMMA ReplayTradable == Tradable(ReplayTrades)
BY DEF Tradable, ReplayTrades

LEMMA BotTradable == Tradable(BotTrades)
BY DEF Tradable, BotTrades

Meets(Of) == [left : Nat, rest : Seq(Of), matches : Seq(Outcomes)]
Unmet(trade) == [left |-> trade.size, rest |-> <<>>, matches |-> <<>>]
MeetSteps(Of, trade) ==
    [open \in Of |-> [acc \in Meets(Of) |-> MatchWith(trade, acc, open)]]

LEMMA MatchWithType ==
  ASSUME NEW Of, Tradable(Of), NEW trade \in Of, NEW acc \in Meets(Of), NEW open \in Of
  PROVE  MatchWith(trade, acc, open) \in Meets(Of)
<1> PICK m \in Nat, k \in Nat \ {0} : m = acc.left /\ k = open.size
  BY DEF Meets, Tradable
<1> PICK size : size = Lesser(k, m)
  OBVIOUS
<1>1. size \in Nat /\ m - size \in Nat /\ size <= k
  BY DEF Lesser
<1>2. acc.rest \in Seq(Of) /\ acc.matches \in Seq(Outcomes)
  BY DEF Meets
<1>3. CASE m = 0
  <2>1. MatchWith(trade, acc, open) = [acc EXCEPT !.rest = Append(acc.rest, open)]
    BY <1>3 DEF MatchWith
  <2>2. Append(acc.rest, open) \in Seq(Of)
    BY <1>2
  <2> QED
    BY <2>1, <2>2 DEF Meets
<1>4. CASE m # 0
  <2> PICK rest : rest = IF size = k THEN acc.rest
                         ELSE Append(acc.rest, [open EXCEPT !.size = k - size])
    OBVIOUS
  <2> PICK pnl : pnl = MatchPnL(open, trade, size)
    OBVIOUS
  <2>1. rest \in Seq(Of)
    <3>1. CASE size # k
      <4>1. k - size \in Nat \ {0}
        BY <1>1, <3>1
      <4>2. [open EXCEPT !.size = k - size] \in Of
        BY <4>1 DEF Tradable
      <4> QED
        BY <1>2, <3>1, <4>2
    <3> QED
      BY <1>2, <3>1
  <2>2. pnl \in Int
    <3>1. open.price \in Int /\ trade.price \in Int
      BY DEF Tradable
    <3> QED
      BY <1>1, <3>1 DEF MatchPnL
  <2> PICK found : found = [long |-> open.side = "buy", pnl |-> pnl]
    OBVIOUS
  <2>3. Append(acc.matches, found) \in Seq(Outcomes)
    BY <1>2, <2>2 DEF Outcomes
  <2>4. MatchWith(trade, acc, open)
          = [left |-> m - size, rest |-> rest, matches |-> Append(acc.matches, found)]
    BY <1>4 DEF MatchWith
  <2> QED
    BY <1>1, <2>1, <2>3, <2>4 DEF Meets
<1> QED
  BY <1>3, <1>4

LEMMA MeetingUnfold ==
  ASSUME NEW Of, Tradable(Of), NEW trade \in Of, NEW s \in Seq(Of)
  PROVE  \E it : /\ MatchAgainst(s, trade) = it[1 .. Len(s)]
                 /\ Unfolds(it, s, Of, Meets(Of), MeetSteps(Of, trade), Unmet(trade))
<1> PICK S : S = 1 .. Len(s)
  OBVIOUS
<1> PICK W, V, P, base : W = Of /\ V = Meets(Of) /\ P = MeetSteps(Of, trade) /\ base = Unmet(trade)
  OBVIOUS
<1> DEFINE Eq(h) == h = [T \in SUBSET S |->
                           IF T = {} THEN Unmet(trade) ELSE MatchWith(trade, h[T \ {Max(T)}], s[Max(T)])]
<1>1. /\ DOMAIN s = S /\ s \in Seq(W) /\ Folds(W, V, P, base)
      /\ \A x \in W, v \in V : P[x][v] = MatchWith(trade, v, x)
  <2>1. Unmet(trade) \in Meets(Of)
    <3>1. trade.size \in Nat
      BY DEF Tradable
    <3>2. <<>> \in Seq(Of) /\ <<>> \in Seq(Outcomes)
      OBVIOUS
    <3> QED
      BY <3>1, <3>2 DEF Unmet, Meets
  <2> QED
    BY <2>1, MatchWithType DEF MeetSteps, Folds
<1>2. PICK k \in [SUBSET S -> V] :
         /\ k[{}] = base
         /\ \A T \in SUBSET S : T # {} => /\ s[Max(T)] \in W /\ k[T \ {Max(T)}] \in V
                                          /\ k[T] = P[s[Max(T)]][k[T \ {Max(T)}]]
  <2>1. Folds(W, V, P, base) /\ s \in Seq(W)
    BY <1>1
  <2>2. \E k : Unfolding(k, s, W, V, P, base)
    BY ONLY <2>1, UnfoldingExists
  <2> QED
    BY ONLY <2>2, S = 1 .. Len(s) DEF Unfolding
<1>3. Eq(k)
  <2>1. \A T \in SUBSET S : T # {} => k[T] = MatchWith(trade, k[T \ {Max(T)}], s[Max(T)])
    BY ONLY <1>1, <1>2
  <2> QED
    BY ONLY <1>1, <1>2, <2>1, base = Unmet(trade)
<1> DEFINE it == CHOOSE h : Eq(h)
<1>4. Eq(it)
  <2> HIDE DEF Eq
  <2> QED
    BY <1>3
<1>5. MatchAgainst(s, trade) = it[S]
  BY <1>1 DEF MatchAgainst, Unmet, FoldLeft, MapThenFoldSet
<1> HIDE DEF it
<1>6. Unfolds(it, s, W, V, P, base)
  <2>1. it[{}] = base
    BY ONLY <1>1, <1>4, base = Unmet(trade)
  <2>2. \A T \in SUBSET S : T # {} => it[T] = MatchWith(trade, it[T \ {Max(T)}], s[Max(T)])
    BY ONLY <1>4
  <2> QED
    BY ONLY <1>1, <1>2, <2>1, <2>2, S = 1 .. Len(s) DEF Unfolds
<1> QED
  BY <1>5, <1>6

LEMMA MeetingSteps ==
  ASSUME NEW Of, Tradable(Of), NEW trade \in Of
  PROVE  /\ MatchAgainst(<<>>, trade) = Unmet(trade)
         /\ \A s \in Seq(Of) : MatchAgainst(s, trade) \in Meets(Of)
         /\ \A s \in Seq(Of), x \in Of : MatchAgainst(Append(s, x), trade) = MatchWith(trade, MatchAgainst(s, trade), x)
<1> PICK F : F = [s \in Seq(Of) |-> MatchAgainst(s, trade)]
  OBVIOUS
<1>1. FoldsBy(F, Of, Meets(Of), MeetSteps(Of, trade), Unmet(trade))
  BY MeetingUnfold DEF FoldsBy
<1>2. /\ F[<<>>] = Unmet(trade)
      /\ \A s \in Seq(Of) : F[s] \in Meets(Of)
      /\ \A s \in Seq(Of), x \in Of : F[Append(s, x)] = MeetSteps(Of, trade)[x][F[s]]
  BY ONLY <1>1, FoldSteps
<1>3. <<>> \in Seq(Of) /\ \A s \in Seq(Of), x \in Of : Append(s, x) \in Seq(Of)
  OBVIOUS
<1> QED
  BY <1>2, <1>3 DEF MeetSteps

Halves(Of) == [open : [buy : Seq(Of), sell : Seq(Of)], matches : Seq(Outcomes)]
NoHalves == [open |-> [buy |-> <<>>, sell |-> <<>>], matches |-> <<>>]
TradeSteps(Of) == [trade \in Of |-> [acc \in Halves(Of) |-> TakeTrade(acc, trade)]]
MatchedOf(s) == FoldLeft(TakeTrade, NoHalves, s)

LEMMA TakeTradeType ==
  ASSUME NEW Of, Tradable(Of), NEW acc \in Halves(Of), NEW trade \in Of
  PROVE  TakeTrade(acc, trade) \in Halves(Of)
<1> PICK opposite : opposite = IF trade.side = "buy" THEN "sell" ELSE "buy"
  OBVIOUS
<1> PICK met : met = MatchAgainst(acc.open[opposite], trade)
  OBVIOUS
<1> PICK own : own = Leftover(acc.open[trade.side], trade, met.left)
  OBVIOUS
<1>1. /\ trade.side \in {"buy", "sell"} /\ opposite \in {"buy", "sell"}
      /\ acc.open[trade.side] \in Seq(Of) /\ acc.open[opposite] \in Seq(Of)
      /\ acc.matches \in Seq(Outcomes)
  BY DEF Halves, Tradable
<1>2. met \in Meets(Of)
  BY <1>1, MeetingSteps
<1>3. own \in Seq(Of)
  <2> PICK left : left = met.left
    OBVIOUS
  <2>1. left \in Nat
    BY <1>2 DEF Meets
  <2>2. CASE left > 0
    <3>1. left \in Nat \ {0}
      BY <2>1, <2>2
    <3>2. [trade EXCEPT !.size = left] \in Of
      BY ONLY Tradable(Of), trade \in Of, <3>1 DEF Tradable
    <3> QED
      BY <1>1, <2>2, <3>2 DEF Leftover
  <2>3. CASE ~(left > 0)
    BY <1>1, <2>3 DEF Leftover
  <2> QED
    BY <2>2, <2>3
<1>4. met.rest \in Seq(Of) /\ acc.matches \o met.matches \in Seq(Outcomes)
  BY <1>1, <1>2 DEF Meets
<1>5. [acc.open EXCEPT ![opposite] = met.rest, ![trade.side] = own]
        \in [buy : Seq(Of), sell : Seq(Of)]
  BY <1>1, <1>3, <1>4 DEF Halves
<1>6. TakeTrade(acc, trade)
        = [open |-> [acc.open EXCEPT ![opposite] = met.rest, ![trade.side] = own],
           matches |-> acc.matches \o met.matches]
  BY DEF TakeTrade
<1> QED
  BY ONLY <1>4, <1>5, <1>6 DEF Halves

LEMMA MatchedUnfold ==
  ASSUME NEW Of, Tradable(Of), NEW s \in Seq(Of)
  PROVE  \E it : /\ MatchedOf(s) = it[1 .. Len(s)]
                 /\ Unfolds(it, s, Of, Halves(Of), TradeSteps(Of), NoHalves)
<1> PICK S : S = 1 .. Len(s)
  OBVIOUS
<1> PICK W, V, P, base : W = Of /\ V = Halves(Of) /\ P = TradeSteps(Of) /\ base = NoHalves
  OBVIOUS
<1> DEFINE Eq(h) == h = [T \in SUBSET S |->
                           IF T = {} THEN NoHalves ELSE TakeTrade(h[T \ {Max(T)}], s[Max(T)])]
<1>1. /\ DOMAIN s = S /\ s \in Seq(W) /\ Folds(W, V, P, base)
      /\ \A x \in W, v \in V : P[x][v] = TakeTrade(v, x)
  <2>1. NoHalves \in Halves(Of)
    BY DEF NoHalves, Halves
  <2> QED
    BY <2>1, TakeTradeType DEF TradeSteps, Folds
<1>2. PICK k \in [SUBSET S -> V] :
         /\ k[{}] = base
         /\ \A T \in SUBSET S : T # {} => /\ s[Max(T)] \in W /\ k[T \ {Max(T)}] \in V
                                          /\ k[T] = P[s[Max(T)]][k[T \ {Max(T)}]]
  <2>1. Folds(W, V, P, base) /\ s \in Seq(W)
    BY <1>1
  <2>2. \E k : Unfolding(k, s, W, V, P, base)
    BY ONLY <2>1, UnfoldingExists
  <2> QED
    BY ONLY <2>2, S = 1 .. Len(s) DEF Unfolding
<1>3. Eq(k)
  <2>1. \A T \in SUBSET S : T # {} => k[T] = TakeTrade(k[T \ {Max(T)}], s[Max(T)])
    BY ONLY <1>1, <1>2
  <2> QED
    BY ONLY <1>1, <1>2, <2>1, base = NoHalves
<1> DEFINE it == CHOOSE h : Eq(h)
<1>4. Eq(it)
  <2> HIDE DEF Eq
  <2> QED
    BY <1>3
<1>5. MatchedOf(s) = it[S]
  BY <1>1 DEF MatchedOf, FoldLeft, MapThenFoldSet
<1> HIDE DEF it
<1>6. Unfolds(it, s, W, V, P, base)
  <2>1. it[{}] = base
    BY ONLY <1>1, <1>4, base = NoHalves
  <2>2. \A T \in SUBSET S : T # {} => it[T] = TakeTrade(it[T \ {Max(T)}], s[Max(T)])
    BY ONLY <1>4
  <2> QED
    BY ONLY <1>1, <1>2, <2>1, <2>2, S = 1 .. Len(s) DEF Unfolds
<1> QED
  BY <1>5, <1>6

LEMMA MatchedSteps ==
  ASSUME NEW Of, Tradable(Of)
  PROVE  /\ MatchedOf(<<>>) = NoHalves
         /\ \A s \in Seq(Of) : MatchedOf(s) \in Halves(Of)
         /\ \A s \in Seq(Of), x \in Of : MatchedOf(Append(s, x)) = TakeTrade(MatchedOf(s), x)
<1> PICK F : F = [s \in Seq(Of) |-> MatchedOf(s)]
  OBVIOUS
<1>1. FoldsBy(F, Of, Halves(Of), TradeSteps(Of), NoHalves)
  BY MatchedUnfold DEF FoldsBy
<1>2. /\ F[<<>>] = NoHalves
      /\ \A s \in Seq(Of) : F[s] \in Halves(Of)
      /\ \A s \in Seq(Of), x \in Of : F[Append(s, x)] = TradeSteps(Of)[x][F[s]]
  BY ONLY <1>1, FoldSteps
<1>3. <<>> \in Seq(Of) /\ \A s \in Seq(Of), x \in Of : Append(s, x) \in Seq(Of)
  OBVIOUS
<1> QED
  BY <1>2, <1>3 DEF TradeSteps

\* A trade meets nothing, or one open trade of its size.
LEMMA MeetNoneOrOne ==
  ASSUME NEW Of, Tradable(Of), NEW trade \in Of, NEW open \in Of, open.size = trade.size
  PROVE  /\ MatchAgainst(<<>>, trade) = Unmet(trade)
         /\ MatchAgainst(<<open>>, trade)
              = [left |-> 0, rest |-> <<>>,
                 matches |-> <<[long |-> open.side = "buy", pnl |-> MatchPnL(open, trade, trade.size)]>>]
<1>1. /\ MatchAgainst(<<>>, trade) = Unmet(trade)
      /\ \A s \in Seq(Of), x \in Of :
            MatchAgainst(Append(s, x), trade) = MatchWith(trade, MatchAgainst(s, trade), x)
  BY MeetingSteps
<1>2. <<>> \in Seq(Of) /\ Append(<<>>, open) = <<open>>
  OBVIOUS
<1>3. MatchAgainst(<<open>>, trade) = MatchWith(trade, Unmet(trade), open)
  <2>1. MatchAgainst(Append(<<>>, open), trade) = MatchWith(trade, MatchAgainst(<<>>, trade), open)
    BY <1>1, <1>2
  <2> QED
    BY <1>1, <1>2, <2>1
<1> PICK k \in Nat \ {0} : k = trade.size
  BY DEF Tradable
<1> PICK found : found = [long |-> open.side = "buy", pnl |-> MatchPnL(open, trade, k)]
  OBVIOUS
<1>4. Lesser(k, k) = k /\ k - k = 0 /\ k # 0 /\ Append(<<>>, found) = <<found>>
  BY DEF Lesser
<1>5. MatchWith(trade, Unmet(trade), open)
        = [left |-> k - k, rest |-> <<>>, matches |-> Append(<<>>, found)]
  BY <1>4 DEF MatchWith, Unmet
<1> QED
  BY <1>1, <1>3, <1>4, <1>5

\* The halves of TakeTrade, side by side.
LEMMA TakeTradeSides ==
  ASSUME NEW acc, NEW trade, NEW b, NEW s, acc.open = [buy |-> b, sell |-> s]
  PROVE  /\ trade.side = "buy" =>
              TakeTrade(acc, trade)
                = [open    |-> [buy  |-> Leftover(b, trade, MatchAgainst(s, trade).left),
                                sell |-> MatchAgainst(s, trade).rest],
                   matches |-> acc.matches \o MatchAgainst(s, trade).matches]
         /\ trade.side = "sell" =>
              TakeTrade(acc, trade)
                = [open    |-> [buy  |-> MatchAgainst(b, trade).rest,
                                sell |-> Leftover(s, trade, MatchAgainst(b, trade).left)],
                   matches |-> acc.matches \o MatchAgainst(b, trade).matches]
<1> PICK open : open = acc.open
  OBVIOUS
<1>1. /\ open["buy"] = b /\ open["sell"] = s
      /\ \A x, y : [open EXCEPT !["buy"] = x, !["sell"] = y] = [buy |-> x, sell |-> y]
      /\ \A x, y : [open EXCEPT !["sell"] = y, !["buy"] = x] = [buy |-> x, sell |-> y]
  BY ONLY open = acc.open, acc.open = [buy |-> b, sell |-> s]
<1>2. ASSUME trade.side = "buy"
      PROVE  TakeTrade(acc, trade)
               = [open |-> [open EXCEPT !["sell"] = MatchAgainst(open["sell"], trade).rest,
                                        !["buy"] = Leftover(open["buy"], trade,
                                                            MatchAgainst(open["sell"], trade).left)],
                  matches |-> acc.matches \o MatchAgainst(open["sell"], trade).matches]
  BY <1>2 DEF TakeTrade
<1>3. ASSUME trade.side = "sell"
      PROVE  TakeTrade(acc, trade)
               = [open |-> [open EXCEPT !["buy"] = MatchAgainst(open["buy"], trade).rest,
                                        !["sell"] = Leftover(open["sell"], trade,
                                                             MatchAgainst(open["buy"], trade).left)],
                  matches |-> acc.matches \o MatchAgainst(open["buy"], trade).matches]
  BY <1>3 DEF TakeTrade
<1>4. CASE trade.side = "buy"
  <2> PICK met, own : met = MatchAgainst(s, trade) /\ own = Leftover(b, trade, met.left)
    OBVIOUS
  <2>1. TakeTrade(acc, trade)
          = [open |-> [open EXCEPT !["sell"] = met.rest, !["buy"] = own],
             matches |-> acc.matches \o met.matches]
    BY <1>1, <1>2, <1>4
  <2>2. [open EXCEPT !["sell"] = met.rest, !["buy"] = own] = [buy |-> own, sell |-> met.rest]
    BY ONLY <1>1
  <2> QED
    BY <1>4, <2>1, <2>2
<1>5. CASE trade.side = "sell"
  <2> PICK met, own : met = MatchAgainst(b, trade) /\ own = Leftover(s, trade, met.left)
    OBVIOUS
  <2>1. TakeTrade(acc, trade)
          = [open |-> [open EXCEPT !["buy"] = met.rest, !["sell"] = own],
             matches |-> acc.matches \o met.matches]
    BY <1>1, <1>3, <1>5
  <2>2. [open EXCEPT !["buy"] = met.rest, !["sell"] = own] = [buy |-> met.rest, sell |-> own]
    BY ONLY <1>1
  <2> QED
    BY <1>5, <2>1, <2>2
<1> QED
  BY <1>4, <1>5

\* The trade that opens a position waits in the queue of its side.
LEMMA TakeOpening ==
  ASSUME NEW Of, Tradable(Of), NEW acc \in Halves(Of), NEW trade \in Of,
         acc.open.buy = <<>>, acc.open.sell = <<>>
  PROVE  TakeTrade(acc, trade)
           = [open    |-> [buy  |-> IF trade.side = "buy" THEN <<trade>> ELSE <<>>,
                           sell |-> IF trade.side = "sell" THEN <<trade>> ELSE <<>>],
              matches |-> acc.matches]
<1> PICK k \in Nat \ {0} : k = trade.size
  BY DEF Tradable
<1> PICK met : met = MatchAgainst(<<>>, trade)
  OBVIOUS
<1>1. met.left = k /\ met.rest = <<>> /\ met.matches = <<>>
  <2>1. met = [left |-> k, rest |-> <<>>, matches |-> <<>>]
    BY MeetNoneOrOne DEF Unmet
  <2> QED
    BY ONLY <2>1
<1>2. Leftover(<<>>, trade, k) = <<trade>>
  <2>1. [trade EXCEPT !.size = k] = trade
    BY DEF Tradable
  <2>2. k > 0 /\ Append(<<>>, trade) = <<trade>>
    OBVIOUS
  <2> QED
    BY <2>1, <2>2 DEF Leftover
<1>3. acc.matches \o <<>> = acc.matches
  BY DEF Halves
<1>4. acc.open = [buy |-> <<>>, sell |-> <<>>]
  BY DEF Halves
<1>5. CASE trade.side = "buy"
  <2>1. TakeTrade(acc, trade)
          = [open    |-> [buy  |-> Leftover(<<>>, trade, met.left),
                          sell |-> met.rest],
             matches |-> acc.matches \o met.matches]
    BY ONLY <1>4, <1>5, TakeTradeSides, met = MatchAgainst(<<>>, trade)
  <2> QED
    BY <1>1, <1>2, <1>3, <1>5, <2>1
<1>6. CASE trade.side = "sell"
  <2>1. TakeTrade(acc, trade)
          = [open    |-> [buy  |-> met.rest,
                          sell |-> Leftover(<<>>, trade, met.left)],
             matches |-> acc.matches \o met.matches]
    BY ONLY <1>4, <1>6, TakeTradeSides, met = MatchAgainst(<<>>, trade)
  <2> QED
    BY <1>1, <1>2, <1>3, <1>6, <2>1
<1> QED
  BY <1>5, <1>6 DEF Tradable

\* The trade that closes a position is one match, and leaves nothing open.
LEMMA TakeClosing ==
  ASSUME NEW Of, Tradable(Of), NEW acc \in Halves(Of), NEW trade \in Of, NEW open \in Of,
         open.size = trade.size, open.side # trade.side,
         acc.open[open.side] = <<open>>, acc.open[trade.side] = <<>>
  PROVE  TakeTrade(acc, trade)
           = [open    |-> [buy |-> <<>>, sell |-> <<>>],
              matches |-> Append(acc.matches, [long |-> open.side = "buy",
                                               pnl  |-> MatchPnL(open, trade, trade.size)])]
<1> PICK found : found = [long |-> open.side = "buy", pnl |-> MatchPnL(open, trade, trade.size)]
  OBVIOUS
<1> PICK met : met = MatchAgainst(<<open>>, trade)
  OBVIOUS
<1>1. met.left = 0 /\ met.rest = <<>> /\ met.matches = <<found>>
  <2>1. met = [left |-> 0, rest |-> <<>>, matches |-> <<found>>]
    BY MeetNoneOrOne
  <2> QED
    BY ONLY <2>1
<1>2. Leftover(<<>>, trade, 0) = <<>>
  BY DEF Leftover
<1>3. acc.matches \o <<found>> = Append(acc.matches, found)
  BY DEF Halves
<1>4. /\ open.side \in {"buy", "sell"} /\ trade.side \in {"buy", "sell"}
      /\ acc.open = [buy |-> acc.open.buy, sell |-> acc.open.sell]
  BY DEF Tradable, Halves
<1>5. CASE trade.side = "buy"
  <2>1. open.side = "sell" /\ acc.open = [buy |-> <<>>, sell |-> <<open>>]
    BY <1>4, <1>5
  <2>2. TakeTrade(acc, trade)
          = [open    |-> [buy  |-> Leftover(<<>>, trade, met.left),
                          sell |-> met.rest],
             matches |-> acc.matches \o met.matches]
    BY ONLY <2>1, <1>5, TakeTradeSides, met = MatchAgainst(<<open>>, trade)
  <2> QED
    BY <1>1, <1>2, <1>3, <2>2
<1>6. CASE trade.side = "sell"
  <2>1. open.side = "buy" /\ acc.open = [buy |-> <<open>>, sell |-> <<>>]
    BY <1>4, <1>6
  <2>2. TakeTrade(acc, trade)
          = [open    |-> [buy  |-> met.rest,
                          sell |-> Leftover(<<>>, trade, met.left)],
             matches |-> acc.matches \o met.matches]
    BY ONLY <2>1, <1>6, TakeTradeSides, met = MatchAgainst(<<open>>, trade)
  <2> QED
    BY <1>1, <1>2, <1>3, <2>2
<1> QED
  BY <1>4, <1>5, <1>6

\* What the analysis makes of one more trade.
LEMMA OneMoreTrade ==
  ASSUME NEW s \in Seq(ReplayTrades), NEW trade \in ReplayTrades, ~trade.cancelled
  PROVE  /\ Matching(s) \in Halves(ReplayTrades)
         /\ Matching(Append(s, trade)) = TakeTrade(Matching(s), trade)
         /\ ClosingsOf(s) \in Seq(Outcomes)
         /\ ClosingsOf(Append(s, trade)) = KeepClosing(ClosingsOf(s), trade)
<1>1. /\ Executed(s) \in Seq(ReplayTrades)
      /\ Executed(Append(s, trade)) = Append(Executed(s), trade)
  BY ExecutedSteps DEF Keep
<1>2. /\ MatchedOf(Executed(s)) \in Halves(ReplayTrades)
      /\ MatchedOf(Append(Executed(s), trade)) = TakeTrade(MatchedOf(Executed(s)), trade)
  BY <1>1, ReplayTradable, MatchedSteps
<1>3. \A t : Matching(t) = MatchedOf(Executed(t))
  BY DEF Matching, MatchedOf, NoHalves
<1> QED
  BY <1>1, <1>2, <1>3, ClosingSteps
-----------------------------------------------------------------------------
(***************************************************************************)
(* The replay engine: an open position is the one trade that waits in the  *)
(* queue of its side, and what the closings realized are the matches.      *)
(***************************************************************************)
Engines == [position : PositionType, realized : Frac, trades : Seq(ReplayTrades),
            tp : Int, sl : Int, lastPrice : Nat]

SideOf(size) == IF size > 0 THEN "buy" ELSE "sell"

QueueOf(trade) == [buy  |-> IF trade.side = "buy" THEN <<trade>> ELSE <<>>,
                   sell |-> IF trade.side = "sell" THEN <<trade>> ELSE <<>>]

Waits(p, open) ==
    IF p.size = 0 THEN open = [buy |-> <<>>, sell |-> <<>>]
    ELSE \E t \in ReplayTrades : /\ t.side = SideOf(p.size) /\ t.size = Abs(p.size)
                                 /\ t.price = p.num /\ open = QueueOf(t)

Agrees(realized, closings, figures) ==
    /\ realized = [num |-> figures.equity, den |-> 1]
    /\ Statistics(closings) = figures
    /\ Len(closings) = Closed4(figures)

EngineInv(e) ==
    /\ e \in Engines /\ e.position.den = 1
    /\ Waits(e.position, Matching(e.trades).open)
    /\ Agrees(e.realized, ClosingsOf(e.trades), Statistics(Matching(e.trades).matches))

LEMMA InitEngine == EngineInv(NewReplayExecutionEngine)
<1> PICK e : e = NewReplayExecutionEngine
  OBVIOUS
<1>1. /\ e.position = [size |-> 0, num |-> 0, den |-> 1] /\ e.realized = [num |-> 0, den |-> 1]
      /\ e.trades = <<>> /\ e.tp = 0 /\ e.sl = 0 /\ e.lastPrice = 0
  BY DEF NewReplayExecutionEngine, Flat, ZeroYen
<1>2. e \in Engines
  <2>1. e = [position |-> [size |-> 0, num |-> 0, den |-> 1], realized |-> [num |-> 0, den |-> 1],
             trades |-> <<>>, tp |-> 0, sl |-> 0, lastPrice |-> 0]
    BY DEF NewReplayExecutionEngine, Flat, ZeroYen
  <2>2. /\ [size |-> 0, num |-> 0, den |-> 1] \in PositionType /\ [num |-> 0, den |-> 1] \in Frac
        /\ <<>> \in Seq(ReplayTrades)
    BY DEF PositionType, Frac
  <2> QED
    BY ONLY <2>1, <2>2 DEF Engines
<1>3. Matching(<<>>) = NoHalves /\ ClosingsOf(<<>>) = <<>> /\ Statistics(<<>>) = NoOutcomes
  <2>1. Executed(<<>>) = <<>> /\ MatchedOf(<<>>) = NoHalves
    BY ExecutedSteps, ReplayTradable, MatchedSteps
  <2>2. Matching(<<>>) = MatchedOf(Executed(<<>>))
    BY DEF Matching, MatchedOf, NoHalves
  <2> QED
    BY <2>1, <2>2, ClosingSteps, StatisticsSteps
<1>4. Agrees(e.realized, ClosingsOf(e.trades), Statistics(Matching(e.trades).matches))
  <2>1. NoHalves.matches = <<>>
    BY DEF NoHalves
  <2>2. Agrees([num |-> 0, den |-> 1], <<>>, NoOutcomes)
    <3>1. Statistics(<<>>) = NoOutcomes
      BY <1>3
    <3>2. NoOutcomes.equity = 0 /\ Closed4(NoOutcomes) = 0 /\ Len(<<>>) = 0
      BY DEF NoOutcomes, Closed4
    <3> QED
      BY ONLY <3>1, <3>2 DEF Agrees
  <2> QED
    BY <1>1, <1>3, <2>1, <2>2
<1>5. Waits(e.position, Matching(e.trades).open)
  BY <1>1, <1>3 DEF Waits, NoHalves
<1> QED
  BY <1>1, <1>2, <1>4, <1>5 DEF EngineInv

LEMMA EngineFields ==
  ASSUME NEW e, EngineInv(e)
  PROVE  /\ e.position \in PositionType /\ e.position.den = 1
         /\ e.position.size \in Int /\ e.position.num \in Int
         /\ e.realized \in Frac /\ e.trades \in Seq(ReplayTrades)
         /\ e.tp \in Int /\ e.sl \in Int /\ e.lastPrice \in Nat
<1>1. e \in Engines /\ e.position.den = 1
  BY DEF EngineInv
<1>2. e.position \in PositionType
  BY <1>1 DEF Engines
<1>3. /\ e.realized \in Frac /\ e.trades \in Seq(ReplayTrades)
      /\ e.tp \in Int /\ e.sl \in Int /\ e.lastPrice \in Nat
  BY ONLY <1>1 DEF Engines
<1>4. e.position.size \in Int /\ e.position.num \in Int
  BY <1>2 DEF PositionType
<1> QED
  BY <1>1, <1>2, <1>3, <1>4

\* The trade a record adds, and the engine it makes.
TradeOf(s, side, amount, price, pnl, positionSide) ==
    [id |-> Len(s) + 1, side |-> side, price |-> price, size |-> amount,
     cancelled |-> FALSE, pnl |-> pnl, positionSide |-> positionSide]

LEMMA TradeOfType ==
  ASSUME NEW s \in Seq(ReplayTrades), NEW side \in {"buy", "sell"}, NEW amount \in Nat \ {0},
         NEW price \in Int, NEW pnl \in Int, NEW positionSide \in {"none", "long", "short"}
  PROVE  TradeOf(s, side, amount, price, pnl, positionSide) \in ReplayTrades
<1> PICK n \in Nat : n = Len(s)
  OBVIOUS
<1>1. n + 1 \in Nat
  OBVIOUS
<1>2. TradeOf(s, side, amount, price, pnl, positionSide)
        = [id |-> n + 1, side |-> side, price |-> price, size |-> amount,
           cancelled |-> FALSE, pnl |-> pnl, positionSide |-> positionSide]
  BY DEF TradeOf
<1>3. FALSE \in BOOLEAN
  OBVIOUS
<1> QED
  BY ONLY <1>1, <1>2, <1>3, side \in {"buy", "sell"}, amount \in Nat \ {0}, price \in Int,
          pnl \in Int, positionSide \in {"none", "long", "short"} DEF ReplayTrades

LEMMA Recorded ==
  ASSUME NEW e, EngineInv(e), NEW side, NEW amount, NEW price, NEW pnl, NEW positionSide
  PROVE  Record(e, side, amount, price, pnl, positionSide)
           = [position  |-> Update(e.position, Signed(side, amount), price),
              realized  |-> e.realized,
              trades    |-> Append(e.trades, TradeOf(e.trades, side, amount, price, pnl, positionSide)),
              tp        |-> e.tp, sl |-> e.sl, lastPrice |-> e.lastPrice]
<1> PICK q, s : /\ q = Update(e.position, Signed(side, amount), price)
                /\ s = Append(e.trades, TradeOf(e.trades, side, amount, price, pnl, positionSide))
  OBVIOUS
<1>1. Record(e, side, amount, price, pnl, positionSide) = [e EXCEPT !.position = q, !.trades = s]
  BY DEF Record, TradeOf
<1>2. e \in Engines
  BY DEF EngineInv
<1>3. e = [position |-> e.position, realized |-> e.realized, trades |-> e.trades,
           tp |-> e.tp, sl |-> e.sl, lastPrice |-> e.lastPrice]
  BY ONLY <1>2 DEF Engines
<1>4. Record(e, side, amount, price, pnl, positionSide)
        = [position |-> q, realized |-> e.realized, trades |-> s,
           tp |-> e.tp, sl |-> e.sl, lastPrice |-> e.lastPrice]
  BY ONLY <1>1, <1>3
<1> QED
  BY <1>4

\* An engine is as good as its position, its profit and its trades.
LEMMA EngineFrom ==
  ASSUME NEW p \in PositionType, NEW realized \in Frac, NEW s \in Seq(ReplayTrades),
         NEW tp \in Int, NEW sl \in Int, NEW last \in Nat,
         p.den = 1, Waits(p, Matching(s).open),
         Agrees(realized, ClosingsOf(s), Statistics(Matching(s).matches))
  PROVE  EngineInv([position |-> p, realized |-> realized, trades |-> s,
                    tp |-> tp, sl |-> sl, lastPrice |-> last])
<1> PICK e : e = [position |-> p, realized |-> realized, trades |-> s,
                  tp |-> tp, sl |-> sl, lastPrice |-> last]
  OBVIOUS
<1>1. e \in Engines
  BY DEF Engines
<1>2. e.position = p /\ e.realized = realized /\ e.trades = s
  OBVIOUS
<1>3. EngineInv(e)
  BY <1>1, <1>2 DEF EngineInv
<1> QED
  BY <1>3

LEMMA PriceKeepsEngine ==
  ASSUME NEW e, EngineInv(e), NEW price \in Nat
  PROVE  EngineInv(UpdateLastPrice(e, price))
<1>1. e \in Engines
  BY DEF EngineInv
<1>2. UpdateLastPrice(e, price)
        = [position |-> e.position, realized |-> e.realized, trades |-> e.trades,
           tp |-> e.tp, sl |-> e.sl, lastPrice |-> price]
  BY ONLY <1>1 DEF UpdateLastPrice, Engines
<1>3. /\ Waits(e.position, Matching(e.trades).open)
      /\ Agrees(e.realized, ClosingsOf(e.trades), Statistics(Matching(e.trades).matches))
  BY DEF EngineInv
<1>4. /\ e.position \in PositionType /\ e.position.den = 1
      /\ e.realized \in Frac /\ e.trades \in Seq(ReplayTrades) /\ e.tp \in Int /\ e.sl \in Int
  BY EngineFields
<1> QED
  BY ONLY <1>2, <1>3, <1>4, price \in Nat, EngineFrom

Opens(new, e, side, amount, price, tp, sl) ==
    new = [Record(e, side, amount, price, 0, "none") EXCEPT !.tp = tp, !.sl = sl]

\* The trade that opens a position is no outcome, and waits.
LEMMA OpeningKeeps ==
  ASSUME NEW e, EngineInv(e), e.position.size = 0,
         NEW side \in {"buy", "sell"}, NEW amount \in Nat \ {0}, NEW price \in Int,
         NEW tp \in Int, NEW sl \in Int, NEW new, Opens(new, e, side, amount, price, tp, sl)
  PROVE  /\ EngineInv(new)
         /\ new.position.size = Signed(side, amount) /\ new.position.size # 0
         /\ new.position.num = price /\ new.tp = tp /\ new.sl = sl
<1> PICK s, m : s = e.trades /\ m = Signed(side, amount)
  OBVIOUS
<1> PICK q : q = Update(e.position, m, price)
  OBVIOUS
<1> PICK t : t = TradeOf(s, side, amount, price, 0, "none")
  OBVIOUS
<1> PICK acc : acc = Matching(s)
  OBVIOUS
<1>1. s \in Seq(ReplayTrades) /\ e.realized \in Frac /\ e.lastPrice \in Nat
  BY EngineFields
<1>2. t \in ReplayTrades
  BY ONLY <1>1, side \in {"buy", "sell"}, amount \in Nat \ {0}, price \in Int,
          t = TradeOf(s, side, amount, price, 0, "none"), TradeOfType
<1>3. ~t.cancelled /\ t.pnl = 0 /\ t.side = side /\ t.size = amount /\ t.price = price
  BY DEF TradeOf
<1>4. m \in Int /\ m # 0 /\ Abs(m) = amount /\ side = SideOf(m)
  <2>1. m = IF side = "buy" THEN amount ELSE -amount
    BY DEF Signed
  <2> QED
    BY ONLY <2>1, side \in {"buy", "sell"}, amount \in Nat \ {0} DEF Abs, SideOf
<1>5. q \in PositionType /\ q.den = 1 /\ q.size = m /\ q.num = price
  <2>1. q = [size |-> m, num |-> price, den |-> 1]
    BY DEF Update, Opened
  <2> QED
    BY ONLY <1>4, <2>1, price \in Int DEF PositionType
<1>6. /\ acc \in Halves(ReplayTrades) /\ Matching(Append(s, t)) = TakeTrade(acc, t)
      /\ ClosingsOf(Append(s, t)) = KeepClosing(ClosingsOf(s), t)
  BY ONLY <1>1, <1>2, <1>3, acc = Matching(s), OneMoreTrade
<1>7. Append(s, t) \in Seq(ReplayTrades) /\ KeepClosing(ClosingsOf(s), t) = ClosingsOf(s)
  <2>1. Append(s, t) \in Seq(ReplayTrades)
    BY ONLY <1>1, <1>2
  <2>2. KeepClosing(ClosingsOf(s), t) = ClosingsOf(s)
    BY ONLY <1>3 DEF KeepClosing
  <2> QED
    BY <2>1, <2>2
<1>8. acc.open.buy = <<>> /\ acc.open.sell = <<>>
  <2>1. acc.open = [buy |-> <<>>, sell |-> <<>>]
    BY DEF EngineInv, Waits
  <2> QED
    BY ONLY <2>1
<1>9. TakeTrade(acc, t) = [open |-> QueueOf(t), matches |-> acc.matches]
  BY ONLY <1>2, <1>6, <1>8, ReplayTradable, TakeOpening DEF QueueOf
<1>10. Matching(Append(s, t)).open = QueueOf(t) /\ Matching(Append(s, t)).matches = acc.matches
  BY ONLY <1>6, <1>9
<1>11. Waits(q, Matching(Append(s, t)).open)
  BY <1>2, <1>3, <1>4, <1>5, <1>10 DEF Waits
<1>12. Agrees(e.realized, ClosingsOf(Append(s, t)), Statistics(Matching(Append(s, t)).matches))
  <2>1. Agrees(e.realized, ClosingsOf(s), Statistics(acc.matches))
    BY DEF EngineInv
  <2> QED
    BY <1>6, <1>7, <1>10, <2>1
<1>13. [Record(e, side, amount, price, 0, "none") EXCEPT !.tp = tp, !.sl = sl]
         = [position |-> q, realized |-> e.realized, trades |-> Append(s, t),
            tp |-> tp, sl |-> sl, lastPrice |-> e.lastPrice]
  <2> PICK r, u, old, up, down, last :
        /\ r = Record(e, side, amount, price, 0, "none") /\ u = Append(s, t)
        /\ old = e.realized /\ up = e.tp /\ down = e.sl /\ last = e.lastPrice
    OBVIOUS
  <2>1. r = [position |-> q, realized |-> old, trades |-> u, tp |-> up, sl |-> down, lastPrice |-> last]
    BY Recorded
  <2> PICK up1 : up1 = [r EXCEPT !.tp = tp]
    OBVIOUS
  <2>2. up1 = [position |-> q, realized |-> old, trades |-> u, tp |-> tp, sl |-> down, lastPrice |-> last]
    BY ONLY <2>1, up1 = [r EXCEPT !.tp = tp]
  <2>3. [up1 EXCEPT !.sl = sl]
          = [position |-> q, realized |-> old, trades |-> u, tp |-> tp, sl |-> sl, lastPrice |-> last]
    BY ONLY <2>2
  <2>4. [r EXCEPT !.tp = tp, !.sl = sl]
          = [position |-> q, realized |-> old, trades |-> u, tp |-> tp, sl |-> sl, lastPrice |-> last]
    BY ONLY <2>3, up1 = [r EXCEPT !.tp = tp]
  <2> QED
    BY <2>4
<1>14. EngineInv([position |-> q, realized |-> e.realized, trades |-> Append(s, t),
                  tp |-> tp, sl |-> sl, lastPrice |-> e.lastPrice])
  BY ONLY <1>1, <1>5, <1>7, <1>11, <1>12, tp \in Int, sl \in Int, EngineFrom
<1>0. new = [Record(e, side, amount, price, 0, "none") EXCEPT !.tp = tp, !.sl = sl]
  BY DEF Opens
<1>15. new.position = q /\ new.tp = tp /\ new.sl = sl
  BY ONLY <1>0, <1>13
<1>16. EngineInv(new)
  BY ONLY <1>0, <1>13, <1>14
<1>17. new.position.size = Signed(side, amount) /\ new.position.size # 0 /\ new.position.num = price
  BY ONLY <1>4, <1>5, <1>15, m = Signed(side, amount)
<1> QED
  BY ONLY <1>15, <1>16, <1>17

\* Figures that agree still do when an outcome joins both lists; one of zero need not.
LEMMA AgreesFurther ==
  ASSUME NEW realized, NEW closings \in Seq(Outcomes), NEW matches \in Seq(Outcomes),
         NEW found \in Outcomes, Agrees(realized, closings, Statistics(matches))
  PROVE  Agrees(AddYen(realized, [num |-> found.pnl, den |-> 1]),
                IF found.pnl = 0 THEN closings ELSE Append(closings, found),
                Statistics(Append(matches, found)))
<1> PICK c, d : c = Statistics(matches) /\ d = Account(c, found)
  OBVIOUS
<1> PICK k \in Int : k = found.pnl
  BY DEF Outcomes
<1>1. Statistics(Append(matches, found)) = d /\ c \in Figures
  BY StatisticsSteps
<1>2. /\ d.equity = c.equity + k /\ Closed4(d) = Closed4(c) + (IF k = 0 THEN 0 ELSE 1)
      /\ (k = 0 => d = c)
  BY <1>1, AccountType
<1>3. realized = [num |-> c.equity, den |-> 1] /\ Statistics(closings) = c /\ Len(closings) = Closed4(c)
  BY DEF Agrees
<1>4. AddYen(realized, [num |-> k, den |-> 1]) = [num |-> d.equity, den |-> 1]
  <2> PICK x : x = c.equity
    OBVIOUS
  <2>1. realized = [num |-> x, den |-> 1] /\ d.equity = x + k
    BY <1>2, <1>3
  <2>2. AddYen(realized, [num |-> k, den |-> 1]) = [realized EXCEPT !.num = x + k]
    BY ONLY <2>1 DEF AddYen
  <2>3. [realized EXCEPT !.num = x + k] = [num |-> x + k, den |-> 1]
    BY ONLY <2>1
  <2> QED
    BY ONLY <2>1, <2>2, <2>3
<1>5. CASE k = 0
  <2>1. d = c
    BY <1>2, <1>5
  <2> QED
    BY ONLY <1>1, <1>3, <1>4, <1>5, <2>1, k = found.pnl DEF Agrees
<1>6. CASE k # 0
  <2>1. Statistics(Append(closings, found)) = d
    BY <1>3, StatisticsSteps
  <2>2. Len(Append(closings, found)) = Closed4(d)
    <3>1. Len(Append(closings, found)) = Len(closings) + 1
      OBVIOUS
    <3> QED
      BY <1>2, <1>3, <1>6, <3>1
  <2> QED
    BY ONLY <1>1, <1>4, <1>6, <2>1, <2>2, k = found.pnl DEF Agrees
<1> QED
  BY <1>5, <1>6

\* What a closing realizes is what its match makes.
LEMMA ClosingIsMatch ==
  ASSUME NEW e, EngineInv(e), e.position.size # 0, NEW price \in Int,
         NEW open \in ReplayTrades, open.price = e.position.num,
         NEW trade \in ReplayTrades, trade.price = price,
         trade.side = IF e.position.size > 0 THEN "sell" ELSE "buy"
  PROVE  /\ ClosingProfit(e, price) = [num |-> MatchPnL(open, trade, Abs(e.position.size)), den |-> 1]
         /\ MatchPnL(open, trade, Abs(e.position.size)) \in Int
         /\ Update(e.position, -e.position.size, price) = Flat
<1> PICK p : p = e.position
  OBVIOUS
<1> PICK z, n \in Int : z = p.size /\ n = p.num
  BY EngineFields
<1>1. p.den = 1 /\ z # 0 /\ open.price = n /\ trade.price = price
  BY EngineFields
<1>2. Abs(-z) = Abs(z) /\ Abs(z) \in Nat /\ -z # 0 /\ ~SameDirection(p, -z)
  BY <1>1 DEF Abs, SameDirection
<1>3. Closed(p, -z) = Abs(z)
  BY ONLY <1>2, z = p.size DEF Closed
<1> PICK a \in Nat : a = Abs(z)
  BY <1>2
<1> PICK d \in Int : d = price - n
  OBVIOUS
<1>4. price * p.den - p.num = d
  <2>1. price * 1 = price
    OBVIOUS
  <2> QED
    BY <1>1, <2>1
<1>5. RealizedBy(p, -z, price) = [num |-> (IF z < 0 THEN -d ELSE d) * a, den |-> 1]
  BY ONLY <1>1, <1>2, <1>3, <1>4, z = p.size, a = Abs(z) DEF RealizedBy
<1>6. MatchPnL(open, trade, a) = (IF z < 0 THEN -d ELSE d) * a
  <2>1. (IF trade.side = "sell" THEN price - n ELSE n - price) = IF z < 0 THEN -d ELSE d
    BY <1>1
  <2>2. MatchPnL(open, trade, a) = (IF trade.side = "sell" THEN price - n ELSE n - price) * a
    BY <1>1 DEF MatchPnL
  <2> QED
    BY ONLY <2>1, <2>2
<1>7. (IF z < 0 THEN -d ELSE d) * a \in Int
  OBVIOUS
<1>8. Update(p, -z, price) = Flat
  BY ONLY <1>1, <1>2, z = p.size DEF Update, Offset
<1>9. ClosingProfit(e, price) = RealizedBy(p, -z, price)
  BY DEF ClosingProfit
<1> QED
  BY ONLY <1>5, <1>6, <1>7, <1>8, <1>9, p = e.position, z = p.size, a = Abs(z)

\* The trade that closes a position is one outcome, and nothing waits after it.
LEMMA ClosingKeeps ==
  ASSUME NEW e, EngineInv(e), e.position.size # 0, NEW price \in Int
  PROVE  /\ EngineInv(ExecuteClosingOrder(e, price))
         /\ ExecuteClosingOrder(e, price).position.size = 0
         /\ ExecuteClosingOrder(e, price).realized.num
              = e.realized.num + (IF e.position.size < 0 THEN e.position.num - price
                                  ELSE price - e.position.num) * Abs(e.position.size)
<1> PICK s : s = e.trades
  OBVIOUS
<1> PICK z \in Int : z = e.position.size
  BY EngineFields
<1> PICK side : side = IF z > 0 THEN "sell" ELSE "buy"
  OBVIOUS
<1> PICK was : was = IF z > 0 THEN "long" ELSE "short"
  OBVIOUS
<1> PICK amount \in Nat \ {0} : amount = Abs(z)
  <2>1. Abs(z) \in Nat \ {0}
    BY DEF Abs
  <2> QED
    BY <2>1
<1> PICK acc : acc = Matching(s)
  OBVIOUS
<1>1. s \in Seq(ReplayTrades) /\ e.realized \in Frac /\ e.lastPrice \in Nat
  BY EngineFields
<1>2. Waits(e.position, acc.open) /\ Agrees(e.realized, ClosingsOf(s), Statistics(acc.matches))
  BY DEF EngineInv
<1>3. PICK o \in ReplayTrades : /\ o.side = SideOf(z) /\ o.size = amount
                                /\ o.price = e.position.num /\ acc.open = QueueOf(o)
  BY <1>2 DEF Waits
<1> PICK profit : profit = ClosingProfit(e, price)
  OBVIOUS
<1> PICK t : t = TradeOf(s, side, amount, price, profit.num, was)
  OBVIOUS
<1>4. /\ profit.num \in Int /\ profit = [num |-> profit.num, den |-> 1]
      /\ Update(e.position, -z, price) = Flat
  <2> PICK u : u = TradeOf(s, side, amount, price, 0, was)
    OBVIOUS
  <2>1. u \in ReplayTrades
    <3>1. side \in {"buy", "sell"} /\ was \in {"none", "long", "short"} /\ 0 \in Int
      OBVIOUS
    <3> QED
      BY ONLY <1>1, <3>1, amount \in Nat \ {0}, price \in Int,
              u = TradeOf(s, side, amount, price, 0, was), TradeOfType
  <2>2. u.price = price /\ u.side = side
    BY DEF TradeOf
  <2> PICK k : k = MatchPnL(o, u, Abs(e.position.size))
    OBVIOUS
  <2>3. /\ profit = [num |-> k, den |-> 1] /\ k \in Int
        /\ Update(e.position, -e.position.size, price) = Flat
    BY <1>3, <2>1, <2>2, ClosingIsMatch
  <2> QED
    BY <2>3
<1>5. t \in ReplayTrades
  <2>1. side \in {"buy", "sell"} /\ was \in {"none", "long", "short"}
    OBVIOUS
  <2> QED
    BY ONLY <1>1, <1>4, <2>1, amount \in Nat \ {0}, price \in Int,
            t = TradeOf(s, side, amount, price, profit.num, was), TradeOfType
<1>6. /\ ~t.cancelled /\ t.pnl = profit.num /\ t.side = side /\ t.size = amount
      /\ t.price = price /\ t.positionSide = was
  BY DEF TradeOf
<1> PICK found : found = [long |-> o.side = "buy", pnl |-> profit.num]
  OBVIOUS
<1>7. profit.num = MatchPnL(o, t, t.size) /\ found \in Outcomes
  <2>1. ClosingProfit(e, price) = [num |-> MatchPnL(o, t, Abs(e.position.size)), den |-> 1]
    BY <1>3, <1>5, <1>6, ClosingIsMatch
  <2>2. profit.num = MatchPnL(o, t, amount)
    BY <2>1
  <2> QED
    BY <1>4, <1>6, <2>2 DEF Outcomes
<1>8. /\ acc \in Halves(ReplayTrades) /\ Matching(Append(s, t)) = TakeTrade(acc, t)
      /\ ClosingsOf(Append(s, t)) = KeepClosing(ClosingsOf(s), t)
      /\ ClosingsOf(s) \in Seq(Outcomes) /\ Append(s, t) \in Seq(ReplayTrades)
  <2>1. Append(s, t) \in Seq(ReplayTrades)
    BY ONLY <1>1, <1>5
  <2> QED
    BY ONLY <1>1, <1>5, <1>6, <2>1, acc = Matching(s), OneMoreTrade
<1>9. o.side \in {"buy", "sell"} /\ o.side # side /\ (was = "long") = (o.side = "buy")
  <2>1. o.side = IF z > 0 THEN "buy" ELSE "sell"
    BY <1>3 DEF SideOf
  <2> QED
    BY <2>1
<1>10. TakeTrade(acc, t) = [open    |-> [buy |-> <<>>, sell |-> <<>>],
                            matches |-> Append(acc.matches, found)]
  <2>1. acc.open[o.side] = <<o>> /\ acc.open[t.side] = <<>>
    BY <1>3, <1>6, <1>9 DEF QueueOf
  <2>2. o.size = t.size /\ o.side # t.side
    BY <1>3, <1>6, <1>9
  <2>3. TakeTrade(acc, t) = [open    |-> [buy |-> <<>>, sell |-> <<>>],
                             matches |-> Append(acc.matches, [long |-> o.side = "buy",
                                                              pnl  |-> MatchPnL(o, t, t.size)])]
    BY ONLY <1>3, <1>5, <1>8, <2>1, <2>2, ReplayTradable, TakeClosing
  <2> QED
    BY <1>7, <2>3
<1>11. Matching(Append(s, t)).open = [buy |-> <<>>, sell |-> <<>>]
  BY ONLY <1>8, <1>10
<1>12. Matching(Append(s, t)).matches = Append(acc.matches, found)
  BY ONLY <1>8, <1>10
<1>13. KeepClosing(ClosingsOf(s), t)
         = IF found.pnl = 0 THEN ClosingsOf(s) ELSE Append(ClosingsOf(s), found)
  BY <1>6, <1>9 DEF KeepClosing
<1>14. Agrees(AddYen(e.realized, profit), ClosingsOf(Append(s, t)),
              Statistics(Matching(Append(s, t)).matches))
  <2>1. acc.matches \in Seq(Outcomes)
    BY <1>8 DEF Halves
  <2>2. Agrees(AddYen(e.realized, [num |-> found.pnl, den |-> 1]),
               IF found.pnl = 0 THEN ClosingsOf(s) ELSE Append(ClosingsOf(s), found),
               Statistics(Append(acc.matches, found)))
    BY ONLY <1>2, <1>7, <1>8, <2>1, AgreesFurther
  <2>3. [num |-> found.pnl, den |-> 1] = profit
    BY <1>4
  <2> QED
    BY ONLY <1>8, <1>12, <1>13, <2>2, <2>3
<1>15. Flat \in PositionType /\ Flat.den = 1 /\ Waits(Flat, Matching(Append(s, t)).open)
  BY <1>11 DEF Flat, PositionType, Waits
<1>16. AddYen(e.realized, profit) \in Frac
  <2>1. profit \in Frac
    BY <1>4 DEF Frac
  <2> QED
    BY <1>1, <2>1, AddYenType
<1>17. ExecuteClosingOrder(e, price)
         = [position |-> Flat, realized |-> AddYen(e.realized, profit), trades |-> Append(s, t),
            tp |-> 0, sl |-> 0, lastPrice |-> e.lastPrice]
  <2> PICK r : r = ClosingTrade(e, price)
    OBVIOUS
  <2> PICK u, old, new, up, down, last :
        /\ u = Append(s, t) /\ old = e.realized /\ new = AddYen(e.realized, profit)
        /\ up = e.tp /\ down = e.sl /\ last = e.lastPrice
    OBVIOUS
  <2>1. r = Record(e, side, amount, price, profit.num, was)
    BY DEF ClosingTrade
  <2>2. Signed(side, amount) = -z
    BY DEF Signed, Abs
  <2>3. r = [position |-> Flat, realized |-> old, trades |-> u, tp |-> up, sl |-> down, lastPrice |-> last]
    <3>1. r = [position  |-> Update(e.position, Signed(side, amount), price),
               realized  |-> e.realized,
               trades    |-> Append(e.trades, TradeOf(e.trades, side, amount, price, profit.num, was)),
               tp        |-> e.tp, sl |-> e.sl, lastPrice |-> e.lastPrice]
      BY ONLY EngineInv(e), <2>1, Recorded
    <3>2. Update(e.position, Signed(side, amount), price) = Flat
      BY <1>4, <2>2
    <3>3. u = Append(e.trades, TradeOf(e.trades, side, amount, price, profit.num, was))
      OBVIOUS
    <3> QED
      BY <3>1, <3>2, <3>3
  <2> PICK r1 : r1 = [r EXCEPT !.realized = new]
    OBVIOUS
  <2>4. r1 = [position |-> Flat, realized |-> new, trades |-> u, tp |-> up, sl |-> down, lastPrice |-> last]
    BY ONLY <2>3, r1 = [r EXCEPT !.realized = new]
  <2> PICK r2 : r2 = [r1 EXCEPT !.tp = 0]
    OBVIOUS
  <2>5. r2 = [position |-> Flat, realized |-> new, trades |-> u, tp |-> 0, sl |-> down, lastPrice |-> last]
    BY ONLY <2>4, r2 = [r1 EXCEPT !.tp = 0]
  <2>6. [r2 EXCEPT !.sl = 0]
          = [position |-> Flat, realized |-> new, trades |-> u, tp |-> 0, sl |-> 0, lastPrice |-> last]
    BY ONLY <2>5
  <2>7. [r EXCEPT !.realized = new, !.tp = 0, !.sl = 0]
          = [position |-> Flat, realized |-> new, trades |-> u, tp |-> 0, sl |-> 0, lastPrice |-> last]
    BY ONLY <2>6, r1 = [r EXCEPT !.realized = new], r2 = [r1 EXCEPT !.tp = 0]
  <2>8. ExecuteClosingOrder(e, price) = [r EXCEPT !.realized = new, !.tp = 0, !.sl = 0]
    <3>1. r.realized = old
      BY ONLY <2>3
    <3> QED
      BY <3>1 DEF ExecuteClosingOrder
  <2> QED
    BY <2>7, <2>8
<1>18. EngineInv([position |-> Flat, realized |-> AddYen(e.realized, profit), trades |-> Append(s, t),
                  tp |-> 0, sl |-> 0, lastPrice |-> e.lastPrice])
  <2>1. 0 \in Int
    OBVIOUS
  <2> QED
    BY ONLY <1>1, <1>8, <1>14, <1>15, <1>16, <2>1, EngineFrom
<1> PICK new : new = ExecuteClosingOrder(e, price)
  OBVIOUS
<1>19. EngineInv(new) /\ new.position = Flat /\ new.realized = AddYen(e.realized, profit)
  BY ONLY <1>17, <1>18, new = ExecuteClosingOrder(e, price)
<1>20. new.realized.num = e.realized.num + profit.num
  <2>1. e.realized.den = 1 /\ profit.den = 1
    BY <1>2, <1>4 DEF Agrees
  <2> PICK old : old = e.realized
    OBVIOUS
  <2>2. AddYen(old, profit) = [old EXCEPT !.num = @ + profit.num]
    BY <2>1 DEF AddYen
  <2>3. old = [num |-> old.num, den |-> old.den]
    <3>1. old \in Frac
      BY <1>1
    <3> QED
      BY ONLY <3>1 DEF Frac
  <2>4. AddYen(old, profit).num = old.num + profit.num
    BY ONLY <2>2, <2>3
  <2> QED
    BY <1>19, <2>4
<1>21. profit.num = (IF z < 0 THEN e.position.num - price ELSE price - e.position.num) * amount
  <2>1. (IF t.side = "sell" THEN t.price - o.price ELSE o.price - t.price)
          = IF z < 0 THEN e.position.num - price ELSE price - e.position.num
    BY <1>3, <1>6
  <2> QED
    BY <1>6, <1>7, <2>1 DEF MatchPnL
<1>22. new.position.size = 0
  BY <1>19 DEF Flat
<1> QED
  BY <1>19, <1>20, <1>21, <1>22

Orders == [side : {"buy", "sell"}, amount : Nat, tp : Int, sl : Int]
Quotes == [bid : Nat, ask : Nat]

LEMMA PlaceOrderKeeps ==
  ASSUME NEW e, EngineInv(e), NEW bid \in Nat, NEW ask \in Nat, NEW order \in Orders
  PROVE  EngineInv(PlaceOrder(e, bid, ask, order))
<1> PICK quote : quote = IF order.side = "buy" THEN ask ELSE bid
  OBVIOUS
<1>1. /\ quote \in Nat /\ order.side \in {"buy", "sell"} /\ order.amount \in Nat
      /\ order.tp \in Int /\ order.sl \in Int
  BY DEF Orders
<1>2. e.sl \in Int /\ e.tp \in Int /\ e.position.size \in Int
  BY EngineFields
<1>3. CASE StopLossHit(e, bid, ask)
  <2>1. e.position.size # 0
    BY <1>2, <1>3 DEF StopLossHit
  <2>2. PlaceOrder(e, bid, ask, order) = ExecuteClosingOrder(e, e.sl)
    BY <1>3 DEF PlaceOrder
  <2> QED
    BY <1>2, <2>1, <2>2, ClosingKeeps
<1>4. CASE ~StopLossHit(e, bid, ask) /\ TakeProfitHit(e, bid, ask)
  <2>1. e.position.size # 0
    BY <1>2, <1>4 DEF TakeProfitHit
  <2>2. PlaceOrder(e, bid, ask, order) = ExecuteClosingOrder(e, e.tp)
    BY <1>4 DEF PlaceOrder
  <2> QED
    BY <1>2, <2>1, <2>2, ClosingKeeps
<1>5. CASE ~StopLossHit(e, bid, ask) /\ ~TakeProfitHit(e, bid, ask) /\ Refused(e, quote, order)
  <2>1. PlaceOrder(e, bid, ask, order) = e
    BY <1>5 DEF PlaceOrder
  <2> QED
    BY <2>1
<1>6. CASE ~StopLossHit(e, bid, ask) /\ ~TakeProfitHit(e, bid, ask) /\ ~Refused(e, quote, order)
  <2>1. e.position.size = 0 /\ order.amount \in Nat \ {0}
    BY <1>1, <1>6 DEF Refused, MinAmount
  <2>2. PlaceOrder(e, bid, ask, order)
          = [Record(e, order.side, order.amount, quote, 0, "none")
                EXCEPT !.tp = order.tp, !.sl = order.sl]
    BY <1>6 DEF PlaceOrder
  <2> PICK side \in {"buy", "sell"}, amount \in Nat \ {0}, tp \in Int, sl \in Int :
        side = order.side /\ amount = order.amount /\ tp = order.tp /\ sl = order.sl
    BY <1>1, <2>1
  <2>3. quote \in Int
    BY <1>1
  <2> PICK new : new = PlaceOrder(e, bid, ask, order)
    OBVIOUS
  <2>4. Opens(new, e, side, amount, quote, tp, sl)
    BY <2>2 DEF Opens
  <2>5. EngineInv(new)
    BY ONLY <2>1, <2>3, <2>4, EngineInv(e), side \in {"buy", "sell"}, amount \in Nat \ {0},
            tp \in Int, sl \in Int, OpeningKeeps
  <2> QED
    BY <2>5
<1> QED
  BY <1>3, <1>4, <1>5, <1>6

\* What an order is, term by term.
LEMMA OrderLevels ==
  ASSUME NEW quote \in Quotes, NEW side \in {"buy", "sell"}
  PROVE  /\ OrderFor(side, quote).side = side /\ OrderFor(side, quote).amount = OrderAmount
         /\ side = "buy" => /\ OrderFor(side, quote).tp = quote.ask + (EntryPriceOffset + LongTP)
                            /\ OrderFor(side, quote).sl = quote.ask + (EntryPriceOffset - LongSL)
         /\ side = "sell" => /\ OrderFor(side, quote).tp = quote.bid - (EntryPriceOffset + ShortTP)
                             /\ OrderFor(side, quote).sl = quote.bid - (EntryPriceOffset - ShortSL)
         /\ OrderFor(side, quote) \in Orders
<1> PICK bid, ask \in Nat : bid = quote.bid /\ ask = quote.ask
  BY DEF Quotes
<1> PICK off, ltp, lsl, stp, ssl \in Nat :
      /\ off = EntryPriceOffset /\ ltp = LongTP /\ lsl = LongSL /\ stp = ShortTP /\ ssl = ShortSL
  BY SimulationAssumption
<1>1. OrderAmount \in Nat
  BY SimulationAssumption
<1>2. CASE side = "buy"
  <2>1. OrderFor(side, quote)
          = [side |-> side, amount |-> OrderAmount, tp |-> (ask + off) + ltp, sl |-> (ask + off) - lsl]
    BY <1>2 DEF OrderFor
  <2>2. /\ (ask + off) + ltp = ask + (off + ltp) /\ (ask + off) - lsl = ask + (off - lsl)
        /\ (ask + off) + ltp \in Int /\ (ask + off) - lsl \in Int
    OBVIOUS
  <2>3. OrderFor(side, quote) \in Orders
    BY ONLY <1>1, <2>1, <2>2, side \in {"buy", "sell"} DEF Orders
  <2> QED
    BY <1>2, <2>1, <2>2, <2>3
<1>3. CASE side = "sell"
  <2>1. OrderFor(side, quote)
          = [side |-> side, amount |-> OrderAmount, tp |-> (bid - off) - stp, sl |-> (bid - off) + ssl]
    BY <1>3 DEF OrderFor
  <2>2. /\ (bid - off) - stp = bid - (off + stp) /\ (bid - off) + ssl = bid - (off - ssl)
        /\ (bid - off) - stp \in Int /\ (bid - off) + ssl \in Int
    OBVIOUS
  <2>3. OrderFor(side, quote) \in Orders
    BY ONLY <1>1, <2>1, <2>2, side \in {"buy", "sell"} DEF Orders
  <2> QED
    BY <1>3, <2>1, <2>2, <2>3
<1> QED
  BY <1>2, <1>3

ReplayInv ==
    /\ sim.book \in Books /\ sim.quote \in Quotes
    /\ EngineInv(engine)

\* An event that is traded on.
LEMMA TradeKeeps ==
  ASSUME SimInv, NEW e, EngineInv(e), NEW book \in Books, NEW quote \in Quotes, Trade(e, book, quote)
  PROVE  ReplayInv'
<1>1. PICK raw \in {"none", "buy", "sell"}, confirmed \in BOOLEAN :
         /\ engine' = IF Emits(sim.signal, raw, confirmed)
                      THEN PlaceOrder(e, BestBid(book), BestAsk(book), OrderFor(raw, quote))
                      ELSE e
  BY DEF Trade
<1>2. sim'.book = book /\ sim'.quote = quote
  <2>1. DOMAIN sim = {"pc", "book", "quote", "signal", "oneSided"}
    BY DEF SimInv, SimTypes
  <2> QED
    BY <2>1, TradeShape
<1>3. EngineInv(engine')
  <2>1. CASE Emits(sim.signal, raw, confirmed)
    <3>1. raw \in {"buy", "sell"}
      BY <2>1 DEF Emits
    <3>2. OrderFor(raw, quote) \in Orders
      BY <3>1, OrderLevels
    <3>3. BestBid(book) \in Nat /\ BestAsk(book) \in Nat
      BY BestPrices
    <3>4. engine' = PlaceOrder(e, BestBid(book), BestAsk(book), OrderFor(raw, quote))
      BY <1>1, <2>1
    <3> QED
      BY ONLY EngineInv(e), <3>2, <3>3, <3>4, PlaceOrderKeeps
  <2>2. CASE ~Emits(sim.signal, raw, confirmed)
    BY <1>1, <2>2
  <2> QED
    BY <2>1, <2>2
<1>4. EngineInv(engine)'
  BY ONLY <1>3 DEF EngineInv, Engines
<1> QED
  BY <1>2, <1>4 DEF ReplayInv

LEMMA ReplayStep == SimInv /\ ReplayInv /\ [Next]_vars => ReplayInv'
<1> SUFFICES ASSUME SimInv, ReplayInv, [Next]_vars PROVE ReplayInv'
  OBVIOUS
<1>0. /\ DOMAIN sim = {"pc", "book", "quote", "signal", "oneSided"}
      /\ sim.book \in Books /\ sim.quote \in Quotes /\ EngineInv(engine)
  BY DEF SimInv, SimTypes, ReplayInv
<1>1. ASSUME NEW type, Takes(type)
      PROVE  Head(reader.out) \in Events /\ Head(reader.out).type = type
  <2>1. reader.out \in Seq(Events) /\ reader.out # <<>>
    BY <1>1 DEF SimInv, SimTypes, Takes
  <2> QED
    BY <1>1, <2>1, HeadTailProperties DEF Takes
<1>2. CASE HandleBook
  <2> PICK levels : levels = Head(reader.out).levels
    OBVIOUS
  <2> PICK book : book = ApplyUpdate(sim.book, levels)
    OBVIOUS
  <2> PICK quote : quote = [bid |-> BestBid(book), ask |-> BestAsk(book)]
    OBVIOUS
  <2>1. levels \in Seq(Levels)
    <3>1. Head(reader.out) \in Events /\ Head(reader.out).type = "book"
      BY <1>1, <1>2 DEF HandleBook
    <3> QED
      BY <3>1 DEF Events, Trades
  <2>2. book \in Books
    BY <1>0, <2>1, UpdateSteps
  <2>3. quote \in Quotes
    BY <2>2, BestPrices DEF Quotes
  <2>4. CASE quote.bid > 0 /\ quote.ask > 0
    <3>1. Trade(engine, book, quote)
      BY <1>2, <2>4 DEF HandleBook
    <3> QED
      BY <1>0, <2>2, <2>3, <3>1, TradeKeeps
  <2>5. CASE ~(quote.bid > 0 /\ quote.ask > 0)
    <3>1. sim' = [sim EXCEPT !.book = book] /\ engine' = engine
      BY <1>2, <2>5 DEF HandleBook
    <3>2. sim'.book = book /\ sim'.quote = sim.quote
      BY <1>0, <3>1
    <3> QED
      BY <1>0, <2>2, <3>1, <3>2 DEF ReplayInv
  <2> QED
    BY <2>4, <2>5
<1>3. CASE HandleTrade
  <2>1. CASE sim.quote = NoQuote
    BY <1>3, <2>1 DEF HandleTrade, ReplayInv
  <2>2. CASE sim.quote # NoQuote
    <3> PICK price : price = Head(reader.out).price
      OBVIOUS
    <3>1. price \in Nat
      <4>1. Head(reader.out) \in Events /\ Head(reader.out).type = "trade"
        BY <1>1, <1>3 DEF HandleTrade
      <4> QED
        BY <4>1 DEF Events, Trades
    <3>2. EngineInv(UpdateLastPrice(engine, price))
      BY <1>0, <3>1, PriceKeepsEngine
    <3>3. Trade(UpdateLastPrice(engine, price), sim.book, sim.quote)
      BY <1>3, <2>2 DEF HandleTrade
    <3> QED
      BY <1>0, <3>2, <3>3, TradeKeeps
  <2> QED
    BY <2>1, <2>2
<1>4. CASE ~HandleBook /\ ~HandleTrade
  <2>1. engine' = engine
    BY <1>4 DEF Next, Reader, ReadBook, ReadTrade, SkipRow, ReadError, ReadEnd, CloseErrCh, CloseEventCh,
         Simulate, EventsClosed, ErrClosed, ErrReceived, NoConfig, SendSigterm, RunMainLoop,
         PrintSummary, MainSignals, WaitForShutdownSignal, UserSignal, simVars, vars
  <2>2. sim' = sim \/ \E pc : sim' = [sim EXCEPT !.pc = pc]
    BY <1>4 DEF Next, Reader, ReadBook, ReadTrade, SkipRow, ReadError, ReadEnd, CloseErrCh, CloseEventCh,
         Simulate, EventsClosed, ErrClosed, ErrReceived, NoConfig, SendSigterm, Finish, RunMainLoop,
         PrintSummary, MainSignals, WaitForShutdownSignal, UserSignal, simVars, vars
  <2>3. sim'.book = sim.book /\ sim'.quote = sim.quote
    BY <1>0, <2>2
  <2> QED
    BY <1>0, <2>1, <2>3 DEF ReplayInv
<1> QED
  BY <1>2, <1>3, <1>4

LEMMA InitReplay == Init => ReplayInv
<1> SUFFICES ASSUME Init PROVE ReplayInv
  OBVIOUS
<1>1. sim.book = [bid |-> {}, ask |-> {}] /\ sim.quote = [bid |-> 0, ask |-> 0]
  BY DEF Init, NoQuote
<1>2. {} \in Prices
  BY FS_EmptySet DEF Prices
<1>3. sim.book \in Books /\ sim.quote \in Quotes
  BY <1>1, <1>2 DEF Books, Quotes
<1>4. EngineInv(engine)
  BY InitEngine DEF Init
<1> QED
  BY <1>3, <1>4 DEF ReplayInv

LEMMA EngineExplains == EngineInv(engine) => TradesExplainProfit
<1> SUFFICES ASSUME EngineInv(engine) PROVE TradesExplainProfit
  OBVIOUS
<1> PICK s, figures, closings : /\ s = engine.trades /\ figures = Statistics(Matching(s).matches)
                                /\ closings = ClosingsOf(s)
  OBVIOUS
<1> PICK found, shown : found = AnalyzeTrades(s) /\ shown = Summary(engine)
  OBVIOUS
<1>1. /\ engine.realized = [num |-> figures.equity, den |-> 1]
      /\ Statistics(closings) = figures /\ Len(closings) = Closed4(figures)
  BY DEF EngineInv, Agrees
<1>2. shown.totalTrades = Len(closings) /\ shown.figures = Statistics(closings)
  <2>1. Closings(engine) = closings
    BY DEF Closings, ClosingsOf
  <2> QED
    BY <2>1 DEF Summary
<1>3. ASSUME found.ok
      PROVE  found.totalPnL = figures.equity /\ found.totalTrades = Closed4(figures) /\ found.figures = figures
  <2>1. Executed(s) # <<>>
    BY <1>3 DEF AnalyzeTrades
  <2> QED
    BY <2>1 DEF AnalyzeTrades, Closed4
<1> QED
  BY <1>1, <1>2, <1>3 DEF TradesExplainProfit

(***************************************************************************)
(* Simulation.TradesExplainProfit.                                         *)
(***************************************************************************)
THEOREM TradesExplained == BacktestSpec => []TradesExplainProfit
<1>1. BacktestInit => SimInv /\ ReplayInv
  BY InitSimulation, InitReplay DEF BacktestInit
<1>2. SimInv /\ ReplayInv /\ [BacktestNext]_backtestVars => (SimInv /\ ReplayInv)'
  BY SimulationStep, ReplayStep, BacktestMoves
<1>3. SimInv /\ ReplayInv => TradesExplainProfit
  BY EngineExplains DEF ReplayInv
<1> QED
  BY <1>1, <1>2, <1>3, PTL DEF BacktestSpec

\* What an order does to an engine: nothing, a closing at a level or an opening.
LEMMA PlaceOrderLevels ==
  ASSUME NEW e, EngineInv(e), NEW bid \in Nat, NEW ask \in Nat, NEW order \in Orders,
         NEW new, new = PlaceOrder(e, bid, ask, order)
  PROVE  \/ new = e
         \/ /\ e.position.size # 0 /\ new.position.size = 0
            /\ \E level \in {e.tp, e.sl} :
                 new.realized.num
                   = e.realized.num + (IF e.position.size < 0 THEN e.position.num - level
                                       ELSE level - e.position.num) * Abs(e.position.size)
         \/ /\ e.position.size = 0 /\ new.position.size # 0
            /\ new.position.size = Signed(order.side, order.amount)
            /\ new.position.num = IF order.side = "buy" THEN ask ELSE bid
            /\ new.tp = order.tp /\ new.sl = order.sl
<1> PICK quote : quote = IF order.side = "buy" THEN ask ELSE bid
  OBVIOUS
<1>1. /\ quote \in Nat /\ order.side \in {"buy", "sell"} /\ order.amount \in Nat
      /\ order.tp \in Int /\ order.sl \in Int
  BY DEF Orders
<1>2. e.sl \in Int /\ e.tp \in Int /\ e.position.size \in Int
  BY EngineFields
<1>3. ASSUME NEW level \in {e.tp, e.sl}, e.position.size # 0, new = ExecuteClosingOrder(e, level)
      PROVE  /\ new.position.size = 0
             /\ new.realized.num
                  = e.realized.num + (IF e.position.size < 0 THEN e.position.num - level
                                      ELSE level - e.position.num) * Abs(e.position.size)
  <2>1. level \in Int
    BY <1>2
  <2> QED
    BY ONLY <1>3, <2>1, EngineInv(e), ClosingKeeps
<1>4. CASE StopLossHit(e, bid, ask)
  <2>1. e.position.size # 0
    BY <1>2, <1>4 DEF StopLossHit
  <2>2. new = ExecuteClosingOrder(e, e.sl)
    BY <1>4 DEF PlaceOrder
  <2> QED
    BY <1>3, <2>1, <2>2
<1>5. CASE ~StopLossHit(e, bid, ask) /\ TakeProfitHit(e, bid, ask)
  <2>1. e.position.size # 0
    BY <1>2, <1>5 DEF TakeProfitHit
  <2>2. new = ExecuteClosingOrder(e, e.tp)
    BY <1>5 DEF PlaceOrder
  <2> QED
    BY <1>3, <2>1, <2>2
<1>6. CASE ~StopLossHit(e, bid, ask) /\ ~TakeProfitHit(e, bid, ask) /\ Refused(e, quote, order)
  BY <1>6 DEF PlaceOrder
<1>7. CASE ~StopLossHit(e, bid, ask) /\ ~TakeProfitHit(e, bid, ask) /\ ~Refused(e, quote, order)
  <2>1. e.position.size = 0 /\ order.amount \in Nat \ {0}
    BY <1>1, <1>7 DEF Refused, MinAmount
  <2>2. new = [Record(e, order.side, order.amount, quote, 0, "none")
                 EXCEPT !.tp = order.tp, !.sl = order.sl]
    BY <1>7 DEF PlaceOrder
  <2> PICK side \in {"buy", "sell"}, amount \in Nat \ {0}, tp \in Int, sl \in Int :
        side = order.side /\ amount = order.amount /\ tp = order.tp /\ sl = order.sl
    BY <1>1, <2>1
  <2>3. Opens(new, e, side, amount, quote, tp, sl)
    BY <2>2 DEF Opens
  <2>4. quote \in Int
    BY <1>1
  <2>5. /\ new.position.size = Signed(side, amount) /\ new.position.size # 0
        /\ new.position.num = quote /\ new.tp = tp /\ new.sl = sl
    BY ONLY <2>1, <2>3, <2>4, EngineInv(e), side \in {"buy", "sell"}, amount \in Nat \ {0},
            tp \in Int, sl \in Int, OpeningKeeps
  <2> QED
    BY <2>1, <2>5
<1> QED
  BY <1>4, <1>5, <1>6, <1>7

\* The levels of an open position are at their distances from its entry price.
AtDistances(e) ==
    /\ Abs(e.position.size) = OrderAmount
    /\ e.position.size > 0 => /\ e.tp = e.position.num + (EntryPriceOffset + LongTP)
                              /\ e.sl = e.position.num + (EntryPriceOffset - LongSL)
    /\ e.position.size < 0 => /\ e.tp = e.position.num - (EntryPriceOffset + ShortTP)
                              /\ e.sl = e.position.num - (EntryPriceOffset - ShortSL)

\* The quote is that of the book as long as the book has two sides.
Current(book, quote) ==
    ~(0 \in {BestBid(book), BestAsk(book)}) => quote = [bid |-> BestBid(book), ask |-> BestAsk(book)]

LevelInv ==
    /\ Current(sim.book, sim.quote)
    /\ engine.position.size # 0 /\ ~sim.oneSided => AtDistances(engine)

RealizesLevel(old, new) ==
    \E distance \in Distances(old.position.size) :
        new.realized.num = old.realized.num + distance * OrderAmount

LEMMA OpensAtDistances ==
  ASSUME NEW e, NEW side \in {"buy", "sell"}, NEW bid \in Nat, NEW ask \in Nat,
         NEW quote, quote = [bid |-> bid, ask |-> ask],
         NEW order, order = OrderFor(side, quote),
         e.position.size = Signed(order.side, order.amount),
         e.position.num = IF order.side = "buy" THEN ask ELSE bid,
         e.tp = order.tp, e.sl = order.sl
  PROVE  AtDistances(e)
<1>1. quote \in Quotes /\ quote.bid = bid /\ quote.ask = ask /\ OrderAmount \in Nat
  BY SimulationAssumption DEF Quotes
<1>2. /\ order.side = side /\ order.amount = OrderAmount
      /\ side = "buy" => /\ order.tp = ask + (EntryPriceOffset + LongTP)
                         /\ order.sl = ask + (EntryPriceOffset - LongSL)
      /\ side = "sell" => /\ order.tp = bid - (EntryPriceOffset + ShortTP)
                          /\ order.sl = bid - (EntryPriceOffset - ShortSL)
  BY <1>1, OrderLevels
<1>3. e.position.size = IF side = "buy" THEN OrderAmount ELSE -OrderAmount
  BY <1>2 DEF Signed
<1>4. Abs(e.position.size) = OrderAmount
  BY ONLY <1>1, <1>3 DEF Abs
<1>5. (e.position.size > 0 => side = "buy") /\ (e.position.size < 0 => side = "sell")
  BY ONLY <1>1, <1>3, side \in {"buy", "sell"}
<1> QED
  BY <1>2, <1>4, <1>5 DEF AtDistances

\* A price less a price moved by a distance is that distance.
LEMMA DistanceFrom ==
  ASSUME NEW n \in Int, NEW d \in Int
  PROVE  (n + d) - n = d /\ n - (n - d) = d
  OBVIOUS

LEMMA ClosesAtDistance ==
  ASSUME NEW e, EngineInv(e), AtDistances(e), e.position.size # 0, NEW new,
         NEW level \in {e.tp, e.sl},
         new.realized.num = e.realized.num + (IF e.position.size < 0 THEN e.position.num - level
                                              ELSE level - e.position.num) * Abs(e.position.size)
  PROVE  RealizesLevel(e, new)
<1> PICK z, n \in Int : z = e.position.size /\ n = e.position.num
  BY EngineFields
<1> PICK up, down, under, over \in Int :
      /\ up = EntryPriceOffset + LongTP /\ down = EntryPriceOffset - LongSL
      /\ under = EntryPriceOffset + ShortTP /\ over = EntryPriceOffset - ShortSL
  BY SimulationAssumption
<1>1. Abs(z) = OrderAmount
  BY DEF AtDistances
<1>2. CASE z > 0
  <2>1. level = n + up \/ level = n + down
    BY <1>2 DEF AtDistances
  <2>2. level - n \in {up, down}
    BY ONLY <2>1, n \in Int, up \in Int, down \in Int, DistanceFrom
  <2>3. ~(z < 0)
    BY <1>2
  <2>4. new.realized.num = e.realized.num + (level - n) * OrderAmount
    BY <1>1, <2>3
  <2>5. Distances(e.position.size) = {up, down}
    BY <1>2 DEF Distances
  <2> QED
    BY <2>2, <2>4, <2>5 DEF RealizesLevel
<1>3. CASE z < 0
  <2>1. level = n - under \/ level = n - over
    BY <1>3 DEF AtDistances
  <2>2. n - level \in {under, over}
    BY ONLY <2>1, n \in Int, under \in Int, over \in Int, DistanceFrom
  <2>3. new.realized.num = e.realized.num + (n - level) * OrderAmount
    BY <1>1, <1>3
  <2>4. ~(z > 0)
    BY <1>3
  <2>5. Distances(e.position.size) = {under, over}
    BY <2>4 DEF Distances
  <2> QED
    BY <2>2, <2>3, <2>5 DEF RealizesLevel
<1> QED
  BY <1>2, <1>3

\* An event that is traded on.
LEMMA TradeLevels ==
  ASSUME SimInv, NEW e, EngineInv(e), NEW book \in Books, NEW quote \in Quotes,
         Trade(e, book, quote), Current(book, quote),
         e.position.size # 0 /\ ~sim.oneSided => AtDistances(e)
  PROVE  /\ LevelInv'
         /\ e.position.size # 0 /\ engine'.position.size = 0 /\ ~sim.oneSided
              => RealizesLevel(e, engine')
<1> PICK bid, ask \in Nat : bid = BestBid(book) /\ ask = BestAsk(book)
  BY BestPrices
<1> PICK new : new = engine'
  OBVIOUS
<1>1. PICK raw \in {"none", "buy", "sell"}, confirmed \in BOOLEAN :
         new = IF Emits(sim.signal, raw, confirmed)
               THEN PlaceOrder(e, bid, ask, OrderFor(raw, quote)) ELSE e
  BY DEF Trade
<1>2. /\ sim'.book = book /\ sim'.quote = quote
      /\ sim'.oneSided = IF e.position.size = 0 /\ new.position.size # 0
                         THEN 0 \in {bid, ask} ELSE sim.oneSided
  <2>1. DOMAIN sim = {"pc", "book", "quote", "signal", "oneSided"}
    BY DEF SimInv, SimTypes
  <2> QED
    BY <2>1, TradeShape
<1>3. CASE new = e
  <2>1. sim'.oneSided = sim.oneSided /\ (new.position.size # 0 /\ ~sim.oneSided => AtDistances(new))
    BY <1>2, <1>3
  <2>2. ~(e.position.size # 0 /\ new.position.size = 0)
    BY <1>3
  <2>3. (engine.position.size # 0 /\ ~sim.oneSided => AtDistances(engine))'
    BY <2>1 DEF AtDistances
  <2>4. Current(sim.book, sim.quote)'
    BY <1>2 DEF Current
  <2> QED
    BY <2>2, <2>3, <2>4 DEF LevelInv
<1>4. CASE new # e
  <2>1. raw \in {"buy", "sell"} /\ new = PlaceOrder(e, bid, ask, OrderFor(raw, quote))
    BY <1>1, <1>4 DEF Emits
  <2> PICK order : order = OrderFor(raw, quote)
    OBVIOUS
  <2>2. order \in Orders
    BY <2>1, OrderLevels
  <2>3. \/ /\ e.position.size # 0 /\ new.position.size = 0
           /\ \E level \in {e.tp, e.sl} :
                new.realized.num
                  = e.realized.num + (IF e.position.size < 0 THEN e.position.num - level
                                      ELSE level - e.position.num) * Abs(e.position.size)
        \/ /\ e.position.size = 0 /\ new.position.size # 0
           /\ new.position.size = Signed(order.side, order.amount)
           /\ new.position.num = IF order.side = "buy" THEN ask ELSE bid
           /\ new.tp = order.tp /\ new.sl = order.sl
    <3>1. new = PlaceOrder(e, bid, ask, order)
      BY <2>1
    <3> QED
      BY ONLY <1>4, <2>2, <3>1, EngineInv(e), bid \in Nat, ask \in Nat, PlaceOrderLevels
  <2>4. CASE e.position.size # 0 /\ new.position.size = 0
    <3>1. PICK level \in {e.tp, e.sl} :
             new.realized.num
               = e.realized.num + (IF e.position.size < 0 THEN e.position.num - level
                                   ELSE level - e.position.num) * Abs(e.position.size)
      BY <2>3, <2>4
    <3>2. ~sim.oneSided => RealizesLevel(e, new)
      BY <2>4, <3>1, ClosesAtDistance
    <3>3. engine'.position.size = 0
      BY <2>4
    <3>4. Current(sim.book, sim.quote)'
      BY <1>2 DEF Current
    <3> QED
      BY <3>2, <3>3, <3>4 DEF LevelInv
  <2>5. CASE e.position.size = 0 /\ new.position.size # 0
    <3>1. ~(0 \in {bid, ask}) => AtDistances(new)
      <4>1. ASSUME ~(0 \in {bid, ask}) PROVE quote = [bid |-> bid, ask |-> ask]
        BY <4>1 DEF Current
      <4>2. /\ new.position.size = Signed(order.side, order.amount)
            /\ new.position.num = IF order.side = "buy" THEN ask ELSE bid
            /\ new.tp = order.tp /\ new.sl = order.sl
        BY <2>3, <2>5
      <4> QED
        BY <2>1, <4>1, <4>2, OpensAtDistances
    <3>2. sim'.oneSided = (0 \in {bid, ask})
      BY <1>2, <2>5
    <3>3. (engine.position.size # 0 /\ ~sim.oneSided => AtDistances(engine))'
      BY <3>1, <3>2 DEF AtDistances
    <3>4. Current(sim.book, sim.quote)'
      BY <1>2 DEF Current
    <3> QED
      BY <2>5, <3>3, <3>4 DEF LevelInv
  <2> QED
    BY <2>3, <2>4, <2>5
<1> QED
  BY <1>3, <1>4

Closes == engine.position.size # 0 /\ engine'.position.size = 0 /\ ~sim.oneSided

LEMMA LevelStep ==
  ASSUME SimInv, ReplayInv, LevelInv, [Next]_vars
  PROVE  LevelInv' /\ (Closes => RealizesLevel(engine, engine'))
<1>0. /\ DOMAIN sim = {"pc", "book", "quote", "signal", "oneSided"}
      /\ sim.book \in Books /\ sim.quote \in Quotes /\ EngineInv(engine)
      /\ Current(sim.book, sim.quote)
      /\ engine.position.size # 0 /\ ~sim.oneSided => AtDistances(engine)
  BY DEF SimInv, SimTypes, ReplayInv, LevelInv
<1>1. ASSUME NEW type, Takes(type)
      PROVE  Head(reader.out) \in Events /\ Head(reader.out).type = type
  <2>1. reader.out \in Seq(Events) /\ reader.out # <<>>
    BY <1>1 DEF SimInv, SimTypes, Takes
  <2> QED
    BY <1>1, <2>1, HeadTailProperties DEF Takes
<1>2. CASE HandleBook
  <2> PICK levels : levels = Head(reader.out).levels
    OBVIOUS
  <2> PICK book : book = ApplyUpdate(sim.book, levels)
    OBVIOUS
  <2> PICK quote : quote = [bid |-> BestBid(book), ask |-> BestAsk(book)]
    OBVIOUS
  <2>1. levels \in Seq(Levels)
    <3>1. Head(reader.out) \in Events /\ Head(reader.out).type = "book"
      BY <1>1, <1>2 DEF HandleBook
    <3> QED
      BY <3>1 DEF Events, Trades
  <2>2. book \in Books
    BY <1>0, <2>1, UpdateSteps
  <2>3. quote \in Quotes /\ Current(book, quote)
    BY <2>2, BestPrices DEF Quotes, Current
  <2>4. CASE quote.bid > 0 /\ quote.ask > 0
    <3>1. Trade(engine, book, quote)
      BY <1>2, <2>4 DEF HandleBook
    <3> QED
      BY <1>0, <2>2, <2>3, <3>1, TradeLevels DEF Closes
  <2>5. CASE ~(quote.bid > 0 /\ quote.ask > 0)
    <3>1. sim' = [sim EXCEPT !.book = book] /\ engine' = engine
      BY <1>2, <2>5 DEF HandleBook
    <3>2. sim'.book = book /\ sim'.oneSided = sim.oneSided
      BY <1>0, <3>1
    <3>3. 0 \in {BestBid(book), BestAsk(book)}
      <4> PICK bid, ask \in Nat : bid = BestBid(book) /\ ask = BestAsk(book)
        BY <2>2, BestPrices
      <4>1. ~(bid > 0 /\ ask > 0)
        BY <2>5
      <4> QED
        BY <4>1
    <3>4. Current(sim.book, sim.quote)'
      BY <3>2, <3>3 DEF Current
    <3>5. (engine.position.size # 0 /\ ~sim.oneSided => AtDistances(engine))'
      BY <1>0, <3>1, <3>2 DEF AtDistances
    <3> QED
      BY <3>1, <3>4, <3>5 DEF LevelInv, Closes
  <2> QED
    BY <2>4, <2>5
<1>3. CASE HandleTrade
  <2>1. CASE sim.quote = NoQuote
    BY <1>3, <2>1 DEF HandleTrade, LevelInv, Closes, AtDistances, Current
  <2>2. CASE sim.quote # NoQuote
    <3> PICK price : price = Head(reader.out).price
      OBVIOUS
    <3> PICK e : e = UpdateLastPrice(engine, price)
      OBVIOUS
    <3>1. price \in Nat
      <4>1. Head(reader.out) \in Events /\ Head(reader.out).type = "trade"
        BY <1>1, <1>3 DEF HandleTrade
      <4> QED
        BY <4>1 DEF Events, Trades
    <3>2. EngineInv(e)
      BY <1>0, <3>1, PriceKeepsEngine
    <3>3. e.position = engine.position /\ e.tp = engine.tp /\ e.sl = engine.sl
          /\ e.realized = engine.realized
      <4>1. engine \in Engines
        BY <1>0 DEF EngineInv
      <4> QED
        BY ONLY <4>1, e = UpdateLastPrice(engine, price) DEF UpdateLastPrice, Engines
    <3>4. Trade(e, sim.book, sim.quote)
      BY <1>3, <2>2 DEF HandleTrade
    <3>5. e.position.size # 0 /\ ~sim.oneSided => AtDistances(e)
      BY <1>0, <3>3 DEF AtDistances
    <3>6. /\ LevelInv'
          /\ e.position.size # 0 /\ engine'.position.size = 0 /\ ~sim.oneSided
               => RealizesLevel(e, engine')
      BY <1>0, <3>2, <3>4, <3>5, TradeLevels
    <3> QED
      BY <3>3, <3>6 DEF Closes, RealizesLevel
  <2> QED
    BY <2>1, <2>2
<1>4. CASE ~HandleBook /\ ~HandleTrade
  <2>1. engine' = engine
    BY <1>4 DEF Next, Reader, ReadBook, ReadTrade, SkipRow, ReadError, ReadEnd, CloseErrCh, CloseEventCh,
         Simulate, EventsClosed, ErrClosed, ErrReceived, NoConfig, SendSigterm, RunMainLoop,
         PrintSummary, MainSignals, WaitForShutdownSignal, UserSignal, simVars, vars
  <2>2. sim' = sim \/ \E pc : sim' = [sim EXCEPT !.pc = pc]
    BY <1>4 DEF Next, Reader, ReadBook, ReadTrade, SkipRow, ReadError, ReadEnd, CloseErrCh, CloseEventCh,
         Simulate, EventsClosed, ErrClosed, ErrReceived, NoConfig, SendSigterm, Finish, RunMainLoop,
         PrintSummary, MainSignals, WaitForShutdownSignal, UserSignal, simVars, vars
  <2>3. sim'.book = sim.book /\ sim'.quote = sim.quote /\ sim'.oneSided = sim.oneSided
    BY <1>0, <2>2
  <2>4. Current(sim.book, sim.quote)'
    BY <1>0, <2>3 DEF Current
  <2>5. (engine.position.size # 0 /\ ~sim.oneSided => AtDistances(engine))'
    BY <1>0, <2>1, <2>3 DEF AtDistances
  <2>6. ~Closes
    BY <2>1 DEF Closes
  <2> QED
    BY <2>4, <2>5, <2>6 DEF LevelInv
<1> QED
  BY <1>2, <1>3, <1>4

LEMMA InitLevels == Init => LevelInv
<1> SUFFICES ASSUME Init PROVE LevelInv
  OBVIOUS
<1>1. sim.book = [bid |-> {}, ask |-> {}] /\ engine.position.size = 0
  BY DEF Init, NewReplayExecutionEngine, Flat
<1>2. 0 \in {BestBid(sim.book), BestAsk(sim.book)}
  BY <1>1 DEF BestBid
<1> QED
  BY <1>1, <1>2 DEF LevelInv, Current

(***************************************************************************)
(* Simulation.ClosingsRealizeLevels: a closing realizes the distance of a  *)
(* level from the entry price, whatever has become of the book.            *)
(***************************************************************************)
THEOREM LevelsRealized == BacktestSpec => ClosingsRealizeLevels
<1> DEFINE Inv == SimInv /\ ReplayInv /\ LevelInv
           Step == Closes => RealizesLevel(engine, engine')
<1>1. BacktestInit => Inv
  BY InitSimulation, InitReplay, InitLevels DEF BacktestInit
<1>2. Inv /\ [BacktestNext]_backtestVars => Inv'
  BY SimulationStep, ReplayStep, LevelStep, BacktestMoves
<1>3. Inv /\ [BacktestNext]_backtestVars => [Step]_vars
  BY LevelStep, BacktestMoves
<1>4. [][Step]_vars => ClosingsRealizeLevels
  BY DEF ClosingsRealizeLevels, Closes, RealizesLevel
<1> QED
  BY <1>1, <1>2, <1>3, <1>4, PTL DEF BacktestSpec
-----------------------------------------------------------------------------
USE OptimizerAssumption, ServerAssumption

(***************************************************************************)
(* The jobs.                                                               *)
(***************************************************************************)
Places == {"poll", "folds", "hung", "open", "write", "remove"}
Statuses == {"passed", "failed", "skipped"}

JobTypes ==
    /\ jobFile \in Nat \cup {NoFile}
    /\ monitor \in [pc : {"idle", "writing"}, job : Nat, linked : BOOLEAN]
    /\ optimizer \in [pc : Places, job : Nat, results : Seq(Statuses)]

\* What the optimizer works on is the job in the file, or the file has changed
\* under it, and then both the old and the new contents are accounted for.
AtWork ==
    optimizer.pc # "poll" =>
        /\ Writing \subseteq overlapped
        /\ jobFile > 0 => jobFile = optimizer.job \/ jobFile \in overlapped \cup refused
        /\ optimizer.job > 0 => jobFile = optimizer.job \/ optimizer.job \in replaced

\* A polling optimizer has no job; one about to remove the file has run its job
\* or read none.
AtRest ==
    /\ optimizer.pc = "poll" => optimizer.job = 0
    /\ optimizer.pc = "remove" => optimizer.job = 0 \/ optimizer.job \in ran

\* A job that is being written has an empty file, or one that the optimizer took
\* away while it was at work.
HalfWritten ==
    monitor.pc = "writing" =>
        IF monitor.linked THEN jobFile = Empty ELSE monitor.job \in overlapped

JobInv == JobTypes /\ AtWork /\ AtRest /\ HalfWritten /\ JobsAreRun

LEMMA InitJobs == TuningInit => JobInv
<1> SUFFICES ASSUME TuningInit PROVE JobInv
  OBVIOUS
<1> USE DEF TuningInit, Polling, NoFile
<1>1. JobTypes
  BY DEF JobTypes, Places
<1>2. AtWork /\ AtRest /\ HalfWritten
  BY DEF AtWork, AtRest, HalfWritten
<1>3. JobsAreRun
  BY DEF JobsAreRun
<1> QED
  BY <1>1, <1>2, <1>3 DEF JobInv

\* A job is written in two steps: over whatever the file held, then into it.
LEMMA MonitorKeeps == JobInv /\ DriftMonitor => JobInv'
<1> SUFFICES ASSUME JobInv, DriftMonitor PROVE JobInv'
  OBVIOUS
<1> USE DEF JobInv, NoFile, Empty, Writing
<1>1. CASE TriggerOptimization
  <2> USE <1>1 DEF TriggerOptimization
  <2>1. JobTypes'
    BY DEF JobTypes
  <2>2. AtWork'
    BY DEF JobTypes, AtWork
  <2>3. AtRest' /\ HalfWritten'
    BY DEF JobTypes, AtRest, HalfWritten
  <2>4. JobsAreRun'
    <3> SUFFICES ASSUME NEW job \in 1 .. monitor'.job
                 PROVE  \/ job \in Writing'
                        \/ jobFile' = job
                        \/ optimizer'.job = job
                        \/ job \in ran'
                        \/ job \in replaced' \cup overlapped' \cup refused'
      BY DEF JobsAreRun
    <3>1. CASE job = monitor.job + 1
      BY <3>1 DEF JobTypes
    <3>2. CASE job \in 1 .. monitor.job
      BY <3>2 DEF JobTypes, JobsAreRun
    <3> QED
      BY <3>1, <3>2 DEF JobTypes
  <2> QED
    BY <2>1, <2>2, <2>3, <2>4
<1>2. CASE WriteJob
  <2> USE <1>2 DEF WriteJob, history
  <2>1. JobTypes'
    BY DEF JobTypes
  <2>2. AtWork'
    BY DEF JobTypes, AtWork, HalfWritten
  <2>3. AtRest' /\ HalfWritten'
    BY DEF JobTypes, AtRest, HalfWritten
  <2>4. JobsAreRun'
    BY DEF JobTypes, JobsAreRun, HalfWritten
  <2> QED
    BY <2>1, <2>2, <2>3, <2>4
<1>3. CASE OpenJobFails
  <2> USE <1>3 DEF OpenJobFails
  <2>1. JobTypes'
    BY DEF JobTypes
  <2>2. AtWork' /\ AtRest' /\ HalfWritten'
    BY DEF JobTypes, AtWork, AtRest, HalfWritten
  <2>3. JobsAreRun'
    <3>1. ASSUME NEW job \in 1 .. monitor'.job
          PROVE  job = monitor.job + 1 \/ job \in 1 .. monitor.job
      BY DEF JobTypes
    <3> QED
      BY <3>1 DEF JobTypes, JobsAreRun
  <2> QED
    BY <2>1, <2>2, <2>3
<1>4. CASE WriteJobFails
  <2> USE <1>4 DEF WriteJobFails
  <2>1. JobTypes'
    BY DEF JobTypes
  <2>2. AtWork' /\ AtRest' /\ HalfWritten'
    BY DEF JobTypes, AtWork, AtRest, HalfWritten
  <2>3. JobsAreRun'
    BY DEF JobTypes, JobsAreRun
  <2> QED
    BY <2>1, <2>2, <2>3
<1> QED
  BY <1>1, <1>2, <1>3, <1>4 DEF DriftMonitor

\* The optimizer reads the file, works, and removes the file.
LEMMA OptimizerKeeps == JobInv /\ (RunOptimizer \/ Crash) => JobInv'
<1> SUFFICES ASSUME JobInv, RunOptimizer \/ Crash PROVE JobInv'
  OBVIOUS
<1> USE DEF JobInv, NoFile, Empty, Writing, jobVars, history
<1>1. CASE ReadJob
  <2> USE <1>1 DEF ReadJob, Polling
  <2>1. JobTypes'
    <3>1. <<>> \in Seq(Statuses)
      OBVIOUS
    <3>2. optimizer' \in [pc : Places, job : Nat, results : Seq(Statuses)]
      BY <3>1 DEF JobTypes, Places
    <3> QED
      BY <3>2 DEF JobTypes
  <2>2. AtWork' /\ AtRest' /\ HalfWritten'
    BY DEF JobTypes, AtWork, AtRest, HalfWritten
  <2>3. JobsAreRun'
    BY DEF JobTypes, JobsAreRun, AtRest
  <2> QED
    BY <2>1, <2>2, <2>3
<1>5. CASE ReadJobFails
  <2> USE <1>5 DEF ReadJobFails, Polling
  <2>1. JobTypes'
    <3>1. <<>> \in Seq(Statuses)
      OBVIOUS
    <3>2. optimizer' \in [pc : Places, job : Nat, results : Seq(Statuses)]
      BY <3>1 DEF JobTypes, Places
    <3> QED
      BY <3>2 DEF JobTypes
  <2>2. AtWork' /\ AtRest' /\ HalfWritten'
    BY DEF JobTypes, AtWork, AtRest, HalfWritten
  <2>3. JobsAreRun'
    BY DEF JobTypes, JobsAreRun, AtRest
  <2> QED
    BY <2>1, <2>2, <2>3
<1>2. CASE RemoveJob
  <2> USE <1>2 DEF RemoveJob, Polling
  <2>1. JobTypes'
    <3>1. <<>> \in Seq(Statuses)
      OBVIOUS
    <3>2. optimizer' \in [pc : Places, job : Nat, results : Seq(Statuses)]
      BY <3>1 DEF Places
    <3>3. monitor' \in [pc : {"idle", "writing"}, job : Nat, linked : BOOLEAN]
      BY DEF JobTypes
    <3> QED
      BY <3>2, <3>3 DEF JobTypes
  <2>2. AtWork' /\ AtRest' /\ HalfWritten'
    BY DEF JobTypes, AtWork, AtRest, HalfWritten
  <2>3. JobsAreRun'
    BY DEF JobTypes, JobsAreRun, AtRest, AtWork
  <2> QED
    BY <2>1, <2>2, <2>3
<1>3. CASE Crash
  <2> USE <1>3 DEF Crash, Polling
  <2>1. JobTypes'
    BY DEF JobTypes, Places
  <2>2. AtWork' /\ AtRest' /\ HalfWritten'
    BY DEF JobTypes, AtWork, AtRest, HalfWritten
  <2>3. JobsAreRun'
    BY DEF JobTypes, JobsAreRun, AtRest, AtWork
  <2> QED
    BY <2>1, <2>2, <2>3
\* All other steps keep the job and the file; the job is recorded before the
\* file is removed.
<1>4. CASE \/ Fold \/ RunAborted \/ FoldHangs \/ Decide
           \/ OpenParams \/ WriteParams \/ SaveFails
  <2>1. /\ jobFile' = jobFile /\ monitor' = monitor
        /\ replaced' = replaced /\ overlapped' = overlapped /\ refused' = refused
        /\ ran \subseteq ran'
        /\ optimizer.pc # "poll"
    BY <1>4 DEF Fold, RunAborted, FoldHangs, Decide, OpenParams, WriteParams, SaveFails
  <2>2. /\ optimizer' \in [pc : Places \ {"poll"}, job : {optimizer.job},
                           results : Seq(Statuses)]
        /\ optimizer'.pc = "remove" => optimizer.job \in ran'
    <3>1. CASE Fold
      <4> PICK status \in Statuses :
                   optimizer' = [optimizer EXCEPT !.results = Append(@, status)]
        BY <3>1 DEF Fold, Statuses
      <4>1. optimizer.results \in Seq(Statuses)
        BY DEF JobTypes
      <4>2. Append(optimizer.results, status) \in Seq(Statuses)
        BY <4>1
      <4> QED
        BY <3>1, <4>2 DEF Fold, JobTypes, Places
    <3>2. CASE FoldHangs \/ OpenParams
      BY <3>2 DEF FoldHangs, OpenParams, JobTypes, Places
    <3>3. CASE Decide
      BY <3>3 DEF Decide, JobTypes, Places
    <3>4. CASE WriteParams \/ SaveFails \/ RunAborted
      BY <3>4 DEF WriteParams, SaveFails, RunAborted, JobTypes, Places
    <3> QED
      BY <1>4, <3>1, <3>2, <3>3, <3>4
  <2>3. optimizer'.job = optimizer.job /\ optimizer'.pc # "poll" /\ optimizer' \in
            [pc : Places, job : Nat, results : Seq(Statuses)]
    BY <2>2 DEF JobTypes, Places
  <2>4. JobTypes' /\ HalfWritten'
    BY <2>1, <2>3 DEF JobTypes, HalfWritten
  <2>5. AtWork' /\ AtRest'
    BY <2>1, <2>2, <2>3 DEF AtWork, AtRest
  <2>6. JobsAreRun'
    BY <2>1, <2>3 DEF JobsAreRun
  <2> QED
    BY <2>4, <2>5, <2>6
<1> QED
  BY <1>1, <1>2, <1>3, <1>4, <1>5 DEF RunOptimizer

LEMMA BotKeepsJobs ==
  ASSUME JobInv, Watcher \/ Dereference \/ Restart \/ UNCHANGED tuningVars
  PROVE  JobInv'
<1>1. UNCHANGED <<jobFile, monitor, optimizer, ran, replaced, overlapped, refused>>
  BY DEF Watcher, StartWatching, TakeEvent, ReloadConfig, ReloadFails, Dereference, Restart,
         tuningVars, jobVars, history
<1> QED
  BY <1>1 DEF JobInv, JobTypes, AtWork, AtRest, HalfWritten, JobsAreRun, Writing

LEMMA JobStep == JobInv /\ [TuningNext]_tuningVars => JobInv'
BY MonitorKeeps, OptimizerKeeps, BotKeepsJobs DEF TuningNext

\* No job is lost but in the ways JobsAreRun names, whatever crashes.
THEOREM JobsSurvive == TuningSpec => []JobsAreRun
<1>1. JobInv => JobsAreRun
  BY DEF JobInv
<1> QED
  BY InitJobs, JobStep, <1>1, PTL DEF TuningSpec

-----------------------------------------------------------------------------
(***************************************************************************)
(* The parameters.                                                         *)
(***************************************************************************)
ParamsInv ==
    /\ events \in Nat /\ DOMAIN bot = {"pc", "trade", "strategy"}
    /\ ConfigFollowsFile

\* While the watcher runs a change is an event, before that it goes unseen.
LEMMA ChangeIsDue ==
  ASSUME ParamsInv, NEW contents, ChangeParams(contents), UNCHANGED <<bot, watcher>>
  PROVE  ParamsInv'
<1>1. events' \in Nat /\ (watcher # "off" => events' > 0)
  BY DEF ParamsInv, ChangeParams
<1>2. watcher = "off" => unseen'
  BY Zenon DEF ChangeParams
<1> QED
  BY <1>1, <1>2 DEF ParamsInv, ConfigFollowsFile, Up

LEMMA ParamsStep == ParamsInv /\ [TuningNext]_tuningVars => ParamsInv'
<1> SUFFICES ASSUME ParamsInv, [TuningNext]_tuningVars PROVE ParamsInv'
  OBVIOUS
<1> USE DEF ParamsInv, ConfigFollowsFile, Up
<1>1. CASE UNCHANGED <<paramVars, botVars>>
  BY <1>1 DEF paramVars, botVars
<1>2. CASE OpenParams \/ WriteParams
  BY <1>2, ChangeIsDue DEF OpenParams, WriteParams, botVars
<1>3. CASE StartWatching
  BY <1>3 DEF StartWatching, paramVars
<1>4. CASE TakeEvent
  BY <1>4 DEF TakeEvent
<1>5. CASE ReloadConfig
  <2>1. UNCHANGED <<params, events>> /\ bot'.trade = Loaded(params) /\ DOMAIN bot' = DOMAIN bot
    BY <1>5 DEF ReloadConfig
  <2>2. bot'.trade = Loaded(params)'
    BY <2>1 DEF Loaded
  <2> QED
    BY <2>1, <2>2
<1>6. CASE ReloadFails
  BY <1>6 DEF ReloadFails
<1>7. CASE Dereference
  BY <1>7 DEF Dereference
<1>8. CASE Restart
  <2>1. UNCHANGED <<params, events>> /\ bot' = Started(params)
    BY <1>8 DEF Restart
  <2> QED
    BY <2>1 DEF Started
<1>9. UNCHANGED <<paramVars, botVars>> \/ OpenParams \/ WriteParams \/ Watcher \/ Dereference \/ Restart
  BY DEF TuningNext, DriftMonitor, TriggerOptimization, OpenJobFails, WriteJob, WriteJobFails,
         RunOptimizer, ReadJob, ReadJobFails, Fold, RunAborted, FoldHangs, Decide, SaveFails,
         RemoveJob, Crash, tuningVars
<1> QED
  BY <1>1, <1>2, <1>3, <1>4, <1>5, <1>6, <1>7, <1>8, <1>9 DEF Watcher

\* From whatever file the bot starts with, a change of the parameters reaches
\* its global configuration or a reload is due, but for the two overlooked kinds.
THEOREM ConfigFollows == TuningSpec => []ConfigFollowsFile
<1>1. TuningInit => ParamsInv
  BY DEF TuningInit, ParamsInv, ConfigFollowsFile, Started
<1>2. ParamsInv => ConfigFollowsFile
  BY DEF ParamsInv
<1> QED
  BY <1>1, <1>2, ParamsStep, PTL DEF TuningSpec
-----------------------------------------------------------------------------
(***************************************************************************)
(* The server.  The inductive invariant: trials that were not launched are *)
(* new, and there are as many results as trials that are done, one of each.*)
(***************************************************************************)
Result == [trial : Trials, error : BOOLEAN]
Finished == {t \in Trials : trials[t].state = "done"}

PoolTypes ==
    /\ trials \in [Trials -> [state : {"new", "running", "panicking", "done"}, lines : Int]]
    /\ next \in Nat \ {0}
    /\ results \in Seq(Result)

Launched == \A t \in Trials : t >= next => trials[t].state = "new"

OneResultEach ==
    /\ Len(results) = Cardinality(Finished)
    /\ \A t \in Finished : \E i \in DOMAIN results : results[i].trial = t

PoolInv ==
    /\ PoolTypes /\ Launched /\ OneResultEach
    /\ Cardinality(Busy) <= Workers
    /\ stdout = "results" => Finished = Trials

LEMMA TrialSets ==
  /\ IsFiniteSet(Trials) /\ Cardinality(Trials) = NumTrials
  /\ IsFiniteSet(Busy) /\ Cardinality(Busy) \in Nat
  /\ IsFiniteSet(Finished) /\ Cardinality(Finished) \in Nat
  /\ Workers \in Nat \ {0}
<1>1. IsFiniteSet(Trials) /\ Cardinality(Trials) = NumTrials
  <2>1. IsFiniteSet(1 .. NumTrials) /\ Cardinality(1 .. NumTrials) = IF 1 > NumTrials THEN 0 ELSE NumTrials - 1 + 1
    BY FS_Interval
  <2> QED
    BY <2>1 DEF Trials
<1>2. Busy \in SUBSET Trials /\ Finished \in SUBSET Trials
  BY DEF Busy, Finished
<1>3. Workers \in Nat \ {0}
  BY DEF Workers
<1> QED
  BY <1>1, <1>2, <1>3, FS_Subset, FS_CardinalityType

LEMMA PoolAnswers == PoolInv => EachTrialAnswered
  BY TrialSets DEF PoolInv, OneResultEach, EachTrialAnswered

LEMMA InitPool == ServerInit => PoolInv
<1> SUFFICES ASSUME ServerInit PROVE PoolInv
  OBVIOUS
<1>1. PoolTypes
  <2>1. results \in Seq(Result) /\ next \in Nat \ {0}
    BY DEF ServerInit
  <2> QED
    BY <2>1 DEF ServerInit, PoolTypes
<1>2. Busy = {} /\ Finished = {}
  BY DEF ServerInit, Busy, Finished
<1>3. Launched /\ OneResultEach
  BY <1>2, FS_EmptySet DEF ServerInit, Launched, OneResultEach
<1> QED
  BY <1>1, <1>2, <1>3, FS_EmptySet, TrialSets DEF ServerInit, PoolInv

\* A new trial takes a slot.
LEMMA LaunchKeeps == PoolInv /\ Launch => PoolInv'
<1> SUFFICES ASSUME PoolInv, Launch PROVE PoolInv'
  OBVIOUS
<1>1. next \in Trials /\ trials[next].state = "new"
  BY DEF PoolInv, PoolTypes, Launched, Launch, Trials
<1>2. /\ trials' = [trials EXCEPT ![next].state = "running"]
      /\ next' = next + 1 /\ results' = results /\ stdout' = stdout
      /\ Cardinality(Busy) < Workers
  BY DEF Launch, pipes
<1>3. Finished' = Finished /\ Busy' = Busy \cup {next}
  BY <1>1, <1>2 DEF PoolInv, PoolTypes, Finished, Busy
<1>4. Cardinality(Busy') <= Cardinality(Busy) + 1 /\ Cardinality(Busy') \in Nat
  <2>1. IsFiniteSet(Busy) /\ Cardinality(Busy) \in Nat
    BY TrialSets
  <2>2. Cardinality(Busy \cup {next}) = IF next \in Busy THEN Cardinality(Busy)
                                        ELSE Cardinality(Busy) + 1
    BY <2>1, FS_AddElement
  <2> HIDE DEF Busy
  <2> QED
    BY <1>3, <2>1, <2>2
<1>5. PoolTypes'
  <2>1. trials' \in [Trials -> [state : {"new", "running", "panicking", "done"}, lines : Int]]
    BY <1>1, <1>2 DEF PoolInv, PoolTypes
  <2>2. next' \in Nat \ {0} /\ results' \in Seq(Result)
    BY <1>2 DEF PoolInv, PoolTypes
  <2> QED
    BY <2>1, <2>2 DEF PoolTypes
<1>6. Launched'
  BY <1>1, <1>2 DEF PoolInv, PoolTypes, Launched, Trials
<1>7. Workers' = Workers /\ Workers \in Nat
  BY TrialSets DEF Workers
<1> QED
  BY <1>2, <1>3, <1>4, <1>5, <1>6, <1>7, TrialSets DEF PoolInv, OneResultEach

\* A trial that ends gives its slot back and leaves one result.
LEMMA EndKeeps ==
  ASSUME PoolInv, NEW t \in Trials, trials[t].state \in {"running", "panicking"},
         NEW failed \in BOOLEAN,
         trials' = [trials EXCEPT ![t].state = "done"],
         results' = Append(results, [trial |-> t, error |-> failed]),
         UNCHANGED <<stdout, next>>
  PROVE  PoolInv'
<1> DEFINE result == [trial |-> t, error |-> failed]
<1>1. result \in Result /\ result.trial = t
  BY DEF Result
<1> HIDE DEF result
<1>2. results \in Seq(Result)
  BY DEF PoolInv, PoolTypes
<1>3. PoolTypes'
  <2>1. results' \in Seq(Result)
    BY <1>1, <1>2 DEF result
  <2> QED
    BY <2>1 DEF PoolInv, PoolTypes
<1>4. Finished' = Finished \cup {t} /\ t \notin Finished /\ Busy' \in SUBSET Busy
  BY DEF PoolInv, PoolTypes, Finished, Busy
<1>5. Cardinality(Finished') = Cardinality(Finished) + 1
  BY <1>4, TrialSets, FS_AddElement
<1>6. Cardinality(Busy') <= Cardinality(Busy) /\ Cardinality(Busy') \in Nat
  BY <1>4, TrialSets, FS_Subset, FS_CardinalityType
<1>7. Launched'
  BY DEF PoolInv, PoolTypes, Launched, Trials
<1>8. OneResultEach'
  <2>1. /\ results' = Append(results, result)
        /\ DOMAIN results' = 1 .. Len(results) + 1
        /\ Len(results') = Len(results) + 1
        /\ results'[Len(results) + 1] = result
        /\ \A i \in 1 .. Len(results) : results'[i] = results[i]
        /\ Len(results) \in Nat /\ DOMAIN results = 1 .. Len(results)
    BY <1>1, <1>2 DEF result
  <2>2. Len(results') = Cardinality(Finished')
    BY <1>5, <2>1 DEF PoolInv, OneResultEach
  <2>3. ASSUME NEW u \in Finished'
        PROVE  \E i \in DOMAIN results' : results'[i].trial = u
    <3>1. CASE u = t
      BY <1>1, <2>1, <3>1
    <3>2. CASE u \in Finished
      <4>1. PICK i \in 1 .. Len(results) : results[i].trial = u
        BY <2>1, <3>2 DEF PoolInv, OneResultEach
      <4> QED
        BY <2>1, <4>1
    <3> QED
      BY <1>4, <2>3, <3>1, <3>2
  <2> QED
    BY <2>2, <2>3 DEF OneResultEach
<1>9. Workers' = Workers /\ Workers \in Nat
  BY TrialSets DEF Workers
<1>10. stdout' = "results" => Finished' = Trials
  BY <1>4 DEF PoolInv
<1> QED
  BY <1>3, <1>6, <1>7, <1>8, <1>9, <1>10, TrialSets DEF PoolInv

\* Log lines and panics keep the slot.
LEMMA RunKeeps ==
  ASSUME PoolInv, NEW t \in Trials, TrialLogs(t) \/ TrialPanics(t)
  PROVE  PoolInv'
<1>1. /\ trials[t].state = "running" /\ UNCHANGED <<stdout, next, results>>
      /\ \/ trials' = [trials EXCEPT ![t].lines = @ - 1]
         \/ trials' = [trials EXCEPT ![t].state = "panicking"]
  BY DEF TrialLogs, TrialPanics, InState, pipes
<1>2. Finished' = Finished /\ Busy' = Busy
  BY <1>1 DEF PoolInv, PoolTypes, Finished, Busy
<1>3. trials' \in [Trials -> [state : {"new", "running", "panicking", "done"}, lines : Int]]
  <2>1. CASE trials' = [trials EXCEPT ![t].lines = @ - 1]
    <3>1. trials[t].lines - 1 \in Int
      BY DEF PoolInv, PoolTypes
    <3> QED
      BY <2>1, <3>1 DEF PoolInv, PoolTypes
  <2>2. CASE trials' = [trials EXCEPT ![t].state = "panicking"]
    BY <2>2 DEF PoolInv, PoolTypes
  <2> QED
    BY <1>1, <2>1, <2>2
<1>4. \A u \in Trials : trials[u].state = "new" => trials'[u].state = "new"
  BY <1>1 DEF PoolInv, PoolTypes
<1>5. PoolTypes' /\ Launched'
  BY <1>1, <1>3, <1>4 DEF PoolInv, PoolTypes, Launched
<1> QED
  BY <1>1, <1>2, <1>5 DEF PoolInv, OneResultEach, Workers

LEMMA PoolNext == PoolInv /\ [ServerNext]_serverVars => PoolInv'
<1> SUFFICES ASSUME PoolInv, [ServerNext]_serverVars PROVE PoolInv'
  OBVIOUS
<1>1. ASSUME NEW t \in Trials, TrialEnds(t) PROVE PoolInv'
  BY <1>1, EndKeeps DEF TrialEnds, InState, pipes
<1>2. ASSUME NEW t \in Trials, Recover(t) PROVE PoolInv'
  BY <1>2, EndKeeps DEF Recover, InState
<1>3. ASSUME NEW t \in Trials, TrialLogs(t) \/ TrialPanics(t) PROVE PoolInv'
  BY <1>3, RunKeeps
\* The server prints results only when all trials are done; the pool does not
\* change in any other step.
<1>4. CASE UNCHANGED pool /\ (stdout' = "results" => stdout = "results" \/ Finished = Trials)
  BY <1>4 DEF pool, PoolInv, PoolTypes, Launched, OneResultEach, Finished, Busy, Workers
<1>5. CASE PrintResults
  BY <1>4, <1>5 DEF PrintResults, Finished
<1>6. CASE \/ PrintReady \/ BootFails \/ InvalidRequest \/ LoadFails \/ Load \/ EndOfInput
           \/ BatchSimulator \/ UNCHANGED serverVars
  BY <1>4, <1>6 DEF PrintReady, BootFails, ScanRequest, InvalidRequest, LoadFails, Load,
                    EndOfInput, BatchSimulator, SendRequest, GetResults, GetError, GetNothing,
                    ReadStderr, StderrEnds, CloseStdin, Terminated, Kill, Readline, pipes,
                    serverVars, pool
<1> QED
  BY <1>1, <1>2, <1>3, <1>5, <1>6, LaunchKeeps DEF ServerNext, Serve, Trial

\* EachTrialAnswered: no more goroutines run than there are slots, and printed
\* results hold one of each trial, whichever of them panic.
THEOREM TrialsAnswered == ServerSpec => []EachTrialAnswered
<1>1. ServerSpec => []PoolInv
  BY InitPool, PoolNext, PTL DEF ServerSpec
<1> QED
  BY <1>1, PoolAnswers, PTL
-----------------------------------------------------------------------------
(***************************************************************************)
(* First in, first out.  The units of one side are a fold over the trades. *)
(***************************************************************************)
\* s \o t, as an operator the provers leave alone.
Join(s, t) == s \o t

LEMMA JoinType ==
  ASSUME NEW s \in Seq(Int), NEW t \in Seq(Int)
  PROVE  Join(s, t) \in Seq(Int) /\ Len(Join(s, t)) = Len(s) + Len(t)
BY ConcatProperties DEF Join

LEMMA JoinNone == \A s \in Seq(Int) : Join(s, <<>>) = s /\ Join(<<>>, s) = s
BY DEF Join

LEMMA JoinAssociative ==
  \A s, t, u \in Seq(Int) : Join(Join(s, t), u) = Join(s, Join(t, u))
<1> SUFFICES ASSUME NEW s \in Seq(Int), NEW t \in Seq(Int), NEW u \in Seq(Int)
             PROVE  (s \o t) \o u = s \o (t \o u)
  BY DEF Join
<1> QED
  OBVIOUS

LEMMA SumJoin ==
  \A s, t \in Seq(Int) : SeqSum(Join(s, t)) = SeqSum(s) + SeqSum(t)
BY SumConcat DEF Join

LEMMA UnitsOfType ==
  ASSUME NEW Of, Tradable(Of), NEW t \in Of
  PROVE  /\ UnitsOf(t) \in Seq(Int) /\ Len(UnitsOf(t)) = t.size
         /\ \A k \in 1 .. t.size : UnitsOf(t)[k] = t.price
<1>1. t.size \in Nat /\ t.price \in Int
  BY DEF Tradable
<1> QED
  BY <1>1 DEF UnitsOf

WithUnits(units, t, side) == IF t.side = side THEN units \o UnitsOf(t) ELSE units
UnitSteps(Of, side) == [t \in Of |-> [units \in Seq(Int) |-> WithUnits(units, t, side)]]

LEMMA UnitsUnfold ==
  ASSUME NEW Of, Tradable(Of), NEW side, NEW s \in Seq(Of)
  PROVE  \E it : /\ Units(s, side) = it[1 .. Len(s)]
                 /\ Unfolds(it, s, Of, Seq(Int), UnitSteps(Of, side), <<>>)
<1> PICK S : S = 1 .. Len(s)
  OBVIOUS
<1> PICK W, V, P, base : W = Of /\ V = Seq(Int) /\ P = UnitSteps(Of, side) /\ base = <<>>
  OBVIOUS
<1> DEFINE Eq(h) == h = [T \in SUBSET S |->
                           IF T = {} THEN <<>> ELSE WithUnits(h[T \ {Max(T)}], s[Max(T)], side)]
<1>1. /\ DOMAIN s = S /\ s \in Seq(W) /\ Folds(W, V, P, base)
      /\ \A x \in W, v \in V : P[x][v] = WithUnits(v, x, side)
  <2>1. \A x \in Of, v \in Seq(Int) : WithUnits(v, x, side) \in Seq(Int)
    BY UnitsOfType, ConcatProperties DEF WithUnits
  <2>2. <<>> \in Seq(Int)
    OBVIOUS
  <2> QED
    BY <2>1, <2>2 DEF UnitSteps, Folds
<1>2. PICK k \in [SUBSET S -> V] :
         /\ k[{}] = base
         /\ \A T \in SUBSET S : T # {} => /\ s[Max(T)] \in W /\ k[T \ {Max(T)}] \in V
                                          /\ k[T] = P[s[Max(T)]][k[T \ {Max(T)}]]
  <2>1. Folds(W, V, P, base) /\ s \in Seq(W)
    BY <1>1
  <2>2. \E k : Unfolding(k, s, W, V, P, base)
    BY ONLY <2>1, UnfoldingExists
  <2> QED
    BY ONLY <2>2, S = 1 .. Len(s) DEF Unfolding
<1>3. Eq(k)
  <2>1. \A T \in SUBSET S : T # {} => k[T] = WithUnits(k[T \ {Max(T)}], s[Max(T)], side)
    BY ONLY <1>1, <1>2
  <2> QED
    BY ONLY <1>1, <1>2, <2>1, base = <<>>
<1> DEFINE it == CHOOSE h : Eq(h)
<1>4. Eq(it)
  <2> HIDE DEF Eq
  <2> QED
    BY <1>3
<1>5. Units(s, side) = it[S]
  BY <1>1 DEF Units, WithUnits, FoldLeft, MapThenFoldSet
<1> HIDE DEF it
<1>6. Unfolds(it, s, W, V, P, base)
  <2>1. it[{}] = base
    BY ONLY <1>1, <1>4, base = <<>>
  <2>2. \A T \in SUBSET S : T # {} => it[T] = WithUnits(it[T \ {Max(T)}], s[Max(T)], side)
    BY ONLY <1>4
  <2> QED
    BY ONLY <1>1, <1>2, <2>1, <2>2, S = 1 .. Len(s) DEF Unfolds
<1> QED
  BY <1>5, <1>6

\* The units of no trade, of any, and of one more.
LEMMA UnitsSteps ==
  ASSUME NEW Of, Tradable(Of), NEW side
  PROVE  /\ Units(<<>>, side) = <<>>
         /\ \A s \in Seq(Of) : Units(s, side) \in Seq(Int)
         /\ \A s \in Seq(Of), x \in Of :
               Units(Append(s, x), side) = WithUnits(Units(s, side), x, side)
<1> PICK F : F = [s \in Seq(Of) |-> Units(s, side)]
  OBVIOUS
<1>1. FoldsBy(F, Of, Seq(Int), UnitSteps(Of, side), <<>>)
  BY UnitsUnfold DEF FoldsBy
<1>2. /\ F[<<>>] = <<>>
      /\ \A s \in Seq(Of) : F[s] \in Seq(Int)
      /\ \A s \in Seq(Of), x \in Of : F[Append(s, x)] = UnitSteps(Of, side)[x][F[s]]
  BY ONLY <1>1, FoldSteps
<1>3. <<>> \in Seq(Of) /\ \A s \in Seq(Of), x \in Of : Append(s, x) \in Seq(Of)
  OBVIOUS
<1> QED
  BY <1>2, <1>3 DEF UnitSteps

LEMMA UnitsType ==
  ASSUME NEW Of, Tradable(Of), NEW s \in Seq(Of), NEW side
  PROVE  Units(s, side) \in Seq(Int)
BY UnitsSteps

LEMMA UnitsMore ==
  ASSUME NEW Of, Tradable(Of), NEW s \in Seq(Of), NEW x \in Of
  PROVE  Units(Append(s, x), x.side) = Join(Units(s, x.side), UnitsOf(x))
<1>1. Units(Append(s, x), x.side) = WithUnits(Units(s, x.side), x, x.side)
  BY UnitsSteps
<1> QED
  BY ONLY <1>1 DEF WithUnits, Join

LEMMA UnitsOther ==
  ASSUME NEW Of, Tradable(Of), NEW s \in Seq(Of), NEW x \in Of, NEW side, x.side # side
  PROVE  Units(Append(s, x), side) = Units(s, side)
<1>1. Units(Append(s, x), side) = WithUnits(Units(s, side), x, side)
  BY UnitsSteps
<1> QED
  BY ONLY <1>1, x.side # side DEF WithUnits

\* The sequence of n times x.
Times(n, x) == [k \in 1 .. n |-> x]

LEMMA TimesType ==
  ASSUME NEW n \in Nat, NEW x \in Int
  PROVE  /\ Times(n, x) \in Seq(Int) /\ Len(Times(n, x)) = n
         /\ \A k \in 1 .. n : Times(n, x)[k] = x
         /\ SeqSum(Times(n, x)) = n * x
<1>1. SeqSum(Times(n, x)) = n * x
  BY SumConstant DEF Times
<1> PICK s : s = [k \in 1 .. n |-> x]
  OBVIOUS
<1>2. s \in Seq(Int) /\ Len(s) = n /\ \A k \in 1 .. n : s[k] = x
  OBVIOUS
<1> QED
  BY <1>1, <1>2 DEF Times

LEMMA TimesSplit ==
  ASSUME NEW n \in Nat, NEW m \in Nat, NEW x \in Int
  PROVE  Times(n + m, x) = Join(Times(n, x), Times(m, x))
<1> PICK s, t, u : s = Times(n, x) /\ t = Times(m, x) /\ u = Times(n + m, x)
  OBVIOUS
<1>1. /\ s \in Seq(Int) /\ Len(s) = n /\ \A k \in 1 .. n : s[k] = x
      /\ t \in Seq(Int) /\ Len(t) = m /\ \A k \in 1 .. m : t[k] = x
      /\ u \in Seq(Int) /\ Len(u) = n + m /\ \A k \in 1 .. n + m : u[k] = x
  <2>1. n + m \in Nat
    OBVIOUS
  <2> QED
    BY <2>1, TimesType
<1>2. /\ s \o t \in Seq(Int) /\ Len(s \o t) = n + m
      /\ \A k \in 1 .. n + m : (s \o t)[k] = IF k <= n THEN s[k] ELSE t[k - n]
  BY ONLY <1>1, ConcatProperties
<1>3. ASSUME NEW k \in 1 .. n + m PROVE (s \o t)[k] = u[k]
  <2>1. CASE k <= n
    BY <1>1, <1>2, <2>1
  <2>2. CASE ~(k <= n)
    <3>1. k - n \in 1 .. m
      BY <2>2
    <3> QED
      BY <1>1, <1>2, <2>2, <3>1
  <2> QED
    BY <2>1, <2>2
<1>4. s \o t = u
  BY ONLY <1>1, <1>2, <1>3, SeqEqual
<1> QED
  BY <1>4 DEF Join

\* What each unit sold pays for the unit bought in its place.
Paired(sold, bought) ==
    [k \in 1 .. Lesser(Len(bought), Len(sold)) |-> sold[k] - bought[k]]

LEMMA PairedType ==
  ASSUME NEW s \in Seq(Int), NEW b \in Seq(Int)
  PROVE  /\ Paired(s, b) \in Seq(Int)
         /\ Len(Paired(s, b)) = Lesser(Len(b), Len(s)) /\ Lesser(Len(b), Len(s)) \in Nat
         /\ \A k \in 1 .. Lesser(Len(b), Len(s)) : Paired(s, b)[k] = s[k] - b[k]
<1> PICK l \in Nat, m \in Nat : l = Len(b) /\ m = Len(s)
  OBVIOUS
<1> PICK n : n = Lesser(l, m)
  OBVIOUS
<1>1. n \in Nat /\ n <= l /\ n <= m
  BY ONLY l \in Nat, m \in Nat, n = Lesser(l, m) DEF Lesser
<1>2. \A k \in 1 .. n : s[k] - b[k] \in Int
  BY <1>1
<1> PICK p : p = [k \in 1 .. n |-> s[k] - b[k]]
  OBVIOUS
<1>3. p \in Seq(Int) /\ Len(p) = n /\ \A k \in 1 .. n : p[k] = s[k] - b[k]
  BY ONLY <1>1, <1>2, p = [k \in 1 .. n |-> s[k] - b[k]]
<1>4. p = Paired(s, b)
  BY DEF Paired
<1> QED
  BY <1>1, <1>3, <1>4

\* Pairs come one after another where as many were bought as sold.
LEMMA PairedConcat ==
  ASSUME NEW s \in Seq(Int), NEW b \in Seq(Int), Len(s) = Len(b),
         NEW t \in Seq(Int), NEW c \in Seq(Int)
  PROVE  Paired(Join(s, t), Join(b, c)) = Join(Paired(s, b), Paired(t, c))
<1> PICK n \in Nat, l \in Nat, m \in Nat : n = Len(s) /\ l = Len(t) /\ m = Len(c)
  OBVIOUS
<1> PICK st, bc, p, q, r : /\ st = s \o t /\ bc = b \o c /\ p = Paired(s, b) /\ q = Paired(t, c)
                           /\ r = Paired(st, bc)
  OBVIOUS
<1> PICK w : w = Lesser(m, l)
  OBVIOUS
<1>1. /\ w \in Nat /\ w <= l /\ w <= m /\ Lesser(n + m, n + l) = n + w /\ Lesser(n, n) = n
  BY ONLY n \in Nat, l \in Nat, m \in Nat, w = Lesser(m, l) DEF Lesser
<1>2. /\ st \in Seq(Int) /\ Len(st) = n + l
      /\ \A k \in 1 .. n + l : st[k] = IF k <= n THEN s[k] ELSE t[k - n]
      /\ bc \in Seq(Int) /\ Len(bc) = n + m
      /\ \A k \in 1 .. n + m : bc[k] = IF k <= n THEN b[k] ELSE c[k - n]
  <2>2. /\ s \o t \in Seq(Int) /\ Len(s \o t) = n + l
        /\ \A k \in 1 .. n + l : (s \o t)[k] = IF k <= n THEN s[k] ELSE t[k - n]
    BY ONLY s \in Seq(Int), t \in Seq(Int), n = Len(s), l = Len(t), ConcatProperties
  <2>3. /\ b \o c \in Seq(Int) /\ Len(b \o c) = n + m
        /\ \A k \in 1 .. n + m : (b \o c)[k] = IF k <= n THEN b[k] ELSE c[k - n]
    BY ONLY b \in Seq(Int), c \in Seq(Int), n = Len(s), Len(s) = Len(b), m = Len(c), ConcatProperties
  <2> QED
    BY ONLY <2>2, <2>3, st = s \o t, bc = b \o c
<1>3. /\ p \in Seq(Int) /\ Len(p) = n /\ \A k \in 1 .. n : p[k] = s[k] - b[k]
  <2>1. Lesser(Len(b), Len(s)) = n
    BY <1>1
  <2> QED
    BY ONLY <2>1, n \in Nat, s \in Seq(Int), b \in Seq(Int), p = Paired(s, b), PairedType
<1>4. /\ q \in Seq(Int) /\ Len(q) = w /\ \A k \in 1 .. w : q[k] = t[k] - c[k]
  BY ONLY <1>1, l = Len(t), m = Len(c), w = Lesser(m, l), t \in Seq(Int), c \in Seq(Int),
          q = Paired(t, c), PairedType
<1>5. /\ r \in Seq(Int) /\ Len(r) = n + w /\ \A k \in 1 .. n + w : r[k] = st[k] - bc[k]
  <2>1. Lesser(Len(bc), Len(st)) = n + w /\ st \in Seq(Int) /\ bc \in Seq(Int)
    BY <1>1, <1>2
  <2> QED
    BY ONLY <2>1, r = Paired(st, bc), PairedType
<1>6. /\ p \o q \in Seq(Int) /\ Len(p \o q) = n + w
      /\ \A k \in 1 .. n + w : (p \o q)[k] = IF k <= n THEN p[k] ELSE q[k - n]
  <2>1. p \in Seq(Int) /\ Len(p) = n /\ q \in Seq(Int) /\ Len(q) = w
    BY <1>3, <1>4
  <2> QED
    BY ONLY <2>1, n \in Nat, ConcatProperties
<1>7. ASSUME NEW k \in 1 .. n + w PROVE r[k] = (p \o q)[k]
  <2>1. k \in 1 .. n + l /\ k \in 1 .. n + m /\ r[k] = st[k] - bc[k]
    BY ONLY <1>1, <1>5, k \in 1 .. n + w, n \in Nat, l \in Nat, m \in Nat
  <2>2. CASE k <= n
    <3>1. k \in 1 .. n /\ st[k] = s[k] /\ bc[k] = b[k]
      BY ONLY <1>2, <2>1, <2>2, n \in Nat, k \in 1 .. n + w
    <3> QED
      BY ONLY <1>3, <1>6, <2>1, <2>2, <3>1, k \in 1 .. n + w
  <2>3. CASE ~(k <= n)
    <3>1. st[k] = t[k - n] /\ bc[k] = c[k - n]
      BY ONLY <1>2, <2>1, <2>3
    <3>2. k - n \in 1 .. w
      BY ONLY <1>1, <2>3, n \in Nat, k \in 1 .. n + w
    <3> QED
      BY ONLY <1>4, <1>6, <2>1, <2>3, <3>1, <3>2, k \in 1 .. n + w
  <2> QED
    BY <2>2, <2>3
<1> QED
  <2>1. r = p \o q
    BY ONLY <1>5, <1>6, <1>7, SeqEqual
  <2> QED
    BY ONLY <2>1, r = Paired(st, bc), st = s \o t, bc = b \o c, p = Paired(s, b), q = Paired(t, c)
    DEF Join

LEMMA PairedNone ==
  ASSUME NEW s \in Seq(Int)
  PROVE  Paired(s, <<>>) = <<>> /\ Paired(<<>>, s) = <<>>
<1>1. Lesser(0, Len(s)) = 0 /\ Lesser(Len(s), 0) = 0 /\ Len(<<>>) = 0
  BY DEF Lesser
<1> QED
  BY <1>1 DEF Paired

(***************************************************************************)
(* What the matches earn adds up as the statistics do.                     *)
(***************************************************************************)
Earned(matches) == Statistics(matches).equity

LEMMA EarnedSteps ==
  /\ Earned(<<>>) = 0
  /\ \A s \in Seq(Outcomes) : Earned(s) \in Int
  /\ \A s \in Seq(Outcomes), o \in Outcomes : Earned(Append(s, o)) = Earned(s) + o.pnl
<1>1. Earned(<<>>) = 0
  BY StatisticsSteps DEF Earned, NoOutcomes
<1>2. \A s \in Seq(Outcomes) : Statistics(s) \in Figures
  BY StatisticsSteps
<1>3. \A c \in Figures : c.equity \in Int
  BY DEF Figures, Tallies
<1>4. \A s \in Seq(Outcomes), o \in Outcomes : Earned(Append(s, o)) = Earned(s) + o.pnl
  BY <1>2, StatisticsSteps, AccountType DEF Earned
<1> QED
  BY <1>1, <1>2, <1>3, <1>4 DEF Earned

LEMMA EarnedConcat ==
  ASSUME NEW s \in Seq(Outcomes), NEW t \in Seq(Outcomes)
  PROVE  Earned(s \o t) = Earned(s) + Earned(t)
<1> PICK E : E = [u \in Seq(Outcomes) |-> Earned(u)]
  OBVIOUS
<1>1. /\ E[<<>>] = 0 /\ \A u \in Seq(Outcomes) : E[u] \in Int
      /\ \A u \in Seq(Outcomes), o \in Outcomes : E[Append(u, o)] = E[u] + o.pnl
  <2>1. <<>> \in Seq(Outcomes) /\ \A u \in Seq(Outcomes), o \in Outcomes : Append(u, o) \in Seq(Outcomes)
    OBVIOUS
  <2> QED
    BY <2>1, EarnedSteps
<1> DEFINE Q == {u \in Seq(Outcomes) : E[s \o u] = E[s] + E[u]}
<1>2. <<>> \in Q
  <2>1. s \o <<>> = s /\ <<>> \in Seq(Outcomes)
    OBVIOUS
  <2> QED
    BY <1>1, <2>1
<1>3. ASSUME NEW u \in Q \cap Seq(Outcomes), NEW o \in Outcomes PROVE Append(u, o) \in Q
  <2>1. /\ s \o Append(u, o) = Append(s \o u, o)
        /\ s \o u \in Seq(Outcomes) /\ Append(u, o) \in Seq(Outcomes)
    <3>1. u \in Seq(Outcomes)
      OBVIOUS
    <3> QED
      BY ONLY <3>1, s \in Seq(Outcomes), o \in Outcomes, AppendConcat
  <2>2. /\ E[Append(s \o u, o)] = E[s \o u] + o.pnl /\ E[Append(u, o)] = E[u] + o.pnl
        /\ E[s \o u] = E[s] + E[u] /\ E[s] \in Int /\ E[u] \in Int
    BY ONLY <1>1, <1>3, <2>1, s \in Seq(Outcomes), o \in Outcomes
  <2>3. o.pnl \in Int
    BY DEF Outcomes
  <2>4. E[s \o Append(u, o)] = E[s] + E[Append(u, o)]
    BY ONLY <2>1, <2>2, <2>3
  <2> QED
    BY ONLY <2>1, <2>4
<1> HIDE DEF Q
<1>4. t \in Q
  BY <1>2, <1>3, SeqInduction
<1>5. E[s \o t] = E[s] + E[t] /\ s \o t \in Seq(Outcomes)
  BY <1>4 DEF Q
<1> QED
  BY <1>5

(***************************************************************************)
(* A trade against the queue of the other side.  The first units of the    *)
(* queue meet the trade's, until one of the two has no more.               *)
(***************************************************************************)
Sided(Of, side) == {t \in Of : t.side = side}

\* What the units p bring when they meet units of the trade.
Against(trade, p) ==
    IF trade.side = "sell" THEN Paired(Times(Len(p), trade.price), p)
                           ELSE Paired(p, Times(Len(p), trade.price))

LEMMA AgainstConcat ==
  ASSUME NEW trade, trade.price \in Int, NEW p \in Seq(Int), NEW q \in Seq(Int)
  PROVE  /\ Against(trade, p) \in Seq(Int)
         /\ Against(trade, Join(p, q)) = Join(Against(trade, p), Against(trade, q))
<1> PICK n \in Nat, m \in Nat, x \in Int : n = Len(p) /\ m = Len(q) /\ x = trade.price
  OBVIOUS
<1> PICK a, b : a = Times(n, x) /\ b = Times(m, x)
  OBVIOUS
<1>1. a \in Seq(Int) /\ Len(a) = n /\ b \in Seq(Int) /\ Len(b) = m
  BY TimesType
<1>2. Times(n + m, x) = Join(a, b) /\ Len(Join(p, q)) = n + m
  BY TimesSplit, JoinType
<1>3. Paired(a, p) \in Seq(Int) /\ Paired(p, a) \in Seq(Int)
  BY ONLY <1>1, p \in Seq(Int), PairedType
<1>4. /\ Paired(Join(a, b), Join(p, q)) = Join(Paired(a, p), Paired(b, q))
      /\ Paired(Join(p, q), Join(a, b)) = Join(Paired(p, a), Paired(q, b))
  <2>1. Len(a) = Len(p) /\ Len(p) = Len(a) /\ a \in Seq(Int) /\ b \in Seq(Int)
    BY <1>1
  <2>2. Paired(Join(a, b), Join(p, q)) = Join(Paired(a, p), Paired(b, q))
    BY ONLY <2>1, p \in Seq(Int), q \in Seq(Int), PairedConcat
  <2>3. Paired(Join(p, q), Join(a, b)) = Join(Paired(p, a), Paired(q, b))
    BY ONLY <2>1, p \in Seq(Int), q \in Seq(Int), PairedConcat
  <2> QED
    BY ONLY <2>2, <2>3
<1> QED
  BY <1>2, <1>3, <1>4 DEF Against

LEMMA AgainstTimes ==
  ASSUME NEW trade, trade.price \in Int, NEW open, open.price \in Int, NEW n \in Nat
  PROVE  SeqSum(Against(trade, Times(n, open.price))) = MatchPnL(open, trade, n)
<1> PICK x \in Int, y \in Int : x = trade.price /\ y = open.price
  OBVIOUS
<1> PICK a, b : a = Times(n, x) /\ b = Times(n, y)
  OBVIOUS
<1>1. /\ a \in Seq(Int) /\ Len(a) = n /\ \A k \in 1 .. n : a[k] = x
      /\ b \in Seq(Int) /\ Len(b) = n /\ \A k \in 1 .. n : b[k] = y
  BY TimesType
<1>2. Lesser(n, n) = n
  BY DEF Lesser
<1>3. Paired(a, b) = Times(n, x - y) /\ Paired(b, a) = Times(n, y - x)
  BY ONLY <1>1, <1>2 DEF Paired, Times
<1>4. SeqSum(Times(n, x - y)) = n * (x - y) /\ SeqSum(Times(n, y - x)) = n * (y - x)
  BY ONLY n \in Nat, x \in Int, y \in Int, TimesType
<1>5. n * (x - y) = (x - y) * n /\ n * (y - x) = (y - x) * n
  OBVIOUS
<1>6. Against(trade, b) = IF trade.side = "sell" THEN Paired(a, b) ELSE Paired(b, a)
  BY <1>1 DEF Against
<1> QED
  BY <1>3, <1>4, <1>5, <1>6 DEF MatchPnL

\* The units taken from a queue of which acc.rest is kept.
MetBy(Of, queue, trade, side, acc, p) ==
    /\ acc.rest \in Seq(Sided(Of, side)) /\ p \in Seq(Int)
    /\ Units(queue, side) = Join(p, Units(acc.rest, side))
    /\ Len(p) + acc.left = trade.size
    /\ acc.left # 0 => Units(acc.rest, side) = <<>>
    /\ Earned(acc.matches) = SeqSum(Against(trade, p))

\* One more open trade in the queue, when the trade is used up.
LEMMA MetByNoMore ==
  ASSUME NEW Of, Tradable(Of), NEW side, NEW queue \in Seq(Sided(Of, side)), NEW trade \in Of,
         NEW acc \in Meets(Of), NEW p, MetBy(Of, queue, trade, side, acc, p),
         NEW open \in Sided(Of, side), acc.left = 0
  PROVE  MetBy(Of, Append(queue, open), trade, side, MatchWith(trade, acc, open), p)
<1> PICK r, c : r = Units(acc.rest, side) /\ c = UnitsOf(open)
  OBVIOUS
<1> PICK met : met = MatchWith(trade, acc, open)
  OBVIOUS
<1>1. /\ met.rest = Append(acc.rest, open) /\ met.left = 0 /\ met.matches = acc.matches
  BY DEF MatchWith, Meets
<1>2. queue \in Seq(Of) /\ acc.rest \in Seq(Of) /\ open \in Of /\ open.side = side
  BY DEF Meets, Sided
<1>3. /\ Units(Append(queue, open), side) = Join(Units(queue, side), c)
      /\ Units(Append(acc.rest, open), side) = Join(r, c)
      /\ r \in Seq(Int) /\ c \in Seq(Int)
  <2>1. /\ Units(Append(queue, open), side) = Join(Units(queue, side), UnitsOf(open))
        /\ Units(Append(acc.rest, open), side) = Join(Units(acc.rest, side), UnitsOf(open))
    BY ONLY Tradable(Of), <1>2, UnitsMore
  <2>2. Units(acc.rest, side) \in Seq(Int) /\ UnitsOf(open) \in Seq(Int)
    BY ONLY Tradable(Of), <1>2, UnitsType, UnitsOfType
  <2> QED
    BY ONLY <2>1, <2>2, r = Units(acc.rest, side), c = UnitsOf(open)
<1>4. Append(acc.rest, open) \in Seq(Sided(Of, side))
  BY DEF MetBy
<1>5. Join(Join(p, r), c) = Join(p, Join(r, c))
  <2>1. p \in Seq(Int) /\ r \in Seq(Int) /\ c \in Seq(Int)
    BY <1>3 DEF MetBy
  <2> QED
    BY ONLY <2>1, JoinAssociative
<1> QED
  BY <1>1, <1>3, <1>4, <1>5 DEF MetBy

\* And when the trade is not used up.
LEMMA MetByMore ==
  ASSUME NEW Of, Tradable(Of), NEW side, NEW queue \in Seq(Sided(Of, side)), NEW trade \in Of,
         NEW acc \in Meets(Of), NEW p, MetBy(Of, queue, trade, side, acc, p),
         NEW open \in Sided(Of, side), acc.left # 0
  PROVE  \E q : MetBy(Of, Append(queue, open), trade, side, MatchWith(trade, acc, open), q)
<1> PICK k \in Nat \ {0}, m \in Nat \ {0}, x \in Int :
         k = open.size /\ m = acc.left /\ x = open.price
  BY DEF Meets, Sided, Tradable
<1> PICK size : size = Lesser(k, m)
  OBVIOUS
<1> PICK met : met = MatchWith(trade, acc, open)
  OBVIOUS
<1> PICK pnl : pnl = MatchPnL(open, trade, size)
  OBVIOUS
<1>1. /\ size \in Nat /\ k - size \in Nat /\ m - size \in Nat
      /\ (m - size # 0 => k - size = 0) /\ size + (k - size) = k
      /\ (k - size # 0 => k - size \in Nat \ {0})
  BY ONLY k \in Nat, m \in Nat, size = Lesser(k, m) DEF Lesser
<1> PICK taken, kept : taken = Times(size, x) /\ kept = Times(k - size, x)
  OBVIOUS
<1>2. /\ taken \in Seq(Int) /\ Len(taken) = size /\ kept \in Seq(Int)
      /\ Times(k, x) = Join(taken, kept) /\ (k - size = 0 => kept = <<>>)
  <2>1. taken \in Seq(Int) /\ Len(taken) = size /\ kept \in Seq(Int) /\ Len(kept) = k - size
    BY ONLY <1>1, x \in Int, taken = Times(size, x), kept = Times(k - size, x), TimesType
  <2>2. Times(size + (k - size), x) = Join(Times(size, x), Times(k - size, x))
    BY ONLY <1>1, x \in Int, TimesSplit
  <2>3. k - size = 0 => kept = <<>>
    BY ONLY <2>1
  <2> QED
    BY ONLY <1>1, <2>1, <2>2, <2>3, taken = Times(size, x), kept = Times(k - size, x)
<1>3. /\ p \in Seq(Int) /\ Units(acc.rest, side) = <<>> /\ Units(queue, side) = p
      /\ Len(p) + m = trade.size /\ Earned(acc.matches) = SeqSum(Against(trade, p))
      /\ acc.rest \in Seq(Sided(Of, side)) /\ acc.matches \in Seq(Outcomes)
  BY JoinNone DEF MetBy, Meets
<1>4. /\ open \in Of /\ open.side = side /\ UnitsOf(open) = Times(k, x)
      /\ queue \in Seq(Of) /\ acc.rest \in Seq(Of) /\ trade.price \in Int
  BY DEF Sided, Meets, Tradable, UnitsOf, Times
<1>5. Units(Append(queue, open), side) = Join(Join(p, taken), kept)
  <2>1. Units(Append(queue, open), side) = Join(p, Times(k, x))
    <3>1. Units(Append(queue, open), side) = Join(Units(queue, side), UnitsOf(open))
      BY ONLY Tradable(Of), <1>4, UnitsMore
    <3> QED
      BY ONLY <1>3, <1>4, <3>1
  <2>2. Join(Join(p, taken), kept) = Join(p, Join(taken, kept))
    BY <1>2, <1>3, JoinAssociative
  <2> QED
    BY <1>2, <2>1, <2>2
<1> PICK found : found = [long |-> open.side = "buy", pnl |-> pnl]
  OBVIOUS
<1>6. /\ met.left = m - size /\ met.matches = Append(acc.matches, found)
      /\ met.rest = IF k - size = 0 THEN acc.rest
                    ELSE Append(acc.rest, [open EXCEPT !.size = k - size])
  <2>1. met = [left    |-> acc.left - size,
               rest    |-> IF size = open.size THEN acc.rest
                           ELSE Append(acc.rest, [open EXCEPT !.size = open.size - size]),
               matches |-> Append(acc.matches, found)]
    BY ONLY acc.left # 0, met = MatchWith(trade, acc, open), size = Lesser(k, m), k = open.size,
            m = acc.left, pnl = MatchPnL(open, trade, size), found = [long |-> open.side = "buy", pnl |-> pnl]
    DEF MatchWith
  <2>2. size = k <=> k - size = 0
    BY ONLY <1>1, k \in Nat
  <2> QED
    BY ONLY <2>1, <2>2, k = open.size, m = acc.left
<1>7. met.rest \in Seq(Sided(Of, side)) /\ Units(met.rest, side) = kept
  <2>1. CASE k - size = 0
    BY <1>2, <1>3, <1>6, <2>1
  <2>2. CASE k - size # 0
    <3> PICK part : part = [open EXCEPT !.size = k - size]
      OBVIOUS
    <3>1. part \in Of /\ part.side = side /\ part.size = k - size /\ part.price = x
      BY <1>1, <1>4, <2>2 DEF Tradable
    <3>2. Units(Append(acc.rest, part), side) = Join(<<>>, UnitsOf(part))
      <4>1. part \in Of /\ part.side = side /\ acc.rest \in Seq(Of)
        BY ONLY <1>4, <3>1
      <4>2. Units(Append(acc.rest, part), side) = Join(Units(acc.rest, side), UnitsOf(part))
        BY ONLY Tradable(Of), <4>1, UnitsMore
      <4> QED
        BY ONLY <1>3, <4>2
    <3>3. UnitsOf(part) = kept
      BY <3>1 DEF UnitsOf, Times
    <3>4. Append(acc.rest, part) \in Seq(Sided(Of, side))
      <4>1. part \in Sided(Of, side)
        BY ONLY <3>1 DEF Sided
      <4> QED
        BY ONLY <1>3, <4>1
    <3>5. Join(<<>>, kept) = kept
      BY ONLY <1>2, JoinNone
    <3> QED
      BY <1>6, <2>2, <3>2, <3>3, <3>4, <3>5
  <2> QED
    BY <2>1, <2>2
<1>8. Len(Join(p, taken)) = Len(p) + size /\ Join(p, taken) \in Seq(Int)
  BY ONLY <1>2, <1>3, JoinType
<1>9. Earned(met.matches) = SeqSum(Against(trade, Join(p, taken)))
  <2>1. pnl \in Int
    BY <1>1, <1>4 DEF MatchPnL
  <2>2. found \in Outcomes /\ found.pnl = pnl
    BY <2>1 DEF Outcomes
  <2>3. Earned(met.matches) = Earned(acc.matches) + pnl
    BY <1>3, <1>6, <2>2, EarnedSteps
  <2>4. /\ Against(trade, Join(p, taken)) = Join(Against(trade, p), Against(trade, taken))
        /\ Against(trade, p) \in Seq(Int) /\ Against(trade, taken) \in Seq(Int)
    BY ONLY <1>2, <1>3, <1>4, AgainstConcat
  <2>5. SeqSum(Against(trade, taken)) = pnl
    BY ONLY <1>1, <1>4, x = open.price, x \in Int, taken = Times(size, x),
            pnl = MatchPnL(open, trade, size), AgainstTimes
  <2> QED
    BY ONLY <1>3, <2>3, <2>4, <2>5, SumJoin
<1>10. Len(p) \in Nat
  BY <1>3
<1> QED
  <2>1. m - size # 0 => kept = <<>>
    BY <1>1, <1>2
  <2>2. Len(Join(p, taken)) + (m - size) = trade.size
    BY ONLY <1>1, <1>3, <1>8, <1>10, m \in Nat
  <2>3. MetBy(Of, Append(queue, open), trade, side, met, Join(p, taken))
    BY ONLY <1>5, <1>6, <1>7, <1>8, <1>9, <2>1, <2>2 DEF MetBy
  <2> QED
    BY <2>3

\* What a trade meets in a whole queue.
LEMMA UnitsTaken ==
  ASSUME NEW Of, Tradable(Of), NEW side, NEW trade \in Of, NEW queue \in Seq(Sided(Of, side))
  PROVE  \E p : MetBy(Of, queue, trade, side, MatchAgainst(queue, trade), p)
<1> DEFINE Q == {s \in Seq(Sided(Of, side)) :
                   \E p : MetBy(Of, s, trade, side, MatchAgainst(s, trade), p)}
<1>1. <<>> \in Q
  <2>1. MatchAgainst(<<>>, trade) = [left |-> trade.size, rest |-> <<>>, matches |-> <<>>]
    BY MeetingSteps DEF Unmet
  <2>2. Units(<<>>, side) = <<>> /\ Join(<<>>, <<>>) = <<>>
    <3>1. Units(<<>>, side) = <<>>
      BY ONLY Tradable(Of), UnitsSteps
    <3>2. <<>> \in Seq(Int)
      OBVIOUS
    <3> QED
      BY ONLY <3>1, <3>2, JoinNone
  <2>3. SeqSum(Against(trade, <<>>)) = 0
    <3> PICK none, x : none = <<>> /\ x = Times(0, trade.price)
      OBVIOUS
    <3>1. none \in Seq(Int) /\ Len(none) = 0 /\ x \in Seq(Int)
      <4>1. trade.price \in Int
        BY DEF Tradable
      <4>2. none \in Seq(Int) /\ Len(none) = 0
        OBVIOUS
      <4> QED
        BY <4>1, <4>2, TimesType
    <3>2. Paired(x, <<>>) = <<>> /\ Paired(<<>>, x) = <<>>
      BY ONLY <3>1, PairedNone
    <3>3. Against(trade, none) = <<>>
      BY <3>1, <3>2 DEF Against
    <3> QED
      BY <3>3, SumSteps
  <2>4. trade.size \in Nat
    BY DEF Tradable
  <2>5. MetBy(Of, <<>>, trade, side, MatchAgainst(<<>>, trade), <<>>)
    <3> PICK acc : acc = MatchAgainst(<<>>, trade)
      OBVIOUS
    <3>1. /\ acc.left = trade.size /\ acc.rest = <<>> /\ acc.matches = <<>>
          /\ <<>> \in Seq(Sided(Of, side)) /\ <<>> \in Seq(Int) /\ Len(<<>>) = 0
          /\ 0 + trade.size = trade.size /\ Earned(<<>>) = 0
      BY <2>1, <2>4, EarnedSteps
    <3>2. MetBy(Of, <<>>, trade, side, acc, <<>>)
      BY ONLY <2>2, <2>3, <3>1 DEF MetBy
    <3> QED
      BY <3>2
  <2> QED
    BY <2>5
<1>2. ASSUME NEW s \in Q \cap Seq(Sided(Of, side)), NEW open \in Sided(Of, side)
      PROVE  Append(s, open) \in Q
  <2> PICK acc : acc = MatchAgainst(s, trade)
    OBVIOUS
  <2>1. s \in Seq(Of) /\ open \in Of
    BY DEF Sided
  <2>2. acc \in Meets(Of) /\ MatchAgainst(Append(s, open), trade) = MatchWith(trade, acc, open)
    BY <2>1, MeetingSteps
  <2>3. PICK p : MetBy(Of, s, trade, side, acc, p)
    OBVIOUS
  <2>4. \E q : MetBy(Of, Append(s, open), trade, side, MatchWith(trade, acc, open), q)
    <3>1. CASE acc.left = 0
      BY <2>2, <2>3, <3>1, MetByNoMore
    <3>2. CASE acc.left # 0
      BY <2>2, <2>3, <3>2, MetByMore
    <3> QED
      BY <3>1, <3>2
  <2> QED
    BY <2>2, <2>4
<1> HIDE DEF Q
<1>3. queue \in Q
  BY <1>1, <1>2, SeqInduction
<1> QED
  BY <1>3 DEF Q

(***************************************************************************)
(* The trade joins its own side: of the units x of that side and y of the  *)
(* other, met before, and of those waiting, a and b, the trade's meet p.   *)
(***************************************************************************)
Joins(Of, trade, own, x, a, y, b, p, r, left) ==
    /\ Tradable(Of) /\ trade \in Of /\ own \in Seq(Sided(Of, trade.side))
    /\ x \in Seq(Int) /\ y \in Seq(Int) /\ Len(x) = Len(y)
    /\ a = Units(own, trade.side) /\ b \in Seq(Int) /\ (a = <<>> \/ b = <<>>)
    /\ p \in Seq(Int) /\ r \in Seq(Int) /\ b = Join(p, r)
    /\ left \in Nat /\ Len(p) + left = trade.size /\ (left # 0 => r = <<>>)

LEMMA OwnSide ==
  ASSUME NEW Of, NEW trade, NEW own, NEW x, NEW a, NEW y, NEW b, NEW p, NEW r, NEW left,
         Joins(Of, trade, own, x, a, y, b, p, r, left),
         NEW kept, kept = Leftover(own, trade, left), NEW met, met = Times(Len(p), trade.price)
  PROVE  /\ kept \in Seq(Sided(Of, trade.side)) /\ met \in Seq(Int)
         /\ Join(Join(x, a), UnitsOf(trade)) = Join(Join(x, met), Units(kept, trade.side))
         /\ Join(y, b) = Join(Join(y, p), r)
         /\ Len(Join(x, met)) = Len(Join(y, p))
         /\ Units(kept, trade.side) = <<>> \/ r = <<>>
<1> /\ Tradable(Of) /\ trade \in Of /\ own \in Seq(Sided(Of, trade.side))
    /\ x \in Seq(Int) /\ y \in Seq(Int) /\ Len(x) = Len(y)
    /\ a = Units(own, trade.side) /\ b \in Seq(Int) /\ (a = <<>> \/ b = <<>>)
    /\ p \in Seq(Int) /\ r \in Seq(Int) /\ b = Join(p, r)
    /\ left \in Nat /\ Len(p) + left = trade.size /\ (left # 0 => r = <<>>)
  BY DEF Joins
<1> PICK n \in Nat : n = Len(p)
  OBVIOUS
<1> PICK c \in Int : c = trade.price
  BY ONLY Tradable(Of), trade \in Of DEF Tradable
<1> PICK rest : rest = Times(left, c)
  OBVIOUS
<1>1. own \in Seq(Of) /\ a \in Seq(Int)
  <2>1. own \in Seq(Of)
    BY DEF Sided
  <2> QED
    BY ONLY <2>1, Tradable(Of), a = Units(own, trade.side), UnitsType
<1>2. /\ met \in Seq(Int) /\ Len(met) = n /\ rest \in Seq(Int) /\ Len(rest) = left
      /\ UnitsOf(trade) = Join(met, rest)
  <2>1. met = Times(n, c) /\ n + left = trade.size
    OBVIOUS
  <2>2. met \in Seq(Int) /\ Len(met) = n /\ rest \in Seq(Int) /\ Len(rest) = left
    BY ONLY <2>1, n \in Nat, left \in Nat, c \in Int, rest = Times(left, c), TimesType
  <2>3. Times(n + left, c) = Join(met, rest)
    BY ONLY <2>1, n \in Nat, left \in Nat, c \in Int, rest = Times(left, c), TimesSplit
  <2>4. UnitsOf(trade) = Times(trade.size, c)
    BY DEF UnitsOf, Times
  <2> QED
    BY ONLY <2>1, <2>2, <2>3, <2>4
<1>3. kept \in Seq(Sided(Of, trade.side)) /\ Units(kept, trade.side) = Join(a, rest)
  <2>1. CASE left = 0
    <3>1. kept = own /\ rest = <<>>
      <4>1. kept = own
        BY <2>1 DEF Leftover
      <4> QED
        BY ONLY <1>2, <2>1, <4>1
    <3>2. Join(a, <<>>) = a
      BY ONLY <1>1, JoinNone
    <3> QED
      BY <3>1, <3>2
  <2>2. CASE left # 0
    <3> PICK part : part = [trade EXCEPT !.size = left]
      OBVIOUS
    <3>1. part \in Of /\ part.side = trade.side /\ part.size = left /\ part.price = c
      <4>1. left \in Nat \ {0}
        BY <2>2
      <4> QED
        BY ONLY <4>1, Tradable(Of), trade \in Of, c = trade.price,
                part = [trade EXCEPT !.size = left] DEF Tradable
    <3>2. kept = Append(own, part)
      <4>1. left > 0
        BY ONLY <2>2, left \in Nat
      <4> QED
        BY ONLY <4>1, kept = Leftover(own, trade, left), part = [trade EXCEPT !.size = left] DEF Leftover
    <3>3. part \in Sided(Of, trade.side)
      BY ONLY <3>1 DEF Sided
    <3>4. Append(own, part) \in Seq(Sided(Of, trade.side))
      BY ONLY <3>3, own \in Seq(Sided(Of, trade.side))
    <3>5. UnitsOf(part) = rest
      BY ONLY <3>1, rest = Times(left, c) DEF UnitsOf, Times
    <3>6. Units(Append(own, part), trade.side) = Join(Units(own, trade.side), UnitsOf(part))
      BY ONLY <1>1, <3>1, Tradable(Of), UnitsMore
    <3> QED
      BY ONLY <3>2, <3>4, <3>5, <3>6, a = Units(own, trade.side)
  <2> QED
    BY <2>1, <2>2
<1>4. Join(y, b) = Join(Join(y, p), r)
  BY ONLY b = Join(p, r), y \in Seq(Int), p \in Seq(Int), r \in Seq(Int), JoinAssociative
<1>5. Len(Join(x, met)) = Len(Join(y, p))
  <2>1. Len(Join(x, met)) = Len(x) + n
    BY ONLY <1>2, x \in Seq(Int), JoinType
  <2>2. Len(Join(y, p)) = Len(y) + n
    BY ONLY n = Len(p), p \in Seq(Int), y \in Seq(Int), JoinType
  <2> QED
    BY ONLY <2>1, <2>2, Len(x) = Len(y)
<1>6. b = <<>> => p = <<>> /\ r = <<>>
  <2>1. Len(b) = Len(p) + Len(r)
    BY ONLY b = Join(p, r), p \in Seq(Int), r \in Seq(Int), JoinType
  <2>2. b = <<>> => Len(p) = 0 /\ Len(r) = 0
    BY ONLY <2>1, p \in Seq(Int), r \in Seq(Int)
  <2> QED
    BY ONLY <2>2, p \in Seq(Int), r \in Seq(Int)
<1>7. Join(Join(x, a), UnitsOf(trade)) = Join(Join(x, met), Join(a, rest))
  <2>1. CASE a = <<>>
    <3>1. Join(x, a) = x /\ Join(a, rest) = rest
      BY ONLY <1>2, <2>1, x \in Seq(Int), JoinNone
    <3>2. Join(x, Join(met, rest)) = Join(Join(x, met), rest)
      BY ONLY <1>2, x \in Seq(Int), JoinAssociative
    <3> QED
      BY ONLY <1>2, <3>1, <3>2
  <2>2. CASE b = <<>>
    <3>1. p = <<>> /\ met = <<>>
      <4>1. p = <<>>
        BY ONLY <1>6, <2>2
      <4> QED
        BY ONLY <1>2, <4>1, n = Len(p)
    <3>2. Join(met, rest) = rest /\ Join(x, met) = x
      BY ONLY <1>2, <3>1, x \in Seq(Int), JoinNone
    <3>3. Join(Join(x, a), rest) = Join(x, Join(a, rest))
      BY ONLY <1>1, <1>2, x \in Seq(Int), JoinAssociative
    <3> QED
      BY ONLY <1>2, <3>2, <3>3
  <2> QED
    BY <2>1, <2>2
<1>8. Join(a, rest) = <<>> \/ r = <<>>
  <2> SUFFICES ASSUME r # <<>> PROVE Join(a, rest) = <<>>
    OBVIOUS
  <2>1. left = 0 /\ a = <<>>
    BY <1>6
  <2>2. rest = <<>>
    BY ONLY <1>2, <2>1
  <2> QED
    BY ONLY <1>1, <2>1, <2>2, JoinNone
<1> QED
  BY ONLY <1>2, <1>3, <1>4, <1>5, <1>7, <1>8

\* The units matched after all of s: as many bought as sold, the first of each.
Matched(Of, s, acc, bought, sold) ==
    /\ acc.open.buy \in Seq(Sided(Of, "buy")) /\ acc.open.sell \in Seq(Sided(Of, "sell"))
    /\ bought \in Seq(Int) /\ sold \in Seq(Int) /\ Len(bought) = Len(sold)
    /\ Units(s, "buy") = Join(bought, Units(acc.open.buy, "buy"))
    /\ Units(s, "sell") = Join(sold, Units(acc.open.sell, "sell"))
    /\ Units(acc.open.buy, "buy") = <<>> \/ Units(acc.open.sell, "sell") = <<>>
    /\ Earned(acc.matches) = SeqSum(Paired(sold, bought))

LEMMA SideSteps ==
  ASSUME NEW Of, Tradable(Of), NEW s \in Seq(Of), NEW trade \in Of
  PROVE  /\ trade.side = "buy" =>
              /\ Units(Append(s, trade), "buy") = Join(Units(s, "buy"), UnitsOf(trade))
              /\ Units(Append(s, trade), "sell") = Units(s, "sell")
         /\ trade.side = "sell" =>
              /\ Units(Append(s, trade), "sell") = Join(Units(s, "sell"), UnitsOf(trade))
              /\ Units(Append(s, trade), "buy") = Units(s, "buy")
<1>1. ASSUME NEW side, trade.side = side
      PROVE  Units(Append(s, trade), side) = Join(Units(s, side), UnitsOf(trade))
  BY ONLY <1>1, Tradable(Of), s \in Seq(Of), trade \in Of, UnitsMore
<1>2. ASSUME NEW side, trade.side # side PROVE Units(Append(s, trade), side) = Units(s, side)
  BY ONLY <1>2, Tradable(Of), s \in Seq(Of), trade \in Of, UnitsOther
<1>3. "buy" # "sell"
  OBVIOUS
<1> QED
  BY ONLY <1>1, <1>2, <1>3

\* What the units met bring is what they pair to.
LEMMA MetPairs ==
  ASSUME NEW trade, trade.price \in Int, NEW p \in Seq(Int), NEW n \in Nat, n = Len(p),
         NEW x \in Seq(Int), NEW y \in Seq(Int), Len(x) = Len(y),
         NEW met, met = Times(n, trade.price)
  PROVE  /\ trade.side = "sell" =>
              SeqSum(Paired(Join(x, met), Join(y, p))) = SeqSum(Paired(x, y)) + SeqSum(Against(trade, p))
         /\ trade.side # "sell" =>
              SeqSum(Paired(Join(y, p), Join(x, met))) = SeqSum(Paired(y, x)) + SeqSum(Against(trade, p))
<1>1. met \in Seq(Int)
  BY TimesType
<1>2. /\ Paired(x, y) \in Seq(Int) /\ Paired(y, x) \in Seq(Int)
      /\ Paired(met, p) \in Seq(Int) /\ Paired(p, met) \in Seq(Int)
  BY ONLY <1>1, x \in Seq(Int), y \in Seq(Int), p \in Seq(Int), PairedType
<1>3. Paired(Join(x, met), Join(y, p)) = Join(Paired(x, y), Paired(met, p))
  BY ONLY <1>1, Len(x) = Len(y), x \in Seq(Int), y \in Seq(Int), p \in Seq(Int), PairedConcat
<1>4. Paired(Join(y, p), Join(x, met)) = Join(Paired(y, x), Paired(p, met))
  <2>1. Len(y) = Len(x)
    OBVIOUS
  <2> QED
    BY ONLY <1>1, <2>1, x \in Seq(Int), y \in Seq(Int), p \in Seq(Int), PairedConcat
<1>5. Against(trade, p) = IF trade.side = "sell" THEN Paired(met, p) ELSE Paired(p, met)
  BY DEF Against
<1>6. /\ SeqSum(Join(Paired(x, y), Paired(met, p))) = SeqSum(Paired(x, y)) + SeqSum(Paired(met, p))
      /\ SeqSum(Join(Paired(y, x), Paired(p, met))) = SeqSum(Paired(y, x)) + SeqSum(Paired(p, met))
  BY ONLY <1>2, SumJoin
<1> QED
  BY ONLY <1>3, <1>4, <1>5, <1>6

LEMMA MatchedMore ==
  ASSUME NEW Of, Tradable(Of), NEW s \in Seq(Of), NEW acc \in Halves(Of), NEW trade \in Of,
         NEW bought, NEW sold, Matched(Of, s, acc, bought, sold)
  PROVE  \E b, c : Matched(Of, Append(s, trade), TakeTrade(acc, trade), b, c)
<1> PICK ob, os : ob = acc.open.buy /\ os = acc.open.sell
  OBVIOUS
<1> PICK a, b : a = Units(ob, "buy") /\ b = Units(os, "sell")
  OBVIOUS
<1>1. /\ acc.open = [buy |-> ob, sell |-> os] /\ acc.matches \in Seq(Outcomes)
      /\ ob \in Seq(Of) /\ os \in Seq(Of)
  BY DEF Halves
<1>2. /\ ob \in Seq(Sided(Of, "buy")) /\ os \in Seq(Sided(Of, "sell"))
      /\ bought \in Seq(Int) /\ sold \in Seq(Int) /\ Len(bought) = Len(sold)
      /\ Units(s, "buy") = Join(bought, a) /\ Units(s, "sell") = Join(sold, b)
      /\ a = <<>> \/ b = <<>>
      /\ Earned(acc.matches) = SeqSum(Paired(sold, bought))
  BY DEF Matched
<1>3. a \in Seq(Int) /\ b \in Seq(Int)
  BY ONLY <1>1, Tradable(Of), a = Units(ob, "buy"), b = Units(os, "sell"), UnitsType
<1>4. trade.side \in {"buy", "sell"} /\ trade.price \in Int
  BY DEF Tradable
<1>5. CASE trade.side = "buy"
  <2> PICK met : met = MatchAgainst(os, trade)
    OBVIOUS
  <2> PICK own : own = Leftover(ob, trade, met.left)
    OBVIOUS
  <2>1. met \in Meets(Of)
    BY ONLY <1>1, Tradable(Of), trade \in Of, met = MatchAgainst(os, trade), MeetingSteps
  <2>2. TakeTrade(acc, trade) = [open |-> [buy |-> own, sell |-> met.rest],
                                 matches |-> acc.matches \o met.matches]
    BY ONLY <1>1, <1>5, met = MatchAgainst(os, trade), own = Leftover(ob, trade, met.left), TakeTradeSides
  <2> PICK p : MetBy(Of, os, trade, "sell", met, p)
    BY ONLY <1>2, Tradable(Of), trade \in Of, met = MatchAgainst(os, trade), UnitsTaken
  <2> PICK n \in Nat : n = Len(p)
    BY DEF MetBy
  <2> PICK r : r = Units(met.rest, "sell")
    OBVIOUS
  <2> PICK x : x = Times(n, trade.price)
    OBVIOUS
  <2>3. /\ met.rest \in Seq(Sided(Of, "sell")) /\ p \in Seq(Int) /\ b = Join(p, r)
        /\ Len(p) + met.left = trade.size /\ (met.left # 0 => r = <<>>)
        /\ Earned(met.matches) = SeqSum(Against(trade, p))
    BY DEF MetBy
  <2>4. met.left \in Nat /\ met.matches \in Seq(Outcomes) /\ met.rest \in Seq(Of)
    BY ONLY <2>1 DEF Meets
  <2>5. r \in Seq(Int)
    BY ONLY <2>4, Tradable(Of), r = Units(met.rest, "sell"), UnitsType
  <2>6. /\ own \in Seq(Sided(Of, "buy")) /\ x \in Seq(Int)
        /\ Join(Join(bought, a), UnitsOf(trade)) = Join(Join(bought, x), Units(own, "buy"))
        /\ Join(sold, b) = Join(Join(sold, p), r)
        /\ Len(Join(bought, x)) = Len(Join(sold, p))
        /\ Units(own, "buy") = <<>> \/ r = <<>>
    <3> PICK left : left = met.left
      OBVIOUS
    <3>1. Joins(Of, trade, ob, bought, a, sold, b, p, r, left)
      BY ONLY <1>2, <1>3, <1>5, <2>3, <2>4, <2>5, Tradable(Of), trade \in Of,
              a = Units(ob, trade.side), left = met.left DEF Joins
    <3>2. own = Leftover(ob, trade, left) /\ x = Times(Len(p), trade.price)
      OBVIOUS
    <3>3. /\ own \in Seq(Sided(Of, trade.side)) /\ x \in Seq(Int)
          /\ Join(Join(bought, a), UnitsOf(trade)) = Join(Join(bought, x), Units(own, trade.side))
          /\ Join(sold, b) = Join(Join(sold, p), r)
          /\ Len(Join(bought, x)) = Len(Join(sold, p))
          /\ Units(own, trade.side) = <<>> \/ r = <<>>
      BY ONLY <3>1, <3>2, OwnSide
    <3> QED
      BY ONLY <1>5, <3>3
  <2>7. Earned(acc.matches \o met.matches) = SeqSum(Paired(Join(sold, p), Join(bought, x)))
    <3>1. Earned(acc.matches \o met.matches) = Earned(acc.matches) + Earned(met.matches)
      BY ONLY <1>1, <2>4, EarnedConcat
    <3>2. trade.side # "sell"
      BY <1>5
    <3>3. SeqSum(Paired(Join(sold, p), Join(bought, x)))
            = SeqSum(Paired(sold, bought)) + SeqSum(Against(trade, p))
      BY ONLY <1>2, <1>4, <2>3, <3>2, n \in Nat, n = Len(p), x = Times(n, trade.price), MetPairs
    <3> QED
      BY ONLY <1>2, <2>3, <3>1, <3>3
  <2>8. Join(sold, p) \in Seq(Int) /\ Join(bought, x) \in Seq(Int)
    BY ONLY <1>2, <2>3, <2>6, JoinType
  <2>9. /\ Units(Append(s, trade), "buy") = Join(Units(s, "buy"), UnitsOf(trade))
        /\ Units(Append(s, trade), "sell") = Units(s, "sell")
    BY ONLY <1>5, Tradable(Of), s \in Seq(Of), trade \in Of, SideSteps
  <2> PICK after : after = TakeTrade(acc, trade)
    OBVIOUS
  <2>10. /\ after.open.buy = own /\ after.open.sell = met.rest
         /\ after.matches = acc.matches \o met.matches
    <3> PICK matches : matches = acc.matches \o met.matches
      OBVIOUS
    <3>1. after = [open |-> [buy |-> own, sell |-> met.rest], matches |-> matches]
      BY <2>2
    <3> QED
      BY ONLY <3>1, matches = acc.matches \o met.matches
  <2>11. Matched(Of, Append(s, trade), after, Join(bought, x), Join(sold, p))
    BY ONLY <1>2, <2>3, <2>6, <2>7, <2>8, <2>9, <2>10, r = Units(met.rest, "sell") DEF Matched
  <2> QED
    BY ONLY <2>11, after = TakeTrade(acc, trade)
<1>6. CASE trade.side = "sell"
  <2> PICK met : met = MatchAgainst(ob, trade)
    OBVIOUS
  <2> PICK own : own = Leftover(os, trade, met.left)
    OBVIOUS
  <2>1. met \in Meets(Of)
    BY ONLY <1>1, Tradable(Of), trade \in Of, met = MatchAgainst(ob, trade), MeetingSteps
  <2>2. TakeTrade(acc, trade) = [open |-> [buy |-> met.rest, sell |-> own],
                                 matches |-> acc.matches \o met.matches]
    BY ONLY <1>1, <1>6, met = MatchAgainst(ob, trade), own = Leftover(os, trade, met.left), TakeTradeSides
  <2> PICK p : MetBy(Of, ob, trade, "buy", met, p)
    BY ONLY <1>2, Tradable(Of), trade \in Of, met = MatchAgainst(ob, trade), UnitsTaken
  <2> PICK n \in Nat : n = Len(p)
    BY DEF MetBy
  <2> PICK r : r = Units(met.rest, "buy")
    OBVIOUS
  <2> PICK x : x = Times(n, trade.price)
    OBVIOUS
  <2>3. /\ met.rest \in Seq(Sided(Of, "buy")) /\ p \in Seq(Int) /\ a = Join(p, r)
        /\ Len(p) + met.left = trade.size /\ (met.left # 0 => r = <<>>)
        /\ Earned(met.matches) = SeqSum(Against(trade, p))
    BY DEF MetBy
  <2>4. met.left \in Nat /\ met.matches \in Seq(Outcomes) /\ met.rest \in Seq(Of)
    BY ONLY <2>1 DEF Meets
  <2>5. r \in Seq(Int) /\ Len(sold) = Len(bought) /\ (b = <<>> \/ a = <<>>)
    BY ONLY <1>2, <2>4, Tradable(Of), r = Units(met.rest, "buy"), UnitsType
  <2>6. /\ own \in Seq(Sided(Of, "sell")) /\ x \in Seq(Int)
        /\ Join(Join(sold, b), UnitsOf(trade)) = Join(Join(sold, x), Units(own, "sell"))
        /\ Join(bought, a) = Join(Join(bought, p), r)
        /\ Len(Join(sold, x)) = Len(Join(bought, p))
        /\ Units(own, "sell") = <<>> \/ r = <<>>
    <3> PICK left : left = met.left
      OBVIOUS
    <3>1. Joins(Of, trade, os, sold, b, bought, a, p, r, left)
      BY ONLY <1>2, <1>3, <1>6, <2>3, <2>4, <2>5, Tradable(Of), trade \in Of,
              b = Units(os, trade.side), left = met.left DEF Joins
    <3>2. own = Leftover(os, trade, left) /\ x = Times(Len(p), trade.price)
      OBVIOUS
    <3>3. /\ own \in Seq(Sided(Of, trade.side)) /\ x \in Seq(Int)
          /\ Join(Join(sold, b), UnitsOf(trade)) = Join(Join(sold, x), Units(own, trade.side))
          /\ Join(bought, a) = Join(Join(bought, p), r)
          /\ Len(Join(sold, x)) = Len(Join(bought, p))
          /\ Units(own, trade.side) = <<>> \/ r = <<>>
      BY ONLY <3>1, <3>2, OwnSide
    <3> QED
      BY ONLY <1>6, <3>3
  <2>7. Earned(acc.matches \o met.matches) = SeqSum(Paired(Join(sold, x), Join(bought, p)))
    <3>1. Earned(acc.matches \o met.matches) = Earned(acc.matches) + Earned(met.matches)
      BY ONLY <1>1, <2>4, EarnedConcat
    <3>2. SeqSum(Paired(Join(sold, x), Join(bought, p)))
            = SeqSum(Paired(sold, bought)) + SeqSum(Against(trade, p))
      BY ONLY <1>2, <1>4, <1>6, <2>3, <2>5, n \in Nat, n = Len(p), x = Times(n, trade.price), MetPairs
    <3> QED
      BY ONLY <1>2, <2>3, <3>1, <3>2
  <2>8. Join(sold, x) \in Seq(Int) /\ Join(bought, p) \in Seq(Int)
    BY ONLY <1>2, <2>3, <2>6, JoinType
  <2>9. /\ Units(Append(s, trade), "sell") = Join(Units(s, "sell"), UnitsOf(trade))
        /\ Units(Append(s, trade), "buy") = Units(s, "buy")
    BY ONLY <1>6, Tradable(Of), s \in Seq(Of), trade \in Of, SideSteps
  <2> PICK after : after = TakeTrade(acc, trade)
    OBVIOUS
  <2>10. /\ after.open.buy = met.rest /\ after.open.sell = own
         /\ after.matches = acc.matches \o met.matches
    <3> PICK matches : matches = acc.matches \o met.matches
      OBVIOUS
    <3>1. after = [open |-> [buy |-> met.rest, sell |-> own], matches |-> matches]
      BY <2>2
    <3> QED
      BY ONLY <3>1, matches = acc.matches \o met.matches
  <2>11. Matched(Of, Append(s, trade), after, Join(bought, p), Join(sold, x))
    BY ONLY <1>2, <2>3, <2>6, <2>7, <2>8, <2>9, <2>10, r = Units(met.rest, "buy") DEF Matched
  <2> QED
    BY ONLY <2>11, after = TakeTrade(acc, trade)
<1> QED
  BY <1>4, <1>5, <1>6

LEMMA AllMatched ==
  ASSUME NEW Of, Tradable(Of), NEW s \in Seq(Of)
  PROVE  \E bought, sold : Matched(Of, s, MatchedOf(s), bought, sold)
<1> DEFINE Q == {t \in Seq(Of) : \E bought, sold : Matched(Of, t, MatchedOf(t), bought, sold)}
<1>1. <<>> \in Q
  <2>1. MatchedOf(<<>>) = [open |-> [buy |-> <<>>, sell |-> <<>>], matches |-> <<>>]
    BY MatchedSteps DEF NoHalves
  <2>2. Units(<<>>, "buy") = <<>> /\ Units(<<>>, "sell") = <<>>
    BY UnitsSteps
  <2>3. /\ <<>> \in Seq(Int) /\ <<>> \in Seq(Of)
        /\ <<>> \in Seq(Sided(Of, "buy")) /\ <<>> \in Seq(Sided(Of, "sell"))
    OBVIOUS
  <2>4. Join(<<>>, <<>>) = <<>> /\ Paired(<<>>, <<>>) = <<>>
    BY ONLY <2>3, JoinNone, PairedNone
  <2>5. Earned(<<>>) = 0 /\ SeqSum(<<>>) = 0
    BY EarnedSteps, SumSteps
  <2> PICK acc : acc = MatchedOf(<<>>)
    OBVIOUS
  <2>6. acc.open.buy = <<>> /\ acc.open.sell = <<>> /\ acc.matches = <<>>
    BY ONLY <2>1, acc = MatchedOf(<<>>)
  <2>7. Matched(Of, <<>>, acc, <<>>, <<>>)
    BY ONLY <2>2, <2>3, <2>4, <2>5, <2>6 DEF Matched
  <2> QED
    BY <2>3, <2>7
<1>2. ASSUME NEW t \in Q \cap Seq(Of), NEW trade \in Of PROVE Append(t, trade) \in Q
  <2> PICK acc : acc = MatchedOf(t)
    OBVIOUS
  <2>1. PICK bought, sold : Matched(Of, t, acc, bought, sold)
    OBVIOUS
  <2>2. acc \in Halves(Of) /\ MatchedOf(Append(t, trade)) = TakeTrade(acc, trade)
    BY MatchedSteps
  <2>3. \E b, c : Matched(Of, Append(t, trade), TakeTrade(acc, trade), b, c)
    BY ONLY <2>1, <2>2, Tradable(Of), t \in Q \cap Seq(Of), trade \in Of, MatchedMore
  <2> QED
    BY <2>2, <2>3
<1> HIDE DEF Q
<1>3. s \in Q
  BY <1>1, <1>2, SeqInduction
<1> QED
  BY <1>3 DEF Q

LEMMA FifoPairs == \A s : FifoPnL(s) = SeqSum(Paired(Units(s, "sell"), Units(s, "buy")))
BY DEF FifoPnL, SumOf, SeqSum, Paired

\* The profit of the matches is the profit first in, first out.
LEMMA MatchedIsFifo ==
  ASSUME NEW Of, Tradable(Of), NEW s \in Seq(Of)
  PROVE  Earned(MatchedOf(s).matches) = FifoPnL(s)
<1> PICK acc : acc = MatchedOf(s)
  OBVIOUS
<1>1. PICK bought, sold : Matched(Of, s, acc, bought, sold)
  BY AllMatched
<1> PICK a, b : a = Units(acc.open.buy, "buy") /\ b = Units(acc.open.sell, "sell")
  OBVIOUS
<1>2. /\ bought \in Seq(Int) /\ sold \in Seq(Int) /\ Len(sold) = Len(bought)
      /\ Units(s, "buy") = Join(bought, a) /\ Units(s, "sell") = Join(sold, b)
      /\ (a = <<>> \/ b = <<>>) /\ Earned(acc.matches) = SeqSum(Paired(sold, bought))
  BY <1>1 DEF Matched
<1>3. a \in Seq(Int) /\ b \in Seq(Int)
  <2>1. acc.open.buy \in Seq(Of) /\ acc.open.sell \in Seq(Of)
    BY <1>1 DEF Matched, Sided
  <2> QED
    BY ONLY <2>1, Tradable(Of), a = Units(acc.open.buy, "buy"), b = Units(acc.open.sell, "sell"), UnitsType
<1>4. Paired(b, a) = <<>>
  BY ONLY <1>2, <1>3, PairedNone
<1>5. Paired(Join(sold, b), Join(bought, a)) = Join(Paired(sold, bought), Paired(b, a))
  BY ONLY <1>2, <1>3, PairedConcat
<1>6. Join(Paired(sold, bought), <<>>) = Paired(sold, bought)
  BY ONLY <1>2, PairedType, JoinNone
<1>7. FifoPnL(s) = SeqSum(Paired(Units(s, "sell"), Units(s, "buy")))
  BY FifoPairs
<1> QED
  BY ONLY <1>2, <1>4, <1>5, <1>6, <1>7, acc = MatchedOf(s)

\* And so is the total of an analysis.
LEMMA TotalIsFifo ==
  ASSUME NEW Of, Tradable(Of), NEW s \in Seq(Of), AnalyzeTrades(s).ok
  PROVE  AnalyzeTrades(s).totalPnL = FifoPnL(Executed(s))
<1>1. Executed(s) \in Seq(Of)
  BY ExecutedSteps
<1>2. Matching(s) = MatchedOf(Executed(s))
  BY DEF Matching, MatchedOf, NoHalves
<1>3. Earned(Matching(s).matches) = FifoPnL(Executed(s))
  BY ONLY <1>1, <1>2, Tradable(Of), MatchedIsFifo
<1>4. AnalyzeTrades(s).totalPnL = Earned(Matching(s).matches)
  <2> PICK figures : figures = Statistics(Matching(s).matches)
    OBVIOUS
  <2>1. Executed(s) # <<>>
    BY DEF AnalyzeTrades
  <2> QED
    BY <2>1 DEF AnalyzeTrades, Earned
<1> QED
  BY ONLY <1>3, <1>4

\* The units of trades one after another.
LEMMA UnitsConcat ==
  ASSUME NEW Of, Tradable(Of), NEW side, NEW s \in Seq(Of), NEW t \in Seq(Of)
  PROVE  Units(s \o t, side) = Join(Units(s, side), Units(t, side))
<1> DEFINE Q == {u \in Seq(Of) : Units(s \o u, side) = Join(Units(s, side), Units(u, side))}
<1>1. <<>> \in Q
  <2>1. s \o <<>> = s /\ <<>> \in Seq(Of)
    OBVIOUS
  <2>2. Units(s, side) \in Seq(Int) /\ Units(<<>>, side) = <<>>
    BY UnitsSteps
  <2> QED
    BY <2>1, <2>2, JoinNone
<1>2. ASSUME NEW u \in Q \cap Seq(Of), NEW x \in Of PROVE Append(u, x) \in Q
  <2> PICK su, ux, a, b : /\ su = s \o u /\ ux = Append(u, x)
                          /\ a = Units(s, side) /\ b = Units(u, side)
    OBVIOUS
  <2>1. s \o ux = Append(su, x) /\ su \in Seq(Of) /\ ux \in Seq(Of)
    <3>1. u \in Seq(Of)
      OBVIOUS
    <3> QED
      BY ONLY <3>1, s \in Seq(Of), x \in Of, su = s \o u, ux = Append(u, x), AppendConcat
  <2>2. Units(su, side) = Join(a, b) /\ a \in Seq(Int) /\ b \in Seq(Int)
    BY UnitsType
  <2>3. CASE x.side = side
    <3>1. Units(Append(su, x), side) = Join(Units(su, side), UnitsOf(x))
      BY ONLY <2>1, <2>3, Tradable(Of), x \in Of, UnitsMore
    <3>2. Units(ux, side) = Join(b, UnitsOf(x))
      BY ONLY <2>3, Tradable(Of), x \in Of, u \in Q \cap Seq(Of), ux = Append(u, x),
              b = Units(u, side), UnitsMore
    <3>3. Join(Join(a, b), UnitsOf(x)) = Join(a, Join(b, UnitsOf(x)))
      BY ONLY <2>2, Tradable(Of), x \in Of, UnitsOfType, JoinAssociative
    <3>4. Units(s \o ux, side) = Join(a, Units(ux, side))
      BY ONLY <2>1, <2>2, <3>1, <3>2, <3>3
    <3> QED
      BY <2>1, <3>4
  <2>4. CASE x.side # side
    <3>1. Units(Append(su, x), side) = Units(su, side)
      BY ONLY <2>1, <2>4, Tradable(Of), x \in Of, UnitsOther
    <3>2. Units(ux, side) = b
      BY ONLY <2>4, Tradable(Of), x \in Of, u \in Q \cap Seq(Of), ux = Append(u, x),
              b = Units(u, side), UnitsOther
    <3>3. Units(s \o ux, side) = Join(a, Units(ux, side))
      BY ONLY <2>1, <2>2, <3>1, <3>2
    <3> QED
      BY <2>1, <3>3
  <2> QED
    BY <2>3, <2>4
<1> HIDE DEF Q
<1>3. t \in Q
  BY <1>1, <1>2, SeqInduction
<1> QED
  BY <1>3 DEF Q

\* As much bought as sold.
Even(s) == Len(Units(s, "buy")) = Len(Units(s, "sell"))

\* Trades that follow others of which nothing is open make their own profit.
LEMMA FifoConcat ==
  ASSUME NEW Of, Tradable(Of), NEW s \in Seq(Of), NEW t \in Seq(Of), Even(s)
  PROVE  /\ FifoPnL(s \o t) = FifoPnL(s) + FifoPnL(t)
         /\ Even(t) => Even(s \o t)
<1> PICK b, c, d, e : /\ b = Units(s, "buy") /\ c = Units(s, "sell")
                      /\ d = Units(t, "buy") /\ e = Units(t, "sell")
  OBVIOUS
<1>1. b \in Seq(Int) /\ c \in Seq(Int) /\ d \in Seq(Int) /\ e \in Seq(Int) /\ Len(c) = Len(b)
  BY UnitsType DEF Even
<1>2. Units(s \o t, "buy") = Join(b, d) /\ Units(s \o t, "sell") = Join(c, e)
  BY UnitsConcat
<1>3. \A u : FifoPnL(u) = SeqSum(Paired(Units(u, "sell"), Units(u, "buy")))
  BY FifoPairs
<1>4. Paired(Join(c, e), Join(b, d)) = Join(Paired(c, b), Paired(e, d))
  BY ONLY <1>1, PairedConcat
<1>5. SeqSum(Join(Paired(c, b), Paired(e, d))) = SeqSum(Paired(c, b)) + SeqSum(Paired(e, d))
  BY ONLY <1>1, PairedType, SumJoin
<1>6. FifoPnL(s \o t) = FifoPnL(s) + FifoPnL(t)
  BY ONLY <1>2, <1>3, <1>4, <1>5, b = Units(s, "buy"), c = Units(s, "sell"),
          d = Units(t, "buy"), e = Units(t, "sell")
<1>7. Even(t) => Even(s \o t)
  <2>1. Len(Join(b, d)) = Len(b) + Len(d) /\ Len(Join(c, e)) = Len(c) + Len(e)
    BY ONLY <1>1, JoinType
  <2> QED
    BY ONLY <1>1, <1>2, <2>1, d = Units(t, "buy"), e = Units(t, "sell") DEF Even
<1> QED
  BY <1>6, <1>7
-----------------------------------------------------------------------------
(***************************************************************************)
(* Trades in the order of their times, no two of one second.               *)
(***************************************************************************)
Climbs(s) == \A i, j \in DOMAIN s : i < j => s[i].time < s[j].time

LEMMA AppendParts ==
  ASSUME NEW W, NEW s \in Seq(W), NEW x \in W
  PROVE  /\ Append(s, x) \in Seq(W) /\ DOMAIN Append(s, x) = 1 .. Len(s) + 1
         /\ DOMAIN s = 1 .. Len(s) /\ Len(s) \in Nat
         /\ Append(s, x)[Len(s) + 1] = x /\ \A i \in 1 .. Len(s) : Append(s, x)[i] = s[i]
OBVIOUS

LEMMA RangeAppend ==
  ASSUME NEW W, NEW s \in Seq(W), NEW x \in W
  PROVE  Range(Append(s, x)) = Range(s) \cup {x} /\ Range(s) \subseteq W
<1> PICK n \in Nat : n = Len(s)
  OBVIOUS
<1> PICK sx : sx = Append(s, x)
  OBVIOUS
<1>1. /\ DOMAIN sx = 1 .. n + 1 /\ DOMAIN s = 1 .. n
      /\ sx[n + 1] = x /\ \A i \in 1 .. n : sx[i] = s[i]
  BY AppendParts
<1>2. \A i \in 1 .. n + 1 : i \in 1 .. n \/ i = n + 1
  OBVIOUS
<1>3. \A i \in 1 .. n : i \in 1 .. n + 1
  OBVIOUS
<1>4. n + 1 \in 1 .. n + 1
  OBVIOUS
<1>5. Range(sx) = Range(s) \cup {x}
  BY ONLY <1>1, <1>2, <1>3, <1>4 DEF Range
<1>6. Range(s) \subseteq W
  BY DEF Range
<1> QED
  BY <1>5, <1>6

LEMMA ClimbsAppend ==
  ASSUME NEW W, NEW s \in Seq(W), NEW x \in W
  PROVE  Climbs(Append(s, x)) <=> Climbs(s) /\ \A t \in Range(s) : t.time < x.time
<1> PICK n \in Nat : n = Len(s)
  OBVIOUS
<1> PICK sx : sx = Append(s, x)
  OBVIOUS
<1>1. /\ DOMAIN sx = 1 .. n + 1 /\ DOMAIN s = 1 .. n
      /\ sx[n + 1] = x /\ \A i \in 1 .. n : sx[i] = s[i]
  BY AppendParts
<1>2. ASSUME Climbs(sx) PROVE Climbs(s) /\ \A t \in Range(s) : t.time < x.time
  <2>1. Climbs(s)
    BY ONLY <1>1, <1>2, n \in Nat DEF Climbs
  <2>2. ASSUME NEW i \in 1 .. n PROVE s[i].time < x.time
    <3>1. i \in 1 .. n + 1 /\ n + 1 \in 1 .. n + 1 /\ i < n + 1
      OBVIOUS
    <3>2. sx[i].time < sx[n + 1].time
      BY ONLY <1>1, <1>2, <3>1 DEF Climbs
    <3> QED
      BY ONLY <1>1, <3>2
  <2> QED
    BY ONLY <1>1, <2>1, <2>2 DEF Range
<1>3. ASSUME Climbs(s), \A t \in Range(s) : t.time < x.time PROVE Climbs(sx)
  <2> SUFFICES ASSUME NEW i \in DOMAIN sx, NEW j \in DOMAIN sx, i < j PROVE sx[i].time < sx[j].time
    BY DEF Climbs
  <2> i \in 1 .. n + 1 /\ j \in 1 .. n + 1
    BY <1>1
  <2>1. i \in 1 .. n
    OBVIOUS
  <2>2. CASE j \in 1 .. n
    BY ONLY <1>1, <1>3, <2>1, <2>2, i < j DEF Climbs
  <2>3. CASE j = n + 1
    BY ONLY <1>1, <1>3, <2>1, <2>3 DEF Range
  <2> QED
    BY <2>2, <2>3
<1> QED
  BY <1>2, <1>3

\* The first elements of a sequence, and its last.
LEMMA AppendSplit ==
  ASSUME NEW W, NEW s \in Seq(W), s # <<>>
  PROVE  \E t \in Seq(W), x \in W : s = Append(t, x)
<1> PICK n \in Nat \ {0} : n = Len(s)
  OBVIOUS
<1> PICK t, x : t = SubSeq(s, 1, n - 1) /\ x = s[n]
  OBVIOUS
<1>1. x \in W /\ t \in Seq(W) /\ Len(t) = n - 1 /\ \A i \in 1 .. n - 1 : t[i] = s[i]
  OBVIOUS
<1>2. s = Append(t, x)
  OBVIOUS
<1> QED
  BY <1>1, <1>2

LEMMA RangeNone ==
  /\ Range(<<>>) = {}
  /\ \A W : \A s \in Seq(W) : Range(s) = {} => s = <<>>
<1>1. Range(<<>>) = {}
  BY DEF Range
<1>2. ASSUME NEW W, NEW s \in Seq(W), s # <<>> PROVE Range(s) # {}
  <2>1. 1 \in DOMAIN s
    BY <1>2
  <2> QED
    BY ONLY <2>1 DEF Range
<1> QED
  BY <1>1, <1>2

\* There is one such order.
LEMMA ClimbsOnce ==
  ASSUME NEW W, \A t \in W : t.time \in Nat, NEW s \in Seq(W), NEW t \in Seq(W),
         Climbs(s), Climbs(t), Range(s) = Range(t)
  PROVE  s = t
<1> DEFINE Q == {u \in Seq(W) : \A v \in Seq(W) : Climbs(u) /\ Climbs(v) /\ Range(u) = Range(v) => u = v}
<1>1. <<>> \in Q
  <2>1. <<>> \in Seq(W)
    OBVIOUS
  <2> QED
    BY <2>1, RangeNone
<1>2. ASSUME NEW u \in Q \cap Seq(W), NEW x \in W PROVE Append(u, x) \in Q
  <2>1. Append(u, x) \in Seq(W) /\ u \in Seq(W)
    OBVIOUS
  <2>2. ASSUME NEW v \in Seq(W), Climbs(Append(u, x)), Climbs(v), Range(Append(u, x)) = Range(v)
        PROVE  Append(u, x) = v
    <3>1. /\ Range(Append(u, x)) = Range(u) \cup {x} /\ Range(u) \subseteq W
          /\ Climbs(u) /\ \A w \in Range(u) : w.time < x.time
      BY ONLY <2>1, <2>2, x \in W, RangeAppend, ClimbsAppend
    <3>2. v # <<>>
      <4>1. x \in Range(v)
        BY ONLY <2>2, <3>1
      <4> QED
        BY ONLY <4>1, RangeNone
    <3>3. PICK r \in Seq(W), y \in W : v = Append(r, y)
      BY <3>2, AppendSplit
    <3>4. /\ Range(v) = Range(r) \cup {y} /\ Range(r) \subseteq W
          /\ Climbs(r) /\ \A w \in Range(r) : w.time < y.time
      <4>1. Climbs(Append(r, y))
        BY ONLY <2>2, <3>3
      <4>2. /\ Range(Append(r, y)) = Range(r) \cup {y} /\ Range(r) \subseteq W
            /\ Climbs(r) /\ \A w \in Range(r) : w.time < y.time
        BY ONLY <4>1, r \in Seq(W), y \in W, RangeAppend, ClimbsAppend
      <4> QED
        BY ONLY <3>3, <4>2
    <3>5. x.time \in Nat /\ y.time \in Nat
      OBVIOUS
    <3> PICK A, B : A = Range(u) /\ B = Range(r)
      OBVIOUS
    <3>6. A \cup {x} = B \cup {y}
      BY ONLY <2>2, <3>1, <3>4, A = Range(u), B = Range(r)
    <3>7. (\A w \in A : w.time < x.time) /\ (\A w \in B : w.time < y.time)
      BY ONLY <3>1, <3>4, A = Range(u), B = Range(r)
    <3>8. x = y
      <4> SUFFICES ASSUME x # y PROVE FALSE
        OBVIOUS
      <4>1. x \in B /\ y \in A
        BY ONLY <3>6, x # y
      <4>2. x.time < y.time /\ y.time < x.time
        BY ONLY <3>7, <4>1
      <4> QED
        BY ONLY <3>5, <4>2
    <3>9. x \notin A /\ y \notin B
      BY ONLY <3>5, <3>7
    <3>10. A = B
      <4>1. ASSUME NEW w \in A PROVE w \in B
        BY ONLY <3>6, <3>8, <3>9, <4>1
      <4>2. ASSUME NEW w \in B PROVE w \in A
        BY ONLY <3>6, <3>8, <3>9, <4>2
      <4> QED
        BY <4>1, <4>2
    <3>11. \A w \in Seq(W) : Climbs(u) /\ Climbs(w) /\ Range(u) = Range(w) => u = w
      BY ONLY u \in Q \cap Seq(W)
    <3>12. u = r
      BY ONLY <3>1, <3>4, <3>10, <3>11, r \in Seq(W), A = Range(u), B = Range(r)
    <3> QED
      BY ONLY <3>3, <3>8, <3>12
  <2> QED
    BY <2>1, <2>2
<1> HIDE DEF Q
<1>3. s \in Q
  BY <1>1, <1>2, SeqInduction
<1> QED
  BY <1>3 DEF Q


LEMMA ClimbsConcat ==
  ASSUME NEW W, NEW s \in Seq(W), NEW t \in Seq(W), Climbs(s), Climbs(t),
         \A u \in Range(s), v \in Range(t) : u.time < v.time
  PROVE  Climbs(s \o t) /\ Range(s \o t) = Range(s) \cup Range(t) /\ s \o t \in Seq(W)
<1> PICK st : st = s \o t
  OBVIOUS
<1> PICK n \in Nat : n = Len(s)
  OBVIOUS
<1> PICK m \in Nat : m = Len(t)
  OBVIOUS
<1>1. /\ st \in Seq(W) /\ DOMAIN s = 1 .. n /\ DOMAIN t = 1 .. m /\ DOMAIN st = 1 .. n + m
      /\ \A i \in 1 .. n : st[i] = s[i]
      /\ \A i \in 1 .. m : st[n + i] = t[i]
  OBVIOUS
<1>2. \A i \in 1 .. n + m : i \in 1 .. n \/ (i - n \in 1 .. m /\ n + (i - n) = i)
  OBVIOUS
<1>3. \A i \in 1 .. n : i \in 1 .. n + m
  OBVIOUS
<1>4. \A i \in 1 .. m : n + i \in 1 .. n + m
  OBVIOUS
<1>5. Range(st) = Range(s) \cup Range(t)
  <2>1. ASSUME NEW x \in Range(st) PROVE x \in Range(s) \cup Range(t)
    <3>1. PICK i \in 1 .. n + m : x = st[i]
      BY ONLY <1>1, <2>1 DEF Range
    <3>2. CASE i \in 1 .. n
      BY ONLY <1>1, <3>1, <3>2 DEF Range
    <3>3. CASE i - n \in 1 .. m /\ n + (i - n) = i
      BY ONLY <1>1, <3>1, <3>3 DEF Range
    <3> QED
      BY <1>2, <3>2, <3>3
  <2>2. ASSUME NEW x \in Range(s) PROVE x \in Range(st)
    BY ONLY <1>1, <1>3, <2>2 DEF Range
  <2>3. ASSUME NEW x \in Range(t) PROVE x \in Range(st)
    BY ONLY <1>1, <1>4, <2>3 DEF Range
  <2> QED
    BY <2>1, <2>2, <2>3
<1>6. Climbs(st)
  <2> SUFFICES ASSUME NEW i \in DOMAIN st, NEW j \in DOMAIN st, i < j PROVE st[i].time < st[j].time
    BY DEF Climbs
  <2>1. i \in 1 .. n + m /\ j \in 1 .. n + m
    BY <1>1
  <2>2. CASE i \in 1 .. n /\ j \in 1 .. n
    BY ONLY <1>1, <2>2, i < j, Climbs(s) DEF Climbs
  <2>3. CASE i \in 1 .. n /\ j - n \in 1 .. m /\ n + (j - n) = j
    <3>1. st[i] \in Range(s) /\ st[j] \in Range(t)
      BY ONLY <1>1, <2>3 DEF Range
    <3> QED
      BY <3>1
  <2>4. CASE i - n \in 1 .. m /\ n + (i - n) = i /\ j - n \in 1 .. m /\ n + (j - n) = j
    <3>1. i - n < j - n
      BY ONLY <2>1, <2>4, n \in Nat, m \in Nat, i < j
    <3>2. st[i] = t[i - n] /\ st[j] = t[j - n]
      BY ONLY <1>1, <2>4
    <3> QED
      BY ONLY <1>1, <2>4, <3>1, <3>2, Climbs(t) DEF Climbs
  <2>5. CASE i \notin 1 .. n /\ j \in 1 .. n
    BY <2>1, <2>5
  <2> QED
    BY <1>2, <2>1, <2>2, <2>3, <2>4, <2>5
<1> QED
  BY <1>1, <1>5, <1>6

\* The executed trades of ordered rows are in the order of their times.
LEMMA ExecutedClimb ==
  ASSUME NEW W, \A t \in W : t.time \in Nat, NEW s \in Seq(W), Ordered(s), IsInjective(s),
         \A t, u \in Range(s) : ~t.cancelled /\ ~u.cancelled /\ t.time = u.time => t = u
  PROVE  /\ Executed(s) \in Seq(W) /\ Climbs(Executed(s))
         /\ Range(Executed(s)) = {t \in Range(s) : ~t.cancelled}
<1> DEFINE Apart(u) == \A v, w \in Range(u) : ~v.cancelled /\ ~w.cancelled /\ v.time = w.time => v = w
           Good(u) == /\ Executed(u) \in Seq(W) /\ Climbs(Executed(u))
                      /\ Range(Executed(u)) = {t \in Range(u) : ~t.cancelled}
           Q == {u \in Seq(W) : Ordered(u) /\ IsInjective(u) /\ Apart(u) => Good(u)}
<1>1. <<>> \in Q
  <2>1. <<>> \in Seq(W) /\ Executed(<<>>) = <<>>
    BY ExecutedSteps
  <2>2. Climbs(<<>>)
    BY DEF Climbs
  <2> QED
    BY <2>1, <2>2, RangeNone
<1>2. ASSUME NEW u \in Q \cap Seq(W), NEW x \in W PROVE Append(u, x) \in Q
  <2> SUFFICES ASSUME Ordered(Append(u, x)), IsInjective(Append(u, x)), Apart(Append(u, x))
               PROVE  Good(Append(u, x))
    OBVIOUS
  <2> PICK n \in Nat : n = Len(u)
    OBVIOUS
  <2> PICK ux : ux = Append(u, x)
    OBVIOUS
  <2>1. /\ DOMAIN ux = 1 .. n + 1 /\ DOMAIN u = 1 .. n
        /\ ux[n + 1] = x /\ \A i \in 1 .. n : ux[i] = u[i]
    BY AppendParts
  <2>2. Range(ux) = Range(u) \cup {x} /\ Range(u) \subseteq W
    BY RangeAppend
  <2>3. \A i \in 1 .. n : i \in 1 .. n + 1 /\ n + 1 \in 1 .. n + 1 /\ i < n + 1 /\ i # n + 1
    OBVIOUS
  <2>4. Ordered(u) /\ \A t \in Range(u) : t.time <= x.time
    <3>1. \A i \in 1 .. n : u[i].time <= x.time
      BY ONLY <2>1, <2>3, Ordered(Append(u, x)), ux = Append(u, x) DEF Ordered
    <3>2. Ordered(u)
      BY ONLY <2>1, <2>3, Ordered(Append(u, x)), ux = Append(u, x) DEF Ordered
    <3> QED
      BY ONLY <2>1, <3>1, <3>2 DEF Range
  <2>5. IsInjective(u) /\ x \notin Range(u)
    <3>1. \A i, j \in 1 .. n + 1 : ux[i] = ux[j] => i = j
      BY ONLY <2>1, IsInjective(Append(u, x)), ux = Append(u, x) DEF IsInjective
    <3>2. IsInjective(u)
      BY ONLY <2>1, <2>3, <3>1 DEF IsInjective
    <3>3. \A i \in 1 .. n : u[i] # x
      BY ONLY <2>1, <2>3, <3>1
    <3> QED
      BY ONLY <2>1, <3>2, <3>3 DEF Range
  <2>6. Apart(u)
    BY ONLY <2>2, Apart(Append(u, x)), ux = Append(u, x)
  <2>7. Good(u)
    BY <2>4, <2>5, <2>6
  <2>8. Executed(ux) = Keep(Executed(u), x)
    BY ExecutedSteps
  <2>9. CASE x.cancelled
    <3>1. Executed(ux) = Executed(u)
      BY ONLY <2>8, <2>9 DEF Keep
    <3> QED
      BY <2>2, <2>7, <2>9, <3>1
  <2>10. CASE ~x.cancelled
    <3> PICK kept : kept = Executed(u)
      OBVIOUS
    <3>1. Executed(ux) = Append(kept, x)
      BY ONLY <2>8, <2>10, kept = Executed(u) DEF Keep
    <3>2. kept \in Seq(W) /\ Climbs(kept) /\ Range(kept) = {t \in Range(u) : ~t.cancelled}
      BY <2>7
    <3>3. ASSUME NEW t \in Range(kept) PROVE t.time < x.time
      <4>1. t \in Range(u) /\ ~t.cancelled /\ t.time <= x.time
        BY ONLY <2>4, <3>2, <3>3
      <4>2. t.time # x.time
        BY <2>2, <2>5, <2>10, <4>1
      <4>3. t.time \in Nat /\ x.time \in Nat
        BY <2>2, <4>1
      <4> QED
        BY ONLY <4>1, <4>2, <4>3
    <3>4. Append(kept, x) \in Seq(W) /\ Range(Append(kept, x)) = Range(kept) \cup {x}
      BY ONLY <3>2, x \in W, AppendParts, RangeAppend
    <3>5. Climbs(Append(kept, x))
      BY ONLY <3>2, <3>3, x \in W, ClimbsAppend
    <3>6. Range(Append(kept, x)) = {t \in Range(ux) : ~t.cancelled}
      BY ONLY <2>2, <2>10, <3>2, <3>4
    <3> QED
      BY ONLY <3>1, <3>4, <3>5, <3>6, ux = Append(u, x)
  <2> QED
    BY <2>9, <2>10
<1> HIDE DEF Q
<1>3. s \in Q
  BY <1>1, <1>2, SeqInduction
<1> QED
  BY <1>3 DEF Q

(***************************************************************************)
(* The totals of the reports.  The executed trades of the first reports,   *)
(* one report after another, are all of them in the order of their times.  *)
(***************************************************************************)
Total(n) == reports[n].analysis.totalPnL

LEMMA AnalyzedTotal ==
  ASSUME ReportTypes, NEW r \in Analyzed
  PROVE  /\ r.rows \in Seq(trades) /\ r.rows \in Seq(BotTrades)
         /\ r.analysis.totalPnL = FifoPnL(Executed(r.rows)) /\ FifoPnL(Executed(r.rows)) \in Int
<1>1. PICK rows \in Seq(trades), known \in Nat :
         Completed(rows) /\ r = [analysis |-> AnalyzeTrades(rows), rows |-> rows, known |-> known]
  BY DEF Analyzed
<1>2. r.analysis = AnalyzeTrades(rows) /\ r.rows = rows
  BY <1>1
<1>3. AnalyzeTrades(rows).ok
  BY <1>1 DEF Completed
<1>4. rows \in Seq(BotTrades)
  <2>1. trades \subseteq BotTrades
    BY HistoryFacts DEF ReportTypes
  <2> QED
    BY ONLY <2>1, rows \in Seq(trades)
<1>5. AnalyzeTrades(rows).totalPnL = FifoPnL(Executed(rows))
  BY ONLY <1>3, <1>4, BotTradable, TotalIsFifo
<1>6. FifoPnL(Executed(rows)) \in Int
  <2>1. Executed(rows) \in Seq(BotTrades)
    BY ONLY <1>4, ExecutedSteps
  <2>2. Units(Executed(rows), "buy") \in Seq(Int) /\ Units(Executed(rows), "sell") \in Seq(Int)
    BY ONLY <2>1, BotTradable, UnitsType
  <2>3. Paired(Units(Executed(rows), "sell"), Units(Executed(rows), "buy")) \in Seq(Int)
    BY ONLY <2>2, PairedType
  <2>4. FifoPnL(Executed(rows)) = SeqSum(Paired(Units(Executed(rows), "sell"), Units(Executed(rows), "buy")))
    BY FifoPairs
  <2> QED
    BY ONLY <2>3, <2>4, SumSteps
<1> QED
  BY ONLY <1>2, <1>4, <1>5, <1>6, rows \in Seq(trades)

CoveredBy(n) == {t \in UNION {Reported(m) : m \in 1 .. n} : ~t.cancelled}
NoTwoAtOnce == \A t, u \in InsertedExecuted : t.time = u.time => t = u

LEMMA FoundInserted ==
  ASSUME ReportInv, ~restarted, NEW n \in 1 .. Len(reports)
  PROVE  /\ Ordered(reports[n].rows) /\ IsInjective(reports[n].rows)
         /\ Reported(n) = Range(reports[n].rows) /\ Reported(n) \subseteq Inserted
<1>1. Found(reports[n].rows, Watermark(n - 1), reports[n].known)
  BY DEF ReportInv, FromWatermark
<1>2. Reported(n) = Range(reports[n].rows)
  BY DEF Reported, Range
<1>3. Reported(n) \subseteq Inserted
  <2> PICK len \in Nat : len = Len(table)
    BY DEF ReportInv, ReportTypes
  <2>1. DOMAIN table = 1 .. len
    BY DEF ReportInv, ReportTypes
  <2> PICK known : known = reports[n].known
    OBVIOUS
  <2>2. known \in 0 .. len /\ Reported(n) \subseteq {table[i] : i \in 1 .. known}
    BY <1>1 DEF Found, Reported
  <2>3. \A i \in 1 .. known : i \in 1 .. len
    BY <2>2
  <2> QED
    BY ONLY <2>1, <2>2, <2>3 DEF Inserted
<1> QED
  BY <1>1, <1>2, <1>3 DEF Found

\* The executed trades of one report, in the order of their times.
LEMMA ReportClimbs ==
  ASSUME ReportInv, ~restarted, NoTwoAtOnce, NEW n \in 1 .. Len(reports)
  PROVE  \E q \in Seq(BotTrades) :
            /\ q = Executed(reports[n].rows) /\ Climbs(q) /\ Total(n) = FifoPnL(q) /\ FifoPnL(q) \in Int
            /\ Range(q) = {t \in Reported(n) : ~t.cancelled}
<1> PICK rows : rows = reports[n].rows
  OBVIOUS
<1>1. /\ Ordered(rows) /\ IsInjective(rows)
      /\ Reported(n) = Range(rows) /\ Reported(n) \subseteq Inserted
  BY FoundInserted
<1>2. /\ rows \in Seq(BotTrades) /\ Total(n) = FifoPnL(Executed(rows))
      /\ FifoPnL(Executed(rows)) \in Int
  <2>1. ReportTypes /\ reports[n] \in Analyzed
    BY DEF ReportInv, ReportTypes
  <2> QED
    BY ONLY <2>1, rows = reports[n].rows, AnalyzedTotal DEF Total
<1>3. \A t, u \in Range(rows) : ~t.cancelled /\ ~u.cancelled /\ t.time = u.time => t = u
  BY ONLY <1>1, NoTwoAtOnce DEF NoTwoAtOnce, InsertedExecuted
<1>4. \A t \in BotTrades : t.time \in Nat
  BY DEF BotTrades
<1>5. /\ Executed(rows) \in Seq(BotTrades) /\ Climbs(Executed(rows))
      /\ Range(Executed(rows)) = {t \in Range(rows) : ~t.cancelled}
  BY ONLY <1>1, <1>2, <1>3, <1>4, ExecutedClimb
<1> QED
  BY ONLY <1>1, <1>2, <1>5, rows = reports[n].rows

LEMMA CoveredBefore ==
  ASSUME ReportInv, ~restarted, NoTwoAtOnce, NEW n \in Nat, n + 1 \in 1 .. Len(reports),
         NEW t \in CoveredBy(n), NEW u \in Reported(n + 1), ~u.cancelled
  PROVE  t.time < u.time
<1>1. PICK m \in 1 .. n : t \in Reported(m)
  BY DEF CoveredBy
<1> PICK k : k = n + 1
  OBVIOUS
<1>2. m \in 1 .. Len(reports) /\ k \in 1 .. Len(reports) /\ m < k /\ ~t.cancelled
  <2>1. Len(reports) \in Nat
    BY DEF ReportInv, ReportTypes
  <2> QED
    BY <2>1 DEF CoveredBy
<1> PICK last : last = LastOf(m)
  OBVIOUS
<1>3. /\ t.time \in Nat /\ u.time \in Nat /\ last.time \in Nat
      /\ t.time <= last.time /\ last.time <= u.time
      /\ last \in Reported(m) /\ ~last.cancelled /\ last # u
  BY ONLY <1>1, <1>2, k = n + 1, last = LastOf(m), ReportInv, ~restarted, u \in Reported(n + 1),
          ~u.cancelled, ReportsInTime
<1>4. last \in InsertedExecuted /\ u \in InsertedExecuted
  <2>1. Reported(m) \subseteq Inserted /\ Reported(k) \subseteq Inserted
    BY ONLY <1>2, ReportInv, ~restarted, FoundInserted
  <2> QED
    BY <1>3, <2>1 DEF InsertedExecuted
<1>5. last.time # u.time
  BY ONLY <1>3, <1>4, NoTwoAtOnce DEF NoTwoAtOnce
<1> QED
  BY ONLY <1>3, <1>5

LEMMA CoveredMore ==
  ASSUME NEW n \in Nat
  PROVE  CoveredBy(n + 1) = CoveredBy(n) \cup {t \in Reported(n + 1) : ~t.cancelled}
<1>1. \A m \in 1 .. n + 1 : m \in 1 .. n \/ m = n + 1
  OBVIOUS
<1>2. \A m \in 1 .. n : m \in 1 .. n + 1
  OBVIOUS
<1>3. n + 1 \in 1 .. n + 1
  OBVIOUS
<1> QED
  BY ONLY <1>1, <1>2, <1>3 DEF CoveredBy

\* The sum of the first n totals, and of one more.
LEMMA TotalsStep ==
  ASSUME NEW n \in Nat, \A k \in 1 .. n + 1 : Total(k) \in Int
  PROVE  /\ SeqSum([k \in 1 .. n + 1 |-> Total(k)]) = SeqSum([k \in 1 .. n |-> Total(k)]) + Total(n + 1)
         /\ SeqSum([k \in 1 .. n |-> Total(k)]) \in Int
<1> PICK F : F = [k \in 1 .. n + 1 |-> Total(k)]
  OBVIOUS
<1> PICK s : s = [k \in 1 .. n |-> F[k]]
  OBVIOUS
<1> PICK x : x = F[n + 1]
  OBVIOUS
<1>1. F \in [1 .. n + 1 -> Int]
  OBVIOUS
<1>2. s \in Seq(Int) /\ x \in Int /\ Len(s) = n /\ F = Append(s, x)
  BY ONLY <1>1, n \in Nat, s = [k \in 1 .. n |-> F[k]], x = F[n + 1]
<1>3. SeqSum(Append(s, x)) = SeqSum(s) + x /\ SeqSum(s) \in Int
  BY ONLY <1>2, SumSteps
<1>4. s = [k \in 1 .. n |-> Total(k)] /\ x = Total(n + 1)
  OBVIOUS
<1> QED
  BY ONLY <1>2, <1>3, <1>4, F = [k \in 1 .. n + 1 |-> Total(k)]

LEMMA NothingEven ==
  /\ <<>> \in Seq(BotTrades) /\ Climbs(<<>>) /\ Range(<<>>) = {} /\ Even(<<>>)
  /\ FifoPnL(<<>>) = 0 /\ SeqSum([k \in 1 .. 0 |-> Total(k)]) = 0
<1>1. <<>> \in Seq(BotTrades) /\ Climbs(<<>>) /\ Range(<<>>) = {}
  BY RangeNone DEF Climbs
<1>2. \A side : Units(<<>>, side) = <<>>
  BY BotTradable, UnitsSteps
<1>3. FifoPnL(<<>>) = SeqSum(Paired(<<>>, <<>>))
  BY ONLY <1>2, FifoPairs
<1>4. <<>> \in Seq(Int)
  OBVIOUS
<1>5. SeqSum(<<>>) = 0 /\ Paired(<<>>, <<>>) = <<>>
  BY ONLY <1>4, SumSteps, PairedNone
<1>6. [k \in 1 .. 0 |-> Total(k)] = <<>>
  OBVIOUS
<1> QED
  BY <1>1, <1>2, <1>3, <1>5, <1>6 DEF Even

\* p lists the executed trades of the first n reports.
Lists(p, n) ==
    /\ p \in Seq(BotTrades) /\ Climbs(p) /\ Range(p) = CoveredBy(n)
    /\ FifoPnL(p) = SeqSum([k \in 1 .. n |-> Total(k)])
    /\ (\A k \in 1 .. n : Balanced(reports[k].rows)) => Even(p)

LEMMA ListsMore ==
  ASSUME ReportInv, ~restarted, NoTwoAtOnce, NEW n \in Nat, n + 1 \in 1 .. Len(reports),
         \A k \in 1 .. n : Balanced(reports[k].rows), NEW p, Lists(p, n)
  PROVE  \E r : Lists(r, n + 1)
<1> PICK len \in Nat : len = Len(reports)
  BY DEF ReportInv, ReportTypes
<1> PICK k : k = n + 1
  OBVIOUS
<1>1. PICK q \in Seq(BotTrades) :
         /\ q = Executed(reports[k].rows) /\ Climbs(q) /\ Total(k) = FifoPnL(q)
         /\ Range(q) = {t \in Reported(k) : ~t.cancelled}
  BY ReportClimbs
<1>2. \A j \in 1 .. n + 1 : Total(j) \in Int
  <2>1. ASSUME NEW j \in 1 .. n + 1 PROVE Total(j) \in Int
    <3>1. j \in 1 .. Len(reports)
      BY DEF ReportInv, ReportTypes
    <3> QED
      BY <3>1, ReportClimbs
  <2> QED
    BY <2>1
<1>3. /\ p \in Seq(BotTrades) /\ Climbs(p) /\ Range(p) = CoveredBy(n)
      /\ FifoPnL(p) = SeqSum([j \in 1 .. n |-> Total(j)]) /\ Even(p)
  BY DEF Lists
<1> PICK r : r = p \o q
  OBVIOUS
<1>4. \A t \in Range(p), u \in Range(q) : t.time < u.time
  BY <1>1, <1>3, CoveredBefore
<1>5. r \in Seq(BotTrades) /\ Climbs(r) /\ Range(r) = Range(p) \cup Range(q)
  BY ONLY <1>1, <1>3, <1>4, r = p \o q, ClimbsConcat
<1>6. FifoPnL(r) = FifoPnL(p) + FifoPnL(q) /\ (Even(q) => Even(r))
  BY ONLY <1>1, <1>3, r = p \o q, BotTradable, FifoConcat
<1>7. FifoPnL(r) = SeqSum([j \in 1 .. n + 1 |-> Total(j)])
  <2>1. SeqSum([j \in 1 .. n + 1 |-> Total(j)]) = SeqSum([j \in 1 .. n |-> Total(j)]) + Total(n + 1)
    BY ONLY <1>2, n \in Nat, TotalsStep
  <2> QED
    BY ONLY <1>1, <1>3, <1>6, <2>1, k = n + 1
<1>8. Range(r) = CoveredBy(n + 1)
  BY ONLY <1>1, <1>3, <1>5, k = n + 1, n \in Nat, CoveredMore
<1>9. ASSUME \A j \in 1 .. n + 1 : Balanced(reports[j].rows) PROVE Even(r)
  <2>1. Balanced(reports[k].rows)
    BY <1>9
  <2>2. Even(q)
    BY ONLY <1>1, <2>1 DEF Balanced, Even
  <2> QED
    BY <1>6, <2>2
<1> QED
  BY ONLY <1>5, <1>7, <1>8, <1>9 DEF Lists

LEMMA ListsAll ==
  ASSUME ReportInv, ~restarted, NoTwoAtOnce, NEW len \in Nat, len = Len(reports),
         \A n \in 1 .. len - 1 : Balanced(reports[n].rows)
  PROVE  \E p : Lists(p, len)
<1> DEFINE Q == {n \in Nat : n <= len => \E p : Lists(p, n)}
<1>1. 0 \in Q
  <2>1. CoveredBy(0) = {}
    BY DEF CoveredBy
  <2>2. Lists(<<>>, 0)
    BY ONLY <2>1, NothingEven DEF Lists
  <2> QED
    BY <2>2
<1>2. ASSUME NEW n \in Nat, n \in Q PROVE n + 1 \in Q
  <2> SUFFICES ASSUME n + 1 <= len PROVE \E r : Lists(r, n + 1)
    OBVIOUS
  <2>1. PICK p : Lists(p, n)
    BY <1>2
  <2>2. n + 1 \in 1 .. Len(reports) /\ \A k \in 1 .. n : Balanced(reports[k].rows)
    BY <1>2
  <2> QED
    BY ONLY <2>1, <2>2, n \in Nat, ReportInv, ~restarted, NoTwoAtOnce, ListsMore
<1> HIDE DEF Q
<1>3. len \in Q
  BY <1>1, <1>2, SetInduction
<1> QED
  BY <1>3 DEF Q

(***************************************************************************)
(* Report.ReportsAddUp.                                                    *)
(***************************************************************************)
LEMMA TotalsAdd == ReportInv => ReportsAddUp
<1> SUFFICES ASSUME ReportInv PROVE ReportsAddUp
  OBVIOUS
<1> PICK len \in Nat : len = Len(reports)
  BY DEF ReportInv, ReportTypes
<1>1. DOMAIN reports = 1 .. len
  BY DEF ReportInv, ReportTypes
<1>2. ASSUME NEW n \in DOMAIN reports
      PROVE  reports[n].analysis.totalPnL = FifoPnL(Executed(reports[n].rows))
  <2>1. ReportTypes /\ reports[n] \in Analyzed
    BY DEF ReportInv, ReportTypes
  <2> QED
    BY ONLY <2>1, AnalyzedTotal
<1> DEFINE covered == {t \in UNION {Reported(n) : n \in DOMAIN reports} : ~t.cancelled}
<1>3. ASSUME ~restarted, \A t, u \in InsertedExecuted : t.time = u.time => t = u,
             \A n \in 1 .. Len(reports) - 1 : Balanced(reports[n].rows),
             NEW rows \in SetToSeqs(covered), Ordered(rows)
      PROVE  SumOf([n \in DOMAIN reports |-> reports[n].analysis.totalPnL]) = FifoPnL(rows)
  <2>1. NoTwoAtOnce
    BY <1>3 DEF NoTwoAtOnce
  <2>2. PICK p : Lists(p, len)
    BY <1>3, <2>1, ListsAll
  <2>3. /\ p \in Seq(BotTrades) /\ Climbs(p) /\ Range(p) = CoveredBy(len)
        /\ FifoPnL(p) = SeqSum([k \in 1 .. len |-> Total(k)])
    BY ONLY <2>2 DEF Lists
  <2>4. covered = CoveredBy(len)
    BY ONLY <1>1 DEF CoveredBy
  <2>5. IsFiniteSet(covered) /\ covered \subseteq BotTrades
    <3> PICK m \in Nat : m = Len(p)
      BY <2>3
    <3>1. DOMAIN p = 1 .. m /\ IsFiniteSet(1 .. m)
      BY <2>3, FS_Interval
    <3>2. p \in Surjection(1 .. m, Range(p))
      BY <2>3, <3>1 DEF Surjection, Range
    <3>3. IsFiniteSet(Range(p))
      BY ONLY <3>1, <3>2, FS_Surjection
    <3>4. Range(p) \subseteq BotTrades
      BY ONLY <2>3 DEF Range
    <3> QED
      BY ONLY <2>3, <2>4, <3>3, <3>4
  <2>6. rows \in Seq(covered) /\ covered = Range(rows) /\ IsInjective(rows)
    <3> HIDE DEF covered
    <3> QED
      BY ONLY <2>5, rows \in SetToSeqs(covered), ListingIsOnto DEF Range
  <2>7. rows \in Seq(BotTrades)
    BY ONLY <2>5, <2>6
  <2>8. covered \subseteq InsertedExecuted
    <3>1. \A n \in 1 .. Len(reports) : Reported(n) \subseteq Inserted
      BY <1>3, FoundInserted
    <3> QED
      BY <1>1, <3>1 DEF InsertedExecuted
  <2>9. Climbs(rows)
    <3> SUFFICES ASSUME NEW i \in DOMAIN rows, NEW j \in DOMAIN rows, i < j
                 PROVE  rows[i].time < rows[j].time
      BY DEF Climbs
    <3>1. rows[i].time <= rows[j].time
      BY <1>3 DEF Ordered
    <3>2. rows[i] # rows[j]
      BY ONLY <2>6, i \in DOMAIN rows, j \in DOMAIN rows, i < j DEF IsInjective
    <3>3. rows[i] \in covered /\ rows[j] \in covered
      BY ONLY <2>6, i \in DOMAIN rows, j \in DOMAIN rows DEF Range
    <3>4. rows[i].time # rows[j].time
      BY ONLY <1>3, <2>8, <3>2, <3>3
    <3>5. rows[i].time \in Nat /\ rows[j].time \in Nat
      BY ONLY <2>5, <3>3 DEF BotTrades
    <3> QED
      BY ONLY <3>1, <3>4, <3>5
  <2>10. rows = p
    <3>1. \A t \in BotTrades : t.time \in Nat
      BY DEF BotTrades
    <3> QED
      BY ONLY <2>3, <2>4, <2>6, <2>7, <2>9, <3>1, ClimbsOnce
  <2>11. SumOf([n \in DOMAIN reports |-> reports[n].analysis.totalPnL]) = SeqSum([k \in 1 .. len |-> Total(k)])
    BY ONLY <1>1 DEF SumOf, SeqSum, Total
  <2> QED
    BY ONLY <2>3, <2>10, <2>11
<1> QED
  BY <1>2, <1>3 DEF ReportsAddUp

(***************************************************************************)
(* The totals of the reports add up (Report.ReportsAddUp).                 *)
(***************************************************************************)
THEOREM ReportedTotals == ReportSpec => []ReportsAddUp
<1>1. ReportSpec => []ReportInv
  BY InitReports, ReportStep, PTL DEF ReportSpec
<1> QED
  BY <1>1, TotalsAdd, PTL

=============================================================================
