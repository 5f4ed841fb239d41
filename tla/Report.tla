-------------------------------- MODULE Report --------------------------------
(***************************************************************************)
(* The report generator (cmd/report/main.go): on every tick it reads how   *)
(* far the last report came, fetches the bot's own trades with a larger    *)
(* transaction id in the order of their times, analyses them and saves a   *)
(* report.  Meanwhile the bot's writer inserts trades.                     *)
(*                                                                         *)
(* Confirmations of concurrent orders are saved in any order, so the rows  *)
(* reach the table in any order.  An executed trade carries the id and the *)
(* time, in seconds, of its transaction at the exchange; a cancelled one   *)
(* the id of its order.  The database is external: any query may fail.     *)
(***************************************************************************)
EXTENDS TradeAnalysis, FiniteSets

CONSTANTS
    Histories,   \* sets of trades the bot may make
    MaxReports   \* bound: reports saved in one behaviour

ASSUME ReportAssumption == MaxReports \in Nat

\* Prices and sizes are whole numbers of their smallest unit, times of seconds.
BotTrades == [id : Nat \ {0}, time : Nat, side : {"buy", "sell"}, price : Int, size : Nat \ {0},
              cancelled : BOOLEAN]

\* The exchange numbers transactions in the order in which they happen.
ASSUME HistoriesAssumption ==
    \A h \in Histories :
        /\ h \subseteq BotTrades
        /\ \A t, u \in h : ~t.cancelled /\ ~u.cancelled /\ t.id < u.id => t.time <= u.time

VARIABLES
    trades,    \* the trades the bot makes
    table,     \* those inserted in the trades table, in the order of insertion
    gen,       \* runReportGeneration and its locals
    reports,   \* pnl_reports, with the trades each was made from (history)
    restarted  \* history: lastTradeID fell back to 0 though there was a report

reportVars == <<trades, table, gen, reports, restarted>>

Idle == [pc |-> "idle", last |-> 0, rows |-> <<>>, known |-> 0]
Inserted == {table[i] : i \in DOMAIN table}
Reported(n) == {reports[n].rows[i] : i \in DOMAIN reports[n].rows}

ReportInit ==
    /\ trades \in Histories
    /\ table = <<>>
    /\ gen = Idle
    /\ reports = <<>>
    /\ restarted = FALSE

Insert ==
    /\ \E t \in trades \ Inserted : table' = Append(table, t)
    /\ UNCHANGED <<trades, gen, reports, restarted>>
-----------------------------------------------------------------------------
\* A tick: FetchLatestPnlReportTradeID.
FetchLatest ==
    /\ gen.pc = "idle" /\ reports # <<>>
    /\ gen' = [Idle EXCEPT !.pc = "fetch", !.last = reports[Len(reports)].analysis.lastTradeID]
    /\ UNCHANGED <<trades, table, reports, restarted>>

\* No report yet, or any error of the query: from the beginning.
FetchLatestFails ==
    /\ gen.pc = "idle"
    /\ gen' = [Idle EXCEPT !.pc = "fetch"]
    /\ restarted' = (restarted \/ reports # <<>>)
    /\ UNCHANGED <<trades, table, reports>>

\* ORDER BY time ASC: rows of one time come in any order.
Ordered(rows) == \A i, j \in DOMAIN rows : i < j => rows[i].time <= rows[j].time

\* Mutant: the rows come as the table holds them.
FetchTradesUnordered ==
    /\ gen.pc = "fetch"
    /\ gen' = [gen EXCEPT !.pc = "analyze", !.known = Len(table),
                          !.rows = SelectSeq(table, LAMBDA t : t.id > gen.last)]
    /\ UNCHANGED <<trades, table, reports, restarted>>

FetchTradesForReportSince ==
    /\ gen.pc = "fetch"
    /\ \E rows \in SetToSeqs({t \in Inserted : t.id > gen.last}) :
           /\ Ordered(rows)
           /\ gen' = [gen EXCEPT !.pc = "analyze", !.rows = rows, !.known = Len(table)]
    /\ UNCHANGED <<trades, table, reports, restarted>>

FetchTradesFails ==
    /\ gen.pc = "fetch"
    /\ gen' = Idle
    /\ UNCHANGED <<trades, table, reports, restarted>>

\* Nothing executed, or nothing bought and sold again: no report.
Completed(rows) ==
    LET analysis == AnalyzeTrades(rows)
    IN  analysis.ok /\ analysis.totalTrades > 0

NoReport ==
    /\ gen.pc = "analyze" /\ ~Completed(gen.rows)
    /\ gen' = Idle
    /\ UNCHANGED <<trades, table, reports, restarted>>

SavePnlReport ==
    /\ gen.pc = "analyze" /\ Completed(gen.rows) /\ Len(reports) < MaxReports
    /\ reports' = Append(reports, [analysis |-> AnalyzeTrades(gen.rows),
                                   rows |-> gen.rows, known |-> gen.known])
    /\ gen' = Idle
    /\ UNCHANGED <<trades, table, restarted>>

SaveReportFails ==
    /\ gen.pc = "analyze" /\ Completed(gen.rows)
    /\ gen' = Idle
    /\ UNCHANGED <<trades, table, reports, restarted>>

RunReportGeneration ==
    \/ FetchLatest \/ FetchLatestFails \/ FetchTradesForReportSince \/ FetchTradesFails
    \/ NoReport \/ SavePnlReport \/ SaveReportFails

ReportNext == Insert \/ RunReportGeneration

ReportSpec == ReportInit /\ [][ReportNext]_reportVars
-----------------------------------------------------------------------------
(***************************************************************************)
(* Which executed trades the reports cover.  A trade is passed by when a   *)
(* report that ended at a larger id was fetched before it was inserted.    *)
(***************************************************************************)
InsertedExecuted == {t \in Inserted : ~t.cancelled}
LastOf(n) == Last(Executed(reports[n].rows))

PassedBy(t) ==
    \E n \in DOMAIN reports :
        /\ t.id <= reports[n].analysis.lastTradeID
        /\ \E i \in DOMAIN table : table[i] = t /\ i > reports[n].known

(***************************************************************************)
(* Unless the generator restarted from the beginning, an executed trade is *)
(* in one report at most, but for one of the same second as the trade an   *)
(* earlier report ended with; and one that the reports have come to is in  *)
(* one of them, but for one that was passed by.                            *)
(***************************************************************************)
EachTradeReportedOnce ==
    ~restarted =>
        \A t \in InsertedExecuted :
            /\ \A m, n \in DOMAIN reports :
                   m < n /\ t \in Reported(m) \cap Reported(n) => t.time = LastOf(m).time
            /\ \A n \in DOMAIN reports :
                   t.id <= reports[n].analysis.lastTradeID
                       => PassedBy(t) \/ \E m \in 1 .. n : t \in Reported(m)

(***************************************************************************)
(* The total of a report is the profit of its executed trades, first in,   *)
(* first out; and the totals of all reports add up to that of all the      *)
(* executed trades they cover, in the order of their times, when every     *)
(* report but the last left nothing open, none restarted, and no two       *)
(* executed trades share a second.                                         *)
(***************************************************************************)
ReportsAddUp ==
    /\ \A n \in DOMAIN reports :
           reports[n].analysis.totalPnL = FifoPnL(Executed(reports[n].rows))
    /\ LET covered == {t \in UNION {Reported(n) : n \in DOMAIN reports} : ~t.cancelled}
       IN  (/\ ~restarted
            /\ \A t, u \in InsertedExecuted : t.time = u.time => t = u
            /\ \A n \in 1 .. Len(reports) - 1 : Balanced(reports[n].rows))
           => \A rows \in SetToSeqs(covered) :
                  Ordered(rows) => SumOf([n \in DOMAIN reports |-> reports[n].analysis.totalPnL])
                                       = FifoPnL(rows)

=============================================================================
