------------------------------ MODULE DBWriter ------------------------------
(***************************************************************************)
(* TimescaleWriter (internal/dbwriter/writer.go): rows are appended to     *)
(* three in-memory buffers by any goroutine, and a flush moves all of them *)
(* to their tables.  A flush is made by the goroutine that filled a buffer *)
(* (after it has released the mutex it appended under), by the ticker of   *)
(* the background goroutine run, and by Close.  Each flush holds the       *)
(* buffer mutex from beginning to end and is one step here.                *)
(*                                                                         *)
(* Rows are numbered in the order they are saved.  The database is         *)
(* external: any batch insert may fail, and the writer only logs it.       *)
(*                                                                         *)
(* The profit of a fill is not buffered: SaveTradePnL reads the last       *)
(* cumulative profit and inserts a row with the new one, in two queries.   *)
(***************************************************************************)
EXTENDS Integers, Sequences, FiniteSets, Functions, SequencesExt

CONSTANTS
    Savers,     \* the goroutines that save rows
    BatchSize,  \* config.BatchSize
    MaxRows,    \* bound: rows and profits saved in one behaviour
    Profits,    \* profits of a fill
    Times       \* times of a fill

ASSUME SizesAssumption == BatchSize \in Nat \ {0} /\ MaxRows \in Nat
ASSUME SaversAssumption == IsFiniteSet(Savers)
ASSUME ProfitsAssumption == Profits \subseteq Int /\ Times \subseteq Int

\* orderBookBuffer, tradeBuffer, benchmarkBuffer, and the table each goes to.
Kinds == {"order_book", "trade", "benchmark"}
Row(k) == [kind : {k}, id : 1..MaxRows]
Rows == UNION {Row(k) : k \in Kinds}

VARIABLES
    saved,    \* how many rows have been saved
    buffer,   \* buffer[k]: the rows of kind k not yet flushed
    table,    \* table[k]: the rows the database accepted, in order
    dropped,  \* the rows of batches whose insert failed (a history variable)
    due,      \* due[s]: the buffer s has filled and is about to flush, or "none"
    running,  \* the background goroutine is in its loop
    closing,  \* how far Close has come
    before,   \* how many rows had been saved when Close began (history)
    exited,   \* main has returned
    profits,  \* the table trades_pnl, in the order of insertion
    filling,  \* filling[s]: the profit s is saving, as a sequence of one or none
    begun,    \* how many profits have been taken up
    met       \* two savers were saving profits at once (history)

store == <<buffer, table, dropped>>
ledger == <<profits, filling, begun, met>>
vars == <<saved, store, due, running, closing, before, exited, ledger>>

Init ==
    /\ saved = 0
    /\ buffer = [k \in Kinds |-> <<>>]
    /\ table = [k \in Kinds |-> <<>>]
    /\ dropped = {}
    /\ due = [s \in Savers |-> "none"]
    /\ running = TRUE
    /\ closing = "open"
    /\ before = 0
    /\ exited = FALSE
    /\ profits = <<>>
    /\ filling = [s \in Savers |-> <<>>]
    /\ begun = 0
    /\ met = FALSE

-----------------------------------------------------------------------------
(***************************************************************************)
(* flushBuffers.                                                           *)
(***************************************************************************)
RowsOf(f, k) == {f[k][n] : n \in 1..Len(f[k])}

\* Mutant: a buffer whose insert failed is kept for the next flush.
FlushKeepsFailed ==
    \E failed \in SUBSET {k \in Kinds : buffer[k] # <<>>} :
        /\ table' = [k \in Kinds |-> IF k \in failed THEN table[k] ELSE table[k] \o buffer[k]]
        /\ dropped' = dropped \cup UNION {RowsOf(buffer, k) : k \in failed}
        /\ buffer' = [k \in Kinds |-> IF k \in failed THEN buffer[k] ELSE <<>>]

\* Mutant: the buffers are copied to the tables in reverse.
FlushReversed ==
    /\ table' = [k \in Kinds |->
                   table[k] \o [n \in 1..Len(buffer[k]) |-> buffer[k][Len(buffer[k]) + 1 - n]]]
    /\ buffer' = [k \in Kinds |-> <<>>]
    /\ UNCHANGED dropped

\* Every buffer that is not empty is inserted as one batch and emptied, whether
\* or not the insert succeeded.
Flush ==
    \E failed \in SUBSET {k \in Kinds : buffer[k] # <<>>} :
        /\ table' = [k \in Kinds |-> IF k \in failed THEN table[k] ELSE table[k] \o buffer[k]]
        /\ dropped' = dropped \cup UNION {RowsOf(buffer, k) : k \in failed}
        /\ buffer' = [k \in Kinds |-> <<>>]

-----------------------------------------------------------------------------
(***************************************************************************)
(* SaveOrderBookUpdate, SaveTrade, SaveBenchmarkValue.                     *)
(***************************************************************************)
\* Mutant: off by one.
FullLate(n) == n > BatchSize

\* shouldFlush, decided under the mutex the row was appended under.
Full(n) == n >= BatchSize

AppendRow(k, row) == buffer' = [buffer EXCEPT ![k] = Append(@, row)]

\* A saver makes one call at a time, and the bound leaves room for another.
Free(s) == ~exited /\ due[s] = "none" /\ filling[s] = <<>> /\ saved + begun < MaxRows

Save(s, k) ==
    /\ Free(s)
    /\ saved' = saved + 1
    /\ AppendRow(k, [kind |-> k, id |-> saved + 1])
    /\ due' = [due EXCEPT ![s] = IF Full(Len(buffer[k]) + 1) THEN k ELSE "none"]
    /\ UNCHANGED <<table, dropped, running, closing, before, exited, ledger>>

\* The flush of a saver that filled a buffer: another one may have come first.
SaverFlush(s) ==
    /\ ~exited
    /\ due[s] # "none"
    /\ Flush
    /\ due' = [due EXCEPT ![s] = "none"]
    /\ UNCHANGED <<saved, running, closing, before, exited, ledger>>

-----------------------------------------------------------------------------
(***************************************************************************)
(* SaveTradePnL.  A failed query ends it without a row.                    *)
(***************************************************************************)
\* Mutant: the largest cumulative profit is taken for the last one.
LargestTotals ==
    IF profits = <<>> THEN {0}
    ELSE {r.total : r \in {q \in ToSet(profits) : \A p \in ToSet(profits) : q.total >= p.total}}

\* ORDER BY created_at DESC LIMIT 1: any of the rows of the latest time.
LastTotals ==
    IF profits = <<>> THEN {0}
    ELSE {r.total : r \in {q \in ToSet(profits) : \A p \in ToSet(profits) : q.time >= p.time}}

ReadTotal(s) ==
    /\ Free(s)
    /\ begun' = begun + 1
    /\ \E profit \in Profits, time \in Times, last \in LastTotals :
           filling' = [filling EXCEPT ![s] =
                          <<[profit |-> profit, time |-> time, total |-> last + profit]>>]
    /\ met' = (met \/ \E other \in Savers : filling[other] # <<>>)
    /\ UNCHANGED <<saved, store, due, running, closing, before, exited, profits>>

InsertProfit(s) ==
    /\ ~exited
    /\ filling[s] # <<>>
    /\ profits' \in {profits, profits \o filling[s]}
    /\ filling' = [filling EXCEPT ![s] = <<>>]
    /\ UNCHANGED <<saved, store, due, running, closing, before, exited, begun, met>>

-----------------------------------------------------------------------------
(***************************************************************************)
(* run and Close.                                                          *)
(***************************************************************************)
\* Mutant: the background goroutine only looks for the shutdown.
TickSkipsFlush == ~exited /\ running /\ UNCHANGED vars

\* A tick of flushTicker.  With shutdownChan closed as well, select may still
\* take it.
Tick ==
    /\ ~exited
    /\ running
    /\ Flush
    /\ UNCHANGED <<saved, due, running, closing, before, exited, ledger>>

\* run receives from the closed shutdownChan and returns.
Stop ==
    /\ ~exited
    /\ running
    /\ closing # "open"
    /\ running' = FALSE
    /\ UNCHANGED <<saved, store, due, closing, before, exited, ledger>>

\* Close closes shutdownChan ...
CloseBegin ==
    /\ ~exited
    /\ closing = "open"
    /\ closing' = "closing"
    /\ before' = saved
    /\ UNCHANGED <<saved, store, due, running, exited, ledger>>

\* Mutant: Close leaves the final flush to the background goroutine.
CloseWithoutFlush ==
    /\ ~exited
    /\ closing = "closing"
    /\ closing' = "closed"
    /\ UNCHANGED <<saved, store, due, running, before, exited, ledger>>

\* ... and makes the final flush itself.
CloseFlush ==
    /\ ~exited
    /\ closing = "closing"
    /\ Flush
    /\ closing' = "closed"
    /\ UNCHANGED <<saved, due, running, before, exited, ledger>>

\* main returns.  Its deferred injector.Shutdown() does not call Close.
Exit ==
    /\ ~exited
    /\ exited' = TRUE
    /\ UNCHANGED <<saved, store, due, running, closing, before, ledger>>

Next ==
    \/ \E s \in Savers : SaverFlush(s) \/ \E k \in Kinds : Save(s, k)
    \/ \E s \in Savers : ReadTotal(s) \/ InsertProfit(s)
    \/ Tick
    \/ Stop
    \/ CloseBegin
    \/ CloseFlush
    \/ Exit

Spec == Init /\ [][Next]_vars

\* The ticker ticks as long as its goroutine is there to receive.
FairSpec == Spec /\ WF_vars(Tick)

-----------------------------------------------------------------------------
(***************************************************************************)
(* Properties.                                                             *)
(***************************************************************************)
Occurrences(f, n) ==
    Cardinality(UNION {{<<k, m>> : m \in {i \in 1..Len(f[k]) : f[k][i].id = n}} : k \in Kinds})

\* Every row saved is in one place, and there once: still buffered, written to
\* its table, or in a batch the database refused.  No two flushes, of whatever
\* goroutines, write a row twice, and none forgets one.
EachRowOnce ==
    \A n \in 1..saved :
        Occurrences(buffer, n) + Occurrences(table, n)
            + Cardinality({r \in dropped : r.id = n}) = 1

\* Rows reach their table in the order they were saved, and those still
\* buffered are younger.
RowsInOrder ==
    \A k \in Kinds :
        LET rows == table[k] \o buffer[k]
        IN  \A m, n \in 1..Len(rows) : m < n => rows[m].id < rows[n].id

\* A buffer exceeds what makes it full by no more than the savers that are
\* about to flush it: the window between the append and the flush, which each
\* of them is in, is the only way to get there.
Flushing(k) == {s \in Savers : due[s] = k}

BufferBounded == \A k \in Kinds : Len(buffer[k]) <= BatchSize - 1 + Cardinality(Flushing(k))

\* Once Close has returned, no row saved before it was called is still
\* buffered, whatever the savers and the ticker do meanwhile.
ClosedIsFlushed ==
    closing = "closed" =>
        \A k \in Kinds : \A r \in RowsOf(buffer, k) : r.id > before

\* Every buffered row is flushed eventually, unless the writer is closed or the
\* process exits.
RowsLeaveBuffer ==
    \A r \in Rows :
        (\E k \in Kinds : r \in RowsOf(buffer, k))
            ~> (\A k \in Kinds : r \notin RowsOf(buffer, k)) \/ closing # "open" \/ exited

ProfitOf == [i \in DOMAIN profits |-> profits[i].profit]

\* Each cumulative profit is the sum of the profits saved up to its row, when no
\* two savers saved profits at once and the rows before it came in the order of
\* their times, no two of them at one time.
TotalsAddUp ==
    \A n \in DOMAIN profits :
        ~met /\ (\A i, j \in 1 .. n - 1 : i < j => profits[i].time < profits[j].time)
            => profits[n].total = SumFunctionOnSet(ProfitOf, 1 .. n)

\* The process exits with nothing left to write: "finishes the operations in
\* progress safely before the application ends" (docs/bot/README.md:249).
ExitLosesNothing == exited => \A k \in Kinds : buffer[k] = <<>>
=============================================================================
