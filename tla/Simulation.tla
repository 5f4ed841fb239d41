----------------------------- MODULE Simulation -----------------------------
(***************************************************************************)
(* `bot --simulate`: one backtest over a CSV file.                         *)
(*                                                                         *)
(* Three goroutines: the reader of the file                                *)
(* (internal/datastore/csv_reader.go, StreamMarketEventsFromCSV), the      *)
(* simulation (cmd/bot/main.go, runSimulation) and main (runMainLoop).     *)
(* The event channel is unbuffered: an event leaves the reader when the    *)
(* simulation takes it.  The error channel holds one error; the summary    *)
(* and the signal channel hold one value each.  runSimulation closes the   *)
(* summary channel when it returns, always after a value was sent.         *)
(*                                                                         *)
(* A row of the file is a level update, a trade, a row whose time does not *)
(* parse, "badTime", or one the CSV parser refuses, "broken".              *)
(***************************************************************************)
EXTENDS ReplayEngine, FiniteSetsExt

CONSTANTS Files,          \* the files a behaviour may read
          OrderAmount,    \* order_amount, in lots
          LongTP, LongSL, \* distances of the levels from the entry price
          ShortTP, ShortSL,
          EntryPriceOffset,  \* how far beyond the quote an order is priced
          UserSignals     \* whether a user may send SIGINT or SIGTERM

Levels == [type : {"book"}, time : Nat, side : {"bid", "ask"}, price : Nat, gone : BOOLEAN]
Trades == [type : {"trade"}, price : Nat]
Rows == Levels \cup Trades \cup [type : {"badTime", "broken"}]

ASSUME FilesAssumption == Files \subseteq Seq(Rows)
ASSUME SimulationAssumption ==
    /\ OrderAmount \in Nat /\ LongTP \in Nat /\ LongSL \in Nat
    /\ ShortTP \in Nat /\ ShortSL \in Nat /\ EntryPriceOffset \in Nat
    /\ UserSignals \in BOOLEAN

VARIABLES
    file,     \* the rows of the file
    reader,   \* the goroutine that reads them
    errCh,    \* TRUE while the error channel holds an error
    sim,      \* the goroutine of runSimulation and its locals; history: oneSided,
              \* whether a side of the book was empty at the last opening
    engine,   \* its replay engine
    handled,  \* history: the events it took
    summary,  \* the summary channel
    sigs,     \* TRUE while the signal channel holds a signal
    main,     \* where the main goroutine is
    printed   \* what main printed

vars == <<file, reader, errCh, sim, engine, handled, summary, sigs, main, printed>>
simVars == <<sim, engine, handled, summary>>
mainVars == <<sigs, main, printed>>

Running == main \notin {"stopped", "fatal"}
-----------------------------------------------------------------------------
(***************************************************************************)
(* Events, and the file read into memory as the server mode does           *)
(* (LoadMarketEventsFromCSV): adjacent level updates of one time make one  *)
(* event, which a change of time, a trade or the end of the file flushes.  *)
(***************************************************************************)
BookEvent(levels) == [type |-> "book", levels |-> levels]
Flushed(group) == IF group = <<>> THEN <<>> ELSE <<BookEvent(group)>>

LoadRow(acc, row) ==
    CASE row.type = "badTime" -> acc
      [] row.type = "trade"   -> [acc EXCEPT !.events = @ \o Flushed(acc.group) \o <<row>>,
                                             !.group = <<>>]
      [] row.type = "book" /\ acc.time \in {0, row.time}
                              -> [acc EXCEPT !.group = Append(@, row), !.time = row.time]
      [] OTHER                -> [events |-> acc.events \o Flushed(acc.group),
                                  group |-> <<row>>, time |-> row.time]

IsBroken(rows) == \E i \in DOMAIN rows : rows[i].type = "broken"

LoadMarketEventsFromCSV(rows) ==
    LET acc == FoldLeft(LoadRow, [events |-> <<>>, group |-> <<>>, time |-> 0], rows)
    IN  acc.events \o Flushed(acc.group)

\* The rows the reader gets to: those before the first broken one.
Readable(rows) ==
    IF ~IsBroken(rows) THEN rows
    ELSE SubSeq(rows, 1, Min({i \in DOMAIN rows : rows[i].type = "broken"}) - 1)
-----------------------------------------------------------------------------
\* ApplyUpdate of the order book, and its best prices: 0 when a side is empty.
ApplyLevel(book, level) ==
    [book EXCEPT ![level.side] = IF level.gone THEN @ \ {level.price} ELSE @ \cup {level.price}]
ApplyUpdate(book, levels) == FoldLeft(ApplyLevel, book, levels)

BestBid(book) == IF book.bid = {} THEN 0 ELSE Max(book.bid)
BestAsk(book) == IF book.ask = {} THEN 0 ELSE Min(book.ask)
-----------------------------------------------------------------------------
NoQuote == [bid |-> 0, ask |-> 0]

Init ==
    /\ file \in Files
    /\ reader = [pc |-> "reading", next |-> 1, group |-> <<>>, time |-> 0, out |-> <<>>]
    /\ errCh = FALSE
    /\ sim \in [pc : {"select", "noConfig"}, book : {[bid |-> {}, ask |-> {}]},
                quote : {NoQuote}, signal : {[current |-> "none", last |-> "none"]},
                oneSided : {FALSE}]
    /\ engine = NewReplayExecutionEngine
    /\ handled = <<>>
    /\ summary = <<>>
    /\ sigs = FALSE
    /\ main = "summary"
    /\ printed = <<>>
-----------------------------------------------------------------------------
(***************************************************************************)
(* The reader.  It reads on only when the events of the last row are gone. *)
(***************************************************************************)
Reading == Running /\ reader.pc = "reading" /\ reader.out = <<>> /\ sim.pc # "noConfig"
AtRow(type) == reader.next <= Len(file) /\ file[reader.next].type = type

ReadBook ==
    /\ Reading /\ AtRow("book")
    /\ LET row   == file[reader.next]
           flush == reader.time # 0 /\ row.time # reader.time
       IN  reader' = [reader EXCEPT
               !.next  = @ + 1,
               !.time  = row.time,
               !.out   = IF flush THEN Flushed(reader.group) ELSE <<>>,
               !.group = IF flush THEN <<row>> ELSE Append(@, row)]
    /\ UNCHANGED <<file, errCh, simVars, mainVars>>

ReadTrade ==
    /\ Reading /\ AtRow("trade")
    /\ reader' = [reader EXCEPT !.next = @ + 1, !.group = <<>>,
                                !.out = Append(Flushed(reader.group), file[reader.next])]
    /\ UNCHANGED <<file, errCh, simVars, mainVars>>

SkipRow ==
    /\ Reading /\ AtRow("badTime")
    /\ reader' = [reader EXCEPT !.next = @ + 1]
    /\ UNCHANGED <<file, errCh, simVars, mainVars>>

\* The pending group is not flushed.
ReadError ==
    /\ Reading /\ AtRow("broken")
    /\ errCh' = TRUE
    /\ reader' = [reader EXCEPT !.pc = "closing"]
    /\ UNCHANGED <<file, simVars, mainVars>>

\* Mutant: the last group of the file is not flushed.
ReadEndWithoutFlush ==
    /\ Reading /\ reader.next > Len(file)
    /\ reader' = [reader EXCEPT !.pc = "closing"]
    /\ UNCHANGED <<file, errCh, simVars, mainVars>>

\* Mutant: the reader returns without closing its channels.
ReadEndWithoutClose ==
    /\ Reading /\ reader.next > Len(file)
    /\ reader' = [reader EXCEPT !.pc = "returned", !.out = Flushed(reader.group)]
    /\ UNCHANGED <<file, errCh, simVars, mainVars>>

ReadEnd ==
    /\ Reading /\ reader.next > Len(file)
    /\ reader' = [reader EXCEPT !.pc = "closing", !.out = Flushed(reader.group)]
    /\ UNCHANGED <<file, errCh, simVars, mainVars>>

\* The deferred closes, last in first out: the error channel goes first.
CloseErrCh ==
    /\ Running /\ reader.pc = "closing" /\ reader.out = <<>>
    /\ reader' = [reader EXCEPT !.pc = "errClosed"]
    /\ UNCHANGED <<file, errCh, simVars, mainVars>>

CloseEventCh ==
    /\ Running /\ reader.pc = "errClosed"
    /\ reader' = [reader EXCEPT !.pc = "closed"]
    /\ UNCHANGED <<file, errCh, simVars, mainVars>>

Reader ==
    ReadBook \/ ReadTrade \/ SkipRow \/ ReadError \/ ReadEnd \/ CloseErrCh \/ CloseEventCh
-----------------------------------------------------------------------------
(***************************************************************************)
(* The signal engine, reduced to when it emits a signal: raw is what the   *)
(* score says now, confirmed whether it was held long enough or is far     *)
(* beyond the threshold.  SignalEngine models the rest of Evaluate.        *)
(***************************************************************************)
Emits(signal, raw, confirmed) ==
    raw = signal.current /\ raw # "none" /\ raw # signal.last /\ confirmed

Evaluated(signal, raw, confirmed) ==
    IF raw # signal.current
    THEN [current |-> raw, last |-> IF raw = "none" THEN "none" ELSE signal.last]
    ELSE IF Emits(signal, raw, confirmed) THEN [signal EXCEPT !.last = raw]
    ELSE signal

\* The levels of an order are those of its price, which the replay engine
\* does not look at.
OrderFor(side, quote) ==
    LET price == IF side = "buy" THEN quote.ask + EntryPriceOffset
                                 ELSE quote.bid - EntryPriceOffset
    IN  [side |-> side, amount |-> OrderAmount,
         tp |-> IF side = "buy" THEN price + LongTP ELSE price - ShortTP,
         sl |-> IF side = "buy" THEN price - LongSL ELSE price + ShortSL]

\* UpdateMarketData and Evaluate, and the order of a confirmed signal.
Trade(e, book, quote) ==
    \E raw \in {"none", "buy", "sell"}, confirmed \in BOOLEAN :
        /\ engine' = IF Emits(sim.signal, raw, confirmed)
                     THEN PlaceOrder(e, BestBid(book), BestAsk(book), OrderFor(raw, quote))
                     ELSE e
        /\ sim' = [sim EXCEPT !.book = book, !.quote = quote,
                              !.signal = Evaluated(@, raw, confirmed),
                              !.oneSided = IF e.position.size = 0 /\ engine'.position.size # 0
                                           THEN 0 \in {BestBid(book), BestAsk(book)} ELSE @]

Takes(type) ==
    /\ Running /\ sim.pc = "select"
    /\ reader.out # <<>> /\ Head(reader.out).type = type
    /\ reader' = [reader EXCEPT !.out = Tail(@)]
    /\ handled' = Append(handled, Head(reader.out))
    /\ UNCHANGED <<file, errCh, summary, mainVars>>

\* An event that leaves a side of the book empty is not traded on.
HandleBook ==
    /\ Takes("book")
    /\ LET book  == ApplyUpdate(sim.book, Head(reader.out).levels)
           quote == [bid |-> BestBid(book), ask |-> BestAsk(book)]
       IN  IF quote.bid > 0 /\ quote.ask > 0
           THEN Trade(engine, book, quote)
           ELSE sim' = [sim EXCEPT !.book = book] /\ UNCHANGED engine

\* A trade is traded on with the last valid quote, but on the book as it is.
HandleTrade ==
    /\ Takes("trade")
    /\ IF sim.quote = NoQuote THEN UNCHANGED <<sim, engine>>
       ELSE Trade(UpdateLastPrice(engine, Head(reader.out).price), sim.book, sim.quote)

\* processingDone: the summary is sent, its channel has room for it.
Finish ==
    /\ sim' = [sim EXCEPT !.pc = "signal"]
    /\ summary' = Append(summary, Summary(engine))

EventsClosed ==
    /\ Running /\ sim.pc = "select" /\ reader.pc = "closed"
    /\ Finish
    /\ UNCHANGED <<file, reader, errCh, engine, handled, mainVars>>

ErrClosed ==
    /\ Running /\ sim.pc = "select" /\ reader.pc \in {"errClosed", "closed"} /\ ~errCh
    /\ Finish
    /\ UNCHANGED <<file, reader, errCh, engine, handled, mainVars>>

\* logger.Fatalf ends the process.
ErrReceived ==
    /\ Running /\ sim.pc = "select" /\ errCh
    /\ errCh' = FALSE
    /\ main' = "fatal"
    /\ UNCHANGED <<file, reader, simVars, sigs, printed>>

NoConfig ==
    /\ Running /\ sim.pc = "noConfig"
    /\ summary' = Append(summary, [error |-> TRUE])
    /\ sim' = [sim EXCEPT !.pc = "done"]
    /\ UNCHANGED <<file, reader, errCh, engine, handled, mainVars>>

SendSigterm ==
    /\ Running /\ sim.pc = "signal" /\ ~sigs
    /\ sigs' = TRUE
    /\ sim' = [sim EXCEPT !.pc = "done"]
    /\ UNCHANGED <<file, reader, errCh, engine, handled, summary, main, printed>>

Simulate ==
    \/ HandleBook \/ HandleTrade \/ EventsClosed \/ ErrClosed \/ ErrReceived
    \/ NoConfig \/ SendSigterm
-----------------------------------------------------------------------------
(***************************************************************************)
(* main: print the summary, signal itself, wait for a signal, end.         *)
(***************************************************************************)
PrintSummary ==
    /\ main = "summary" /\ summary # <<>>
    /\ printed' = summary
    /\ summary' = <<>>
    /\ main' = "signal"
    /\ UNCHANGED <<file, reader, errCh, sim, engine, handled, sigs>>

MainSignals ==
    /\ main = "signal" /\ ~sigs
    /\ sigs' = TRUE
    /\ main' = "wait"
    /\ UNCHANGED <<file, reader, errCh, simVars, printed>>

WaitForShutdownSignal ==
    /\ main = "wait" /\ sigs
    /\ sigs' = FALSE
    /\ main' = "stopped"
    /\ UNCHANGED <<file, reader, errCh, simVars, printed>>

RunMainLoop == PrintSummary \/ MainSignals \/ WaitForShutdownSignal

\* signal.Notify drops a signal that finds the channel full.
UserSignal ==
    /\ UserSignals /\ Running /\ ~sigs
    /\ sigs' = TRUE
    /\ UNCHANGED <<file, reader, errCh, simVars, main, printed>>

Next == Reader \/ Simulate \/ RunMainLoop \/ UserSignal

\* The goroutines keep running; nothing obliges a user to signal.
Fairness == WF_vars(Reader) /\ WF_vars(Simulate) /\ WF_vars(RunMainLoop)

Spec == Init /\ [][Next]_vars /\ Fairness
-----------------------------------------------------------------------------
(***************************************************************************)
(* The simulation takes the events that LoadMarketEventsFromCSV finds in   *)
(* the file, in their order and without a gap; and a summary of a file     *)
(* that can be read to its end is the summary of all of them.              *)
(***************************************************************************)
StreamMatchesLoad ==
    /\ IsPrefix(handled, LoadMarketEventsFromCSV(Readable(file)))
    /\ printed # <<>> /\ "error" \notin DOMAIN printed[1] /\ ~IsBroken(file)
           => handled = LoadMarketEventsFromCSV(file)

(***************************************************************************)
(* What the engine books while it trades is what the report's analysis     *)
(* finds in its list of trades: realized profit, wins and losses of each   *)
(* side, drawdown and longest runs.                                        *)
(***************************************************************************)
TradesExplainProfit ==
    LET found == AnalyzeTrades(engine.trades)
        shown == Summary(engine)
    IN  found.ok => /\ engine.realized = [num |-> found.totalPnL, den |-> 1]
                    /\ shown.totalTrades = found.totalTrades
                    /\ shown.figures = found.figures

(***************************************************************************)
(* A position that was opened on a book with two sides realizes, when it   *)
(* is closed, the distance of its take profit or of its stop loss from its *)
(* entry price, however long ago the order was made and whatever the book  *)
(* has become: the price 0 of an empty side lets a level be hit (a long's  *)
(* stop loss, a short's take profit) but is never what is booked.          *)
(***************************************************************************)
Distances(size) ==
    IF size > 0 THEN {EntryPriceOffset + LongTP, EntryPriceOffset - LongSL}
                ELSE {EntryPriceOffset + ShortTP, EntryPriceOffset - ShortSL}

ClosingsRealizeLevels ==
    [][ engine.position.size # 0 /\ engine'.position.size = 0 /\ ~sim.oneSided
            => \E distance \in Distances(engine.position.size) :
                   engine'.realized.num = engine.realized.num + distance * OrderAmount ]_vars

(***************************************************************************)
(* The process ends, or main is blocked for ever on the signal channel     *)
(* after it printed the summary: nothing else keeps it.                    *)
(***************************************************************************)
EndsOrBlocksOnSignal ==
    \/ <>~Running
    \/ <>[](main = "signal" /\ printed # <<>> /\ sigs)

\* "Signal that the main application can shut down" (runSimulation).
SimulationEnds == <>~Running

=============================================================================
