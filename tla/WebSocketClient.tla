--------------------------- MODULE WebSocketClient ---------------------------
(***************************************************************************)
(* The connection to the exchange's WebSocket feed and the life cycle of   *)
(* the live process around it (internal/exchange/coincheck/websocket.go,   *)
(* cmd/bot/main.go):                                                       *)
(*                                                                         *)
(*   - Connect dials with retries, starts a reader goroutine, subscribes   *)
(*     to two channels, closes the channel `ready` and enters its loop;    *)
(*   - the reader hands messages to the handlers until ReadMessage fails;  *)
(*     it then asks for a reconnection, if the close was unexpected, and   *)
(*     closes `done`;                                                      *)
(*   - main waits for `ready`, then for a signal, then cancels the         *)
(*     context, sleeps and returns.                                        *)
(*                                                                         *)
(* A connection is known by its number.  The channels `reconnect` and      *)
(* `c.interrupt` belong to a run of Connect and have capacity one, as has  *)
(* the channel of main's shutdown signals.                                 *)
(***************************************************************************)
EXTENDS Integers, FiniteSets

CONSTANTS
    MaxRetries,      \* dial attempts of one Connect (10 in the code)
    MaxConnections   \* bound: connections that succeed

ASSUME RetriesAssumption == MaxRetries \in Nat \ {0}
ASSUME ConnectionsAssumption == MaxConnections \in Nat \ {0}

VARIABLES
    main,       \* where main is
    sigs,       \* signals in the buffer of shutdownSigs
    cancelled,  \* the context has been cancelled
    pc,         \* where the goroutine that called Connect is
    retries,    \* failed dials of this Connect
    conn,       \* number of the current connection, c.conn
    link,       \* how the network sees that connection
    reader,     \* where the reader goroutine of each connection is
    reconnect,  \* values in this Connect's channel reconnect
    interrupt,  \* signals in the channel c.interrupt
    ready,      \* the channel c.ready is closed
    fed         \* a message of the order book has been handled

vars == <<main, sigs, cancelled, pc, retries, conn, link, reader, reconnect,
          interrupt, ready, fed>>

process == <<main, sigs, cancelled>>
socket == <<conn, link, reader>>
channels == <<reconnect, interrupt>>

Connections == 1..MaxConnections

\* Who still runs: nothing does once main has returned or a goroutine panicked.
Running == main # "returned" /\ pc # "panicked"
At(label) == Running /\ pc = label

\* The channel done of the current connection is closed by its reader's defer.
Done == conn > 0 /\ reader[conn] = "ended"

-----------------------------------------------------------------------------
(***************************************************************************)
(* Connect, from the dial to the subscriptions.                            *)
(***************************************************************************)
\* A dial fails: Connect sleeps and dials again, or returns the error after the
\* last attempt.  Neither the context nor c.interrupt is looked at.
DialFails ==
    /\ At("dial")
    /\ retries' = retries + 1
    /\ pc' = IF retries + 1 < MaxRetries THEN "dial" ELSE "failed"
    /\ UNCHANGED <<process, socket, channels, ready, fed>>

\* A dial succeeds: the reader is started, with a channel done and a channel
\* reconnect of its own.
DialSucceeds ==
    /\ At("dial")
    /\ conn < MaxConnections
    /\ conn' = conn + 1
    /\ link' = "open"
    /\ reader' = [reader EXCEPT ![conn + 1] = "reading"]
    /\ reconnect' = 0
    /\ pc' = "subscribeBook"
    /\ UNCHANGED <<process, retries, interrupt, ready, fed>>

\* A subscription message is written.
Subscribe(here, next) ==
    /\ At(here)
    /\ link = "open"
    /\ pc' = next
    /\ UNCHANGED <<process, retries, socket, channels, ready, fed>>

SubscribeBook == Subscribe("subscribeBook", "subscribeTrades")
SubscribeTrades == Subscribe("subscribeTrades", "subscribed")

\* Writing a subscription fails: the connection is closed and Connect returns
\* the error.
SubscribeFails ==
    /\ pc \in {"subscribeBook", "subscribeTrades"} /\ Running
    /\ link' = IF link = "open" THEN "closed" ELSE link
    /\ pc' = "failed"
    /\ UNCHANGED <<process, retries, conn, reader, channels, ready, fed>>

\* close(c.ready): a second time it panics, which ends the process.
CloseReady ==
    /\ At("subscribed")
    /\ IF ready THEN pc' = "panicked" /\ UNCHANGED ready
       ELSE ready' = TRUE /\ pc' = "loop"
    /\ UNCHANGED <<process, retries, socket, channels, fed>>

\* Connect returned an error: the goroutine logs it and sends SIGTERM to main,
\* which blocks while the buffer is full.
SendSigterm ==
    /\ At("failed")
    /\ sigs = 0
    /\ sigs' = 1
    /\ pc' = "returned"
    /\ UNCHANGED <<main, cancelled, retries, socket, channels, ready, fed>>

-----------------------------------------------------------------------------
(***************************************************************************)
(* The reader goroutine and the network.                                   *)
(***************************************************************************)
Reading(g) == Running /\ reader[g] = "reading"

\* A message arrives and handleMessage gives it to the order book's handler.
Receive(g) ==
    /\ Reading(g)
    /\ link = "open"
    /\ fed' = TRUE
    /\ UNCHANGED <<process, pc, retries, socket, channels, ready>>

\* The connection is lost: with a close code that Connect takes for unexpected
\* ("dropped"), or with a normal, going-away or abnormal one or an error of the
\* network ("closed").
Lose ==
    /\ Running
    /\ link = "open"
    /\ link' \in {"dropped", "closed"}
    /\ UNCHANGED <<process, pc, retries, conn, reader, channels, ready, fed>>

\* ReadMessage fails after an unexpected close: the reader puts a value into
\* reconnect, for which it waits while the channel is full, and ends.
ReaderAsks(g) ==
    /\ Reading(g)
    /\ link = "dropped"
    /\ reconnect = 0
    /\ reconnect' = 1
    /\ reader' = [reader EXCEPT ![g] = "ended"]
    /\ UNCHANGED <<process, pc, retries, conn, link, interrupt, ready, fed>>

\* Mutant: done is closed only after a reconnection was asked for.
ReaderEndsSilently(g) == Reading(g) /\ link = "closed" /\ UNCHANGED vars

\* ReadMessage fails with any other error: the reader ends.
ReaderEnds(g) ==
    /\ Reading(g)
    /\ link = "closed"
    /\ reader' = [reader EXCEPT ![g] = "ended"]
    /\ UNCHANGED <<process, pc, retries, conn, link, channels, ready, fed>>

-----------------------------------------------------------------------------
(***************************************************************************)
(* Connect's loop.                                                         *)
(***************************************************************************)
\* Mutant: the loop connects again as soon as it is asked to.
LoopReconnectsAtOnce ==
    /\ At("loop")
    /\ reconnect = 1
    /\ pc' = "dial"
    /\ retries' = 0
    /\ reconnect' = 0
    /\ interrupt' = 0
    /\ UNCHANGED <<process, socket, ready, fed>>

\* done is closed and a reconnection was asked for: the connection is closed and
\* Connect calls itself, with a new c.interrupt.
LoopReconnects ==
    /\ At("loop")
    /\ Done
    /\ reconnect = 1
    /\ link' = "closed"
    /\ pc' = "dial"
    /\ retries' = 0
    /\ reconnect' = 0
    /\ interrupt' = 0
    /\ UNCHANGED <<process, conn, reader, ready, fed>>

\* done is closed and nothing was asked for: Connect returns nil.
LoopEnds ==
    /\ At("loop")
    /\ Done
    /\ reconnect = 0
    /\ pc' = "returned"
    /\ UNCHANGED <<process, retries, socket, channels, ready, fed>>

\* A ping cannot be written.  The loop puts a value into reconnect, whose only
\* receiver is the loop itself: if the channel is full, it blocks for good.
PingFails ==
    /\ At("loop")
    /\ link # "open"
    /\ IF reconnect = 0 THEN reconnect' = 1 /\ UNCHANGED pc
       ELSE pc' = "blocked" /\ UNCHANGED reconnect
    /\ UNCHANGED <<process, retries, socket, interrupt, ready, fed>>

\* A signal in c.interrupt: the close message is written.  Connect then waits for
\* done, for two seconds at most, and returns nil.
LoopInterrupted ==
    /\ At("loop")
    /\ interrupt = 1
    /\ interrupt' = 0
    /\ pc' = "closing"
    /\ UNCHANGED <<process, retries, socket, reconnect, ready, fed>>

LoopCloses ==
    /\ At("closing")
    /\ pc' = "returned"
    /\ UNCHANGED <<process, retries, socket, channels, ready, fed>>

\* The context is done: the close message is written and Connect returns nil.
LoopCancelled ==
    /\ At("loop")
    /\ cancelled
    /\ pc' = "returned"
    /\ UNCHANGED <<process, retries, socket, channels, ready, fed>>

-----------------------------------------------------------------------------
(***************************************************************************)
(* main and its signals.                                                   *)
(***************************************************************************)
\* SIGTERM goes to main's channel, SIGINT to that of Connect as well.  A signal
\* for which there is no room in a channel is dropped.
Terminate ==
    /\ Running
    /\ sigs' = 1
    /\ UNCHANGED <<main, cancelled, pc, retries, socket, channels, ready, fed>>

Interrupt ==
    /\ Running
    /\ sigs' = 1
    /\ interrupt' = 1
    /\ UNCHANGED <<main, cancelled, pc, retries, socket, reconnect, ready, fed>>

\* Mutant: main waits for the first message as well.
MainReadyWhenFed ==
    /\ Running
    /\ main = "waitReady"
    /\ ready /\ fed
    /\ main' = "waitSignal"
    /\ UNCHANGED <<sigs, cancelled, pc, retries, socket, channels, ready, fed>>

\* The receive from Ready() in runMainLoop.
MainReady ==
    /\ Running
    /\ main = "waitReady"
    /\ ready
    /\ main' = "waitSignal"
    /\ UNCHANGED <<sigs, cancelled, pc, retries, socket, channels, ready, fed>>

\* waitForShutdownSignal, and the cancellation of the context.
MainSignal ==
    /\ Running
    /\ main = "waitSignal"
    /\ sigs = 1
    /\ sigs' = 0
    /\ cancelled' = TRUE
    /\ main' = "stopping"
    /\ UNCHANGED <<pc, retries, socket, channels, ready, fed>>

\* main has slept for a second and returns, which ends all goroutines.
MainReturns ==
    /\ Running
    /\ main = "stopping"
    /\ main' = "returned"
    /\ UNCHANGED <<sigs, cancelled, pc, retries, socket, channels, ready, fed>>

-----------------------------------------------------------------------------
\* runMainLoop has started the goroutine that calls Connect.
Init ==
    /\ main = "waitReady"
    /\ sigs = 0
    /\ cancelled = FALSE
    /\ pc = "dial"
    /\ retries = 0
    /\ conn = 0
    /\ link = "closed"
    /\ reader = [g \in Connections |-> "none"]
    /\ reconnect = 0
    /\ interrupt = 0
    /\ ready = FALSE
    /\ fed = FALSE

Dial == DialFails \/ DialSucceeds
ConnectSteps ==
    \/ Dial \/ SubscribeBook \/ SubscribeTrades \/ SubscribeFails \/ CloseReady
    \/ SendSigterm
LoopSteps ==
    \/ LoopReconnects \/ LoopEnds \/ PingFails
    \/ LoopInterrupted \/ LoopCloses \/ LoopCancelled
ReaderSteps(g) == ReaderAsks(g) \/ ReaderEnds(g)
MainSteps == MainReady \/ MainSignal \/ MainReturns

Next ==
    \/ ConnectSteps \/ LoopSteps \/ MainSteps
    \/ \E g \in Connections : Receive(g) \/ ReaderSteps(g)
    \/ Lose \/ Terminate \/ Interrupt

Spec == Init /\ [][Next]_vars

\* A goroutine that can run does run: dials and writes end within the timeouts of
\* the network, tickers tick, a closed connection makes ReadMessage fail.
\* Nothing is assumed of the exchange, of the network or of signals.
Fairness ==
    /\ WF_vars(ConnectSteps)
    /\ WF_vars(LoopSteps)
    /\ \A g \in Connections : WF_vars(ReaderSteps(g))
    /\ WF_vars(MainSteps)

FairSpec == Spec /\ Fairness

-----------------------------------------------------------------------------
(***************************************************************************)
(* Properties.                                                             *)
(***************************************************************************)
Place == {"dial", "subscribeBook", "subscribeTrades", "subscribed", "loop",
          "blocked", "closing", "failed", "returned", "panicked"}

\* The types of the variables.
TypeOK ==
    /\ main \in {"waitReady", "waitSignal", "stopping", "returned"}
    /\ sigs \in 0..1
    /\ cancelled \in BOOLEAN
    /\ pc \in Place
    /\ retries \in 0..MaxRetries
    /\ conn \in 0..MaxConnections
    /\ link \in {"open", "dropped", "closed"}
    /\ reader \in [Connections -> {"none", "reading", "ended"}]
    /\ reconnect \in 0..1
    /\ interrupt \in 0..1
    /\ ready \in BOOLEAN
    /\ fed \in BOOLEAN

\* At most one goroutine reads and applies the order book's differential updates,
\* a reconnection included: Connect calls itself only after the reader of the
\* lost connection has closed done.  Two readers would read from the same c.conn
\* and apply updates out of order.
OneReader ==
    \A g, h \in Connections :
        reader[g] = "reading" /\ reader[h] = "reading" => g = h

\* A signal ends the process, unless Connect was over before the subscriptions:
\* then main waits for Ready(), which nobody closes any more, and the signals
\* stay in their buffer.  Nothing else, a dead feed or a blocked loop, keeps the
\* process from stopping.
OnlyUnreadyIgnoresSignals ==
    sigs = 1 ~> \/ ~Running
                \/ pc \in {"failed", "returned"} /\ ~ready

\* A lost connection is noticed: Connect leaves its loop (to dial again or to
\* return) or the process ends.  The exception is a failed ping that fills the
\* channel reconnect: either the reader then waits for room in it and never
\* closes done, or the next failed ping blocks the loop.
PingInTheWay == reconnect = 1 /\ IF Done THEN pc = "blocked" ELSE link = "dropped"

LossIsNoticed ==
    pc = "loop" /\ link # "open" ~>
        \/ pc \notin {"loop", "blocked"} \/ ~Running
        \/ [](PingInTheWay \/ ~Running)

\* "If the connection is lost, it is tried again automatically" (docs/bot/
\* README.md:156): a second connection gets as far as the first, and the bot
\* goes on.  In the code its subscription closes c.ready again, which panics.
ReconnectionSucceeds == pc # "panicked"
=============================================================================
