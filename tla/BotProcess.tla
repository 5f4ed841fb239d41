----------------------------- MODULE BotProcess -----------------------------
(***************************************************************************)
(* The live process: the feed (WebSocketClient) gives the order book its   *)
(* prices, the order monitor (OrderMonitor) works on them, and main's      *)
(* signal handling ends both (runMainLoop and main in cmd/bot/main.go).    *)
(***************************************************************************)
EXTENDS WebSocketClient, OrderMonitor

allVars == <<vars, ordersVars>>

\* A tick finds prices only once the feed has brought some; a lost feed leaves
\* them in the book.  A cancelled context stops the monitor between ticks.
MonitorTick == List /\ fed /\ ~cancelled

\* The orders are placed when there are prices, and followed as long as the
\* process lives.
BotInit == Init /\ InitOrders
BotNext ==
    \/ Next /\ UNCHANGED ordersVars
    \/ (MonitorTick \/ Monitor) /\ Running /\ UNCHANGED vars
    \/ Exchange /\ Running /\ fed /\ main = "waitSignal" /\ UNCHANGED vars

BotSpec == BotInit /\ [][BotNext]_allVars /\ Fairness
=============================================================================
