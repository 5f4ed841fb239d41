------------------------------- MODULE Backtest -------------------------------
(***************************************************************************)
(* The two ways cmd/bot/main.go replays a file of market events: one       *)
(* simulation (--simulate) and a server of simulations (--serve).  The     *)
(* flags of the process choose one of them.                                *)
(***************************************************************************)
EXTENDS Simulation, SimulationServer

VARIABLE mode   \* "simulate" or "serve"

backtestVars == <<mode, vars, serverVars>>

Simulating == mode = "simulate" /\ UNCHANGED <<mode, serverVars>>
Serving == mode = "serve" /\ UNCHANGED <<mode, vars>>

\* The part that does not run keeps a state of its own.
BacktestInit ==
    /\ mode \in {"simulate", "serve"}
    /\ Init /\ ServerInit
    /\ mode = "serve" => file = <<>> /\ sim.pc = "select"

BacktestNext ==
    \/ Simulating /\ Next
    \/ Serving /\ ServerNext

BacktestFairness ==
    /\ WF_backtestVars(Simulating /\ Reader)
    /\ WF_backtestVars(Simulating /\ Simulate)
    /\ WF_backtestVars(Simulating /\ RunMainLoop)
    /\ WF_backtestVars(Serving /\ Serve)
    /\ WF_backtestVars(Serving /\ Trial)
    /\ WF_backtestVars(Serving /\ BatchSimulator)

BacktestSpec == BacktestInit /\ [][BacktestNext]_backtestVars /\ BacktestFairness
-----------------------------------------------------------------------------
\* A simulation ends, or main blocks for ever on the signal channel after it
\* printed the summary (EndsOrBlocksOnSignal).
SimulateModeEnds == mode = "simulate" => EndsOrBlocksOnSignal

\* The client of the server ends, or one of the three hangs of
\* BatchEndsOrHangs keeps it for ever.
ServeModeEnds == mode = "serve" => BatchEndsOrHangs

=============================================================================
