--------------------------- MODULE SimulationServer ---------------------------
(***************************************************************************)
(* `bot --serve` (cmd/bot/main.go, runServerMode) and its client, the      *)
(* optimizer's BatchSimulator (optimizer/batch_simulation.py): one process *)
(* each, joined by three pipes.  The client writes one request of several  *)
(* trials to stdin and reads one line from stdout; it reads stderr only    *)
(* after an error.  The server runs the trials on a bounded number of      *)
(* goroutines.                                                             *)
(*                                                                         *)
(* stderr is the number of log lines in its pipe: a write to a full pipe   *)
(* blocks.  stdout holds a whole line or, "partial", a line without its    *)
(* end, which readline does not return.                                    *)
(***************************************************************************)
EXTENDS Integers, Sequences, FiniteSets

CONSTANTS NumTrials, NumCPU, PipeSize, LogLines

ASSUME ServerAssumption ==
    NumTrials \in Nat \ {0} /\ NumCPU \in Nat \ {0} /\ PipeSize \in Nat /\ LogLines \in Nat

VARIABLES
    client,   \* where the BatchSimulator is
    stdin, stdout, stderr,
    server,   \* where runServerMode is
    next,     \* the trial it launches next
    trials,   \* per trial: its state and the log lines it still may write
    results   \* the results channel

serverVars == <<client, stdin, stdout, stderr, server, next, trials, results>>
pipes == <<stdin, stdout, stderr>>
pool == <<next, trials, results>>

Trials == 1 .. NumTrials
Workers == IF NumTrials < NumCPU THEN NumTrials ELSE NumCPU
Busy == {t \in Trials : trials[t].state \notin {"new", "done"}}

\* logger writes a line to stderr.
Log == stderr < PipeSize /\ stderr' = stderr + 1

ServerInit ==
    /\ client = "start"
    /\ stdin = "empty" /\ stdout = "empty" /\ stderr = 0
    /\ server = "boot"
    /\ next = 1
    /\ trials = [t \in Trials |-> [state |-> "new", lines |-> LogLines]]
    /\ results = <<>>
-----------------------------------------------------------------------------
(***************************************************************************)
(* The server's main goroutine.                                            *)
(***************************************************************************)
PrintReady ==
    /\ server = "boot"
    /\ Log
    /\ server' = "scan" /\ stdout' = "ready"
    /\ UNCHANGED <<client, stdin, pool>>

\* logger.Fatalf before the server mode is entered.
BootFails ==
    /\ server = "boot"
    /\ server' = "exited"
    /\ UNCHANGED <<client, pipes, pool>>

ScanRequest == server = "scan" /\ stdin = "request" /\ stdin' = "empty" /\ Log

InvalidRequest ==
    /\ ScanRequest
    /\ stdout' = "error"
    /\ UNCHANGED <<client, server, pool>>

\* Printf, not Println: the answer has no end of line.
LoadFails ==
    /\ ScanRequest
    /\ stdout' = "partial"
    /\ UNCHANGED <<client, server, pool>>

Load ==
    /\ ScanRequest
    /\ server' = "running"
    /\ UNCHANGED <<client, stdout, pool>>

\* The slot of the semaphore is taken before the goroutine is started.
Launch ==
    /\ server = "running" /\ next <= NumTrials /\ Cardinality(Busy) < Workers
    /\ trials' = [trials EXCEPT ![next].state = "running"]
    /\ next' = next + 1
    /\ UNCHANGED <<client, pipes, server, results>>

\* wg.Wait has returned: the channel is closed, emptied and printed.
PrintResults ==
    /\ server = "running" /\ \A t \in Trials : trials[t].state = "done"
    /\ server' = "scan" /\ stdout' = "results"
    /\ UNCHANGED <<client, stdin, stderr, pool>>

\* Standard input is at its end; main signals itself and returns.
EndOfInput ==
    /\ server = "scan" /\ stdin = "eof"
    /\ Log
    /\ server' = "exited"
    /\ UNCHANGED <<client, stdin, stdout, pool>>

Serve ==
    \/ PrintReady \/ BootFails \/ InvalidRequest \/ LoadFails \/ Load
    \/ Launch \/ PrintResults \/ EndOfInput
-----------------------------------------------------------------------------
(***************************************************************************)
(* A goroutine of the pool: it writes log lines while it replays the       *)
(* market events, and ends with one result, also when it panics.           *)
(***************************************************************************)
InState(t, state) == server = "running" /\ trials[t].state = state

TrialLogs(t) ==
    /\ InState(t, "running") /\ trials[t].lines > 0
    /\ Log
    /\ trials' = [trials EXCEPT ![t].lines = @ - 1]
    /\ UNCHANGED <<client, stdin, stdout, server, next, results>>

TrialEnds(t) ==
    /\ InState(t, "running")
    /\ trials' = [trials EXCEPT ![t].state = "done"]
    /\ results' = Append(results, [trial |-> t, error |-> FALSE])
    /\ UNCHANGED <<client, pipes, server, next>>

TrialPanics(t) ==
    /\ InState(t, "running")
    /\ trials' = [trials EXCEPT ![t].state = "panicking"]
    /\ UNCHANGED <<client, pipes, server, next, results>>

\* Mutant: a recovered panic is logged, but no result is sent.
RecoverWithoutResult(t) ==
    /\ InState(t, "panicking")
    /\ Log
    /\ trials' = [trials EXCEPT ![t].state = "done"]
    /\ UNCHANGED <<client, stdin, stdout, server, next, results>>

\* Mutant: after a recovered panic the slot of the semaphore is kept and the
\* wait group still waits.
RecoverWithoutDone(t) ==
    /\ InState(t, "panicking")
    /\ Log
    /\ results' = Append(results, [trial |-> t, error |-> TRUE])
    /\ trials' = [trials EXCEPT ![t].state = "recovered"]
    /\ UNCHANGED <<client, stdin, stdout, server, next>>

Recover(t) ==
    /\ InState(t, "panicking")
    /\ Log
    /\ trials' = [trials EXCEPT ![t].state = "done"]
    /\ results' = Append(results, [trial |-> t, error |-> TRUE])
    /\ UNCHANGED <<client, stdin, stdout, server, next>>

Trial == \E t \in Trials : TrialLogs(t) \/ TrialEnds(t) \/ TrialPanics(t) \/ Recover(t)
-----------------------------------------------------------------------------
(***************************************************************************)
(* BatchSimulator.                                                         *)
(***************************************************************************)
Readline(line) == stdout = line /\ stdout' = "empty"

SendRequest ==
    /\ client = "start" /\ Readline("ready")
    /\ stdin' = "request"
    /\ client' = "waiting"
    /\ UNCHANGED <<stderr, server, pool>>

GetResults ==
    /\ client = "waiting" /\ Readline("results")
    /\ client' = "stopping"
    /\ UNCHANGED <<stdin, stderr, server, pool>>

GetError ==
    /\ client = "waiting" /\ Readline("error")
    /\ client' = "draining"
    /\ UNCHANGED <<stdin, stderr, server, pool>>

\* readline returns nothing: the process is gone.
GetNothing ==
    /\ client = "start" /\ server = "exited" /\ stdout = "empty"
    /\ client' = "draining"
    /\ UNCHANGED <<pipes, server, pool>>

\* stderr.read() returns at the end of the pipe, that is of the process.
ReadStderr ==
    /\ client = "draining" /\ stderr > 0
    /\ stderr' = stderr - 1
    /\ UNCHANGED <<client, stdin, stdout, server, pool>>

StderrEnds ==
    /\ client = "draining" /\ stderr = 0 /\ server = "exited"
    /\ client' = "stopping"
    /\ UNCHANGED <<pipes, server, pool>>

CloseStdin ==
    /\ client = "stopping"
    /\ stdin' = "eof"
    /\ client' = "closing"
    /\ UNCHANGED <<stdout, stderr, server, pool>>

Terminated ==
    /\ client = "closing" /\ server = "exited"
    /\ client' = "done"
    /\ UNCHANGED <<pipes, server, pool>>

\* Five seconds after the end of its input the process is killed.
Kill ==
    /\ client = "closing" /\ server # "exited"
    /\ server' = "exited" /\ client' = "done"
    /\ UNCHANGED <<pipes, pool>>

BatchSimulator ==
    \/ SendRequest \/ GetResults \/ GetError \/ GetNothing \/ ReadStderr
    \/ StderrEnds \/ CloseStdin \/ Terminated \/ Kill

ServerNext == Serve \/ Trial \/ BatchSimulator

ServerFairness == WF_serverVars(Serve) /\ WF_serverVars(Trial) /\ WF_serverVars(BatchSimulator)

ServerSpec == ServerInit /\ [][ServerNext]_serverVars /\ ServerFairness
-----------------------------------------------------------------------------
(***************************************************************************)
(* The results printed for a request hold exactly one result of each of    *)
(* its trials, panics included, and never do more goroutines run than the  *)
(* semaphore has slots.                                                    *)
(***************************************************************************)
EachTrialAnswered ==
    /\ Cardinality(Busy) <= Workers
    /\ stdout = "results" =>
           /\ Len(results) = NumTrials
           /\ \A t \in Trials : \E i \in DOMAIN results : results[i].trial = t

(***************************************************************************)
(* The client comes to its end, or one of three things keeps it for ever:  *)
(* the server's logs filled the pipe that nobody reads; the answer has no  *)
(* end of line; or it reads the stderr of a server that waits for its next *)
(* request.                                                                *)
(***************************************************************************)
BatchEndsOrHangs ==
    \/ <>(client = "done")
    \/ <>[](client = "waiting" /\ stderr = PipeSize)
    \/ <>[](client = "waiting" /\ stdout = "partial")
    \/ <>[](client = "draining" /\ server = "scan")

=============================================================================
