------------------------------ MODULE Optimizer ------------------------------
(***************************************************************************)
(* The loop that tunes a running bot: the drift monitor                    *)
(* (optimizer/drift_monitor.py) writes a job file; the optimizer           *)
(* (optimizer/main.py, walk_forward.py) runs the job and rewrites the      *)
(* bot's trade configuration; the bot's file watcher (cmd/bot/main.go,     *)
(* watchConfigFiles) reloads it (internal/config/config.go).               *)
(*                                                                         *)
(* The bot keeps its parameters in two places.  The global configuration   *)
(* is read for every order (amount, slicing, risk limits); the signal      *)
(* engine copies its own (weights, threshold, take profit, stop loss,      *)
(* hold time, spread limit) when the bot starts.                           *)
(*                                                                         *)
(* The processes share two files.  Python's open(.., 'w') truncates the    *)
(* file at once and the contents follow when it is closed: two steps.  A   *)
(* file holds a number, Empty or, when it does not exist, NoFile.  The     *)
(* parameters found by a job have the number of the job.                   *)
(***************************************************************************)
EXTENDS Integers, Sequences

CONSTANTS
    NumFolds,    \* folds of a walk-forward analysis
    MinPercent,  \* min_success_ratio, as a percentage
    MaxJobs,     \* bound: jobs written
    MaxCrashes   \* bound: crashes of the optimizer

ASSUME OptimizerAssumption ==
    NumFolds \in Nat \ {0} /\ MinPercent \in 0 .. 100 /\ MaxJobs \in Nat /\ MaxCrashes \in Nat

NoFile == -1
Empty == 0

\* The initial parameters have a number of their own.
Initial == MaxJobs + 1

\* What the global configuration holds in place of trade parameters.
NoTrade == 0

VARIABLES
    jobFile, params,  \* the two files
    monitor,          \* the drift monitor
    optimizer,        \* the optimizer and its locals
    crashes,          \* how often it crashed
    events,           \* how many file events the watcher has not taken
    watcher,          \* the watcher of the bot
    bot,              \* the bot, its global configuration and its signal engine
    unseen,           \* history: a change of params that no reload took over
    ran,              \* history: the jobs that were run to their end
    replaced,         \* history: the jobs a later one was written over
    overlapped,       \* history: the jobs whose writing overlapped a run
    refused           \* history: the jobs an I/O error kept from the optimizer

jobVars == <<jobFile, monitor>>
paramVars == <<params, events, unseen>>
botVars == <<watcher, bot>>
history == <<ran, replaced, overlapped, refused>>
tuningVars == <<jobVars, paramVars, optimizer, crashes, botVars, history>>

Polling == [pc |-> "poll", job |-> 0, results |-> <<>>]

\* LoadConfig: a file that is missing or empty is no error, the configuration
\* has no trade part.
Loaded(file) == IF file = NoFile THEN NoTrade ELSE file

\* A bot that starts without parameters only collects data until it restarts.
Started(file) ==
    [pc |-> IF Loaded(file) = NoTrade THEN "collecting" ELSE "trading",
     trade |-> Loaded(file), strategy |-> Loaded(file)]

TuningInit ==
    /\ jobFile = NoFile
    /\ params \in {NoFile, Initial}
    /\ monitor = [pc |-> "idle", job |-> 0, linked |-> TRUE]
    /\ optimizer = Polling
    /\ crashes = 0
    /\ events = 0
    /\ watcher = "off"
    /\ bot = Started(params)
    /\ unseen = FALSE
    /\ ran = {} /\ replaced = {} /\ overlapped = {} /\ refused = {}
-----------------------------------------------------------------------------
(***************************************************************************)
(* The drift monitor: check_for_drift has found a drift.                   *)
(***************************************************************************)
TriggerOptimization ==
    /\ monitor.pc = "idle" /\ monitor.job < MaxJobs
    /\ monitor' = [pc |-> "writing", job |-> monitor.job + 1, linked |-> TRUE]
    /\ jobFile' = Empty
    /\ replaced' = replaced \cup ({jobFile} \ {NoFile, Empty})
    /\ overlapped' = IF optimizer.pc = "poll" THEN overlapped ELSE overlapped \cup {monitor.job + 1}
    /\ UNCHANGED <<paramVars, optimizer, crashes, botVars, ran, refused>>

\* The file cannot be opened: the monitor goes on without a job.
OpenJobFails ==
    /\ monitor.pc = "idle" /\ monitor.job < MaxJobs
    /\ monitor' = [monitor EXCEPT !.job = @ + 1]
    /\ refused' = refused \cup {monitor.job + 1}
    /\ UNCHANGED <<jobFile, paramVars, optimizer, crashes, botVars, ran, replaced, overlapped>>

\* A file that was removed meanwhile is written all the same, unseen.
WriteJob ==
    /\ monitor.pc = "writing"
    /\ monitor' = [monitor EXCEPT !.pc = "idle"]
    /\ jobFile' = IF monitor.linked THEN monitor.job ELSE jobFile
    /\ UNCHANGED <<paramVars, optimizer, crashes, botVars, history>>

\* An IOError leaves the file empty or cut off, which is no JSON either.
WriteJobFails ==
    /\ monitor.pc = "writing"
    /\ monitor' = [monitor EXCEPT !.pc = "idle"]
    /\ refused' = refused \cup {monitor.job}
    /\ UNCHANGED <<jobFile, paramVars, optimizer, crashes, botVars, ran, replaced, overlapped>>

DriftMonitor == TriggerOptimization \/ OpenJobFails \/ WriteJob \/ WriteJobFails
-----------------------------------------------------------------------------
(***************************************************************************)
(* The optimizer.                                                          *)
(***************************************************************************)
Writing == IF monitor.pc = "writing" THEN {monitor.job} ELSE {}

\* Mutant: the job file is removed as soon as it has been read.
ReadJobAndRemove ==
    /\ optimizer.pc = "poll" /\ jobFile # NoFile
    /\ optimizer' = IF jobFile = Empty THEN [Polling EXCEPT !.pc = "remove"]
                    ELSE [Polling EXCEPT !.pc = "folds", !.job = jobFile]
    /\ jobFile' = NoFile
    /\ monitor' = [monitor EXCEPT !.linked = FALSE]
    /\ overlapped' = overlapped \cup Writing
    /\ UNCHANGED <<paramVars, crashes, botVars, ran, replaced, refused>>

ReadJob ==
    /\ optimizer.pc = "poll" /\ jobFile \notin {NoFile, Empty}
    /\ optimizer' = [Polling EXCEPT !.pc = "folds", !.job = jobFile]
    /\ overlapped' = overlapped \cup Writing
    /\ UNCHANGED <<jobVars, paramVars, crashes, botVars, ran, replaced, refused>>

\* An empty file is not JSON, and any file may fail to open or to read: it is
\* removed unread.
ReadJobFails ==
    /\ optimizer.pc = "poll" /\ jobFile # NoFile
    /\ optimizer' = [Polling EXCEPT !.pc = "remove"]
    /\ overlapped' = overlapped \cup Writing
    /\ refused' = refused \cup ({jobFile} \ {Empty})
    /\ UNCHANGED <<jobVars, paramVars, crashes, botVars, ran, replaced>>

\* A fold of run_walk_forward_analysis.
Fold ==
    /\ optimizer.pc = "folds" /\ Len(optimizer.results) < NumFolds
    /\ \E status \in {"passed", "failed", "skipped"} :
           optimizer' = [optimizer EXCEPT !.results = Append(@, status)]
    /\ UNCHANGED <<jobVars, paramVars, crashes, botVars, history>>

\* No fold can be generated, or an exception outside of the folds: the job ends.
RunAborted ==
    /\ optimizer.pc = "folds"
    /\ optimizer' = [optimizer EXCEPT !.pc = "remove"]
    /\ ran' = ran \cup {optimizer.job}
    /\ UNCHANGED <<jobVars, paramVars, crashes, botVars, replaced, overlapped, refused>>

\* run_simulation waits for its process without a timeout.
FoldHangs ==
    /\ optimizer.pc = "folds" /\ Len(optimizer.results) < NumFolds
    /\ optimizer' = [optimizer EXCEPT !.pc = "hung"]
    /\ UNCHANGED <<jobVars, paramVars, crashes, botVars, history>>

Passed(results) == SelectSeq(results, LAMBDA r : r = "passed")
AggregateAndDecide(results) == Len(Passed(results)) * 100 >= MinPercent * Len(results)

Decide ==
    /\ optimizer.pc = "folds" /\ Len(optimizer.results) = NumFolds
    /\ LET save == AggregateAndDecide(optimizer.results) /\ Passed(optimizer.results) # <<>>
       IN  /\ optimizer' = [optimizer EXCEPT !.pc = IF save THEN "open" ELSE "remove"]
           /\ ran' = IF save THEN ran ELSE ran \cup {optimizer.job}
    /\ UNCHANGED <<jobVars, paramVars, crashes, botVars, replaced, overlapped, refused>>

\* The bot learns of a change only through its watcher.
ChangeParams(contents) ==
    /\ params' = contents
    /\ events' = IF watcher = "off" THEN events ELSE events + 1
    /\ unseen' = (unseen \/ watcher = "off")

\* _save_global_best_parameters: open ...
OpenParams ==
    /\ optimizer.pc = "open"
    /\ optimizer' = [optimizer EXCEPT !.pc = "write"]
    /\ ChangeParams(Empty)
    /\ UNCHANGED <<jobVars, crashes, botVars, history>>

\* ... and write.
WriteParams ==
    /\ optimizer.pc = "write"
    /\ optimizer' = [optimizer EXCEPT !.pc = "remove"]
    /\ ChangeParams(optimizer.job)
    /\ ran' = ran \cup {optimizer.job}
    /\ UNCHANGED <<jobVars, crashes, botVars, replaced, overlapped, refused>>

\* Any exception of the save is only logged.
SaveFails ==
    /\ optimizer.pc \in {"open", "write"}
    /\ optimizer' = [optimizer EXCEPT !.pc = "remove"]
    /\ ran' = ran \cup {optimizer.job}
    /\ UNCHANGED <<jobVars, paramVars, crashes, botVars, replaced, overlapped, refused>>

RemoveJob ==
    /\ optimizer.pc = "remove"
    /\ optimizer' = Polling
    /\ jobFile' = NoFile
    /\ monitor' = [monitor EXCEPT !.linked = FALSE]
    /\ UNCHANGED <<paramVars, crashes, botVars, history>>

\* The container is restarted; the job file is still there.
Crash ==
    /\ crashes < MaxCrashes /\ optimizer.pc # "poll"
    /\ crashes' = crashes + 1
    /\ optimizer' = Polling
    /\ UNCHANGED <<jobVars, paramVars, botVars, history>>

RunOptimizer ==
    \/ ReadJob \/ ReadJobFails \/ Fold \/ RunAborted \/ FoldHangs \/ Decide
    \/ OpenParams \/ WriteParams \/ SaveFails \/ RemoveJob
-----------------------------------------------------------------------------
(***************************************************************************)
(* The bot: it loads its configuration, and starts its watcher afterwards. *)
(* The watcher takes an event, waits a quarter of a second and reloads     *)
(* what the file then holds.                                               *)
(***************************************************************************)
Up == bot.pc \in {"trading", "collecting"}

\* watcher.Add: events are those of now on.
StartWatching ==
    /\ Up /\ watcher = "off"
    /\ watcher' = "wait"
    /\ UNCHANGED <<jobVars, paramVars, optimizer, crashes, bot, history>>

TakeEvent ==
    /\ Up /\ watcher = "wait" /\ events > 0
    /\ watcher' = "reload"
    /\ events' = events - 1
    /\ UNCHANGED <<jobVars, params, unseen, optimizer, crashes, bot, history>>

\* Mutant: the watcher returns after a reload.
ReloadOnce ==
    /\ Up /\ watcher = "reload"
    /\ bot' = [bot EXCEPT !.trade = Loaded(params)]
    /\ unseen' = FALSE
    /\ watcher' = "returned"
    /\ UNCHANGED <<jobVars, params, events, optimizer, crashes, history>>

\* Mutant: a configuration without a trade part is never replaced.
ReloadKeepsNoTrade ==
    /\ Up /\ watcher = "reload"
    /\ bot' = IF bot.trade = NoTrade THEN bot ELSE [bot EXCEPT !.trade = Loaded(params)]
    /\ unseen' = FALSE
    /\ watcher' = "wait"
    /\ UNCHANGED <<jobVars, params, events, optimizer, crashes, history>>

\* The signal engine keeps the parameters it was made with.
ReloadConfig ==
    /\ Up /\ watcher = "reload"
    /\ bot' = [bot EXCEPT !.trade = Loaded(params)]
    /\ unseen' = FALSE
    /\ watcher' = "wait"
    /\ UNCHANGED <<jobVars, params, events, optimizer, crashes, history>>

\* A configuration file cannot be read or parsed: the old configuration stays,
\* and nothing tries again before the next event.
ReloadFails ==
    /\ Up /\ watcher = "reload"
    /\ unseen' = TRUE
    /\ watcher' = "wait"
    /\ UNCHANGED <<jobVars, params, events, optimizer, crashes, bot, history>>

\* A trading routine dereferences the missing part: the process ends, and with
\* it its watcher.
Dereference ==
    /\ bot.pc = "trading" /\ bot.trade = NoTrade
    /\ bot' = [bot EXCEPT !.pc = "panicked"]
    /\ watcher' = "off"
    /\ events' = 0
    /\ UNCHANGED <<jobVars, params, unseen, optimizer, crashes, history>>

\* The container is restarted (again, when the configuration cannot be loaded).
Restart ==
    /\ bot.pc = "panicked"
    /\ bot' = Started(params)
    /\ unseen' = FALSE
    /\ UNCHANGED <<jobVars, params, events, optimizer, crashes, watcher, history>>

Watcher == StartWatching \/ TakeEvent \/ ReloadConfig \/ ReloadFails

TuningNext == DriftMonitor \/ RunOptimizer \/ Crash \/ Watcher \/ Dereference \/ Restart

\* The bot's watcher runs; nothing is assumed of the optimizer, whose simulations
\* may hang, nor of a restart, which may find files that cannot be read.
TuningSpec == TuningInit /\ [][TuningNext]_tuningVars /\ WF_tuningVars(Watcher)
-----------------------------------------------------------------------------
(***************************************************************************)
(* A job is run, is being run or waits in its file, but for four kinds:    *)
(* one a later job was written over, one written while the optimizer was   *)
(* at work, one whose half-written file it read, and one that an I/O error *)
(* kept from being written or read.                                        *)
(***************************************************************************)
JobsAreRun ==
    \A job \in 1 .. monitor.job :
        \/ job \in Writing
        \/ jobFile = job
        \/ optimizer.job = job
        \/ job \in ran
        \/ job \in replaced \cup overlapped \cup refused

(***************************************************************************)
(* The global configuration of a running bot is what the parameter file    *)
(* holds, or a reload is due: a change is never overlooked, but for one    *)
(* made between LoadConfig and the start of the watcher and one whose      *)
(* reload failed.                                                          *)
(***************************************************************************)
ConfigFollowsFile ==
    Up => \/ bot.trade = Loaded(params)
          \/ watcher = "reload" \/ events > 0
          \/ unseen

(***************************************************************************)
(* Parameters that stay in the file come to be in the global configuration *)
(* of the bot, unless it is down, or they are such an overlooked change.   *)
(***************************************************************************)
LastParamsLoaded ==
    \A p \in 1 .. Initial :
        params = p ~> bot.trade = p \/ params # p \/ unseen \/ ~Up

(***************************************************************************)
(* "the running bot service ... reflects the new parameters in its trading *)
(* strategy at once" (src/README.md:290, in Japanese): parameters that     *)
(* reach the configuration of a trading bot reach its signal engine.       *)
(***************************************************************************)
StrategyFollowsConfig ==
    \A p \in 1 .. Initial :
        bot.pc = "trading" /\ bot.trade = p
            ~> bot.strategy = p \/ bot.trade # p \/ bot.pc # "trading"

\* "... without interrupting trading" (src/README.md:290), which the model
\* violates: a truncated file is reloaded and its parameters dereferenced.
TradingNotInterrupted == bot.pc # "panicked"

=============================================================================
