------------------------------ MODULE MCOffline ------------------------------
(***************************************************************************)
(* Two programs beside the bot in one instance for TLC: the report         *)
(* generator and the loop that tunes the bot.  They share no state, so a   *)
(* behaviour runs one of them while the other stands still.                *)
(***************************************************************************)
EXTENDS MCReport, Optimizer

VARIABLE program   \* "report" or "tuning"

offlineVars == <<program, reportVars, tuningVars>>

Reporting == program = "report" /\ UNCHANGED <<program, tuningVars>>
Tuning == program = "tuning" /\ UNCHANGED <<program, reportVars>>

\* The program that stands still keeps a state of its own.
OfflineInit ==
    /\ program \in {"report", "tuning"}
    /\ ReportInit /\ TuningInit
    /\ program = "report" => params = NoFile
    /\ program = "tuning" => trades = SameSecond

OfflineNext ==
    \/ Reporting /\ ReportNext
    \/ Tuning /\ TuningNext

OfflineSpec ==
    OfflineInit /\ [][OfflineNext]_offlineVars /\ WF_offlineVars(Tuning /\ Watcher)

=============================================================================
