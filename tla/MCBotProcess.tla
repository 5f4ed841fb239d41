---------------------------- MODULE MCBotProcess ----------------------------
(***************************************************************************)
(* Instances of BotProcess for TLC.                                        *)
(***************************************************************************)
EXTENDS BotProcess

\* Two orders, one of which fills in parts.
MCWanted == <<2, 1>>
=============================================================================
