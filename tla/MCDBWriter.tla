------------------------------ MODULE MCDBWriter ------------------------------
(***************************************************************************)
(* DBWriter for TLC: a fill wins or loses one unit.                        *)
(***************************************************************************)
EXTENDS DBWriter

MCProfits == {-1, 1}

=============================================================================
