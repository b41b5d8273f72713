--------------------------- MODULE MCMachineWrite ---------------------------
(* Two administrators' processes and two of one person, of which each run   *)
(* takes three; `other` owns only what was there before.                    *)
EXTENDS MachineWrite

CONSTANTS installer, setup, shell, panel, person, other

MCAccounts == {Admin, person, other}
MCAccount  == [p \in Processes |-> IF p \in {installer, setup} THEN Admin ELSE person]
=============================================================================
