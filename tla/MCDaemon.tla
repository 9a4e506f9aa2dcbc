------------------------------- MODULE MCDaemon -------------------------------
(* Two clients for model checking Daemon: one sends lines, the other only   *)
(* connects.                                                                *)
EXTENDS Daemon

CONSTANTS busy, silent

MCMaxLines == [c \in {busy, silent} |-> IF c = busy THEN 2 ELSE 0]
=============================================================================
