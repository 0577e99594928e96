---------------------------- MODULE MCShellTasks ----------------------------
(* A small instance of ShellTasks for TLC.                                 *)
EXTENDS ShellTasks

CONSTANTS t1

OneTask == {t1}
OneUser == {"user"}
=============================================================================
