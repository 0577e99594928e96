--------------------------- MODULE MCCoordinateTool ---------------------------
(* Small instances of CoordinateTool for TLC.                              *)
EXTENDS CoordinateTool

CONSTANTS loop, tool

OnlyTool == {tool}
OnePriority == {5}

\* Independent tasks, chains, forks and joins.
Shapes == [t \in 1 .. NumTasks |->
             IF t = 1 THEN {{}} ELSE IF t = 2 THEN {{}, {1}} ELSE {{}, {1}, {1, 2}}]
=============================================================================
