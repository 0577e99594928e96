------------------------------ MODULE MCRecovery ------------------------------
(* Small instances of Recovery for TLC.                                    *)
EXTENDS Recovery, TLC

CONSTANTS m1, m2

OnePrompt == {m1}
TwoPrompts == {m1, m2}
OneEach == [k \in Kinds |-> 1]

AnySave == {"saved", "uncertain", "failed"}
Saved == {"saved"}

Symmetric == Permutations(Prompts)
=============================================================================
