----------------------------- MODULE MCCrashme ------------------------------
(* Small instances of Crashme.                                             *)
EXTENDS Crashme

(* One file is edited, another is fetched with it.                         *)
MCMaxEdits == [g \in Groups |-> IF g = 1 THEN 1 ELSE 0]

=============================================================================
