---------------------------- MODULE MCModeration ----------------------------
(* Small instances of Moderation.                                          *)
EXTENDS Moderation

(* A ban can be lifted again.                                              *)
MCMaxWrites == [t \in Tables |-> IF t = "bans" THEN 2 ELSE 1]

(* One reader of the standings, and one of either page.                    *)
MCAsks == [r \in Readers |-> IF r = 1 THEN {"scores"} ELSE Keys]

=============================================================================
