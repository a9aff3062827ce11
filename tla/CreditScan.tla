----------------------------- MODULE CreditScan -----------------------------
(***************************************************************************)
(* loadUserMergeRequests (src/internal/scorer/scorer.go): one pass over    *)
(* the requests of a task in id order, skipping those whose last pipeline  *)
(* is banned, keeps the request that represents the task.                  *)
(***************************************************************************)
EXTENDS MergeCredit

CONSTANT RowValues  \* bound: the rows a table may hold

ASSUME RowAssumption == RowValues \subseteq Row

VARIABLES
    rows,      \* the table, as the one query returned it
    bans,      \* banned pipelines
    next,      \* the next request to look at
    best,      \* the request that represents the task so far, 0: none
    reviewed   \* HasUserNotes

vars == <<rows, bans, next, best, reviewed>>

Init ==
    /\ rows \in [Requests -> RowValues]
    /\ bans \in SUBSET Times
    /\ next = 1 /\ best = 0 /\ reviewed = FALSE

Hidden(m) == rows[m].ciAt \in bans

Skip ==
    /\ next \in Requests /\ Hidden(next)
    /\ next' = next + 1
    /\ UNCHANGED <<rows, bans, best, reviewed>>

(* Mutant of Consider: the last of equals is kept.                         *)
ConsiderKeepingLast ==
    /\ next \in Requests /\ ~Hidden(next)
    /\ best' = IF best = 0 \/ ~mergeRequestBetter(rows[best], rows[next])
               THEN next ELSE best
    /\ reviewed' = (reviewed \/ rows[next].noted)
    /\ next' = next + 1
    /\ UNCHANGED <<rows, bans>>

Consider ==
    /\ next \in Requests /\ ~Hidden(next)
    /\ best' = IF best = 0 \/ mergeRequestBetter(rows[next], rows[best])
               THEN next ELSE best
    /\ reviewed' = (reviewed \/ rows[next].noted)
    /\ next' = next + 1
    /\ UNCHANGED <<rows, bans>>

Next == Skip \/ Consider

Spec == Init /\ [][Next]_vars

-----------------------------------------------------------------------------
TypeOK ==
    /\ rows \in [Requests -> Row] /\ bans \subseteq Times
    /\ next \in 1..(MaxRequests + 1) /\ best \in 0..MaxRequests
    /\ reviewed \in BOOLEAN

Visible == {m \in Requests : ~Hidden(m)}
Seen    == {m \in Visible : m < next}
Done    == next = MaxRequests + 1

(* At every point of the pass, the request kept is the one that represents *)
(* the task among those seen: no other is better, the lowest id wins a     *)
(* tie, and nothing banned is considered.                                  *)
KeepsRepresentative ==
    IF Seen = {} THEN best = 0 ELSE Represents(best, rows, Seen)

(* docs/merge-requests.md:24-25: the earliest green merged request of the  *)
(* task wins - over an earlier merge that is red, over open and closed     *)
(* requests, and whatever the order of the rows.                           *)
EarliestGreenWins ==
    \A m \in Visible :
        (Done /\ rows[m].state = "merged" /\ isCreditable(rows[m])) =>
            /\ best # 0
            /\ rows[best].state = "merged" /\ isCreditable(rows[best])
            /\ rows[best].ciAt <= rows[m].ciAt

=============================================================================
