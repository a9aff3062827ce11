----------------------------- MODULE Deadlines ------------------------------
(***************************************************************************)
(* The deadlines fetcher (src/internal/deadlines/fetcher.go): every group  *)
(* has a file of deadlines on the web; a pass fetches all of them, in the  *)
(* order of the configuration, and swaps them in at once or not at all.    *)
(* A file is its version, the number of times staff have edited it.        *)
(***************************************************************************)
EXTENDS Integers

CONSTANTS
    NumGroups,  \* configured groups
    MaxEdits    \* bound: edits of a group's file, by group

Groups == 1..NumGroups

ASSUME DeadlinesAssumption == NumGroups \in Nat \ {0} /\ MaxEdits \in [Groups -> Nat]

VARIABLES
    docs,     \* the files on the web
    current,  \* the deadlines in force
    reload    \* the pass under way: its group, 0 between passes, and what it has

deadlinesVars == <<docs, current, reload>>

Nowhere == [at |-> 0, got |-> [g \in Groups |-> 0]]

(* The server starts only after a whole first pass (NewFetcher).           *)
DeadlinesInit ==
    /\ docs = [g \in Groups |-> 0]
    /\ current = docs
    /\ reload = Nowhere

EditDeadlines(g) ==
    /\ docs[g] < MaxEdits[g]
    /\ docs' = [docs EXCEPT ![g] = @ + 1]
    /\ UNCHANGED <<current, reload>>

ReloadStart ==
    /\ reload.at = 0
    /\ reload' = [Nowhere EXCEPT !.at = 1]
    /\ UNCHANGED <<docs, current>>

Fetch ==
    /\ reload.at \in Groups
    /\ reload' = [reload EXCEPT !.at = @ + 1, !.got[reload.at] = docs[reload.at]]
    /\ UNCHANGED <<docs, current>>

(* Mutant of FetchFails: the failed group is skipped.                      *)
FetchSkips ==
    /\ reload.at \in Groups
    /\ reload' = [reload EXCEPT !.at = @ + 1]
    /\ UNCHANGED <<docs, current>>

(* Mutant of FetchFails: the goroutine ends with its first failed pass.    *)
FetchEnds ==
    /\ reload.at \in Groups
    /\ reload' = [reload EXCEPT !.at = -1]
    /\ UNCHANGED <<docs, current>>

(* One failure abandons the pass, and the old deadlines stay in force.     *)
FetchFails ==
    /\ reload.at \in Groups
    /\ reload' = Nowhere
    /\ UNCHANGED <<docs, current>>

Swap ==
    /\ reload.at = NumGroups + 1
    /\ current' = reload.got
    /\ reload' = Nowhere
    /\ UNCHANGED docs

FetcherNext == ReloadStart \/ Fetch \/ Swap

(* AnyGroupHasTask, for a task every group has since its file's first edit. *)
AnyGroupHasTask == \E g \in Groups : current[g] > 0

(* No group ever falls back to older deadlines or loses them, whatever the *)
(* fetches of the other groups do.                                         *)
DeadlinesNeverGoBack ==
    [][\A g \in Groups : current'[g] >= current[g]]_deadlinesVars

(* Once every file can be fetched again, the files are in force.           *)
DeadlinesConverge == <>[][~FetchFails]_deadlinesVars => <>[](current = docs)

(* Once it has, it stays: a group whose deadlines in force are those of    *)
(* its file keeps them until the file is edited, whatever fetches fail.    *)
CaughtUpLasts ==
    [][\A g \in Groups : (current[g] = docs[g] /\ docs'[g] = docs[g]) =>
                              current'[g] = docs'[g]]_deadlinesVars

=============================================================================
