---------------------------- MODULE MergeCredit -----------------------------
(***************************************************************************)
(* How a merge request scores its task (src/internal/scorer/scorer.go,     *)
(* from classifyMergeRequest on), and which of a task's requests does.     *)
(* Operators only: CreditScan runs the scorer's loop over a fixed table,   *)
(* Scoreboard lets the table change under it.                              *)
(***************************************************************************)
EXTENDS Integers

CONSTANTS
    MaxRequests,  \* requests of the task, by id
    MaxTime,      \* instants at which pipelines are created; one names its pipeline
    Points        \* what the policy gives for a submission made at an instant

Requests == 1..MaxRequests
Times    == 1..MaxTime

(* Every configured policy gives less for a later submission, never more   *)
(* (src/internal/deadlines/scoring.go).                                    *)
ASSUME CreditAssumption ==
    /\ MaxRequests \in Nat /\ MaxTime \in Nat
    /\ Points \in [Times -> Nat]
    /\ \A s, t \in Times : s <= t => Points[t] <= Points[s]

(* A row of the merge_requests table; ciAt = 0 is the zero time of a       *)
(* request without a pipeline.                                             *)
Row == [state: {"opened", "merged", "closed"}, ci: {"none", "running", "success", "failed"},
        ciAt: 0..MaxTime, mergeable: BOOLEAN, noted: BOOLEAN, thread: BOOLEAN,
        diff: {"clean", "extra", "empty"}]

(* The order of the mergeRequestStatus constants.                          *)
Closed == 0
Pending == 1
OnReview == 2
ReviewResolved == 3
CantBeMerged == 4
HasExtraChanges == 5
NoChanges == 6
PipelineFailed == 7
Merged == 8

classifyMergeRequest(row) ==
    IF row.state = "closed" THEN Closed
    ELSE IF row.state = "merged" THEN Merged
    ELSE IF row.ci = "failed" THEN PipelineFailed
    ELSE IF ~row.mergeable THEN CantBeMerged
    ELSE IF row.noted /\ row.thread THEN OnReview
    ELSE IF row.noted THEN ReviewResolved
    ELSE IF row.diff = "empty" THEN NoChanges
    ELSE IF row.diff = "extra" THEN HasExtraChanges
    ELSE Pending

isCreditable(row) == row.ci = "success" /\ row.ciAt # 0

(* Mutant of mergeRequestBetter: the latest green merge wins.              *)
LatestMergeBetter(candidate, current) ==
    LET c == classifyMergeRequest(candidate)
        d == classifyMergeRequest(current)
    IN \/ c > d
       \/ /\ c = d /\ c = Merged /\ isCreditable(candidate)
          /\ isCreditable(current) => candidate.ciAt > current.ciAt

(* Mutant of mergeRequestBetter: a red pipeline shadows a merge.           *)
FailedShadowsMerge(candidate, current) ==
    LET c == classifyMergeRequest(candidate) % Merged
        d == classifyMergeRequest(current) % Merged
    IN \/ c > d
       \/ /\ c = d /\ c = 0 /\ isCreditable(candidate)
          /\ isCreditable(current) => candidate.ciAt < current.ciAt

(* The most actionable state wins; among merged requests a creditable one, *)
(* then the earliest pipeline.                                             *)
mergeRequestBetter(candidate, current) ==
    LET c == classifyMergeRequest(candidate)
        d == classifyMergeRequest(current)
    IN \/ c > d
       \/ /\ c = d /\ c = Merged /\ isCreditable(candidate)
          /\ isCreditable(current) => candidate.ciAt < current.ciAt

(* scoreMergeRequest: only a merged request with a green pipeline scores.  *)
RowScore(row) ==
    IF row.state = "merged" /\ isCreditable(row) THEN Points[row.ciAt] ELSE 0

RowStatus(row) ==
    LET c == classifyMergeRequest(row) IN
    IF c = Merged THEN IF isCreditable(row) THEN "success" ELSE "failed"
    ELSE IF c \in {PipelineFailed, HasExtraChanges, NoChanges, CantBeMerged} THEN "failed"
    ELSE IF c = OnReview THEN "review_unresolved"
    ELSE IF c = ReviewResolved THEN "review_resolved"
    ELSE "review_pending"

(* m represents the task among the candidates: nothing there is better,    *)
(* and of equals it has the lowest id.                                     *)
Represents(m, table, candidates) ==
    /\ m \in candidates
    /\ \A k \in candidates :
         /\ k < m => mergeRequestBetter(table[m], table[k])
         /\ k > m => ~mergeRequestBetter(table[k], table[m])

=============================================================================
