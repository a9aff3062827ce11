----------------------------- MODULE Scoreboard -----------------------------
(***************************************************************************)
(* The score of one task over its life (src/internal/scorer): by flags if  *)
(* it has any, else in the way the task is scored, by its pipelines, by    *)
(* its merge requests or by flags only.  Submissions are made, re-run and  *)
(* flagged, benchmarks are reported and ranked, requests are reviewed,     *)
(* merged, re-checked and closed, moderators ban and lift bans: what may   *)
(* lower a score, and what never does.  The copies rows, bans, next, best  *)
(* and reviewed of CreditScan are those of one computation of the scorer's *)
(* loop.                                                                   *)
(***************************************************************************)
EXTENDS CreditScan, FiniteSets

CONSTANTS
    Students,
    Author,      \* whose merge requests are modelled
    Kinds,       \* how the task may be scored
    Deadline,    \* of the task's group: the last instant in time
    Bonus,       \* of the leaderboard, in percent
    Since,       \* bound: to a task of each kind nothing is submitted by then
    Pushing,     \* bound: whose pipelines a task of each kind has
    MaxMetric,   \* bound: benchmark results a task of each kind has
    MaxReviewed, \* bound: requests with notes
    MaxBanned,   \* bound: bans in force
    ScanReported, \* bound: whether computations go on once there are results
    NoStudent

ASSUME BoardAssumption ==
    /\ Author \in Students /\ NoStudent \notin Students
    /\ Kinds \subseteq {"pipelines", "mergeRequests", "crashme"}
    /\ Deadline \in Nat /\ Bonus \in Nat
    /\ Since \in [Kinds -> 0..MaxTime] /\ Pushing \in [Kinds -> SUBSET Students]
    /\ MaxMetric \in [Kinds -> Nat] /\ MaxReviewed \in Nat /\ MaxBanned \in Nat
    /\ ScanReported \in BOOLEAN

VARIABLES
    kind,      \* configuration: how the task is scored
    clock,     \* the last instant at which something was submitted
    pipes,     \* the task's rows of pipelines and benchmark_results
    flags,     \* who submitted the flag created at an instant
    table,     \* merge_requests rows of the author's task
    banned,    \* submission_bans
    scanning   \* a computation runs on its copies

scanVars  == <<rows, bans, next, best, reviewed, scanning>>
boardVars == <<kind, clock, pipes, flags, table, banned, scanVars>>

NoRow  == [state |-> "absent"]
NoPipe == [owner |-> NoStudent, status |-> "absent", metric |-> 0]

-----------------------------------------------------------------------------
(* The pipeline workflow: the pipeline that represents the task.           *)
Failed == 2
Checking == 3
Success == 4

classifyPipelineStatus(status) ==
    IF status = "success" THEN Success ELSE IF status = "running" THEN Checking ELSE Failed

(* Mutant of pipelineLess: the latest success represents the task.         *)
LatestSuccessLess(p, q) ==
    LET c == classifyPipelineStatus(pipes[p].status)
        d == classifyPipelineStatus(pipes[q].status)
    IN c > d \/ (c = d /\ p > q)

(* Mutant of pipelineLess: the latest pipeline represents the task.        *)
LatestLess(p, q) == p > q

pipelineLess(p, q) ==
    LET c == classifyPipelineStatus(pipes[p].status)
        d == classifyPipelineStatus(pipes[q].status)
    IN c > d \/ (c = d /\ IF c = Success THEN p < q ELSE p > q)

PipelinesOf(s) == {t \in 1..clock : pipes[t].owner = s /\ t \notin banned}
RepresentativePipeline(s) ==
    CHOOSE p \in PipelinesOf(s) : \A q \in PipelinesOf(s) : ~pipelineLess(q, p)

(* The flag and merge request workflows.                                   *)
FlagsOf(s) == {t \in 1..clock : flags[t] = s}
EarliestFlag(s) == CHOOSE t \in FlagsOf(s) : \A u \in FlagsOf(s) : t <= u

Known == {m \in Requests : table[m] # NoRow}
VisibleRequests == {m \in Known : table[m].ciAt \notin banned}
Representative == CHOOSE m \in VisibleRequests : Represents(m, table, VisibleRequests)

(* What the policy makes of the student's task: status, score and the      *)
(* submission that set it.                                                 *)
Nothing == [status |-> "assigned", score |-> 0, at |-> 0]

Submission(s) ==
    IF FlagsOf(s) # {}
    THEN [status |-> "success", score |-> Points[EarliestFlag(s)], at |-> EarliestFlag(s)]
    ELSE IF kind = "mergeRequests" /\ s = Author /\ VisibleRequests # {}
    THEN LET row == table[Representative]
         IN [status |-> RowStatus(row), score |-> RowScore(row), at |-> row.ciAt]
    ELSE IF kind = "pipelines" /\ PipelinesOf(s) # {}
    THEN LET t == RepresentativePipeline(s)
         IN [status |-> pipes[t].status, at |-> t,
             score |-> IF pipes[t].status = "success" THEN Points[t] ELSE 0]
    ELSE Nothing

-----------------------------------------------------------------------------
(* The leaderboard: everybody's best result in time, best first.           *)

ListGroupBenchmarks ==
    {t \in 1..clock : pipes[t].status = "success" /\ pipes[t].metric # 0 /\ t \notin banned}

(* Mutant of ResultsInTime: results after the deadline count.              *)
ResultsAtAnyTime == ListGroupBenchmarks

ResultsInTime == {t \in ListGroupBenchmarks : t <= Deadline}

entryLess(p, q) ==
    \/ pipes[p].metric < pipes[q].metric
    \/ pipes[p].metric = pipes[q].metric /\ p < q

(* The best results, one of each student.                                  *)
Entries ==
    {t \in ResultsInTime : \A u \in ResultsInTime :
        pipes[u].owner = pipes[t].owner => ~entryLess(u, t)}

Ranked(s) == \E t \in Entries : pipes[t].owner = s
EntryOf(s) == CHOOSE t \in Entries : pipes[t].owner = s
Rank(s) == 1 + Cardinality({t \in Entries : entryLess(t, EntryOf(s))})

(* math.Round of a quotient of naturals.                                   *)
RoundDiv(a, b) == (2 * a + b) \div (2 * b)

leaderboardScore(base, rank, total) ==
    IF total = 1 THEN RoundDiv(base * (100 + Bonus), 100)
    ELSE base + RoundDiv(base * Bonus * (total - rank), 100 * (total - 1))

(* Mutant of Score: a late submission gets the bonus of an earlier result. *)
BonusAnyTime(s) ==
    LET own == Submission(s) IN
    IF Ranked(s) /\ own.status = "success"
    THEN leaderboardScore(own.score, Rank(s), Cardinality(Entries))
    ELSE own.score

Score(s) ==
    LET own == Submission(s) IN
    IF Ranked(s) /\ own.status = "success" /\ own.at <= Deadline
    THEN leaderboardScore(own.score, Rank(s), Cardinality(Entries))
    ELSE own.score

-----------------------------------------------------------------------------
BlankRow == [state |-> "opened", ci |-> "none", ciAt |-> 0, mergeable |-> TRUE,
             noted |-> FALSE, thread |-> FALSE, diff |-> "clean"]

ScanIdle ==
    /\ rows = [m \in Requests |-> BlankRow] /\ bans = {}
    /\ next = 1 /\ best = 0 /\ reviewed = FALSE /\ scanning = FALSE

BoardInit ==
    /\ kind \in Kinds
    /\ clock = Since[kind]
    /\ pipes = [t \in Times |-> NoPipe]
    /\ flags = [t \in Times |-> NoStudent]
    /\ table = [m \in Requests |-> NoRow]
    /\ banned = {}
    /\ ScanIdle

Running == [owner |-> NoStudent, status |-> "running", metric |-> 0]

(* A push: its pipeline is stored, with the task it names.                 *)
Push(s) ==
    /\ s \in Pushing[kind] /\ clock < MaxTime
    /\ clock' = clock + 1
    /\ pipes' = [pipes EXCEPT ![clock'] = [Running EXCEPT !.owner = s]]
    /\ UNCHANGED <<kind, flags, table, banned, scanVars>>

(* Mutant of AddPipeline: GitLab's status is stored as it came.            *)
AddPipelineRaw(t) ==
    /\ pipes[t] # NoPipe
    /\ \E status \in {"running", "success", "failed", "canceled"} :
         pipes' = [pipes EXCEPT ![t].status = status]
    /\ UNCHANGED <<kind, clock, flags, table, banned, scanVars>>

(* The fetchers store a status of the pipeline, over whatever was stored:  *)
(* it ended, its jobs were retried, or the answer is an old one.           *)
AddPipeline(t) ==
    /\ pipes[t] # NoPipe
    /\ \E status \in {"running", "success", "failed"} \ {pipes[t].status} :
         pipes' = [pipes EXCEPT ![t].status = status]
    /\ UNCHANGED <<kind, clock, flags, table, banned, scanVars>>

(* A job reports its benchmark; a second report of the pipeline overwrites *)
(* the first.  Nothing is asked of the pipeline's status or of the way the *)
(* task is scored.                                                         *)
AddBenchmarkResult(t) ==
    /\ pipes[t] # NoPipe
    /\ \E metric \in 1..MaxMetric[kind] \ {pipes[t].metric} :
         pipes' = [pipes EXCEPT ![t].metric = metric]
    /\ UNCHANGED <<kind, clock, flags, table, banned, scanVars>>

(* A flag of any task, created when the crash is and submitted when the    *)
(* student gets to it.                                                     *)
CreateFlag ==
    /\ clock < MaxTime
    /\ clock' = clock + 1
    /\ UNCHANGED <<kind, pipes, flags, table, banned, scanVars>>

SubmitFlag(s, t) ==
    /\ t \in (Since[kind] + 1)..clock /\ pipes[t] = NoPipe /\ flags[t] = NoStudent
    /\ flags' = [flags EXCEPT ![t] = s]
    /\ UNCHANGED <<kind, clock, pipes, table, banned, scanVars>>

-----------------------------------------------------------------------------
(* The merge request workflow.                                             *)
InState(state) == {m \in Known : table[m].state = state}

(* GitLab has one open request per branch, and requests get rising ids.    *)
OpenRequest(m) ==
    /\ kind = "mergeRequests"
    /\ table[m] = NoRow /\ InState("opened") = {}
    /\ \A k \in Requests : k < m => k \in Known
    /\ table' = [table EXCEPT ![m] = BlankRow]
    /\ UNCHANGED <<kind, clock, pipes, flags, banned, scanVars>>

(* A sync stores the newest pipeline of the request and how it stands: the *)
(* first one, one of a later push, or a re-check of the merged head.       *)
UpsertMergeRequest(m) ==
    /\ m \in Known
    /\ \E t \in {u \in 1..clock : pipes[u].owner = Author /\ u >= table[m].ciAt},
          ci \in {"running", "success", "failed"} :
         /\ table[m].ci # ci \/ table[m].ciAt # t
         /\ table' = [table EXCEPT ![m].ci = ci, ![m].ciAt = t]
    /\ UNCHANGED <<kind, clock, pipes, flags, banned, scanVars>>

Review(m) ==
    /\ m \in Known /\ Cardinality({k \in Known \ {m} : table[k].noted}) < MaxReviewed
    /\ \E thread \in BOOLEAN :
         table' = [table EXCEPT ![m].noted = TRUE, ![m].thread = thread]
    /\ UNCHANGED <<kind, clock, pipes, flags, banned, scanVars>>

(* By the robot only when green, by a person at any time.                  *)
MergeRequest(m) ==
    /\ m \in InState("opened")
    /\ table' = [table EXCEPT ![m].state = "merged"]
    /\ UNCHANGED <<kind, clock, pipes, flags, banned, scanVars>>

CloseRequest(m) ==
    /\ m \in InState("opened")
    /\ table' = [table EXCEPT ![m].state = "closed"]
    /\ UNCHANGED <<kind, clock, pipes, flags, banned, scanVars>>

ReopenRequest(m) ==
    /\ m \in InState("closed") /\ InState("opened") = {}
    /\ table' = [table EXCEPT ![m].state = "opened"]
    /\ UNCHANGED <<kind, clock, pipes, flags, banned, scanVars>>

-----------------------------------------------------------------------------
(* Moderators name a pipeline; a flag has none.                            *)
BanSubmission(t) ==
    /\ pipes[t] # NoPipe /\ Cardinality(banned \ {t}) < MaxBanned
    /\ banned' = banned \cup {t}
    /\ UNCHANGED <<kind, clock, pipes, flags, table, scanVars>>

UnbanSubmission(t) ==
    /\ t \in banned
    /\ banned' = banned \ {t}
    /\ UNCHANGED <<kind, clock, pipes, flags, table, scanVars>>

RequestNext(m) ==
    \/ OpenRequest(m) \/ UpsertMergeRequest(m) \/ Review(m)
    \/ MergeRequest(m) \/ CloseRequest(m) \/ ReopenRequest(m)

History ==
    \/ \E s \in Students : Push(s)
    \/ \E t \in Times : AddPipeline(t) \/ AddBenchmarkResult(t)
    \/ CreateFlag
    \/ \E s \in Students, t \in Times : SubmitFlag(s, t)
    \/ \E m \in Requests : RequestNext(m)
    \/ \E t \in Times : BanSubmission(t) \/ UnbanSubmission(t)

(* A computation copies the table and the bans and runs its loop on the    *)
(* copies, so the history may as well wait for it.  The loop reads nothing *)
(* else, and every table and set of bans is met before any result.         *)
NothingReported ==
    \A t \in Times : /\ flags[t] = NoStudent /\ pipes[t].metric = 0
                     /\ pipes[t].status \in {"absent", "running"}

StartScan ==
    /\ Known = Requests /\ (ScanReported \/ NothingReported)
    /\ rows' = table /\ bans' = banned /\ scanning' = TRUE
    /\ UNCHANGED <<next, best, reviewed, kind, clock, pipes, flags, table, banned>>

ScanStep ==
    /\ Skip \/ Consider
    /\ UNCHANGED <<scanning, kind, clock, pipes, flags, table, banned>>

EndScan ==
    /\ next = MaxRequests + 1
    /\ rows' = [m \in Requests |-> BlankRow] /\ bans' = {}
    /\ next' = 1 /\ best' = 0 /\ reviewed' = FALSE /\ scanning' = FALSE
    /\ UNCHANGED <<kind, clock, pipes, flags, table, banned>>

BoardNext ==
    \/ ~scanning /\ (History \/ StartScan)
    \/ scanning /\ (ScanStep \/ EndScan)

BoardSpec == BoardInit /\ [][BoardNext]_boardVars

-----------------------------------------------------------------------------
BoardTypeOK ==
    /\ TypeOK
    /\ kind \in Kinds /\ clock \in 0..MaxTime /\ scanning \in BOOLEAN
    /\ pipes \in [Times -> [owner: Students \cup {NoStudent}, metric: Nat,
                            status: {"absent", "running", "success", "failed"}]]
    /\ flags \in [Times -> Students \cup {NoStudent}]
    /\ table \in [Requests -> Row \cup {NoRow}]
    /\ banned \subseteq 1..clock

OwnBan(s) == \E t \in banned' \ banned : pipes[t].owner = s

(* What scored the task is banned, or no longer the green run it was: a    *)
(* re-check of the request's head, or a re-run of the pipeline.  Flags are *)
(* never taken back.                                                       *)
Withdrawn(s) ==
    LET at == Submission(s).at IN
    /\ FlagsOf(s) = {}
    /\ \/ at \in banned' \ banned
       \/ /\ kind = "mergeRequests"
          /\ LET m == Representative IN table'[m].ciAt # at \/ table'[m].ci # "success"
       \/ kind = "pipelines" /\ pipes'[at].status # "success"

(* The student's first flag replaces what was submitted before it.         *)
LateFlag(s) ==
    /\ FlagsOf(s) = {}
    /\ \E t \in Times : flags'[t] = s /\ t > Submission(s).at

(* docs/merge-requests.md:22-25: a later merge never lowers a score.  What *)
(* the policy gives a student for a task falls only when the very          *)
(* submission that scores it is withdrawn, or a flag made after it takes   *)
(* its place: new submissions, requests, reviews, results, lifted bans,    *)
(* and re-runs, re-checks and bans of anything else never lower it, nor    *)
(* does anything other students do.                                        *)
OnlyWithdrawalLowers ==
    [][\A s \in Students :
         Submission(s).score > 0 /\ Submission(s)'.score < Submission(s).score
            => Withdrawn(s) \/ LateFlag(s)]_boardVars

(* A ban never raises the score of the student it is about, bonus and rank *)
(* included: nothing they have can be worth more because something else of *)
(* theirs was banned.                                                      *)
BanNeverRaises == [][\A s \in Students : OwnBan(s) => Score(s)' <= Score(s)]_boardVars

(* A task seen as done stays so until the submission that did it is        *)
(* re-checked, re-run or banned; a flag never undoes it.                   *)
DoneStaysDone ==
    [][\A s \in Students :
         Submission(s).status = "success" /\ Submission(s)'.status # "success"
            => Withdrawn(s)]_boardVars

(* Results change only the board of a student who may still be ranked:     *)
(* what is made after the deadline moves nobody else's score.              *)
LateWorkMovesNobody ==
    [][\A s \in Students : \A t \in Times :
         (pipes'[t] # pipes[t] /\ t > Deadline /\ pipes'[t].owner # s) =>
            Score(s)' = Score(s)]_boardVars

(* leaderboard.go:118-120: whatever is made by the deadline has the same,  *)
(* full score.                                                             *)
FullUntilDeadline ==
    \A t, u \in Times : (t <= Deadline /\ u <= Deadline) => Points[t] = Points[u]

(* The places follow the results.  Who did the task in time and ranks gets *)
(* no less than who did it in time and ranks lower or not at all, and no   *)
(* less than who did it late or not at all, whatever the place: a result   *)
(* in time does not carry its bonus over to a late submission.  A place    *)
(* takes nothing away; and where pipelines score the task, having one      *)
(* means having done the task in time.                                     *)
CountsInTime(s) == Submission(s).status = "success" /\ Submission(s).at <= Deadline

Ahead(s, q) ==
    /\ CountsInTime(s)
    /\ ~CountsInTime(q) \/ (Ranked(s) /\ (Ranked(q) => Rank(s) < Rank(q)))

HigherRankNeverScoresLess ==
    \A s \in Students :
        /\ Score(s) >= Submission(s).score
        /\ (kind = "pipelines" /\ FlagsOf(s) = {} /\ Ranked(s)) => CountsInTime(s)
        /\ \A q \in Students : Ahead(s, q) => Score(s) >= Score(q)

=============================================================================
