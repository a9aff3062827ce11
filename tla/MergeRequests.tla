--------------------------- MODULE MergeRequests ---------------------------
(***************************************************************************)
(* The merge request robot (src/internal/gitlab/merge_requests.go) on one  *)
(* submits/<task> branch.  An iteration first copies GitLab into the       *)
(* database with four API calls per request - list, notes, changes,        *)
(* pipelines - and then opens or merges a request from what the database   *)
(* says.  Students, reviewers and CI run in between.                       *)
(*                                                                         *)
(* GitLab is external.  Its branch only moves forward to new commits.      *)
(***************************************************************************)
EXTENDS Integers, FiniteSets

CONSTANTS
    MaxPushes, MaxRequests,  \* bounds: commits on the branch, requests for it
    MaxThreads,    \* bound: review threads opened
    Contents,      \* what a commit may touch
    ReviewTtl,     \* gitlab.mergeRequests.reviewTtl, 0: never merge
    PromptCI       \* does GitLab create the pipeline together with the push?

ASSUME RobotAssumption ==
    /\ MaxPushes \in Nat /\ MaxRequests \in Nat /\ MaxThreads \in Nat
    /\ Contents \subseteq {"clean", "extra", "conflict"} /\ "clean" \in Contents
    /\ ReviewTtl \in Nat /\ PromptCI \in BOOLEAN

VARIABLES
    head,      \* the branch's newest commit, 0: no branch yet
    content,   \* what each commit touches
    requests,  \* merge requests in GitLab, by id
    threads,   \* review threads opened so far
    rows,      \* merge_requests table, by id
    robot,     \* the robot's iteration: what it has read so far
    \* history, read by the properties only
    greens,    \* commits a pipeline passed on
    standing   \* what has been in the way since the iteration began

gitlabVars == <<head, content, requests, threads, greens>>
vars == <<head, content, requests, threads, rows, robot, greens, standing>>

-----------------------------------------------------------------------------
Requests == 1..MaxRequests
Commits  == 1..MaxPushes
State    == {"opened", "merged", "closed"}
CIStatus == {"none", "running", "success", "failed"}
Diff     == Contents \cup {"empty"}

(* Time is kept as the age of each timestamp, in ticks.  Only "older than  *)
(* ReviewTtl" matters (Before(reviewDeadline)), so an age stops counting   *)
(* there; a note time that was never set is as old as can be.              *)
Old == ReviewTtl
Age == 0..Old
Older(age) == IF age = Old THEN Old ELSE age + 1

NoRequest == [state |-> "absent", sha |-> 0, thread |-> FALSE, noteAge |-> Old,
              ci |-> "none", ciAge |-> 0, tested |-> FALSE]
NoRow == [state |-> "absent", sha |-> 0, mergeable |-> FALSE, thread |-> FALSE,
          noteAge |-> Old, green |-> FALSE, ciAge |-> 0, diff |-> "empty"]

MaxOf(S) == CHOOSE x \in S : \A y \in S : y <= x

Existing == {m \in Requests : requests[m].state # "absent"}
Opened   == {m \in Requests : requests[m].state = "opened"}
Merged   == {m \in Requests : requests[m].state = "merged"}

(* The commit a request stands for: the head while it is open.             *)
Sha(m) == IF m \in Opened THEN head ELSE requests[m].sha
InMain(c) == \E m \in Merged : c <= requests[m].sha
DiffOf(m) == IF m \in Opened /\ InMain(head) THEN "empty" ELSE content[Sha(m)]

(* What keeps the robot from merging, in GitLab's present state.           *)
Obstacles(reqs) ==
    {<<"thread", m>> : m \in {x \in Requests : reqs[x].thread}}
      \cup {<<"ci", m>> : m \in {x \in Requests : reqs[x].state = "opened"
                                                  /\ reqs[x].ci # "success"}}

NotListed == [state |-> "absent", sha |-> 0, mergeable |-> FALSE]
Idle == [pc |-> "idle", list |-> [m \in Requests |-> NotListed], left |-> {},
         thread |-> FALSE, noteAge |-> Old, diff |-> "empty", head |-> 0, ready |-> FALSE]

Init ==
    /\ head = 0
    /\ content = [c \in Commits |-> "clean"]
    /\ requests = [m \in Requests |-> NoRequest]
    /\ rows = [m \in Requests |-> NoRow]
    /\ robot = Idle
    /\ threads = 0 /\ greens = {}
    /\ standing = {}

-----------------------------------------------------------------------------
(* People and CI.                                                          *)

(* Every step of GitLab's side ends in this: an obstacle that went away is *)
(* no longer standing.                                                     *)
SetRequests(reqs) ==
    /\ requests' = reqs
    /\ standing' = standing \cap Obstacles(reqs)

WithPipeline(request) ==
    [request EXCEPT !.ci = "running", !.ciAge = 0, !.tested = TRUE]

AgeAll(f, dated) ==
    [m \in Requests |-> [f[m] EXCEPT !.noteAge = Older(@),
                                     !.ciAge = IF m \in dated THEN Older(@) ELSE @]]

Tick ==
    /\ requests' = AgeAll(requests, {m \in Requests : requests[m].ci # "none"})
    /\ rows' = AgeAll(rows, {m \in Requests : rows[m].green})
    /\ robot' = [robot EXCEPT !.noteAge = Older(@)]
    /\ UNCHANGED <<head, content, threads, greens, standing>>

Push ==
    /\ head < MaxPushes
    /\ head' = head + 1
    /\ \E c \in Contents : content' = [content EXCEPT ![head + 1] = c]
    /\ SetRequests([m \in Requests |->
                      IF m \notin Opened THEN requests[m]
                      ELSE IF PromptCI THEN WithPipeline(requests[m])
                      ELSE [requests[m] EXCEPT !.tested = FALSE]])
    /\ UNCHANGED <<threads, greens, rows, robot>>

(* GitLab accepts one open request per source and target branch.           *)
CanOpen == head > 0 /\ Opened = {} /\ Existing # Requests
NewRequest ==
    LET m == Cardinality(Existing) + 1
        opened == [NoRequest EXCEPT !.state = "opened"]
    IN [requests EXCEPT ![m] = IF PromptCI THEN WithPipeline(opened) ELSE opened]

OpenByHand ==
    /\ CanOpen
    /\ SetRequests(NewRequest)
    /\ UNCHANGED <<head, content, threads, greens, rows, robot>>

(* The second guard leaves the robot an id to replace a closed request.    *)
CloseRequest(m) ==
    /\ m \in Opened /\ Existing # Requests
    /\ SetRequests([requests EXCEPT ![m].state = "closed", ![m].sha = head])
    /\ UNCHANGED <<head, content, threads, greens, rows, robot>>

ReopenRequest(m) ==
    /\ requests[m].state = "closed" /\ Opened = {}
    /\ LET reopened == [requests[m] EXCEPT !.state = "opened"] IN
         SetRequests([requests EXCEPT ![m] =
             IF requests[m].sha = head THEN reopened
             ELSE IF PromptCI THEN WithPipeline(reopened)
             ELSE [reopened EXCEPT !.tested = FALSE]])
    /\ UNCHANGED <<head, content, threads, greens, rows, robot>>

(* The CI of a merged request is left to MergeCredit: the robot ignores it. *)
MergedHead(m) ==
    [requests EXCEPT ![m] = [NoRequest EXCEPT !.state = "merged", !.sha = head,
                                              !.thread = requests[m].thread,
                                              !.noteAge = requests[m].noteAge]]

MergeByHand(m) ==
    /\ m \in Opened /\ content[head] # "conflict"
    /\ SetRequests(MergedHead(m))
    /\ UNCHANGED <<head, content, threads, greens, rows, robot>>

OpenThread(m) ==
    /\ m \in Opened /\ threads < MaxThreads
    /\ threads' = threads + 1
    /\ SetRequests([requests EXCEPT ![m].thread = TRUE, ![m].noteAge = 0])
    /\ UNCHANGED <<head, content, greens, rows, robot>>

ResolveThread(m) ==
    /\ requests[m].thread
    /\ SetRequests([requests EXCEPT ![m].thread = FALSE])
    /\ UNCHANGED <<head, content, threads, greens, rows, robot>>

(* CI picks up a push to an open request, or somebody runs a pipeline on   *)
(* the same commit again (the re-check of a merged head matters to the     *)
(* scorer only).                                                           *)
CreatePipeline(m) ==
    /\ m \in Opened /\ ~requests[m].tested
    /\ SetRequests([requests EXCEPT ![m] = WithPipeline(@)])
    /\ UNCHANGED <<head, content, threads, greens, rows, robot>>

RerunPipeline(m) ==
    /\ m \in Opened /\ requests[m].ci \in {"success", "failed"} /\ requests[m].tested
    /\ SetRequests([requests EXCEPT ![m] = WithPipeline(@)])
    /\ UNCHANGED <<head, content, threads, greens, rows, robot>>

FinishPipeline(m) ==
    /\ requests[m].ci = "running"
    /\ \E result \in {"success", "failed"} :
         /\ SetRequests([requests EXCEPT ![m].ci = result])
         /\ greens' = IF result = "success" /\ requests[m].tested
                      THEN greens \cup {Sha(m)} ELSE greens
    /\ UNCHANGED <<head, content, threads, rows, robot>>

CINext == \E m \in Requests : CreatePipeline(m) \/ FinishPipeline(m)

People ==
    \/ Push \/ OpenByHand
    \/ \E m \in Requests : \/ CloseRequest(m) \/ ReopenRequest(m) \/ MergeByHand(m)
                           \/ OpenThread(m) \/ ResolveThread(m) \/ RerunPipeline(m)

-----------------------------------------------------------------------------
(* syncProject: GitLab to database.                                        *)

SyncList ==
    /\ robot.pc = "idle" /\ head > 0
    /\ robot' = [Idle EXCEPT !.pc = "notes", !.left = Existing,
                             !.list = [m \in Requests |->
                                 [state |-> requests[m].state,
                                  sha |-> IF m \in Existing THEN Sha(m) ELSE 0,
                                  mergeable |-> m \in Existing /\ content[Sha(m)] # "conflict"]]]
    /\ standing' = Obstacles(requests)
    /\ UNCHANGED <<gitlabVars, rows>>

(* GitLab lists the requests newest first.                                 *)
IsCurrent(m) == m \in robot.left /\ \A k \in robot.left : k <= m

SyncNotes(m) ==
    /\ robot.pc = "notes" /\ IsCurrent(m)
    /\ robot' = [robot EXCEPT !.pc = "changes", !.thread = requests[m].thread,
                              !.noteAge = requests[m].noteAge]
    /\ UNCHANGED <<gitlabVars, rows, standing>>

SyncChanges(m) ==
    /\ robot.pc = "changes" /\ IsCurrent(m)
    /\ robot' = [robot EXCEPT !.pc = "pipeline", !.diff = DiffOf(m)]
    /\ UNCHANGED <<gitlabVars, rows, standing>>

(* Mutant of RowOf: state is not among the columns the upsert updates.     *)
RowKeepingState(m) ==
    LET listed == robot.list[m] IN
    [NoRow EXCEPT !.state = IF rows[m] = NoRow THEN listed.state ELSE rows[m].state,
                  !.sha = listed.sha, !.thread = robot.thread,
                  !.noteAge = robot.noteAge, !.mergeable = listed.mergeable,
                  !.diff = robot.diff, !.green = requests[m].ci = "success",
                  !.ciAge = requests[m].ciAge]

(* Mutant of RowOf: the changes are never inspected.                       *)
RowWithoutDiff(m) ==
    [NoRow EXCEPT !.state = robot.list[m].state, !.sha = robot.list[m].sha,
                  !.mergeable = robot.list[m].mergeable, !.diff = "none"]

(* The last read and the upsert: nobody else touches the row in between.   *)
(* Of a request that is not open the robot uses the state, the commit and  *)
(* the review notes.                                                       *)
RowOf(m) ==
    LET listed == robot.list[m]
        seen == [NoRow EXCEPT !.state = listed.state, !.sha = listed.sha,
                              !.thread = robot.thread, !.noteAge = robot.noteAge]
        green == requests[m].ci = "success"
    IN IF listed.state # "opened" THEN seen
       ELSE [seen EXCEPT !.mergeable = listed.mergeable, !.diff = robot.diff,
                         !.green = green,
                         !.ciAge = IF green THEN requests[m].ciAge ELSE 0]

SyncStore(m) ==
    /\ robot.pc = "pipeline" /\ IsCurrent(m)
    /\ rows' = [rows EXCEPT ![m] = RowOf(m)]
    /\ robot' = [robot EXCEPT !.pc = "notes", !.left = @ \ {m}, !.list[m] = NotListed,
                              !.thread = FALSE, !.noteAge = Old, !.diff = "empty"]
    /\ UNCHANGED <<gitlabVars, standing>>

(* Mutant of SyncFails: the update runs although the sync failed.          *)
SyncFailsSilently ==
    /\ robot.pc \in {"notes", "changes", "pipeline"}
    /\ robot' = [Idle EXCEPT !.pc = "notes"]
    /\ UNCHANGED standing
    /\ UNCHANGED <<gitlabVars, rows>>

(* A failed call ends the iteration: no update without a complete sync.    *)
SyncFails ==
    /\ robot.pc \in {"notes", "changes", "pipeline"}
    /\ robot' = Idle
    /\ standing' = {}
    /\ UNCHANGED <<gitlabVars, rows>>

-----------------------------------------------------------------------------
(* updateProject: database to GitLab.                                      *)

(* loadBranchMergeRequests: the newest request of either state, and the    *)
(* review notes of all of them.                                            *)
RowsIn(state) == {m \in Requests : rows[m].state = state}
OpenRow   == MaxOf(RowsIn("opened"))
MergedRow == MaxOf(RowsIn("merged"))

NeedsMergeRequest ==
    RowsIn("merged") # {} => robot.head # rows[MergedRow].sha

ReadyToMerge ==
    LET open == rows[OpenRow] IN
    /\ open.mergeable
    /\ \A m \in Requests : ~rows[m].thread /\ rows[m].noteAge = Old
    /\ open.diff \notin {"extra", "empty"}
    /\ open.green /\ open.ciAge = Old

(* The review deadline is taken and the branches are listed once, at the   *)
(* start of the update.                                                    *)
UpdateStart ==
    /\ robot.pc = "notes" /\ robot.left = {}
    /\ robot' = [Idle EXCEPT !.pc = "update", !.head = head,
                             !.ready = RowsIn("opened") # {} /\ ReviewTtl # 0 /\ ReadyToMerge]
    /\ UNCHANGED <<gitlabVars, rows, standing>>

(* Mutant of AcceptMergeRequest: without the SHA.                          *)
AcceptAnyHead(m, sha) ==
    IF m \in Opened /\ content[head] # "conflict" THEN MergedHead(m) ELSE requests

(* GitLab refuses a request that is not open, does not merge, or whose     *)
(* branch has moved past the given commit.                                 *)
AcceptMergeRequest(m, sha) ==
    IF m \in Opened /\ content[head] # "conflict" /\ head = sha
    THEN MergedHead(m) ELSE requests

CreateMergeRequest == IF CanOpen THEN NewRequest ELSE requests

UpdateBranch ==
    /\ robot.pc = "update"
    /\ requests' = IF RowsIn("opened") = {}
                   THEN IF NeedsMergeRequest THEN CreateMergeRequest ELSE requests
                   ELSE IF robot.ready
                        THEN AcceptMergeRequest(OpenRow, rows[OpenRow].sha) ELSE requests
    /\ robot' = Idle
    /\ standing' = {}
    /\ UNCHANGED <<head, content, threads, greens, rows>>

(* The call fails on its way, or the process dies and restarts.            *)
RobotStops ==
    /\ robot.pc # "idle"
    /\ robot' = Idle
    /\ standing' = {}
    /\ UNCHANGED <<gitlabVars, rows>>

RobotNext ==
    \/ SyncList \/ SyncFails
    \/ \E m \in Requests : SyncNotes(m) \/ SyncChanges(m) \/ SyncStore(m)
    \/ UpdateStart \/ UpdateBranch \/ RobotStops

Next == Tick \/ People \/ CINext \/ RobotNext

(* Time passes, CI finishes, the ticker of the robot keeps firing; people  *)
(* do what they like.                                                      *)
Fairness == WF_vars(Tick) /\ WF_vars(CINext) /\ WF_vars(RobotNext)

Spec == Init /\ [][Next]_vars
FairSpec == Spec /\ Fairness

-----------------------------------------------------------------------------
TypeOK ==
    /\ head \in 0..MaxPushes /\ threads \in 0..MaxThreads
    /\ content \in [Commits -> Contents] /\ greens \subseteq Commits
    /\ requests \in [Requests -> [state: State \cup {"absent"}, sha: 0..MaxPushes,
                       thread: BOOLEAN, noteAge: Age, ci: CIStatus, ciAge: Age,
                       tested: BOOLEAN]]
    /\ rows \in [Requests -> [state: State \cup {"absent"}, sha: 0..MaxPushes,
                   mergeable: BOOLEAN, thread: BOOLEAN, noteAge: Age,
                   green: BOOLEAN, ciAge: Age, diff: Diff]]
    /\ robot \in [pc: {"idle", "notes", "changes", "pipeline", "update"},
                  list: [Requests -> [state: State \cup {"absent"}, sha: 0..MaxPushes,
                                      mergeable: BOOLEAN]],
                  left: SUBSET Requests, thread: BOOLEAN, noteAge: Age, diff: Diff,
                  head: 0..MaxPushes, ready: BOOLEAN]

Updates == robot.pc = "update" /\ robot'.pc = "idle"
RobotMerges(m) == Updates /\ m \in Opened /\ requests'[m].state = "merged"

(* What the robot merges touches only the task's own files, although the   *)
(* list and the changes are read at different times and the branch may     *)
(* move between and after the reads (AcceptMergeRequestOptions.SHA).       *)
RobotMergesClean ==
    [][\A m \in Requests : RobotMerges(m) => content[head] = "clean"]_vars

(* A review thread left open, or a pipeline that is not green, since       *)
(* before the iteration began keeps the robot from merging, whatever       *)
(* failed or crashed on the way; the threads of every request of the task  *)
(* count, and the pipeline of the open one.                                *)
StandingObstacleBlocks ==
    [][\A m \in Requests : RobotMerges(m) =>
          \A o \in standing : o[1] # "thread" /\ o # <<"ci", m>>]_vars

(* The commit the robot merges is one a pipeline passed on.  It holds when *)
(* GitLab creates the pipeline together with the push.  When the pipeline  *)
(* comes later, the newest pipeline of the request may be that of the      *)
(* commit before, against merge_requests.go:374-377: "the pipeline is      *)
(* green, ... anything unknown blocks the merge until the next sync".      *)
RobotMergesTested ==
    [][\A m \in Requests : RobotMerges(m) => head \in greens]_vars

(* A clean head with no thread open anywhere and a green pipeline ends up  *)
(* merged once people stop and calls succeed: the robot opens the request  *)
(* that is missing and merges it after the review period.                  *)
Mergeable ==
    /\ head > 0 /\ content[head] = "clean"
    /\ \A m \in Requests : ~requests[m].thread
    /\ \A m \in Opened : requests[m].ci # "failed"
CallFails == SyncFails \/ (RobotStops /\ ~UpdateBranch)
QuietHeadIsMerged ==
    (<>[]Mergeable /\ <>[][~People /\ ~CallFails]_vars) => <>(head > 0 /\ InMain(head))

=============================================================================
