---------------------------- MODULE PipelineSync ----------------------------
(***************************************************************************)
(* How the status of a CI pipeline travels from GitLab to the database.    *)
(* Three goroutines write the same `pipelines' table, each with a GitLab   *)
(* read and a later database write:                                        *)
(*   poll - PipelinesFetcher.RunFresh, the pipelines graders reported      *)
(*   scan - PipelinesFetcher.Run, every pipeline of every project          *)
(*   sync - MergeRequestsFetcher, the newest pipeline of a merge request   *)
(* (src/internal/gitlab/pipelines.go, merge_requests.go).  HTTP handlers   *)
(* (src/internal/web/api.go, report) feed the in-memory set of the poll.   *)
(*                                                                         *)
(* One project, one task, one merge request; GitLab is external.           *)
(***************************************************************************)
EXTENDS Integers, FiniteSets

CONSTANTS
    Pipelines,    \* pipeline ids, in creation order
    MRPipelines,  \* those that run on refs/merge-requests/<iid>/head
    Reports,      \* grader reports; each AddFresh call allocates a key of its own
    MetricReports,  \* those of a successful benchmark, which carry a metric
    FullScan,     \* is pullIntervals.pipelines configured?
    PageSize,     \* pipelines per page of GitLab's answer
    MaxReruns,    \* bound: pipelines re-run
    MaxFaults,    \* bound: crashes and failed API or database calls
    NoPipeline, NoReport

ASSUME PipelineAssumption ==
    /\ Pipelines \subseteq Nat \ {0}
    /\ \A S \in SUBSET Pipelines : S # {} => \E p \in S : \A q \in S : q <= p
    /\ MRPipelines \subseteq Pipelines
    /\ MetricReports \subseteq Reports
    /\ FullScan \in BOOLEAN
    /\ PageSize \in Nat \ {0}
    /\ MaxReruns \in Nat /\ MaxFaults \in Nat
    /\ NoPipeline \notin Pipelines /\ NoReport \notin Reports

VARIABLES
    \* GitLab
    ci,       \* status of each pipeline
    opened,   \* does the merge request exist in GitLab?
    reruns,
    \* database
    rows,     \* pipelines table: a row per known pipeline
    mr,       \* the row of the merge request
    metrics,  \* benchmark_results table: pipelines with a stored metric
    \* the server's memory
    report,   \* the handler of each grader report
    fresh,    \* PipelinesFetcher.fresh
    poll, scan, sync,   \* what each goroutine has read and not yet written
    faults,
    \* history, read by the properties only
    seen,     \* the statuses each pipeline has had in GitLab
    answered  \* reports whose pipeline was read after them and stored

gitlabVars == <<ci, opened, reruns, seen>>
dbVars == <<rows, mr, metrics>>
vars == <<ci, opened, reruns, rows, mr, metrics, report, fresh,
          poll, scan, sync, faults, seen, answered>>

-----------------------------------------------------------------------------
(* "failed" stands for every final status other than success.              *)
CIStatus == {"absent", "pending", "running", "success", "failed"}
Status   == CIStatus \ {"absent"}
Final    == {"success", "failed"}

(* What a row's task column names: the task, or the raw merge request ref. *)
TaskName == {"task", "raw"}

NoRow == [status |-> "absent", task |-> "raw"]
Row   == [status: Status, task: TaskName]
MRRow == [synced: BOOLEAN, pipeline: Pipelines \cup {NoPipeline}, status: CIStatus]
Stage == {"idle", "stored", "added", "lost"}

Exists(p) == ci[p] # "absent"

(* Mutant of LatestMRPipeline: the wrong end of the list.                  *)
OldestMRPipeline ==
    LET known == {p \in MRPipelines : Exists(p)} IN
    IF known = {} THEN NoPipeline
    ELSE CHOOSE p \in known : \A q \in known : p <= q

(* GitLab lists the pipelines of a merge request newest first.             *)
LatestMRPipeline ==
    LET known == {p \in MRPipelines : Exists(p)} IN
    IF known = {} THEN NoPipeline
    ELSE CHOOSE p \in known : \A q \in known : q <= p

(* Mutant of TaskOfRef: an unknown ref gives no task at all.               *)
TaskOfRefOrNone(p) == IF p \in MRPipelines /\ ~mr.synced THEN "" ELSE "task"

(* taskOfRef: a merge request pipeline gets its task from the synced       *)
(* request only.                                                           *)
TaskOfRef(p) == IF p \in MRPipelines /\ ~mr.synced THEN "raw" ELSE "task"

(* Mutant of AddPipeline: insert, or do nothing on conflict.               *)
AddPipelineOnce(p, status, task) ==
    rows' = IF rows[p].status # "absent" THEN rows
            ELSE [rows EXCEPT ![p] = [status |-> status, task |-> task]]

(* AddPipeline: an upsert that overwrites status and task.                 *)
AddPipeline(p, status, task) ==
    rows' = [rows EXCEPT ![p] = [status |-> status, task |-> task]]

Fault == faults < MaxFaults /\ faults' = faults + 1

PollIdle == [pc |-> "idle", due |-> {}, visited |-> {}, removed |-> {},
             key |-> NoReport, status |-> "absent", task |-> "raw", covers |-> {}]
ScanIdle == [pc |-> "idle", left |-> {}, page |-> [p \in Pipelines |-> "absent"],
             pipeline |-> NoPipeline, task |-> "raw"]
SyncIdle == [pc |-> "idle", pipeline |-> NoPipeline, status |-> "absent"]

Init ==
    /\ ci = [p \in Pipelines |-> "absent"]
    /\ opened = FALSE
    /\ reruns = 0
    /\ rows = [p \in Pipelines |-> NoRow]
    /\ mr = [synced |-> FALSE, pipeline |-> NoPipeline, status |-> "absent"]
    /\ metrics = {}
    /\ report = [r \in Reports |-> [stage |-> "idle", pipeline |-> NoPipeline]]
    /\ fresh = {}
    /\ poll = PollIdle /\ scan = ScanIdle /\ sync = SyncIdle
    /\ faults = 0
    /\ seen = [p \in Pipelines |-> {}]
    /\ answered = {}

-----------------------------------------------------------------------------
(* GitLab.                                                                 *)

SetCI(p, status) ==
    /\ ci' = [ci EXCEPT ![p] = status]
    /\ seen' = [seen EXCEPT ![p] = @ \cup {status}]
    /\ UNCHANGED <<rows, mr, metrics, report, fresh, poll, scan, sync, faults, answered>>

OpenMR ==
    /\ ~opened /\ MRPipelines # {}
    /\ opened' = TRUE
    /\ UNCHANGED <<ci, reruns, seen, dbVars, report, fresh, poll, scan, sync, faults, answered>>

CreatePipeline(p) ==
    /\ ~Exists(p)
    /\ \A q \in Pipelines : q < p => Exists(q)
    /\ p \in MRPipelines => opened
    /\ SetCI(p, "pending")
    /\ UNCHANGED <<opened, reruns>>

StartPipeline(p) ==
    /\ ci[p] = "pending"
    /\ SetCI(p, "running")
    /\ UNCHANGED <<opened, reruns>>

FinishPipeline(p) ==
    /\ ci[p] = "running"
    /\ \E status \in Final : SetCI(p, status)
    /\ UNCHANGED <<opened, reruns>>

RerunPipeline(p) ==
    /\ ci[p] \in Final /\ reruns < MaxReruns
    /\ reruns' = reruns + 1
    /\ SetCI(p, "pending")
    /\ UNCHANGED opened

-----------------------------------------------------------------------------
(* POST /api/report.  The grader runs inside the CI job, so the pipeline   *)
(* is running when the request is sent.  The handler stores the metric,    *)
(* if there is one, and then calls AddFresh: two steps.                    *)

ReportStore(r, p) ==
    /\ report[r].stage = "idle" /\ ci[p] = "running"
    /\ report' = [report EXCEPT ![r] = [stage |-> "stored", pipeline |-> p]]
    /\ metrics' = IF r \in MetricReports THEN metrics \cup {p} ELSE metrics
    /\ UNCHANGED <<gitlabVars, rows, mr, fresh, poll, scan, sync, faults, answered>>

AddFresh(r) ==
    /\ report[r].stage = "stored"
    /\ report' = [report EXCEPT ![r].stage = "added"]
    /\ fresh' = fresh \cup {r}
    /\ UNCHANGED <<gitlabVars, dbVars, poll, scan, sync, faults, answered>>

-----------------------------------------------------------------------------
(* RunFresh: one tick is a Range over the map, a fetch per key, and the    *)
(* deletes after the Range.                                                *)

PollStart ==
    /\ poll.pc = "idle" /\ fresh # {}
    /\ poll' = [PollIdle EXCEPT !.pc = "range", !.due = fresh]
    /\ UNCHANGED <<gitlabVars, dbVars, report, fresh, scan, sync, faults, answered>>

(* GetPipeline.  sync.Map.Range visits every key present from its start to *)
(* its end once, and may or may not visit a key stored meanwhile.          *)
PollRead(r) ==
    /\ poll.pc = "range" /\ r \in fresh \ poll.visited
    /\ LET p == report[r].pipeline IN
         poll' = [poll EXCEPT !.pc = "read", !.key = r, !.status = ci[p],
                              !.visited = @ \cup {r},
                              !.covers = {x \in fresh : report[x].pipeline = p}]
    /\ UNCHANGED <<gitlabVars, dbVars, report, fresh, scan, sync, faults, answered>>

PollReadFails(r) ==
    /\ poll.pc = "range" /\ r \in fresh \ poll.visited
    /\ Fault
    /\ poll' = [poll EXCEPT !.visited = @ \cup {r}]
    /\ UNCHANGED <<gitlabVars, dbVars, report, fresh, scan, sync, answered>>

PollResolve ==
    /\ poll.pc = "read"
    /\ poll' = [poll EXCEPT !.pc = "write", !.task = TaskOfRef(report[poll.key].pipeline)]
    /\ UNCHANGED <<gitlabVars, dbVars, report, fresh, scan, sync, faults, answered>>

(* What the poll keeps of a fetch it is done with.                         *)
PollNextKey(gone) ==
    [PollIdle EXCEPT !.pc = "range", !.due = poll.due, !.visited = poll.visited,
                     !.removed = poll.removed \cup gone]

(* addPipeline stored the answer; anything but "running" ends the polling. *)
PollWrite ==
    /\ poll.pc = "write"
    /\ AddPipeline(report[poll.key].pipeline, poll.status, poll.task)
    /\ IF poll.status # "running"
       THEN /\ poll' = PollNextKey({poll.key})
            /\ answered' = answered \cup poll.covers
       ELSE /\ poll' = PollNextKey({})
            /\ UNCHANGED answered
    /\ UNCHANGED <<gitlabVars, mr, metrics, report, fresh, scan, sync, faults>>

PollWriteFails ==
    /\ poll.pc = "write"
    /\ Fault
    /\ poll' = PollNextKey({})
    /\ UNCHANGED <<gitlabVars, dbVars, report, fresh, scan, sync, answered>>

(* A mutant of PollEnd: keys compared by value, not by pointer.            *)
PollEndByValue ==
    /\ poll.pc = "range" /\ poll.due \subseteq poll.visited
    /\ fresh' = {r \in fresh : \A x \in poll.removed :
                                  report[r].pipeline # report[x].pipeline}
    /\ poll' = PollIdle
    /\ UNCHANGED <<gitlabVars, dbVars, report, scan, sync, faults, answered>>

PollEnd ==
    /\ poll.pc = "range" /\ poll.due \subseteq poll.visited
    /\ fresh' = fresh \ poll.removed
    /\ poll' = PollIdle
    /\ UNCHANGED <<gitlabVars, dbVars, report, scan, sync, faults, answered>>

PollNext ==
    \/ PollStart \/ PollResolve \/ PollWrite \/ PollWriteFails \/ PollEnd
    \/ \E r \in Reports : PollRead(r) \/ PollReadFails(r)

-----------------------------------------------------------------------------
(* Run: a tick lists the pipelines page by page, newest first, and writes  *)
(* a page before it asks for the next.                                     *)

ScanStart ==
    /\ FullScan /\ scan.pc = "idle"
    /\ scan' = [ScanIdle EXCEPT !.pc = "list", !.left = Pipelines]
    /\ UNCHANGED <<gitlabVars, dbVars, report, fresh, poll, sync, faults, answered>>

NewestOf(S) == {p \in S : Cardinality({q \in S : q > p}) < PageSize}

ScanList ==
    /\ scan.pc = "list"
    /\ LET page == NewestOf({p \in scan.left : Exists(p)}) IN
         scan' = [scan EXCEPT !.pc = "page",
                              !.left = {p \in @ : \A q \in page : p < q},
                              !.page = [p \in Pipelines |->
                                          IF p \in page THEN ci[p] ELSE "absent"]]
    /\ UNCHANGED <<gitlabVars, dbVars, report, fresh, poll, sync, faults, answered>>

ScanListFails ==
    /\ scan.pc = "list"
    /\ Fault
    /\ scan' = ScanIdle
    /\ UNCHANGED <<gitlabVars, dbVars, report, fresh, poll, sync, answered>>

Listed == {p \in Pipelines : scan.page[p] # "absent"}

ScanResolve(p) ==
    /\ scan.pc = "page" /\ p \in Listed /\ \A q \in Listed : q <= p
    /\ scan' = [scan EXCEPT !.pc = "write", !.pipeline = p, !.task = TaskOfRef(p)]
    /\ UNCHANGED <<gitlabVars, dbVars, report, fresh, poll, sync, faults, answered>>

ScanNextPipeline ==
    [scan EXCEPT !.pc = "page", !.page[scan.pipeline] = "absent",
                 !.pipeline = NoPipeline, !.task = "raw"]

ScanWrite ==
    /\ scan.pc = "write"
    /\ AddPipeline(scan.pipeline, scan.page[scan.pipeline], scan.task)
    /\ scan' = ScanNextPipeline
    /\ UNCHANGED <<gitlabVars, mr, metrics, report, fresh, poll, sync, faults, answered>>

(* A failed write is logged and the loop goes on.                          *)
ScanWriteFails ==
    /\ scan.pc = "write"
    /\ Fault
    /\ scan' = ScanNextPipeline
    /\ UNCHANGED <<gitlabVars, dbVars, report, fresh, poll, sync, answered>>

ScanPageDone ==
    /\ scan.pc = "page" /\ Listed = {}
    /\ scan' = IF \E p \in scan.left : Exists(p)
               THEN [scan EXCEPT !.pc = "list"] ELSE ScanIdle
    /\ UNCHANGED <<gitlabVars, dbVars, report, fresh, poll, sync, faults, answered>>

ScanNext ==
    \/ ScanStart \/ ScanList \/ ScanListFails \/ ScanWrite \/ ScanWriteFails
    \/ ScanPageDone
    \/ \E p \in Pipelines : ScanResolve(p)

-----------------------------------------------------------------------------
(* syncMergeRequest: getLatestPipeline, then AddPipeline with the task of  *)
(* the branch, then UpsertMergeRequest.                                    *)

(* Mutant of SyncRead: the pipeline is left to the pipelines fetcher.      *)
SyncReadOnly ==
    /\ sync.pc = "idle" /\ opened
    /\ LET p == LatestMRPipeline IN
         sync' = [pc |-> "request", pipeline |-> p,
                  status |-> IF p = NoPipeline THEN "absent" ELSE ci[p]]
    /\ UNCHANGED <<gitlabVars, dbVars, report, fresh, poll, scan, faults, answered>>

SyncRead ==
    /\ sync.pc = "idle" /\ opened
    /\ LET p == LatestMRPipeline IN
         sync' = IF p = NoPipeline
                 THEN [SyncIdle EXCEPT !.pc = "request"]
                 ELSE [pc |-> "pipeline", pipeline |-> p, status |-> ci[p]]
    /\ UNCHANGED <<gitlabVars, dbVars, report, fresh, poll, scan, faults, answered>>

SyncWritePipeline ==
    /\ sync.pc = "pipeline"
    /\ AddPipeline(sync.pipeline, sync.status, "task")
    /\ sync' = [sync EXCEPT !.pc = "request"]
    /\ UNCHANGED <<gitlabVars, mr, metrics, report, fresh, poll, scan, faults, answered>>

SyncWriteMR ==
    /\ sync.pc = "request"
    /\ mr' = [synced |-> TRUE, pipeline |-> sync.pipeline, status |-> sync.status]
    /\ sync' = SyncIdle
    /\ UNCHANGED <<gitlabVars, rows, metrics, report, fresh, poll, scan, faults, answered>>

(* A failed write ends the sync of the project until the next iteration.   *)
SyncFails ==
    /\ sync.pc # "idle"
    /\ Fault
    /\ sync' = SyncIdle
    /\ UNCHANGED <<gitlabVars, dbVars, report, fresh, poll, scan, answered>>

SyncNext == SyncRead \/ SyncWritePipeline \/ SyncWriteMR \/ SyncFails

-----------------------------------------------------------------------------
(* The process dies and restarts: the database stays, the memory does not. *)
Crash ==
    /\ Fault
    /\ report' = [r \in Reports |->
                    IF report[r].stage \in {"stored", "added"}
                    THEN [report[r] EXCEPT !.stage = "lost"] ELSE report[r]]
    /\ fresh' = {}
    /\ poll' = PollIdle /\ scan' = ScanIdle /\ sync' = SyncIdle
    /\ UNCHANGED <<gitlabVars, dbVars, answered>>

CINext == \E p \in Pipelines : StartPipeline(p) \/ FinishPipeline(p)

Next ==
    \/ OpenMR
    \/ \E p \in Pipelines : CreatePipeline(p) \/ RerunPipeline(p)
    \/ CINext
    \/ \E r \in Reports, p \in Pipelines : ReportStore(r, p)
    \/ \E r \in Reports : AddFresh(r)
    \/ PollNext \/ ScanNext \/ SyncNext
    \/ Crash

(* Runners finish their jobs, a handler that started runs on, and the      *)
(* tickers of the goroutines keep firing.  Students, graders, re-runs,     *)
(* faults and crashes are under no obligation.                             *)
Fairness ==
    /\ WF_vars(CINext)
    /\ WF_vars(\E r \in Reports : AddFresh(r))
    /\ WF_vars(PollNext)
    /\ WF_vars(ScanNext)
    /\ WF_vars(SyncNext)

Spec == Init /\ [][Next]_vars
FairSpec == Spec /\ Fairness

-----------------------------------------------------------------------------
ReportRecord == [stage: Stage, pipeline: Pipelines \cup {NoPipeline}]
PollRecord == [pc: {"idle", "range", "read", "write"}, due: SUBSET Reports,
               visited: SUBSET Reports, removed: SUBSET Reports,
               key: Reports \cup {NoReport}, status: CIStatus, task: TaskName,
               covers: SUBSET Reports]
ScanRecord == [pc: {"idle", "list", "page", "write"}, left: SUBSET Pipelines,
               page: [Pipelines -> CIStatus], pipeline: Pipelines \cup {NoPipeline},
               task: TaskName]
SyncRecord == [pc: {"idle", "pipeline", "request"},
               pipeline: Pipelines \cup {NoPipeline}, status: CIStatus]

TypeOK ==
    /\ ci \in [Pipelines -> CIStatus] /\ opened \in BOOLEAN /\ reruns \in 0..MaxReruns
    /\ rows \in [Pipelines -> Row \cup {NoRow}]
    /\ mr \in MRRow
    /\ metrics \subseteq Pipelines
    /\ report \in [Reports -> ReportRecord]
    /\ \A r \in Reports : report[r].stage # "idle" => report[r].pipeline \in Pipelines
    /\ fresh \subseteq Reports
    /\ poll \in PollRecord /\ scan \in ScanRecord /\ sync \in SyncRecord
    /\ faults \in 0..MaxFaults
    /\ seen \in [Pipelines -> SUBSET Status] /\ answered \subseteq Reports

(* A report the server still remembers leaves the fresh set only after     *)
(* GitLab was asked about its pipeline after the report came, and the      *)
(* answer was stored (AddFresh, fetchFreshPipelines).                      *)
NoReportDropped ==
    \A r \in Reports : report[r].stage = "added" => r \in fresh \cup answered

(* The database is a lagging mirror of GitLab: overlapping writers, failed *)
(* calls and crashes between AddPipeline and UpsertMergeRequest never make *)
(* it show a status GitLab did not have, or a request whose pipeline has   *)
(* no row.                                                                 *)
Mirror == INSTANCE PipelineMirror WITH ci <- ci, seen <- seen, rows <- rows, mr <- mr
ImplementsMirror == Mirror!Spec

(* What a leaderboard counts (ListGroupBenchmarks): a stored metric whose  *)
(* pipeline succeeded on the task of the report.                           *)
Counted(p) == p \in metrics /\ rows[p] = [status |-> "success", task |-> "task"]

(* With the full scan configured, the table ends up equal to GitLab's      *)
(* however stale the writes in flight were.                                *)
Agrees(p) == Exists(p) => rows[p] = [status |-> ci[p], task |-> "task"]
TableConverges == <>[](\A p \in Pipelines : Agrees(p) \/ (p \in MRPipelines /\ ~mr.synced))

(* Without it, the newest pipeline of the merge request and the request's  *)
(* row still do: the request sync reads them again on every iteration.     *)
LatestAgrees ==
    \A p \in MRPipelines :
        (Exists(p) /\ \A q \in MRPipelines : Exists(q) => q <= p) =>
            Agrees(p) /\ mr = [synced |-> TRUE, pipeline |-> p, status |-> ci[p]]
RequestConverges == <>[]LatestAgrees

(* What a goroutine has read of a pipeline and is still to write is what   *)
(* GitLab says of it now.                                                  *)
PollAgrees(p) ==
    (poll.pc \in {"read", "write"} /\ report[poll.key].pipeline = p) =>
        poll.status = ci[p] /\ (poll.pc = "write" => poll.task = "task")
ScanAgrees(p) ==
    /\ scan.page[p] \in {"absent", ci[p]}
    /\ (scan.pc = "write" /\ scan.pipeline = p) => scan.task = "task"
SyncAgrees(p) == (sync.pc = "pipeline" /\ sync.pipeline = p) => sync.status = ci[p]

(* The table is right about a pipeline, and nobody is about to differ; and *)
(* the same of the merge request's row.                                    *)
Undisputed(p) ==
    /\ Exists(p) /\ Agrees(p) /\ (p \in MRPipelines => mr.synced)
    /\ PollAgrees(p) /\ ScanAgrees(p) /\ SyncAgrees(p)
RequestUndisputed(p) ==
    /\ Undisputed(p) /\ LatestMRPipeline = p
    /\ mr = [synced |-> TRUE, pipeline |-> p, status |-> ci[p]]
    /\ sync.pc # "idle" => sync.pipeline = p /\ sync.status = ci[p]

(* Convergence is for good: what the tables say of a pipeline at rest is   *)
(* not undone by any writer, failure or restart, once the reads that were  *)
(* made before it came to rest have been written.                          *)
AgreementLasts ==
    [][/\ \A p \in Pipelines : (Undisputed(p) /\ ci'[p] = ci[p]) => Undisputed(p)'
       /\ \A p \in MRPipelines : (RequestUndisputed(p) /\ ci' = ci) => RequestUndisputed(p)']_vars

(* api.go:119-121: a metric reported by a running job counts once the      *)
(* fresh poll has seen the pipeline succeed.                               *)
MetricCounts ==
    \A r \in Reports : \A p \in Pipelines :
        (/\ report[r] = [stage |-> "added", pipeline |-> p] /\ r \notin fresh
         /\ p \in metrics /\ rows[p].task = "task" /\ ci[p] = "success")
            ~> (Counted(p) \/ ci[p] # "success")

=============================================================================
