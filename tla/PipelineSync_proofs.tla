------------------------- MODULE PipelineSync_proofs -------------------------
(***************************************************************************)
(* PipelineSync for any number of pipelines, reports, re-runs and faults.  *)
(* The inductive invariant adds to the type invariant what each goroutine  *)
(* still holds of an answer it has not stored yet.                         *)
(***************************************************************************)
EXTENDS PipelineSync, TLAPS

(* Statuses are recorded, and a reported pipeline exists.                  *)
SourcesKnown ==
    /\ \A p \in Pipelines : ci[p] # "absent" => ci[p] \in seen[p]
    /\ \A r \in Reports : report[r].stage # "idle" => ci[report[r].pipeline] # "absent"
    /\ \A r \in fresh : report[r].stage = "added"

(* What the poll holds: a status its pipeline had, of a report that is     *)
(* still in the set, and keys to delete that were answered.                *)
PollHolds ==
    /\ poll.pc \in {"read", "write"} =>
         /\ poll.key \in fresh /\ poll.key \in poll.covers
         /\ poll.status \in seen[report[poll.key].pipeline]
    /\ poll.removed \subseteq answered

ScanHolds ==
    /\ \A p \in Pipelines : scan.page[p] # "absent" => scan.page[p] \in seen[p]
    /\ scan.pc = "write" => scan.pipeline \in Pipelines /\ scan.page[scan.pipeline] # "absent"

SyncHolds ==
    /\ sync.pc = "pipeline" =>
         sync.pipeline \in Pipelines /\ sync.status \in seen[sync.pipeline]
    /\ sync.pc = "request" =>
         \/ sync.pipeline = NoPipeline /\ sync.status = "absent"
         \/ /\ sync.pipeline \in Pipelines /\ sync.status \in seen[sync.pipeline]
            /\ rows[sync.pipeline].status # "absent"

IInv == TypeOK /\ SourcesKnown /\ PollHolds /\ ScanHolds /\ SyncHolds /\ NoReportDropped


-----------------------------------------------------------------------------
(* Type correctness.                                                       *)

LEMMA IdleTypes ==
    PollIdle \in PollRecord /\ ScanIdle \in ScanRecord /\ SyncIdle \in SyncRecord
  BY
  DEF PollIdle, PollRecord, ScanIdle, ScanRecord, SyncIdle, SyncRecord, CIStatus, TaskName

LEMMA TypeInit == Init => TypeOK
  <1> SUFFICES ASSUME Init PROVE TypeOK
    OBVIOUS
  <1>1. ci \in [Pipelines -> CIStatus] /\ seen \in [Pipelines -> SUBSET Status]
    BY DEF Init, CIStatus
  <1>2. rows \in [Pipelines -> Row \cup {NoRow}]
    BY DEF Init
  <1>3. mr \in MRRow
    BY DEF Init, MRRow, CIStatus
  <1>4. report \in [Reports -> ReportRecord]
        /\ \A r \in Reports : report[r].stage # "idle" => report[r].pipeline \in Pipelines
    BY DEF Init, ReportRecord, Stage
  <1>5. reruns \in 0..MaxReruns /\ faults \in 0..MaxFaults
    BY PipelineAssumption DEF Init
  <1>6. poll \in PollRecord /\ scan \in ScanRecord /\ sync \in SyncRecord
    BY IdleTypes DEF Init
  <1>7. /\ opened \in BOOLEAN /\ metrics \subseteq Pipelines
        /\ fresh \subseteq Reports /\ answered \subseteq Reports
    BY DEF Init
  <1> QED
    BY <1>1, <1>2, <1>3, <1>4, <1>5, <1>6, <1>7 DEF TypeOK

(* What the goroutines hold of an answer fits into a row.                  *)
LEMMA HeldRows ==
    ASSUME IInv
    PROVE  /\ poll.pc \in {"read", "write"} =>
                /\ poll.key \in Reports /\ report[poll.key].pipeline \in Pipelines
                /\ poll.status \in Status /\ poll.task \in TaskName
           /\ scan.pc = "write" =>
                /\ scan.pipeline \in Pipelines /\ scan.page[scan.pipeline] \in Status
                /\ scan.task \in TaskName
           /\ sync.pc = "pipeline" => sync.pipeline \in Pipelines /\ sync.status \in Status
  <1>1. poll.pc \in {"read", "write"} =>
          /\ poll.key \in Reports /\ report[poll.key].pipeline \in Pipelines
          /\ poll.status \in Status /\ poll.task \in TaskName
    BY DEF IInv, TypeOK, SourcesKnown, PollHolds, PollRecord
  <1>2. scan.pc = "write" =>
          /\ scan.pipeline \in Pipelines /\ scan.page[scan.pipeline] \in Status
          /\ scan.task \in TaskName
    BY DEF IInv, TypeOK, ScanHolds, ScanRecord
  <1>3. sync.pc = "pipeline" => sync.pipeline \in Pipelines /\ sync.status \in Status
    BY DEF IInv, TypeOK, SyncHolds
  <1> QED
    BY <1>1, <1>2, <1>3

(* AddPipeline keeps the table well-typed.                                 *)
LEMMA AddPipelineType ==
    ASSUME TypeOK, NEW p \in Pipelines, NEW status \in Status, NEW task \in TaskName,
           AddPipeline(p, status, task)
    PROVE  rows' \in [Pipelines -> Row \cup {NoRow}]
  BY DEF TypeOK, AddPipeline, Row

LEMMA PollNextKeyType ==
    ASSUME TypeOK, NEW gone \in SUBSET Reports
    PROVE  PollNextKey(gone) \in PollRecord
  BY DEF TypeOK, PollNextKey, PollIdle, PollRecord, CIStatus, TaskName

LEMMA LatestMRPipelineExists ==
    LatestMRPipeline # NoPipeline => LatestMRPipeline \in MRPipelines /\ Exists(LatestMRPipeline)
  <1> DEFINE known == {p \in MRPipelines : Exists(p)}
  <1>1. CASE known = {}
    BY <1>1 DEF LatestMRPipeline
  <1>2. CASE known # {}
    <2>1. \E p \in known : \A q \in known : q <= p
      BY <1>2, PipelineAssumption
    <2> QED
      BY <1>2, <2>1 DEF LatestMRPipeline
  <1> QED
    BY <1>1, <1>2

LEMMA TypeStep == IInv /\ [Next]_vars => TypeOK'
  <1> SUFFICES ASSUME IInv, [Next]_vars PROVE TypeOK'
    OBVIOUS
  <1>1. TypeOK
    BY DEF IInv
  <1>2. CASE OpenMR
    <2> QED
      BY <1>1, <1>2 DEF OpenMR, gitlabVars, dbVars, TypeOK
  <1>3. ASSUME NEW p \in Pipelines, CreatePipeline(p) PROVE TypeOK'
    <2>1. ci' \in [Pipelines -> CIStatus] /\ seen' \in [Pipelines -> SUBSET Status]
      BY <1>1, <1>3 DEF CreatePipeline, SetCI, Exists, TypeOK, CIStatus, Status
    <2> QED
      BY <1>1, <1>3, <2>1 DEF CreatePipeline, SetCI, gitlabVars, dbVars, TypeOK
  <1>4. ASSUME NEW p \in Pipelines, StartPipeline(p) PROVE TypeOK'
    <2>1. ci' \in [Pipelines -> CIStatus] /\ seen' \in [Pipelines -> SUBSET Status]
      BY <1>1, <1>4 DEF StartPipeline, SetCI, TypeOK, CIStatus, Status
    <2> QED
      BY <1>1, <1>4, <2>1 DEF StartPipeline, SetCI, gitlabVars, dbVars, TypeOK
  <1>5. ASSUME NEW p \in Pipelines, FinishPipeline(p) PROVE TypeOK'
    <2>1. ci' \in [Pipelines -> CIStatus] /\ seen' \in [Pipelines -> SUBSET Status]
      BY <1>1, <1>5 DEF FinishPipeline, SetCI, Final, TypeOK, CIStatus, Status
    <2> QED
      BY <1>1, <1>5, <2>1 DEF FinishPipeline, SetCI, gitlabVars, dbVars, TypeOK
  <1>6. ASSUME NEW p \in Pipelines, RerunPipeline(p) PROVE TypeOK'
    <2>1. ci' \in [Pipelines -> CIStatus] /\ seen' \in [Pipelines -> SUBSET Status]
      BY <1>1, <1>6 DEF RerunPipeline, SetCI, TypeOK, CIStatus, Status
    <2> QED
      BY <1>1, <1>6, <2>1, PipelineAssumption
      DEF RerunPipeline, SetCI, gitlabVars, dbVars, TypeOK
  <1>7. ASSUME NEW r \in Reports, NEW p \in Pipelines, ReportStore(r, p) PROVE TypeOK'
    <2>1. /\ report' \in [Reports -> ReportRecord]
          /\ \A x \in Reports : report'[x].stage # "idle" => report'[x].pipeline \in Pipelines
      BY <1>1, <1>7 DEF ReportStore, TypeOK, ReportRecord, Stage
    <2> QED
      BY <1>1, <1>7, <2>1 DEF ReportStore, gitlabVars, dbVars, TypeOK
  <1>8. ASSUME NEW r \in Reports, AddFresh(r) PROVE TypeOK'
    <2>1. /\ report' \in [Reports -> ReportRecord]
          /\ \A x \in Reports : report'[x].stage # "idle" => report'[x].pipeline \in Pipelines
      BY <1>1, <1>8 DEF AddFresh, TypeOK, ReportRecord, Stage
    <2> QED
      BY <1>1, <1>8, <2>1 DEF AddFresh, gitlabVars, dbVars, TypeOK
  <1>9. CASE PollStart
    <2>1. poll' \in PollRecord
      BY <1>1, <1>9, IdleTypes DEF PollStart, PollIdle, TypeOK, PollRecord
    <2> QED
      BY <1>1, <1>9, <2>1 DEF PollStart, gitlabVars, dbVars, TypeOK
  <1>10. ASSUME NEW r \in Reports, PollRead(r) PROVE TypeOK'
    <2>1. poll' \in PollRecord
      BY <1>1, <1>10, IdleTypes DEF PollRead, TypeOK, PollRecord, IInv, SourcesKnown
    <2> QED
      BY <1>1, <1>10, <2>1, HeldRows DEF PollRead, gitlabVars, dbVars, TypeOK
  <1>11. ASSUME NEW r \in Reports, PollReadFails(r) PROVE TypeOK'
    <2>1. poll' \in PollRecord
      BY <1>1, <1>11, IdleTypes DEF PollReadFails, Fault, TypeOK, PollRecord
    <2> QED
      BY <1>1, <1>11, <2>1, HeldRows, PipelineAssumption
      DEF PollReadFails, Fault, gitlabVars, dbVars, TypeOK
  <1>12. CASE PollResolve
    <2>1. poll' \in PollRecord
      BY <1>1, <1>12, IdleTypes
      DEF PollResolve, TaskOfRef, TypeOK, PollRecord, TaskName, CIStatus
    <2> QED
      BY <1>1, <1>12, <2>1 DEF PollResolve, gitlabVars, dbVars, TypeOK
  <1>13. CASE PollWrite
    <2>1. poll' \in PollRecord
      BY <1>1, <1>13, IdleTypes, HeldRows, PollNextKeyType DEF PollWrite
    <2>2. rows' \in [Pipelines -> Row \cup {NoRow}]
      BY <1>1, <1>13, HeldRows, AddPipelineType DEF PollWrite, TaskName
    <2> QED
      BY <1>1, <1>13, <2>1, <2>2 DEF PollWrite, gitlabVars, dbVars, TypeOK, PollRecord
  <1>14. CASE PollWriteFails
    <2>1. poll' \in PollRecord
      BY <1>1, <1>14, IdleTypes, PollNextKeyType DEF PollWriteFails, Fault
    <2> QED
      BY <1>1, <1>14, <2>1, PipelineAssumption
      DEF PollWriteFails, Fault, gitlabVars, dbVars, TypeOK
  <1>15. CASE PollEnd
    <2> QED
      BY <1>1, <1>15, IdleTypes DEF PollEnd, gitlabVars, dbVars, TypeOK
  <1>16. CASE ScanStart
    <2>1. scan' \in ScanRecord
      BY <1>1, <1>16, IdleTypes DEF ScanStart, ScanIdle, TypeOK, ScanRecord
    <2> QED
      BY <1>1, <1>16, <2>1 DEF ScanStart, gitlabVars, dbVars, TypeOK
  <1>17. CASE ScanList
    <2>1. scan' \in ScanRecord
      BY <1>1, <1>17, IdleTypes DEF ScanList, TypeOK, ScanRecord, CIStatus
    <2> QED
      BY <1>1, <1>17, <2>1 DEF ScanList, gitlabVars, dbVars, TypeOK
  <1>18. CASE ScanListFails
    <2> QED
      BY <1>1, <1>18, IdleTypes, PipelineAssumption
      DEF ScanListFails, Fault, gitlabVars, dbVars, TypeOK
  <1>19. ASSUME NEW p \in Pipelines, ScanResolve(p) PROVE TypeOK'
    <2>1. scan' \in ScanRecord
      BY <1>1, <1>19, IdleTypes
      DEF ScanResolve, TaskOfRef, TypeOK, ScanRecord, TaskName, CIStatus
    <2> QED
      BY <1>1, <1>19, <2>1 DEF ScanResolve, gitlabVars, dbVars, TypeOK
  <1>20. CASE ScanWrite
    <2>1. scan' \in ScanRecord
      BY <1>1, <1>20, IdleTypes
      DEF ScanWrite, ScanNextPipeline, TypeOK, ScanRecord, TaskName, CIStatus
    <2>2. rows' \in [Pipelines -> Row \cup {NoRow}]
      BY <1>1, <1>20, HeldRows, AddPipelineType DEF ScanWrite, TaskName
    <2> QED
      BY <1>1, <1>20, <2>1, <2>2 DEF ScanWrite, gitlabVars, dbVars, TypeOK
  <1>21. CASE ScanWriteFails
    <2>1. scan' \in ScanRecord
      BY <1>1, <1>21, IdleTypes
      DEF ScanWriteFails, Fault, ScanNextPipeline, TypeOK, ScanRecord, TaskName, CIStatus
    <2> QED
      BY <1>1, <1>21, <2>1, PipelineAssumption
      DEF ScanWriteFails, Fault, gitlabVars, dbVars, TypeOK
  <1>22. CASE ScanPageDone
    <2>1. scan' \in ScanRecord
      BY <1>1, <1>22, IdleTypes DEF ScanPageDone, TypeOK, ScanRecord
    <2> QED
      BY <1>1, <1>22, <2>1 DEF ScanPageDone, gitlabVars, dbVars, TypeOK
  <1>23. CASE SyncRead
    <2>1. sync' \in SyncRecord
      BY <1>1, <1>23, IdleTypes, HeldRows, LatestMRPipelineExists, PipelineAssumption
      DEF SyncRead, TypeOK, SyncRecord
    <2> QED
      BY <1>1, <1>23, <2>1 DEF SyncRead, gitlabVars, dbVars, TypeOK
  <1>24. CASE SyncWritePipeline
    <2>1. sync' \in SyncRecord
      BY <1>1, <1>24, IdleTypes DEF SyncWritePipeline, TypeOK, SyncRecord
    <2>2. rows' \in [Pipelines -> Row \cup {NoRow}]
      BY <1>1, <1>24, HeldRows, AddPipelineType DEF SyncWritePipeline, TaskName
    <2> QED
      BY <1>1, <1>24, <2>1, <2>2 DEF SyncWritePipeline, gitlabVars, dbVars, TypeOK
  <1>25. CASE SyncWriteMR
    <2>1. mr' \in MRRow
      BY <1>1, <1>25 DEF SyncWriteMR, TypeOK, SyncRecord, MRRow
    <2> QED
      BY <1>1, <1>25, <2>1, IdleTypes DEF SyncWriteMR, gitlabVars, dbVars, TypeOK
  <1>26. CASE SyncFails
    <2> QED
      BY <1>1, <1>26, IdleTypes, PipelineAssumption
      DEF SyncFails, Fault, gitlabVars, dbVars, TypeOK
  <1>27. CASE Crash
    <2>1. /\ report' \in [Reports -> ReportRecord]
          /\ \A x \in Reports : report'[x].stage # "idle" => report'[x].pipeline \in Pipelines
      BY <1>1, <1>27 DEF Crash, Fault, TypeOK, ReportRecord, Stage
    <2> QED
      BY <1>1, <1>27, <2>1, IdleTypes, PipelineAssumption
      DEF Crash, Fault, gitlabVars, dbVars, TypeOK
  <1>28. CASE UNCHANGED vars
    BY <1>1, <1>28 DEF vars, TypeOK
  <1> QED
    BY <1>2, <1>3, <1>4, <1>5, <1>6, <1>7, <1>8, <1>9, <1>10, <1>11, <1>12, <1>13, <1>14,
       <1>15, <1>16, <1>17, <1>18, <1>19, <1>20, <1>21, <1>22, <1>23, <1>24, <1>25, <1>26,
       <1>27, <1>28
    DEF Next, CINext, PollNext, ScanNext, SyncNext

-----------------------------------------------------------------------------
(* The rest of the inductive invariant, one goroutine at a time.           *)

(* GitLab never forgets a pipeline or a status it had.                     *)
LEMMA SeenGrows ==
    ASSUME IInv, [Next]_vars
    PROVE  /\ \A p \in Pipelines : seen[p] \subseteq seen'[p]
           /\ \A p \in Pipelines : ci[p] # "absent" => ci'[p] # "absent"
           /\ \A p \in Pipelines : ci'[p] # "absent" => ci'[p] \in seen'[p]
  <1>1. TypeOK /\ SourcesKnown
    BY DEF IInv
  <1>2. ASSUME NEW p \in Pipelines, NEW status \in Status, SetCI(p, status)
        PROVE  /\ \A q \in Pipelines : seen[q] \subseteq seen'[q]
               /\ \A q \in Pipelines : ci[q] # "absent" => ci'[q] # "absent"
               /\ \A q \in Pipelines : ci'[q] # "absent" => ci'[q] \in seen'[q]
    BY <1>1, <1>2 DEF SetCI, TypeOK, SourcesKnown, Status
  <1>3. CASE \E p \in Pipelines : \/ CreatePipeline(p) \/ StartPipeline(p)
                                  \/ FinishPipeline(p) \/ RerunPipeline(p)
    BY <1>2, <1>3 DEF CreatePipeline, StartPipeline, FinishPipeline, RerunPipeline,
       Status, CIStatus, Final
  <1>4. CASE UNCHANGED <<ci, seen>>
    BY <1>1, <1>4 DEF SourcesKnown
  <1> QED
    BY <1>3, <1>4 DEF Next, CINext, PollNext, ScanNext, SyncNext, vars, gitlabVars,
       OpenMR, ReportStore, AddFresh, Crash,
       PollStart, PollRead, PollReadFails, PollResolve, PollWrite, PollWriteFails, PollEnd,
       ScanStart, ScanList, ScanListFails, ScanResolve, ScanWrite, ScanWriteFails, ScanPageDone,
       SyncRead, SyncWritePipeline, SyncWriteMR, SyncFails

(* No writer takes a row back.                                             *)
LEMMA RowsStay ==
    ASSUME IInv, [Next]_vars
    PROVE  \A p \in Pipelines : rows[p].status # "absent" => rows'[p].status # "absent"
  <1>1. TypeOK
    BY DEF IInv
  <1>2. ASSUME NEW p \in Pipelines, NEW status \in Status, NEW task, AddPipeline(p, status, task)
        PROVE  \A q \in Pipelines : rows[q].status # "absent" => rows'[q].status # "absent"
    BY <1>1, <1>2 DEF AddPipeline, TypeOK, Status
  <1>3. CASE PollWrite \/ ScanWrite \/ SyncWritePipeline
    BY <1>2, <1>3, HeldRows DEF PollWrite, ScanWrite, SyncWritePipeline
  <1>4. CASE UNCHANGED rows
    BY <1>4
  <1> QED
    BY <1>3, <1>4 DEF Next, CINext, PollNext, ScanNext, SyncNext, vars, dbVars, SetCI,
       OpenMR, CreatePipeline, StartPipeline, FinishPipeline, RerunPipeline,
       ReportStore, AddFresh, Crash,
       PollStart, PollRead, PollReadFails, PollResolve, PollWriteFails, PollEnd,
       ScanStart, ScanList, ScanListFails, ScanResolve, ScanWriteFails, ScanPageDone,
       SyncRead, SyncWriteMR, SyncFails

LEMMA ReportStep ==
    ASSUME IInv, [Next]_vars
    PROVE  /\ SourcesKnown'
           /\ \A r \in Reports : report[r].stage # "idle" => report'[r].pipeline = report[r].pipeline
  <1>1. TypeOK /\ SourcesKnown
    BY DEF IInv
  <1> DEFINE Kept == \A r \in Reports : report[r].stage # "idle" =>
                                            report'[r].pipeline = report[r].pipeline
             Sent == \A r \in Reports : report'[r].stage # "idle" => ci'[report'[r].pipeline] # "absent"
             Added == \A r \in fresh' : report'[r].stage = "added"
  <1> SUFFICES Kept /\ Sent /\ Added
    BY SeenGrows DEF SourcesKnown
  <1>2. ASSUME NEW r \in Reports, NEW p \in Pipelines, ReportStore(r, p)
        PROVE  Kept /\ Sent /\ Added
    BY <1>1, <1>2 DEF ReportStore, gitlabVars, TypeOK, SourcesKnown, ReportRecord
  <1>3. ASSUME NEW r \in Reports, AddFresh(r) PROVE Kept /\ Sent /\ Added
    BY <1>1, <1>3 DEF AddFresh, gitlabVars, TypeOK, SourcesKnown, ReportRecord
  <1>4. CASE PollEnd
    BY <1>1, <1>4 DEF PollEnd, gitlabVars, SourcesKnown
  <1>5. CASE Crash
    BY <1>1, <1>5 DEF Crash, gitlabVars, TypeOK, SourcesKnown, ReportRecord
  <1>6. CASE UNCHANGED <<report, fresh>>
    BY <1>1, <1>6, SeenGrows DEF SourcesKnown, TypeOK
  <1> QED
    BY <1>2, <1>3, <1>4, <1>5, <1>6
    DEF Next, CINext, PollNext, ScanNext, SyncNext, vars, SetCI,
       OpenMR, CreatePipeline, StartPipeline, FinishPipeline, RerunPipeline,
       PollStart, PollRead, PollReadFails, PollResolve, PollWrite, PollWriteFails,
       ScanStart, ScanList, ScanListFails, ScanResolve, ScanWrite, ScanWriteFails, ScanPageDone,
       SyncRead, SyncWritePipeline, SyncWriteMR, SyncFails

LEMMA PollStep ==
    ASSUME IInv, [Next]_vars
    PROVE  PollHolds' /\ NoReportDropped'
  <1>1. TypeOK /\ SourcesKnown /\ PollHolds /\ NoReportDropped
    BY DEF IInv
  <1>2. ASSUME NEW r \in Reports, PollRead(r) PROVE PollHolds' /\ NoReportDropped'
    BY <1>1, <1>2
    DEF PollRead, gitlabVars, TypeOK, SourcesKnown, PollHolds, NoReportDropped, PollRecord
  <1>3. CASE PollStart
    BY <1>1, <1>3 DEF PollStart, PollIdle, PollHolds, NoReportDropped
  <1>4. ASSUME NEW r \in Reports, PollReadFails(r) PROVE PollHolds' /\ NoReportDropped'
    BY <1>1, <1>4 DEF PollReadFails, TypeOK, PollHolds, NoReportDropped, PollRecord
  <1>5. CASE PollResolve
    BY <1>1, <1>5
    DEF PollResolve, gitlabVars, TypeOK, PollHolds, NoReportDropped, PollRecord
  <1>6. CASE PollWrite
    <2> DEFINE gone == IF poll.status = "running" THEN {} ELSE {poll.key}
    <2>1. poll' = PollNextKey(gone)
      BY <1>6 DEF PollWrite
    <2>2. poll'.pc = "range" /\ poll'.removed = poll.removed \cup gone
      BY <2>1 DEF PollNextKey, PollIdle
    <2>3. poll'.removed \subseteq answered' /\ answered \subseteq answered'
      BY <1>1, <1>6, <2>2 DEF PollWrite, PollHolds
    <2> QED
      BY <1>1, <1>6, <2>2, <2>3 DEF PollWrite, PollHolds, NoReportDropped
  <1>7. CASE PollWriteFails
    BY <1>1, <1>7 DEF PollWriteFails, PollNextKey, PollIdle, PollHolds, NoReportDropped
  <1>8. CASE PollEnd
    BY <1>1, <1>8 DEF PollEnd, PollIdle, PollHolds, NoReportDropped
  <1>9. CASE Crash
    BY <1>1, <1>9 DEF Crash, PollIdle, PollHolds, NoReportDropped, TypeOK, ReportRecord
  <1>10. ASSUME NEW r \in Reports, AddFresh(r) PROVE PollHolds' /\ NoReportDropped'
    BY <1>1, <1>10
    DEF AddFresh, gitlabVars, PollHolds, NoReportDropped, TypeOK, SourcesKnown, ReportRecord
  <1>11. ASSUME NEW r \in Reports, NEW p \in Pipelines, ReportStore(r, p)
         PROVE  PollHolds' /\ NoReportDropped'
    BY <1>1, <1>11
    DEF ReportStore, gitlabVars, PollHolds, NoReportDropped, TypeOK, SourcesKnown,
        ReportRecord
  <1>12. CASE UNCHANGED <<report, fresh, poll, answered>>
    <2>1. poll.pc \in {"read", "write"} => report[poll.key].pipeline \in Pipelines
      BY HeldRows
    <2> QED
      BY <1>1, <1>12, <2>1, SeenGrows DEF PollHolds, NoReportDropped
  <1> QED
    BY <1>2, <1>3, <1>4, <1>5, <1>6, <1>7, <1>8, <1>9, <1>10, <1>11, <1>12
    DEF Next, CINext, PollNext, ScanNext, SyncNext, vars, SetCI,
       OpenMR, CreatePipeline, StartPipeline, FinishPipeline, RerunPipeline,
       ScanStart, ScanList, ScanListFails, ScanResolve, ScanWrite, ScanWriteFails, ScanPageDone,
       SyncRead, SyncWritePipeline, SyncWriteMR, SyncFails

LEMMA ScanStep ==
    ASSUME IInv, [Next]_vars
    PROVE  ScanHolds'
  <1>1. TypeOK /\ SourcesKnown /\ ScanHolds
    BY DEF IInv
  <1>2. CASE scan' = ScanIdle
    BY <1>2 DEF ScanIdle, ScanHolds
  <1>3. CASE ScanStart
    BY <1>3 DEF ScanStart, ScanIdle, ScanHolds
  <1>4. CASE ScanList
    BY <1>1, <1>4
    DEF ScanList, Exists, NewestOf, gitlabVars, SourcesKnown, ScanHolds, TypeOK, ScanRecord
  <1>5. ASSUME NEW p \in Pipelines, ScanResolve(p) PROVE ScanHolds'
    BY <1>1, <1>5 DEF ScanResolve, Listed, gitlabVars, ScanHolds, TypeOK, ScanRecord
  <1>6. CASE (ScanWrite \/ ScanWriteFails) /\ scan' = ScanNextPipeline
    BY <1>1, <1>6
    DEF ScanWrite, ScanWriteFails, ScanNextPipeline, gitlabVars, ScanHolds, TypeOK,
        ScanRecord
  <1>7. CASE ScanPageDone
    BY <1>1, <1>2, <1>7 DEF ScanPageDone, gitlabVars, ScanHolds, TypeOK, ScanRecord
  <1>8. CASE UNCHANGED scan
    BY <1>1, <1>8, SeenGrows DEF ScanHolds
  <1> QED
    BY <1>2, <1>3, <1>4, <1>5, <1>6, <1>7, <1>8
    DEF Next, CINext, PollNext, ScanNext, SyncNext, vars, SetCI,
       OpenMR, CreatePipeline, StartPipeline, FinishPipeline, RerunPipeline,
       ReportStore, AddFresh, Crash, ScanListFails, ScanWrite, ScanWriteFails,
       PollStart, PollRead, PollReadFails, PollResolve, PollWrite, PollWriteFails, PollEnd,
       SyncRead, SyncWritePipeline, SyncWriteMR, SyncFails

LEMMA SyncStep ==
    ASSUME IInv, [Next]_vars
    PROVE  SyncHolds'
  <1>1. TypeOK /\ SourcesKnown /\ SyncHolds
    BY DEF IInv
  <1>2. CASE sync' = SyncIdle
    BY <1>2 DEF SyncIdle, SyncHolds
  <1>3. CASE SyncRead
    <2> DEFINE p == LatestMRPipeline
    <2>1. CASE p = NoPipeline
      BY <1>3, <2>1 DEF SyncRead, SyncIdle, SyncHolds
    <2>2. CASE p # NoPipeline
      <3>1. p \in Pipelines /\ ci[p] # "absent"
        BY <2>2, LatestMRPipelineExists, PipelineAssumption DEF Exists
      <3>2. sync' = [pc |-> "pipeline", pipeline |-> p, status |-> ci[p]] /\ seen' = seen
        BY <1>3, <2>2 DEF SyncRead, gitlabVars
      <3> QED
        BY <1>1, <3>1, <3>2 DEF SyncHolds, SourcesKnown
    <2> QED
      BY <2>1, <2>2
  <1>4. CASE SyncWritePipeline
    <2>1. sync' = [sync EXCEPT !.pc = "request"] /\ seen' = seen
      BY <1>4 DEF SyncWritePipeline, gitlabVars
    <2>2. sync.pipeline \in Pipelines /\ sync.status \in seen[sync.pipeline] /\ sync.status \in Status
      BY <1>1, <1>4, HeldRows DEF SyncWritePipeline, SyncHolds
    <2>3. rows'[sync.pipeline].status # "absent"
      BY <1>1, <1>4, <2>2 DEF SyncWritePipeline, AddPipeline, TypeOK, Status
    <2> QED
      BY <1>1, <2>1, <2>2, <2>3 DEF SyncHolds, TypeOK, SyncRecord
  <1>5. CASE UNCHANGED sync
    BY <1>1, <1>5, SeenGrows, RowsStay DEF SyncHolds
  <1> QED
    BY <1>2, <1>3, <1>4, <1>5
    DEF Next, CINext, PollNext, ScanNext, SyncNext, vars, SetCI,
       OpenMR, CreatePipeline, StartPipeline, FinishPipeline, RerunPipeline,
       ReportStore, AddFresh, Crash, SyncWriteMR, SyncFails,
       PollStart, PollRead, PollReadFails, PollResolve, PollWrite, PollWriteFails, PollEnd,
       ScanStart, ScanList, ScanListFails, ScanResolve, ScanWrite, ScanWriteFails, ScanPageDone

-----------------------------------------------------------------------------
LEMMA Inductive == Spec => []IInv
  <1>1. Init => IInv
    <2> SUFFICES ASSUME Init PROVE IInv
      OBVIOUS
    <2>1. SourcesKnown /\ PollHolds /\ NoReportDropped
      BY DEF Init, SourcesKnown, PollHolds, NoReportDropped, PollIdle
    <2>2. ScanHolds /\ SyncHolds
      BY DEF Init, ScanHolds, SyncHolds, ScanIdle, SyncIdle
    <2> QED
      BY <2>1, <2>2, TypeInit DEF IInv
  <1>2. IInv /\ [Next]_vars => IInv'
    BY TypeStep, ReportStep, PollStep, ScanStep, SyncStep DEF IInv
  <1> QED
    BY <1>1, <1>2, PTL DEF Spec

(* Every variable keeps its type, whatever the number of pipelines,        *)
(* reports, re-runs, crashes and failed calls.                             *)
THEOREM TypeCorrect == Spec => []TypeOK
  <1>1. IInv => TypeOK
    BY DEF IInv
  <1> QED
    BY <1>1, Inductive, PTL

(* No grader report leaves the fresh set of a running server before its    *)
(* pipeline was read after the report and stored (PipelinesFetcher).       *)
THEOREM NoReportIsDropped == Spec => []NoReportDropped
  <1>1. IInv => NoReportDropped
    BY DEF IInv
  <1> QED
    BY <1>1, Inductive, PTL

-----------------------------------------------------------------------------
(* The refinement: every step of the system is one of the mirror's.        *)

LEMMA StoreRefines ==
    ASSUME IInv, NEW p \in Pipelines, NEW status \in seen[p], NEW task \in TaskName,
           AddPipeline(p, status, task), UNCHANGED <<ci, seen, mr>>
    PROVE  Mirror!Next
  BY DEF AddPipeline, Mirror!Next, Mirror!StorePipeline

LEMMA MirrorStep ==
    ASSUME IInv, [Next]_vars
    PROVE  [Mirror!Next]_Mirror!mirrorVars
  <1>1. TypeOK /\ SourcesKnown /\ PollHolds /\ ScanHolds /\ SyncHolds
    BY DEF IInv
  <1>2. ASSUME NEW p \in Pipelines, NEW status \in Status, SetCI(p, status)
        PROVE  Mirror!Next
    BY <1>2 DEF SetCI, Status, Mirror!Next, Mirror!GitLabMoves
  <1>3. CASE \E p \in Pipelines : \/ CreatePipeline(p) \/ StartPipeline(p)
                                  \/ FinishPipeline(p) \/ RerunPipeline(p)
    BY <1>2, <1>3 DEF CreatePipeline, StartPipeline, FinishPipeline, RerunPipeline,
       Status, CIStatus, Final
  <1>4. CASE PollWrite
    BY <1>1, <1>4, HeldRows, StoreRefines DEF PollWrite, PollHolds, gitlabVars
  <1>5. CASE ScanWrite
    BY <1>1, <1>5, HeldRows, StoreRefines DEF ScanWrite, ScanHolds, gitlabVars
  <1>6. CASE SyncWritePipeline
    BY <1>1, <1>6, HeldRows, StoreRefines
    DEF SyncWritePipeline, SyncHolds, gitlabVars, TaskName
  <1>7. CASE SyncWriteMR
    BY <1>1, <1>7 DEF SyncWriteMR, SyncHolds, gitlabVars, Mirror!Next, Mirror!StoreRequest
  <1>8. CASE UNCHANGED <<ci, seen, rows, mr>>
    BY <1>8 DEF Mirror!mirrorVars
  <1> QED
    BY <1>3, <1>4, <1>5, <1>6, <1>7, <1>8
    DEF Next, CINext, PollNext, ScanNext, SyncNext, vars, gitlabVars, dbVars,
       OpenMR, ReportStore, AddFresh, Crash,
       PollStart, PollRead, PollReadFails, PollResolve, PollWriteFails, PollEnd,
       ScanStart, ScanList, ScanListFails, ScanResolve, ScanWriteFails, ScanPageDone,
       SyncRead, SyncFails

(* The database is a lagging mirror of GitLab for any number of pipelines, *)
(* overlapping writers, failed calls and crashes.                          *)
THEOREM PipelineSyncIsMirror == Spec => ImplementsMirror
  <1>1. Init => Mirror!Init
    BY DEF Init, Mirror!Init, NoRow
  <1>2. IInv /\ [Next]_vars => [Mirror!Next]_Mirror!mirrorVars
    BY MirrorStep
  <1> QED
    BY <1>1, <1>2, Inductive, PTL DEF Spec, ImplementsMirror, Mirror!Spec

-----------------------------------------------------------------------------
(* Agreement lasts: what a writer stores of an undisputed pipeline is what *)
(* the table says, and what a goroutine reads of it is, too.               *)
LEMMA RowsAgree ==
    ASSUME IInv, [Next]_vars, NEW p \in Pipelines, Undisputed(p), ci'[p] = ci[p]
    PROVE  Exists(p)' /\ Agrees(p)'
  <1> SUFFICES rows'[p] = [status |-> ci[p], task |-> "task"]
    BY DEF Undisputed, Exists, Agrees
  <1>1. TypeOK /\ ScanHolds
    BY DEF IInv
  <1>2. /\ ci[p] # "absent" /\ rows[p] = [status |-> ci[p], task |-> "task"]
        /\ PollAgrees(p) /\ ScanAgrees(p) /\ SyncAgrees(p)
    BY DEF Undisputed, Agrees, Exists
  <1>3. ASSUME NEW q, NEW status, NEW task, AddPipeline(q, status, task),
               q = p => status = ci[p] /\ task = "task"
        PROVE  rows'[p] = [status |-> ci[p], task |-> "task"]
    BY <1>1, <1>2, <1>3 DEF AddPipeline, TypeOK
  <1>4. CASE PollWrite
    BY <1>2, <1>3, <1>4 DEF PollWrite, PollAgrees
  <1>5. CASE ScanWrite
    BY <1>1, <1>2, <1>3, <1>5 DEF ScanWrite, ScanAgrees, ScanHolds
  <1>6. CASE SyncWritePipeline
    BY <1>2, <1>3, <1>6 DEF SyncWritePipeline, SyncAgrees
  <1>7. CASE UNCHANGED rows
    BY <1>2, <1>7
  <1> QED
    BY <1>4, <1>5, <1>6, <1>7 DEF Next, CINext, PollNext, ScanNext, SyncNext, vars, dbVars, SetCI,
       OpenMR, CreatePipeline, StartPipeline, FinishPipeline, RerunPipeline,
       ReportStore, AddFresh, Crash,
       PollStart, PollRead, PollReadFails, PollResolve, PollWriteFails, PollEnd,
       ScanStart, ScanList, ScanListFails, ScanResolve, ScanWriteFails, ScanPageDone,
       SyncRead, SyncWriteMR, SyncFails

(* A merge request that has been synced stays so.                          *)
LEMMA SyncedStays ==
    ASSUME [Next]_vars, mr.synced
    PROVE  mr'.synced
  <1>1. CASE SyncWriteMR
    BY <1>1 DEF SyncWriteMR
  <1>2. CASE UNCHANGED mr
    BY <1>2
  <1> QED
    BY <1>1, <1>2 DEF Next, CINext, PollNext, ScanNext, SyncNext, vars, dbVars, SetCI,
       OpenMR, CreatePipeline, StartPipeline, FinishPipeline, RerunPipeline,
       ReportStore, AddFresh, Crash,
       PollStart, PollRead, PollReadFails, PollResolve, PollWrite, PollWriteFails, PollEnd,
       ScanStart, ScanList, ScanListFails, ScanResolve, ScanWrite, ScanWriteFails, ScanPageDone,
       SyncRead, SyncWritePipeline, SyncFails

LEMMA PollKeepsAgreeing ==
    ASSUME IInv, [Next]_vars, NEW p \in Pipelines, Undisputed(p), ci'[p] = ci[p]
    PROVE  PollAgrees(p)'
  <1>1. TypeOK /\ PollHolds /\ SourcesKnown /\ PollAgrees(p) /\ TaskOfRef(p) = "task"
    BY DEF IInv, Undisputed, TaskOfRef
  <1>2. poll.pc \in {"read", "write"} => report'[poll.key].pipeline = report[poll.key].pipeline
    <2>1. poll.pc \in {"read", "write"} => poll.key \in Reports /\ report[poll.key].stage # "idle"
      BY <1>1 DEF PollHolds, SourcesKnown, TypeOK
    <2> QED
      BY <2>1, ReportStep
  <1>3. ASSUME NEW r \in Reports, PollRead(r) PROVE PollAgrees(p)'
    BY <1>1, <1>3 DEF PollRead, PollAgrees, TypeOK, PollRecord
  <1>4. CASE PollResolve
    BY <1>1, <1>4 DEF PollResolve, PollAgrees, TypeOK, PollRecord
  <1>5. CASE poll'.pc \in {"idle", "range"}
    BY <1>5 DEF PollAgrees
  <1>6. CASE UNCHANGED poll
    BY <1>1, <1>2, <1>6 DEF PollAgrees
  <1>7. CASE PollStart \/ PollWrite \/ PollWriteFails \/ PollEnd \/ Crash
             \/ \E r \in Reports : PollReadFails(r)
    <2>1. \A gone : PollNextKey(gone).pc = "range"
      BY DEF PollNextKey, PollIdle
    <2>2. CASE PollWrite
      BY <1>5, <2>1, <2>2 DEF PollWrite
    <2>3. CASE PollWriteFails
      BY <1>5, <2>1, <2>3 DEF PollWriteFails
    <2>4. CASE PollEnd \/ Crash
      BY <1>5, <2>4 DEF PollEnd, Crash, PollIdle
    <2>5. CASE PollStart
      BY <1>5, <2>5 DEF PollStart, PollIdle
    <2>6. ASSUME NEW r \in Reports, PollReadFails(r) PROVE PollAgrees(p)'
      BY <1>1, <1>5, <2>6 DEF PollReadFails, TypeOK, PollRecord
    <2> QED
      BY <1>7, <2>2, <2>3, <2>4, <2>5, <2>6
  <1> QED
    BY <1>3, <1>4, <1>6, <1>7 DEF Next, CINext, PollNext, ScanNext, SyncNext, vars, SetCI,
       OpenMR, CreatePipeline, StartPipeline, FinishPipeline, RerunPipeline,
       ReportStore, AddFresh,
       ScanStart, ScanList, ScanListFails, ScanResolve, ScanWrite, ScanWriteFails, ScanPageDone,
       SyncRead, SyncWritePipeline, SyncWriteMR, SyncFails

LEMMA ScanKeepsAgreeing ==
    ASSUME IInv, [Next]_vars, NEW p \in Pipelines, Undisputed(p), ci'[p] = ci[p]
    PROVE  ScanAgrees(p)'
  <1>1. TypeOK /\ ScanHolds /\ ScanAgrees(p) /\ TaskOfRef(p) = "task"
    BY DEF IInv, Undisputed, TaskOfRef
  <1>2. CASE scan' = ScanIdle
    BY <1>2 DEF ScanIdle, ScanAgrees
  <1>3. CASE ScanStart
    BY <1>3 DEF ScanStart, ScanIdle, ScanAgrees
  <1>4. CASE ScanList
    BY <1>1, <1>4 DEF ScanList, ScanAgrees, TypeOK, ScanRecord
  <1>5. ASSUME NEW q \in Pipelines, ScanResolve(q) PROVE ScanAgrees(p)'
    BY <1>1, <1>5 DEF ScanResolve, ScanAgrees, TypeOK, ScanRecord
  <1>6. CASE (ScanWrite \/ ScanWriteFails) /\ scan' = ScanNextPipeline
    BY <1>1, <1>6 DEF ScanNextPipeline, ScanHolds, ScanAgrees, TypeOK, ScanRecord,
       ScanWrite, ScanWriteFails
  <1>7. CASE ScanPageDone
    BY <1>1, <1>2, <1>7 DEF ScanPageDone, ScanAgrees, TypeOK, ScanRecord
  <1>8. CASE UNCHANGED scan
    BY <1>1, <1>8 DEF ScanAgrees
  <1> QED
    BY <1>2, <1>3, <1>4, <1>5, <1>6, <1>7, <1>8
    DEF Next, CINext, PollNext, ScanNext, SyncNext, vars, SetCI,
       OpenMR, CreatePipeline, StartPipeline, FinishPipeline, RerunPipeline,
       ReportStore, AddFresh, Crash, ScanListFails, ScanWrite, ScanWriteFails,
       PollStart, PollRead, PollReadFails, PollResolve, PollWrite, PollWriteFails, PollEnd,
       SyncRead, SyncWritePipeline, SyncWriteMR, SyncFails

(* The sync: what it reads is what GitLab says; nothing else touches what  *)
(* it holds.                                                               *)
LEMMA SyncMoves ==
    ASSUME [Next]_vars
    PROVE  \/ SyncRead \/ SyncWritePipeline \/ sync' = SyncIdle \/ UNCHANGED sync
  BY DEF Next, CINext, PollNext, ScanNext, SyncNext, vars, SetCI,
       OpenMR, CreatePipeline, StartPipeline, FinishPipeline, RerunPipeline,
       ReportStore, AddFresh, Crash, SyncWriteMR, SyncFails,
       PollStart, PollRead, PollReadFails, PollResolve, PollWrite, PollWriteFails, PollEnd,
       ScanStart, ScanList, ScanListFails, ScanResolve, ScanWrite, ScanWriteFails, ScanPageDone

LEMMA SyncKeepsAgreeing ==
    ASSUME IInv, [Next]_vars, NEW p \in Pipelines, SyncAgrees(p), ci'[p] = ci[p]
    PROVE  SyncAgrees(p)'
  <1>1. TypeOK
    BY DEF IInv
  <1>2. CASE SyncRead
    BY <1>2 DEF SyncRead, SyncIdle, SyncAgrees
  <1>3. CASE SyncWritePipeline
    BY <1>1, <1>3 DEF SyncWritePipeline, SyncAgrees, TypeOK, SyncRecord
  <1>4. CASE sync' = SyncIdle \/ UNCHANGED sync
    BY <1>4 DEF SyncIdle, SyncAgrees
  <1> QED
    BY <1>2, <1>3, <1>4, SyncMoves

LEMMA UndisputedStep ==
    ASSUME IInv, [Next]_vars, NEW p \in Pipelines, Undisputed(p), ci'[p] = ci[p]
    PROVE  Undisputed(p)'
  <1>1. SyncAgrees(p)'
    BY SyncKeepsAgreeing DEF Undisputed
  <1>2. p \in MRPipelines => mr'.synced
    BY SyncedStays DEF Undisputed
  <1> QED
    BY <1>1, <1>2, RowsAgree, PollKeepsAgreeing, ScanKeepsAgreeing DEF Undisputed

LEMMA RequestUndisputedStep ==
    ASSUME IInv, [Next]_vars, NEW p \in MRPipelines, RequestUndisputed(p), ci' = ci
    PROVE  RequestUndisputed(p)'
  <1> DEFINE stored == [synced |-> TRUE, pipeline |-> p, status |-> ci[p]]
  <1>1. /\ TypeOK /\ p \in Pipelines /\ p # NoPipeline
        /\ LatestMRPipeline = p /\ mr = stored
        /\ sync.pc # "idle" => sync.pipeline = p /\ sync.status = ci[p]
    BY PipelineAssumption DEF IInv, RequestUndisputed
  <1>2. Undisputed(p)' /\ LatestMRPipeline' = p
    BY <1>1, UndisputedStep DEF RequestUndisputed, LatestMRPipeline, Exists
  <1>3. mr' = stored
    <2>1. CASE SyncWriteMR
      BY <1>1, <2>1 DEF SyncWriteMR
    <2>2. CASE UNCHANGED mr
      BY <1>1, <2>2
    <2> QED
      BY <2>1, <2>2 DEF Next, CINext, PollNext, ScanNext, SyncNext, vars, dbVars, SetCI,
       OpenMR, CreatePipeline, StartPipeline, FinishPipeline, RerunPipeline,
       ReportStore, AddFresh, Crash,
       PollStart, PollRead, PollReadFails, PollResolve, PollWrite, PollWriteFails, PollEnd,
       ScanStart, ScanList, ScanListFails, ScanResolve, ScanWrite, ScanWriteFails, ScanPageDone,
       SyncRead, SyncWritePipeline, SyncFails
  <1>4. sync'.pc # "idle" => sync'.pipeline = p /\ sync'.status = ci[p]
    <2>1. CASE SyncRead
      BY <1>1, <2>1 DEF SyncRead
    <2>2. CASE SyncWritePipeline
      BY <1>1, <2>2 DEF SyncWritePipeline, TypeOK, SyncRecord
    <2>3. CASE sync' = SyncIdle \/ UNCHANGED sync
      BY <1>1, <2>3 DEF SyncIdle
    <2> QED
      BY <2>1, <2>2, <2>3, SyncMoves
  <1> QED
    BY <1>2, <1>3, <1>4 DEF RequestUndisputed

(* The safety half of TableConverges and RequestConverges, for any number  *)
(* of pipelines, reports, pages and faults: no write that is begun after   *)
(* a pipeline came to rest takes the tables away from GitLab's answer.     *)
THEOREM ConvergenceIsForGood == Spec => AgreementLasts
  <1> DEFINE Lasts ==
        /\ \A p \in Pipelines : (Undisputed(p) /\ ci'[p] = ci[p]) => Undisputed(p)'
        /\ \A p \in MRPipelines : (RequestUndisputed(p) /\ ci' = ci) => RequestUndisputed(p)'
  <1>1. IInv /\ [Next]_vars => [Lasts]_vars
    BY UndisputedStep, RequestUndisputedStep
  <1> QED
    BY <1>1, Inductive, PTL DEF Spec, AgreementLasts

=============================================================================
