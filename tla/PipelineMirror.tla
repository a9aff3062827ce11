--------------------------- MODULE PipelineMirror ---------------------------
(***************************************************************************)
(* What the database promises about CI, whoever writes it and however the  *)
(* writers overlap or crash: it is a lagging mirror.  A row shows a status *)
(* the pipeline really had, no row is ever lost, and the merge request row *)
(* only names a pipeline that already has a row.                           *)
(***************************************************************************)
CONSTANTS Pipelines, CIStatus, TaskName, NoPipeline

VARIABLES
    ci,    \* status of each pipeline in GitLab
    seen,  \* the statuses it has had there
    rows,  \* the pipelines table
    mr     \* the merge request row

mirrorVars == <<ci, seen, rows, mr>>

Init ==
    /\ ci = [p \in Pipelines |-> "absent"]
    /\ seen = [p \in Pipelines |-> {}]
    /\ rows = [p \in Pipelines |-> [status |-> "absent", task |-> "raw"]]
    /\ mr = [synced |-> FALSE, pipeline |-> NoPipeline, status |-> "absent"]

GitLabMoves(p) ==
    /\ \E status \in CIStatus \ {"absent"} :
         /\ ci' = [ci EXCEPT ![p] = status]
         /\ seen' = [seen EXCEPT ![p] = @ \cup {status}]
    /\ UNCHANGED <<rows, mr>>

StorePipeline(p) ==
    /\ \E status \in seen[p], task \in TaskName :
         rows' = [rows EXCEPT ![p] = [status |-> status, task |-> task]]
    /\ UNCHANGED <<ci, seen, mr>>

StoreRequest ==
    /\ \/ mr' = [synced |-> TRUE, pipeline |-> NoPipeline, status |-> "absent"]
       \/ \E p \in Pipelines : \E status \in seen[p] :
            /\ rows[p].status # "absent"
            /\ mr' = [synced |-> TRUE, pipeline |-> p, status |-> status]
    /\ UNCHANGED <<ci, seen, rows>>

Next ==
    \/ \E p \in Pipelines : GitLabMoves(p) \/ StorePipeline(p)
    \/ StoreRequest

Spec == Init /\ [][Next]_mirrorVars

=============================================================================
