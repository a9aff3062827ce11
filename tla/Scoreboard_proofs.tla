------------------------- MODULE Scoreboard_proofs --------------------------
(***************************************************************************)
(* Proofs about Scoreboard, for any number of students, submissions and    *)
(* requests and any points that never grow with time: what may lower what  *)
(* a student has for a task.  The choices of the scorer (a representative  *)
(* pipeline, request or flag) come to one thing: the earliest of the       *)
(* submissions that win the task: the student's flags, or, without any,    *)
(* the green pipelines or merges.  A step takes that earliest one out of   *)
(* the set only by withdrawing it, or by adding the first flag.            *)
(***************************************************************************)
EXTENDS Scoreboard, ScoringPolicy, CreditScan_proofs, FiniteSetTheorems, WellFoundedInduction

Smaller == {pair \in Nat \X Nat : pair[1] < pair[2]}

LEMMA LeastExists ==
    ASSUME NEW S \in SUBSET Nat, S # {}
    PROVE  \E m \in S : \A n \in S : m <= n
  <1>1. IsWellFoundedOn(Smaller, Nat)
    BY NatLessThanWellFounded DEF OpToRel, Smaller
  <1>2. PICK m \in S : \A n \in S : ~ (<<n, m>> \in Smaller)
    BY <1>1, WFMin
  <1>3. ASSUME NEW n \in S PROVE m <= n
    <2>1. <<n, m>> \in Nat \X Nat /\ <<n, m>> \notin Smaller
      BY <1>2
    <2>2. ~(n < m)
      BY <2>1 DEF Smaller
    <2> QED
      BY <2>2
  <1> QED
    BY <1>3

LEMMA GreatestExists ==
    ASSUME NEW S \in SUBSET Nat, S # {}, NEW n \in Nat, \A t \in S : t <= n
    PROVE  \E m \in S : \A t \in S : t <= m
  <1> DEFINE rest == {n - t : t \in S}
  <1>1. rest \in SUBSET Nat /\ rest # {}
    <2>1. \A t \in S : n - t \in Nat
      OBVIOUS
    <2> QED
      BY <2>1
  <1> HIDE DEF rest
  <1>2. PICK d \in rest : \A e \in rest : d <= e
    BY <1>1, LeastExists
  <1>3. PICK m \in S : d = n - m
    BY <1>2 DEF rest
  <1>4. ASSUME NEW t \in S PROVE t <= m
    <2>1. d <= n - t
      BY <1>2 DEF rest
    <2> QED
      BY <1>3, <2>1
  <1> QED
    BY <1>4

-----------------------------------------------------------------------------
(* Some request represents any visible ones.                               *)
LEMMA RepresentativeExists ==
    ASSUME NEW candidates \in SUBSET Requests, candidates # {},
           \A m \in candidates : table[m] \in Row
    PROVE  \E m \in candidates : Represents(m, table, candidates)
  <1> DEFINE class(m) == classifyMergeRequest(table[m])
             green(m) == isCreditable(table[m])
  <1>0. /\ \A m \in candidates : m \in Nat /\ class(m) \in 0..8 /\ table[m].ciAt \in Nat
                                 /\ green(m) \in BOOLEAN
        /\ Merged = 8
    BY ClassType, CreditAssumption DEF Merged, Requests
  <1>1. ASSUME NEW k \in candidates, NEW m \in candidates
        PROVE  mergeRequestBetter(table[k], table[m]) <=>
                 \/ class(k) > class(m)
                 \/ /\ class(k) = class(m) /\ class(k) = 8 /\ green(k)
                    /\ green(m) => table[k].ciAt < table[m].ciAt
    BY <1>0 DEF mergeRequestBetter
  <1> HIDE DEF class, green
  <1>2. PICK top \in 0..8 : /\ \E m \in candidates : class(m) = top
                            /\ \A m \in candidates : class(m) <= top
    <2> DEFINE classes == {class(m) : m \in candidates}
    <2>1. classes \in SUBSET Nat /\ classes # {} /\ \A n \in classes : n <= 8
      BY <1>0
    <2> HIDE DEF classes
    <2>2. PICK top \in classes : \A n \in classes : n <= top
      BY <2>1, GreatestExists
    <2> QED
      BY <1>0, <2>2 DEF classes
  <1> DEFINE first == {m \in candidates : class(m) = top}
  <1>3. first \in SUBSET Nat /\ first # {}
    BY <1>0, <1>2
  <1>4. ASSUME NEW best0 \in SUBSET first, NEW m \in best0, \A k \in best0 : m <= k,
               \A k \in first : \A l \in best0 :
                   /\ k \notin best0 => mergeRequestBetter(table[l], table[k])
                   /\ ~mergeRequestBetter(table[k], table[l])
        PROVE  Represents(m, table, candidates)
    <2>1. m \in first /\ m \in candidates
      OBVIOUS
    <2>2. ASSUME NEW k \in candidates
          PROVE  /\ k < m => mergeRequestBetter(table[m], table[k])
                 /\ k > m => ~mergeRequestBetter(table[k], table[m])
      <3>1. CASE k \notin first
        <4>1. class(k) < class(m) /\ class(m) = top
          BY <1>0, <1>2, <2>1, <3>1
        <4> QED
          BY <1>0, <1>1, <2>1, <4>1
      <3>2. CASE k \in first
        <4>1. k < m => k \notin best0
          BY <1>0, <1>4
        <4> QED
          BY <1>4, <3>2, <4>1
      <3> QED
        BY <3>1, <3>2
    <2> QED
      BY <2>1, <2>2 DEF Represents
  <1> DEFINE greens == {m \in first : green(m)}
  <1>5. CASE top # 8 \/ greens = {}
    <2>1. PICK m \in first : \A k \in first : m <= k
      BY <1>3, LeastExists
    <2>2. \A k \in first : \A l \in first : ~mergeRequestBetter(table[k], table[l])
      BY <1>0, <1>1, <1>5
    <2> HIDE DEF first
    <2> QED
      BY <1>4, <2>1, <2>2 DEF first
  <1>6. CASE top = 8 /\ greens # {}
    <2> DEFINE times == {table[m].ciAt : m \in greens}
    <2>1. times \in SUBSET Nat /\ times # {}
      BY <1>0, <1>6
    <2> HIDE DEF times
    <2>2. PICK at \in times : \A t \in times : at <= t
      BY <2>1, LeastExists
    <2> DEFINE earliest == {m \in greens : table[m].ciAt = at}
    <2>3. earliest \in SUBSET Nat /\ earliest # {} /\ earliest \in SUBSET first
      BY <1>3, <2>2 DEF times
    <2>4. PICK m \in earliest : \A k \in earliest : m <= k
      BY <2>3, LeastExists
    <2>5. ASSUME NEW k \in first, NEW l \in earliest
          PROVE  /\ k \notin earliest => mergeRequestBetter(table[l], table[k])
                 /\ ~mergeRequestBetter(table[k], table[l])
      <3>1. k \in candidates /\ l \in candidates /\ class(k) = 8 /\ class(l) = 8 /\ green(l)
            /\ table[l].ciAt = at /\ at \in Nat /\ table[k].ciAt \in Nat
        BY <1>0, <1>6, <2>1
      <3>2. green(k) => at <= table[k].ciAt /\ (k \notin earliest => at # table[k].ciAt)
        BY <2>2 DEF times
      <3> QED
        BY <1>1, <3>1, <3>2
    <2> HIDE DEF earliest, first
    <2> QED
      BY <1>4, <2>3, <2>4, <2>5 DEF first
  <1> QED
    BY <1>5, <1>6

-----------------------------------------------------------------------------
(* What is known of every state: tables of the right types, and no rows or *)
(* flags from after the clock.                                             *)
Pipe == [owner: Students \cup {NoStudent}, metric: Nat,
         status: {"absent", "running", "success", "failed"}]

Typed ==
    /\ kind \in Kinds /\ clock \in 0..MaxTime
    /\ pipes \in [Times -> Pipe]
    /\ flags \in [Times -> Students \cup {NoStudent}]
    /\ table \in [Requests -> Row \cup {NoRow}]
    /\ banned \subseteq 1..clock

NothingToCome ==
    \A t \in Times : t > clock => pipes[t] = NoPipe /\ flags[t] = NoStudent

Life == Typed /\ NothingToCome

(* The scorer's loop, which is at its start when it does not run.          *)
ScanHolds ==
    /\ TypeOK /\ KeepsRepresentative /\ scanning \in BOOLEAN
    /\ ~scanning => next = 1 /\ best = 0

LEMMA Basics ==
    /\ MaxTime \in Nat /\ MaxRequests \in Nat /\ Points \in [Times -> Nat]
    /\ Author \in Students /\ NoStudent \notin Students
    /\ BlankRow \in Row /\ NoPipe \in Pipe
    /\ \A row \in Row : row # NoRow
  <1>1. BlankRow \in Row
    BY CreditAssumption DEF BlankRow, Row
  <1>2. NoPipe \in Pipe
    BY BoardAssumption DEF NoPipe, Pipe
  <1>3. \A row \in Row : row.state # "absent"
    BY DEF Row
  <1>4. NoRow.state = "absent"
    BY DEF NoRow
  <1> QED
    BY <1>1, <1>2, <1>3, <1>4, CreditAssumption, BoardAssumption

LEMMA InitLife == BoardInit => Life
  <1> SUFFICES ASSUME BoardInit PROVE Life
    OBVIOUS
  <1>1. /\ kind \in Kinds /\ clock = Since[kind] /\ banned = {}
        /\ pipes = [t \in Times |-> NoPipe] /\ flags = [t \in Times |-> NoStudent]
        /\ table = [m \in Requests |-> NoRow]
    BY DEF BoardInit
  <1>2. clock \in 0..MaxTime
    BY <1>1, BoardAssumption
  <1> QED
    BY <1>1, <1>2, Basics DEF Life, Typed, NothingToCome

LEMMA InitScan == BoardInit => ScanHolds
  <1> SUFFICES ASSUME BoardInit PROVE ScanHolds
    OBVIOUS
  <1>1. /\ rows = [m \in Requests |-> BlankRow] /\ bans = {}
        /\ next = 1 /\ best = 0 /\ reviewed = FALSE /\ scanning = FALSE
    BY DEF BoardInit, ScanIdle
  <1>2. reviewed \in BOOLEAN /\ scanning \in BOOLEAN
    BY <1>1, Zenon
  <1>3. rows \in [Requests -> Row] /\ next \in 1..(MaxRequests + 1) /\ best \in 0..MaxRequests
    BY <1>1, Basics
  <1>4. TypeOK
    BY <1>1, <1>2, <1>3 DEF TypeOK
  <1>5. KeepsRepresentative
    BY <1>1, Basics DEF KeepsRepresentative, Seen, Visible, Requests
  <1> QED
    BY <1>1, <1>2, <1>4, <1>5, Zenon DEF ScanHolds

(* A submission is a new instant.                                          *)
LEMMA PushLife ==
    ASSUME Life, NEW s \in Students, Push(s)
    PROVE  Life'
  <1>1. /\ clock \in 0..MaxTime /\ clock' = clock + 1 /\ clock' \in Times
        /\ UNCHANGED <<kind, flags, table, banned>>
    BY Basics DEF Push, Life, Typed, Times
  <1> DEFINE p == [Running EXCEPT !.owner = s]
  <1>2. p \in Pipe /\ pipes' = [pipes EXCEPT ![clock'] = p]
    BY BoardAssumption DEF Push, Running, Pipe
  <1> HIDE DEF p
  <1>3. /\ pipes' \in [Times -> Pipe]
        /\ \A t \in Times : t # clock' => pipes'[t] = pipes[t]
    BY <1>1, <1>2 DEF Life, Typed
  <1>4. Typed'
    BY <1>1, <1>3 DEF Life, Typed, Times
  <1>5. NothingToCome'
    BY <1>1, <1>3 DEF Life, NothingToCome, Times
  <1> QED
    BY <1>4, <1>5 DEF Life

LEMMA CreateFlagLife ==
    ASSUME Life, CreateFlag
    PROVE  Life'
  <1>1. /\ clock \in 0..MaxTime /\ clock' = clock + 1 /\ clock' \in Times
        /\ UNCHANGED <<kind, pipes, flags, table, banned>>
    BY Basics DEF CreateFlag, Life, Typed, Times
  <1>2. Typed'
    BY <1>1 DEF Life, Typed, Times
  <1>3. NothingToCome'
    BY <1>1 DEF Life, NothingToCome, Times
  <1> QED
    BY <1>2, <1>3 DEF Life

LEMMA SubmitFlagLife ==
    ASSUME Life, NEW s \in Students, NEW t \in Times, SubmitFlag(s, t)
    PROVE  Life'
  <1>1. /\ t <= clock /\ flags' = [flags EXCEPT ![t] = s]
        /\ UNCHANGED <<kind, clock, pipes, table, banned>>
    BY BoardAssumption, Basics DEF SubmitFlag, Life, Typed, Times
  <1>2. flags' \in [Times -> Students \cup {NoStudent}]
        /\ \A u \in Times : u # t => flags'[u] = flags[u]
    BY <1>1 DEF Life, Typed
  <1>3. Typed'
    BY <1>1, <1>2 DEF Life, Typed
  <1>4. NothingToCome'
    BY <1>1, <1>2, Basics DEF Life, Typed, NothingToCome, Times
  <1> QED
    BY <1>3, <1>4 DEF Life

(* What is reported of a pipeline changes its row, which keeps its owner.  *)
PipeReport(t) ==
    /\ pipes[t] # NoPipe
    /\ \E p \in Pipe : p.owner = pipes[t].owner /\ pipes' = [pipes EXCEPT ![t] = p]
    /\ UNCHANGED <<kind, clock, flags, table, banned>>

LEMMA ReportedPipe ==
    ASSUME Life, NEW t \in Times, AddPipeline(t) \/ AddBenchmarkResult(t)
    PROVE  PipeReport(t)
  <1>1. /\ pipes[t] # NoPipe /\ pipes[t] \in Pipe
        /\ UNCHANGED <<kind, clock, flags, table, banned>>
    BY DEF AddPipeline, AddBenchmarkResult, Life, Typed
  <1>2. CASE AddPipeline(t)
    <2>1. PICK status \in {"running", "success", "failed"} :
             pipes' = [pipes EXCEPT ![t].status = status]
      BY <1>2 DEF AddPipeline
    <2> DEFINE p == [pipes[t] EXCEPT !.status = status]
    <2>2. p \in Pipe /\ p.owner = pipes[t].owner /\ pipes' = [pipes EXCEPT ![t] = p]
      BY <1>1, <2>1 DEF Pipe
    <2> HIDE DEF p
    <2> QED
      BY <1>1, <2>2 DEF PipeReport
  <1>3. CASE AddBenchmarkResult(t)
    <2>1. MaxMetric[kind] \in Nat
      BY BoardAssumption DEF Life, Typed
    <2>2. PICK metric \in 1..MaxMetric[kind] : pipes' = [pipes EXCEPT ![t].metric = metric]
      BY <1>3 DEF AddBenchmarkResult
    <2>3. metric \in Nat
      BY <2>1
    <2> DEFINE p == [pipes[t] EXCEPT !.metric = metric]
    <2>4. p \in Pipe /\ p.owner = pipes[t].owner /\ pipes' = [pipes EXCEPT ![t] = p]
      BY <1>1, <2>2, <2>3 DEF Pipe
    <2> HIDE DEF p
    <2> QED
      BY <1>1, <2>4 DEF PipeReport
  <1> QED
    BY <1>2, <1>3

LEMMA PipeReportLife ==
    ASSUME Life, NEW t \in Times, PipeReport(t)
    PROVE  Life'
  <1>1. PICK p \in Pipe : pipes' = [pipes EXCEPT ![t] = p]
    BY DEF PipeReport
  <1>2. /\ pipes' \in [Times -> Pipe]
        /\ \A u \in Times : u # t => pipes'[u] = pipes[u]
    BY <1>1 DEF Life, Typed
  <1> QED
    BY <1>2 DEF PipeReport, Life, Typed, NothingToCome

(* A row of the author's is opened or changed.                             *)
RowWrite(m) ==
    /\ \E row \in Row : table' = [table EXCEPT ![m] = row]
    /\ UNCHANGED <<kind, clock, pipes, flags, banned>>

LEMMA KnownRow ==
    ASSUME Life, NEW m \in Known
    PROVE  m \in Requests /\ table[m] \in Row /\ table[m] # NoRow
  BY DEF Life, Typed, Known

(* Nothing but a sync changes what a row says of its pipeline, and nothing *)
(* takes a request out of its merged state.                                *)
LEMMA RequestWrites ==
    ASSUME Life, NEW m \in Requests, RequestNext(m)
    PROVE  /\ RowWrite(m)
           /\ table[m] # NoRow /\ table[m].state = "merged" => table'[m].state = "merged"
  <1>1. CASE OpenRequest(m)
    BY <1>1, Basics DEF OpenRequest, RowWrite, BlankRow
  <1>2. ASSUME m \in Known, NEW row \in Row, table' = [table EXCEPT ![m] = row],
               UNCHANGED <<kind, clock, pipes, flags, banned>>,
               table[m].state = "merged" => row.state = "merged"
        PROVE  /\ RowWrite(m)
               /\ table[m] # NoRow /\ table[m].state = "merged" => table'[m].state = "merged"
    <2>1. table'[m] = row
      BY <1>2 DEF Life, Typed
    <2> QED
      BY <1>2, <2>1 DEF RowWrite
  <1>3. CASE UpsertMergeRequest(m)
    <2>1. PICK t \in 1..clock, ci \in {"running", "success", "failed"} :
             table' = [table EXCEPT ![m].ci = ci, ![m].ciAt = t]
      BY <1>3 DEF UpsertMergeRequest
    <2>2. m \in Known /\ table[m] \in Row /\ UNCHANGED <<kind, clock, pipes, flags, banned>>
      BY <1>3, KnownRow DEF UpsertMergeRequest
    <2>3. t \in 0..MaxTime
      BY <2>1, Basics DEF Life, Typed
    <2> DEFINE row == [table[m] EXCEPT !.ci = ci, !.ciAt = t]
    <2>4. row \in Row /\ row.state = table[m].state
      BY <2>2, <2>3 DEF Row
    <2>5. table' = [table EXCEPT ![m] = row]
      BY <2>1
    <2> HIDE DEF row
    <2> QED
      BY <1>2, <2>2, <2>4, <2>5
  <1>4. CASE Review(m)
    <2>1. PICK thread \in BOOLEAN :
             table' = [table EXCEPT ![m].noted = TRUE, ![m].thread = thread]
      BY <1>4 DEF Review
    <2>2. m \in Known /\ table[m] \in Row /\ UNCHANGED <<kind, clock, pipes, flags, banned>>
      BY <1>4, KnownRow DEF Review
    <2> DEFINE row == [table[m] EXCEPT !.noted = TRUE, !.thread = thread]
    <2>3. row \in Row /\ row.state = table[m].state
      BY <2>2 DEF Row
    <2>4. table' = [table EXCEPT ![m] = row]
      BY <2>1
    <2> HIDE DEF row
    <2> QED
      BY <1>2, <2>2, <2>3, <2>4
  <1>5. ASSUME NEW state \in {"opened", "merged", "closed"}, m \in Known,
               table[m].state # "merged",
               table' = [table EXCEPT ![m].state = state],
               UNCHANGED <<kind, clock, pipes, flags, banned>>
        PROVE  /\ RowWrite(m)
               /\ table[m] # NoRow /\ table[m].state = "merged" => table'[m].state = "merged"
    <2> DEFINE row == [table[m] EXCEPT !.state = state]
    <2>1. row \in Row
      BY <1>5, KnownRow DEF Row
    <2>2. table' = [table EXCEPT ![m] = row]
      BY <1>5
    <2> HIDE DEF row
    <2> QED
      BY <1>2, <1>5, <2>1, <2>2
  <1>6. CASE MergeRequest(m) \/ CloseRequest(m) \/ ReopenRequest(m)
    BY <1>5, <1>6 DEF MergeRequest, CloseRequest, ReopenRequest, InState
  <1> QED
    BY <1>1, <1>3, <1>4, <1>6 DEF RequestNext

LEMMA RowWriteLife ==
    ASSUME Life, NEW m \in Requests, RowWrite(m)
    PROVE  Life'
  <1>1. table' \in [Requests -> Row \cup {NoRow}]
    BY DEF RowWrite, Life, Typed
  <1> QED
    BY <1>1 DEF RowWrite, Life, Typed, NothingToCome

LEMMA ModeratorLife ==
    ASSUME Life, NEW t \in Times, BanSubmission(t) \/ UnbanSubmission(t)
    PROVE  Life'
  <1>1. UNCHANGED <<kind, clock, pipes, flags, table>>
    BY DEF BanSubmission, UnbanSubmission
  <1>2. banned' \subseteq 1..clock
    <2>1. CASE BanSubmission(t)
      <3>1. t \in 1..clock
        BY <2>1, Basics DEF BanSubmission, Life, Typed, NothingToCome, Times
      <3> QED
        BY <2>1, <3>1 DEF BanSubmission, Life, Typed
    <2>2. CASE UnbanSubmission(t)
      BY <2>2 DEF UnbanSubmission, Life, Typed
    <2> QED
      BY <2>1, <2>2
  <1>3. Typed'
    BY <1>1, <1>2 DEF Life, Typed
  <1>4. NothingToCome'
    BY <1>1 DEF Life, NothingToCome
  <1> QED
    BY <1>3, <1>4 DEF Life

LEMMA ScanningLife ==
    ASSUME Life, UNCHANGED <<kind, clock, pipes, flags, table, banned>>
    PROVE  Life'
  BY DEF Life, Typed, NothingToCome

LEMMA NextLife == Life /\ [BoardNext]_boardVars => Life'
  <1> SUFFICES ASSUME Life, [BoardNext]_boardVars PROVE Life'
    OBVIOUS
  <1>1. CASE History
    BY <1>1, PushLife, ReportedPipe, PipeReportLife, CreateFlagLife, SubmitFlagLife,
       RequestWrites, RowWriteLife, ModeratorLife DEF History
  <1>2. CASE StartScan \/ ScanStep \/ EndScan \/ UNCHANGED boardVars
    BY <1>2, ScanningLife DEF StartScan, ScanStep, EndScan, boardVars
  <1> QED
    BY <1>1, <1>2 DEF BoardNext

LEMMA NextScan == Life /\ ScanHolds /\ [BoardNext]_boardVars => ScanHolds'
  <1> SUFFICES ASSUME Life, ScanHolds, [BoardNext]_boardVars PROVE ScanHolds'
    OBVIOUS
  <1>1. CASE UNCHANGED scanVars
    BY <1>1 DEF ScanHolds, scanVars, TypeOK, KeepsRepresentative, Seen, Visible, Hidden
  <1>2. CASE ~scanning /\ StartScan
    <2>1. /\ rows' = table /\ bans' = banned /\ scanning' = TRUE
          /\ Known = Requests /\ UNCHANGED <<next, best, reviewed>>
          /\ next = 1 /\ best = 0
      BY <1>2 DEF StartScan, ScanHolds
    <2>2. \A m \in Requests : table[m] \in Row
      BY <2>1, KnownRow
    <2>3. rows' \in [Requests -> Row] /\ bans' \subseteq Times
      BY <2>1, <2>2, Basics DEF Life, Typed, Times
    <2>4. TypeOK'
      BY <2>1, <2>3 DEF ScanHolds, TypeOK
    <2>5. Seen' = {}
      BY <2>1, Basics DEF Seen, Visible, Requests
    <2>6. KeepsRepresentative'
      BY <2>1, <2>5 DEF KeepsRepresentative
    <2> QED
      BY <2>1, <2>4, <2>6 DEF ScanHolds
  <1>3. CASE scanning /\ ScanStep
    <2>1. Next /\ scanning' = scanning
      BY <1>3 DEF ScanStep, Next
    <2>2. TypeOK'
      BY <2>1, TypeStep DEF ScanHolds
    <2>3. KeepsRepresentative'
      BY <2>1, RepresentativeStep DEF ScanHolds
    <2> QED
      BY <1>3, <2>1, <2>2, <2>3 DEF ScanHolds
  <1>4. CASE scanning /\ EndScan
    <2>1. /\ rows' = [m \in Requests |-> BlankRow] /\ bans' = {}
          /\ next' = 1 /\ best' = 0 /\ reviewed' = FALSE /\ scanning' = FALSE
      BY <1>4 DEF EndScan
    <2>2. reviewed' \in BOOLEAN /\ scanning' \in BOOLEAN
      BY <2>1, Zenon
    <2>3. rows' \in [Requests -> Row] /\ next' \in 1..(MaxRequests + 1) /\ best' \in 0..MaxRequests
      BY <2>1, Basics
    <2>4. TypeOK'
      BY <2>1, <2>2, <2>3 DEF TypeOK
    <2>5. Seen' = {}
      BY <2>1, Basics DEF Seen, Visible, Requests
    <2>6. KeepsRepresentative'
      BY <2>1, <2>5 DEF KeepsRepresentative
    <2> QED
      BY <2>1, <2>2, <2>4, <2>6, Zenon DEF ScanHolds
  <1>5. CASE History
    BY <1>1, <1>5 DEF History, Push, AddPipeline, AddBenchmarkResult, CreateFlag, SubmitFlag,
       RequestNext, OpenRequest, UpsertMergeRequest, Review, MergeRequest, CloseRequest,
       ReopenRequest, BanSubmission, UnbanSubmission
  <1>6. CASE UNCHANGED boardVars
    BY <1>1, <1>6 DEF boardVars
  <1> QED
    BY <1>2, <1>3, <1>4, <1>5, <1>6 DEF BoardNext

LEMMA BoardInductive == BoardSpec => [](Life /\ ScanHolds)
  BY InitLife, InitScan, NextLife, NextScan, PTL DEF BoardSpec

(* Every state has the declared types, whatever the bounds.                *)
THEOREM BoardTypeCorrect == BoardSpec => []BoardTypeOK
  <1>1. Life /\ ScanHolds => BoardTypeOK
    BY DEF Life, Typed, ScanHolds, BoardTypeOK, Pipe
  <1> QED
    BY <1>1, BoardInductive, PTL

(* A computation among everything else keeps the representative request.   *)
THEOREM ComputationKeepsRepresentative == BoardSpec => []KeepsRepresentative
  BY BoardInductive, PTL DEF ScanHolds

(* So the earliest green merge wins in every computation.                  *)
THEOREM ComputationCreditsEarliest == BoardSpec => []EarliestGreenWins
  BY KeptIsEarliest, BoardInductive, PTL DEF ScanHolds

-----------------------------------------------------------------------------
(* The instants at which a student did what wins the task; the score is    *)
(* what the policy gives for the earliest.                                 *)
Passes(s) == {t \in PipelinesOf(s) : pipes[t].status = "success"}

GreenMerges == {m \in VisibleRequests : table[m].state = "merged" /\ isCreditable(table[m])}

Winning(s) ==
    IF FlagsOf(s) # {} THEN FlagsOf(s)
    ELSE IF kind = "pipelines" THEN Passes(s)
    ELSE IF kind = "mergeRequests" /\ s = Author THEN {table[m].ciAt : m \in GreenMerges}
    ELSE {}

Scored(s) ==
    /\ Winning(s) \subseteq Times
    /\ Winning(s) = {} => Submission(s).status # "success" /\ Submission(s).score = 0
    /\ Winning(s) # {} =>
         \E at \in Winning(s) :
            /\ \A t \in Winning(s) : at <= t
            /\ Submission(s).status = "success" /\ Submission(s).score = Points[at]
            /\ Submission(s).at = at

LEMMA NothingScored == Nothing.status # "success" /\ Nothing.score = 0
  BY DEF Nothing

LEMMA FlagScored ==
    ASSUME Life, NEW s \in Students, FlagsOf(s) # {}
    PROVE  Scored(s)
  <1>1. Winning(s) = FlagsOf(s) /\ FlagsOf(s) \subseteq Times
    BY Basics DEF Winning, FlagsOf, Life, Typed, Times
  <1>2. \E t \in FlagsOf(s) : \A u \in FlagsOf(s) : t <= u
    BY <1>1, LeastExists DEF Times
  <1>3. EarliestFlag(s) \in FlagsOf(s) /\ \A u \in FlagsOf(s) : EarliestFlag(s) <= u
    BY <1>2 DEF EarliestFlag
  <1>4. /\ Submission(s).status = "success" /\ Submission(s).score = Points[EarliestFlag(s)]
        /\ Submission(s).at = EarliestFlag(s)
    BY DEF Submission
  <1> QED
    BY <1>1, <1>3, <1>4 DEF Scored

(* Where only flags count, a student without any has nothing.              *)
LEMMA CrashmeScored ==
    ASSUME kind = "crashme", NEW s \in Students, FlagsOf(s) = {}
    PROVE  Scored(s)
  BY NothingScored DEF Submission, Winning, Scored

(* Some pipeline represents any there are.                                 *)
LEMMA RepresentativePipelineExists ==
    ASSUME Life, NEW s \in Students, PipelinesOf(s) # {}
    PROVE  \E p \in PipelinesOf(s) : \A q \in PipelinesOf(s) : ~pipelineLess(q, p)
  <1> DEFINE class(t) == classifyPipelineStatus(pipes[t].status)
  <1>1. PipelinesOf(s) \subseteq Times
    BY Basics DEF PipelinesOf, Life, Typed, Times
  <1>2. \A t \in Times : class(t) \in 2..4
    BY DEF classifyPipelineStatus, Failed, Checking, Success
  <1>3. ASSUME NEW p \in Times, NEW q \in Times
        PROVE  pipelineLess(p, q) <=>
                 class(p) > class(q) \/ (class(p) = class(q) /\ IF class(p) = 4 THEN p < q ELSE p > q)
    BY DEF pipelineLess, Success
  <1> HIDE DEF class
  <1> DEFINE classes == {class(t) : t \in PipelinesOf(s)}
  <1>4. classes \in SUBSET Nat /\ classes # {} /\ \A c \in classes : c <= 4
    BY <1>1, <1>2
  <1> HIDE DEF classes
  <1>5. PICK top \in classes : \A c \in classes : c <= top
    BY <1>4, GreatestExists
  <1> DEFINE first == {t \in PipelinesOf(s) : class(t) = top}
  <1>6. first \in SUBSET Nat /\ first # {} /\ \A t \in first : t <= MaxTime
    BY <1>1, <1>5, Basics DEF classes, Times
  <1>7. \A q \in PipelinesOf(s) : class(q) <= top
    BY <1>5 DEF classes
  <1>8. CASE top = 4
    <2> HIDE DEF first
    <2>1. PICK p \in first : \A q \in first : p <= q
      BY <1>6, LeastExists
    <2>2. p \in PipelinesOf(s) /\ class(p) = top
      BY DEF first
    <2>3. ASSUME NEW q \in PipelinesOf(s) PROVE ~pipelineLess(q, p)
      <3>1. class(q) <= top /\ (class(q) = top => p <= q)
        BY <1>7, <2>1 DEF first
      <3>2. q \in Times /\ p \in Times /\ class(q) \in 2..4 /\ class(p) \in 2..4
        BY <1>1, <1>2, <2>2
      <3> QED
        BY <1>3, <1>8, <2>2, <3>1, <3>2 DEF Times
    <2> QED
      BY <2>2, <2>3
  <1>9. CASE top # 4
    <2> HIDE DEF first
    <2>1. PICK p \in first : \A q \in first : q <= p
      BY <1>6, GreatestExists, Basics
    <2>2. p \in PipelinesOf(s) /\ class(p) = top
      BY DEF first
    <2>3. ASSUME NEW q \in PipelinesOf(s) PROVE ~pipelineLess(q, p)
      <3>1. class(q) <= top /\ (class(q) = top => q <= p)
        BY <1>7, <2>1 DEF first
      <3>2. q \in Times /\ p \in Times /\ class(q) \in 2..4 /\ class(p) \in 2..4
        BY <1>1, <1>2, <2>2
      <3> QED
        BY <1>3, <1>9, <2>2, <3>1, <3>2 DEF Times
    <2> QED
      BY <2>2, <2>3
  <1> QED
    BY <1>8, <1>9

(* The class of the representative pipeline is the best there is.          *)
LEMMA PipelineScored ==
    ASSUME Life, kind = "pipelines", NEW s \in Students, FlagsOf(s) = {}
    PROVE  Scored(s)
  <1> DEFINE class(t) == classifyPipelineStatus(pipes[t].status)
  <1>1. /\ Winning(s) = Passes(s) /\ Passes(s) \subseteq PipelinesOf(s)
        /\ PipelinesOf(s) \subseteq Times
    BY Basics DEF Winning, Passes, PipelinesOf, Life, Typed, Times
  <1>2. \A t \in Times : class(t) \in 2..4 /\ (class(t) = 4 <=> pipes[t].status = "success")
    BY DEF classifyPipelineStatus, Failed, Checking, Success
  <1>3. ASSUME NEW p \in Times, NEW q \in Times
        PROVE  pipelineLess(p, q) <=>
                 class(p) > class(q) \/ (class(p) = class(q) /\ IF class(p) = 4 THEN p < q ELSE p > q)
    BY DEF pipelineLess, Success
  <1>4. CASE PipelinesOf(s) = {}
    <2>1. Submission(s) = Nothing
      BY <1>1, <1>4 DEF Submission
    <2> QED
      BY <1>1, <1>4, <2>1, NothingScored DEF Scored
  <1>5. CASE PipelinesOf(s) # {}
    <2> DEFINE r == RepresentativePipeline(s)
    <2>1. \E p \in PipelinesOf(s) : \A q \in PipelinesOf(s) : ~pipelineLess(q, p)
      BY <1>5, RepresentativePipelineExists
    <2>2. r \in PipelinesOf(s) /\ \A q \in PipelinesOf(s) : ~pipelineLess(q, r)
      BY <2>1 DEF RepresentativePipeline
    <2>3. /\ Submission(s).status = pipes[r].status /\ Submission(s).at = r
          /\ Submission(s).score = IF pipes[r].status = "success" THEN Points[r] ELSE 0
      BY <1>1, <1>5 DEF Submission
    <2> HIDE DEF r, class
    <2>4. ASSUME NEW t \in Passes(s)
          PROVE  pipes[r].status = "success" /\ r <= t
      <3>1. t \in PipelinesOf(s) /\ class(t) = 4 /\ t \in Times /\ r \in Times
        BY <1>1, <1>2, <2>2 DEF Passes
      <3>2. class(r) \in 2..4 /\ ~pipelineLess(t, r)
        BY <1>2, <2>2, <3>1
      <3>3. class(r) = 4 /\ ~(t < r)
        BY <1>3, <3>1, <3>2
      <3> QED
        BY <1>2, <3>1, <3>3 DEF Times
    <2>5. pipes[r].status = "success" <=> r \in Passes(s)
      BY <2>2 DEF Passes
    <2> QED
      BY <1>1, <2>3, <2>4, <2>5 DEF Scored
  <1> QED
    BY <1>4, <1>5

LEMMA RequestScored ==
    ASSUME Life, kind = "mergeRequests", NEW s \in Students, FlagsOf(s) = {}
    PROVE  /\ Scored(s)
           /\ Submission(s).status = "success" =>
                /\ s = Author /\ Representative \in GreenMerges
                /\ Submission(s).at = table[Representative].ciAt
  <1>1. FlagsOf(s) = {}
    OBVIOUS
  <1>2. /\ VisibleRequests \in SUBSET Requests /\ GreenMerges \subseteq VisibleRequests
        /\ \A m \in VisibleRequests : table[m] \in Row
    BY KnownRow DEF VisibleRequests, GreenMerges, Known
  <1>3. Winning(s) = IF s = Author THEN {table[m].ciAt : m \in GreenMerges} ELSE {}
    BY <1>1 DEF Winning
  <1>4. CASE s # Author \/ VisibleRequests = {}
    <2>1. Submission(s) = Nothing /\ Winning(s) = {}
      BY <1>1, <1>2, <1>3, <1>4 DEF Submission
    <2> QED
      BY <2>1, NothingScored DEF Scored
  <1>5. CASE s = Author /\ VisibleRequests # {}
    <2> DEFINE r == Representative
               row == table[r]
    <2>1. r \in VisibleRequests /\ Represents(r, table, VisibleRequests)
      BY <1>2, <1>5, RepresentativeExists DEF Representative, Represents
    <2>0. r = Representative
      OBVIOUS
    <2>2. Submission(s) = [status |-> RowStatus(row), score |-> RowScore(row), at |-> row.ciAt]
      BY <1>1, <1>5 DEF Submission
    <2> HIDE DEF r
    <2>3. row \in Row /\ r \in Requests
      BY <1>2, <2>1
    <2>4. RowStatus(row) = "success" <=> r \in GreenMerges
      BY <2>1, <2>3, ClassType DEF RowStatus, GreenMerges, PipelineFailed, HasExtraChanges,
         NoChanges, CantBeMerged, OnReview, ReviewResolved, Merged
    <2>5. RowScore(row) = IF r \in GreenMerges THEN Points[row.ciAt] ELSE 0
      BY <2>1 DEF RowScore, GreenMerges
    <2>6. ASSUME NEW m \in GreenMerges
          PROVE  r \in GreenMerges /\ row.ciAt <= table[m].ciAt
      <3>1. m \in VisibleRequests /\ m \in Requests /\ table[m] \in Row /\ table[m].state = "merged"
            /\ isCreditable(table[m])
        BY <1>2 DEF GreenMerges
      <3>2. r = m \/ mergeRequestBetter(row, table[m]) \/ ~mergeRequestBetter(table[m], row)
        BY <2>1, <2>3, <3>1, CreditAssumption DEF Represents, Requests
      <3>3. row.state = "merged" /\ isCreditable(row) /\ row.ciAt <= table[m].ciAt
        BY <2>3, <3>1, <3>2, ClassType DEF mergeRequestBetter, Merged
      <3> QED
        BY <2>1, <3>3 DEF GreenMerges
    <2>7. \A m \in GreenMerges : table[m].ciAt \in Times
      BY <1>2, Basics DEF GreenMerges, isCreditable, Row, Times
    <2> HIDE DEF row
    <2>8. /\ Submission(s).status = RowStatus(row) /\ Submission(s).score = RowScore(row)
          /\ Submission(s).at = row.ciAt
      BY <2>2
    <2>9. ASSUME GreenMerges = {} PROVE Scored(s)
      <3>1. Winning(s) = {}
        BY <1>3, <2>9
      <3> QED
        BY <2>4, <2>5, <2>8, <2>9, <3>1 DEF Scored
    <2>10. ASSUME GreenMerges # {} PROVE Scored(s)
      <3>1. r \in GreenMerges
        BY <2>6, <2>10
      <3>2. row.ciAt \in Winning(s) /\ Winning(s) \subseteq Times /\ \A t \in Winning(s) : row.ciAt <= t
        BY <1>3, <1>5, <2>6, <2>7, <3>1 DEF row
      <3> QED
        BY <2>4, <2>5, <2>8, <3>1, <3>2 DEF Scored
    <2>11. Submission(s).status = "success" =>
             Representative \in GreenMerges /\ Submission(s).at = table[Representative].ciAt
      BY <2>0, <2>4, <2>8 DEF row
    <2> QED
      BY <1>5, <2>9, <2>10, <2>11
  <1> QED
    BY <1>4, <1>5

LEMMA EverybodyScored == Life => \A s \in Students : Scored(s)
  BY FlagScored, CrashmeScored, PipelineScored, RequestScored, BoardAssumption DEF Life, Typed

-----------------------------------------------------------------------------
(* A step takes back no flag and no merge, and a pipeline keeps its owner. *)
TakesNothingBack ==
    /\ kind' = kind /\ clock <= clock'
    /\ \A t \in Times : flags[t] # NoStudent => flags'[t] = flags[t]
    /\ \A t \in Times : pipes[t] # NoPipe => pipes'[t].owner = pipes[t].owner
    /\ \A m \in InState("merged") : table'[m].state = "merged"

LEMMA StepKeeps ==
    ASSUME Life, [BoardNext]_boardVars
    PROVE  TakesNothingBack
  <1>0. /\ clock \in Nat /\ InState("merged") \subseteq Known
        /\ pipes \in [Times -> Pipe] /\ table \in [Requests -> Row \cup {NoRow}]
    BY Basics DEF Life, Typed, InState
  <1>1. ASSUME UNCHANGED table PROVE \A m \in InState("merged") : table'[m].state = "merged"
    BY <1>1 DEF InState
  <1>2. ASSUME NEW s \in Students, Push(s) PROVE TakesNothingBack
    <2>1. clock' = clock + 1 /\ UNCHANGED <<kind, flags, table, banned>>
      BY <1>2 DEF Push
    <2>2. \A t \in Times : pipes[t] # NoPipe => pipes'[t] = pipes[t]
      <3>1. \A t \in Times : t # clock' => pipes'[t] = pipes[t]
        BY <1>0, <1>2 DEF Push
      <3>2. \A t \in Times : t = clock' => pipes[t] = NoPipe
        BY <1>0, <2>1 DEF Life, NothingToCome
      <3> QED
        BY <3>1, <3>2
    <2> QED
      BY <1>0, <1>1, <2>1, <2>2 DEF TakesNothingBack
  <1>3. ASSUME NEW t \in Times, PipeReport(t) PROVE TakesNothingBack
    <2>1. \A u \in Times : pipes'[u].owner = pipes[u].owner
      BY <1>0, <1>3 DEF PipeReport
    <2> QED
      BY <1>0, <1>1, <1>3, <2>1 DEF PipeReport, TakesNothingBack
  <1>4. ASSUME NEW s \in Students, NEW t \in Times, SubmitFlag(s, t) PROVE TakesNothingBack
    <2>1. \A u \in Times : flags[u] # NoStudent => flags'[u] = flags[u]
      BY <1>4 DEF SubmitFlag, Life, Typed
    <2> QED
      BY <1>0, <1>1, <1>4, <2>1 DEF SubmitFlag, TakesNothingBack
  <1>5. ASSUME NEW m \in Requests, RequestNext(m) PROVE TakesNothingBack
    <2>1. PICK row \in Row : table' = [table EXCEPT ![m] = row]
      BY <1>5, RequestWrites DEF RowWrite
    <2>2. UNCHANGED <<kind, clock, pipes, flags, banned>>
      BY <1>5, RequestWrites DEF RowWrite
    <2>3. ASSUME NEW k \in InState("merged") PROVE table'[k].state = "merged"
      <3>1. k \in Requests /\ table[k] # NoRow /\ table[k].state = "merged"
        BY DEF InState, Known
      <3>2. CASE k = m
        BY <1>5, <3>1, <3>2, RequestWrites
      <3>3. CASE k # m
        BY <1>0, <2>1, <3>1, <3>3
      <3> QED
        BY <3>2, <3>3
    <2> QED
      BY <1>0, <2>2, <2>3 DEF TakesNothingBack
  <1>6. CASE UNCHANGED <<kind, clock, pipes, flags, table>>
    BY <1>0, <1>1, <1>6 DEF TakesNothingBack
  <1>7. CASE CreateFlag
    BY <1>0, <1>1, <1>7 DEF CreateFlag, TakesNothingBack
  <1>8. CASE History
    <2>1. ASSUME NEW t \in Times, BanSubmission(t) \/ UnbanSubmission(t) PROVE TakesNothingBack
      BY <1>6, <2>1 DEF BanSubmission, UnbanSubmission
    <2> QED
      BY <1>2, <1>3, <1>4, <1>5, <1>7, <1>8, <2>1, ReportedPipe DEF History
  <1>9. CASE StartScan \/ ScanStep \/ EndScan \/ UNCHANGED boardVars
    BY <1>6, <1>9 DEF StartScan, ScanStep, EndScan, boardVars
  <1> QED
    BY <1>8, <1>9 DEF BoardNext

(* What scores the task goes on winning unless it is withdrawn or the      *)
(* first flag comes.                                                       *)
LEMMA WinningStays ==
    ASSUME Life, Life', TakesNothingBack, NEW s \in Students, Scored(s), Winning(s) # {},
           ~Withdrawn(s), FlagsOf(s) # {} \/ FlagsOf(s)' = {}
    PROVE  Submission(s).at \in Winning(s)'
  <1> DEFINE at == Submission(s).at
  <1>0. /\ kind' = kind /\ clock <= clock' /\ clock \in 0..MaxTime /\ clock' \in 0..MaxTime
        /\ 1..clock \subseteq Times
    BY Basics DEF TakesNothingBack, Life, Typed, Times
  <1>1. at \in Winning(s) /\ Submission(s).status = "success"
    BY DEF Scored
  <1>2. CASE FlagsOf(s) # {}
    <2> HIDE DEF at
    <2>1. at \in 1..clock /\ flags[at] = s /\ s # NoStudent
      BY <1>1, <1>2, Basics DEF Winning, FlagsOf
    <2>2. at \in 1..clock' /\ flags'[at] = s
      BY <1>0, <2>1 DEF TakesNothingBack
    <2>3. at \in FlagsOf(s)'
      BY <2>2 DEF FlagsOf
    <2>4. at \in Winning(s)'
      BY <2>3 DEF Winning
    <2> QED
      BY <2>4 DEF at
  <1>3. ASSUME FlagsOf(s) = {}, kind = "pipelines"
        PROVE  at \in Winning(s)'
    <2>1. at \notin banned' \ banned /\ pipes'[at].status = "success"
      BY <1>3 DEF Withdrawn
    <2> HIDE DEF at
    <2>2. at \in 1..clock /\ pipes[at].owner = s /\ at \notin banned
      BY <1>1, <1>3 DEF Winning, Passes, PipelinesOf
    <2>3. pipes[at] # NoPipe
      BY <2>2, Basics DEF NoPipe
    <2>4. at \in 1..clock' /\ pipes'[at].owner = s
      BY <1>0, <2>2, <2>3 DEF TakesNothingBack
    <2>5. at \in Passes(s)'
      BY <2>1, <2>2, <2>4 DEF Passes, PipelinesOf
    <2> QED
      BY <1>0, <1>3, <2>5 DEF Winning
  <1>4. ASSUME FlagsOf(s) = {}, kind = "mergeRequests"
        PROVE  at \in Winning(s)'
    <2> DEFINE m == Representative
    <2>1. s = Author /\ m \in GreenMerges /\ at = table[m].ciAt
      BY <1>1, <1>4, RequestScored
    <2>2. at \notin banned' \ banned /\ table'[m].ciAt = at /\ table'[m].ci = "success"
      BY <1>4 DEF Withdrawn
    <2> HIDE DEF at, m
    <2>3. /\ m \in Known /\ m \in Requests /\ m \in InState("merged")
          /\ at \notin banned /\ at # 0
      BY <2>1, KnownRow DEF GreenMerges, VisibleRequests, InState, isCreditable
    <2>4. table'[m].state = "merged"
      BY <2>3 DEF TakesNothingBack
    <2>5. table'[m] # NoRow
      BY <2>4 DEF NoRow
    <2>6. m \in GreenMerges'
      BY <2>2, <2>3, <2>4, <2>5 DEF GreenMerges, VisibleRequests, Known, isCreditable
    <2>7. at \in {table'[k].ciAt : k \in GreenMerges'}
      BY <2>2, <2>6
    <2> QED
      BY <1>0, <1>4, <2>1, <2>7 DEF Winning
  <1>5. kind \in {"pipelines", "mergeRequests"} \/ FlagsOf(s) # {}
    <2>1. CASE FlagsOf(s) = {}
      BY <1>1, <2>1 DEF Winning
    <2> QED
      BY <2>1
  <1> QED
    BY <1>2, <1>3, <1>4, <1>5

(* What lowers a score or undoes a task must withdraw the submission that  *)
(* scores it, or put a later flag in its place.                            *)
LEMMA StepLowers ==
    ASSUME Life, Life', \A s \in Students : Scored(s), (\A s \in Students : Scored(s))',
           [BoardNext]_boardVars,
           NEW s \in Students, Submission(s).status = "success", ~Withdrawn(s)
    PROVE  /\ Submission(s)'.status = "success"
           /\ Submission(s)'.score < Submission(s).score => LateFlag(s)
  <1>1. Scored(s) /\ Scored(s)' /\ TakesNothingBack
    BY StepKeeps
  <1>2. Winning(s) # {} /\ Winning(s) \subseteq Times /\ Winning(s)' \subseteq Times
    BY <1>1 DEF Scored
  <1>3. /\ Submission(s).at \in Times
        /\ Submission(s).score = Points[Submission(s).at]
    BY <1>1, <1>2 DEF Scored
  <1> DEFINE at == Submission(s).at
  <1>4. ASSUME NEW t \in Winning(s)'
        PROVE  /\ Submission(s)'.status = "success"
               /\ t <= at => ~(Submission(s)'.score < Submission(s).score)
    <2> HIDE DEF at
    <2>1. PICK at2 \in Winning(s)' :
            /\ \A u \in Winning(s)' : at2 <= u
            /\ Submission(s)'.status = "success" /\ Submission(s)'.score = Points[at2]
      BY <1>1 DEF Scored
    <2>2. at2 \in Times /\ t \in Times /\ at2 <= t /\ at \in Times
      BY <1>2, <1>3, <2>1 DEF at
    <2>3. Points[at2] \in Nat /\ Points[at] \in Nat /\ (at2 <= at => Points[at] <= Points[at2])
      BY <2>2, CreditAssumption
    <2>4. t <= at => at2 <= at
      BY <2>2, CreditAssumption DEF Times
    <2> QED
      BY <1>3, <2>1, <2>3, <2>4 DEF at
  <1>5. CASE FlagsOf(s) # {} \/ FlagsOf(s)' = {}
    <2>1. at \in Winning(s)'
      BY <1>1, <1>2, <1>5, WinningStays
    <2>2. at <= at
      BY <1>3, CreditAssumption DEF Times
    <2> HIDE DEF at
    <2> QED
      BY <1>4, <2>1, <2>2
  <1>6. CASE FlagsOf(s) = {} /\ FlagsOf(s)' # {}
    <2>1. PICK t : t \in FlagsOf(s)'
      BY <1>6
    <2>2. t \in Winning(s)' /\ t \in Times /\ flags'[t] = s
      BY <1>2, <1>6, <2>1 DEF Winning, FlagsOf
    <2>3. t > at => LateFlag(s)
      BY <1>6, <2>2 DEF LateFlag
    <2>4. t > at \/ t <= at
      BY <1>3, <2>2, CreditAssumption DEF Times
    <2> HIDE DEF at
    <2> QED
      BY <1>4, <2>2, <2>3, <2>4
  <1> QED
    BY <1>5, <1>6

LEMMA AlwaysScored == BoardSpec => [](Life /\ \A s \in Students : Scored(s))
  BY EverybodyScored, BoardInductive, PTL

(* The documented promise, for any students, submissions, requests and     *)
(* points: a score falls only with the submission that gave it, or with a  *)
(* later flag.                                                             *)
THEOREM LossesHaveACause == BoardSpec => OnlyWithdrawalLowers
  <1>1. ASSUME NEW s \in Students, Scored(s), Submission(s).score > 0
        PROVE  Submission(s).status = "success"
    BY <1>1 DEF Scored
  <1>2. /\ Life /\ \A s \in Students : Scored(s)
        /\ (Life /\ \A s \in Students : Scored(s))'
        /\ [BoardNext]_boardVars
        => [\A s \in Students :
              Submission(s).score > 0 /\ Submission(s)'.score < Submission(s).score
                 => Withdrawn(s) \/ LateFlag(s)]_boardVars
    BY <1>1, StepLowers
  <1> QED
    BY <1>2, AlwaysScored, PTL DEF BoardSpec, OnlyWithdrawalLowers

(* And a task that is done stays done, flagged or not, while what did it   *)
(* is not withdrawn.                                                       *)
THEOREM DoneStays == BoardSpec => DoneStaysDone
  <1>1. /\ Life /\ \A s \in Students : Scored(s)
        /\ (Life /\ \A s \in Students : Scored(s))'
        /\ [BoardNext]_boardVars
        => [\A s \in Students :
              Submission(s).status = "success" /\ Submission(s)'.status # "success"
                 => Withdrawn(s)]_boardVars
    BY StepLowers
  <1> QED
    BY <1>1, AlwaysScored, PTL DEF BoardSpec, DoneStaysDone

-----------------------------------------------------------------------------
(* A step changes one pipeline at most, which keeps its owner; and when it *)
(* does, nothing else that another student is scored by.                   *)
PipeChanges(t) ==
    /\ UNCHANGED <<kind, flags, banned, table>> /\ t <= clock'
    /\ \A u \in Times : u # t => pipes'[u] = pipes[u] /\ (u <= clock' <=> u <= clock)
    /\ pipes[t] = NoPipe \/ pipes'[t].owner = pipes[t].owner

LEMMA StepPipe ==
    ASSUME Life, [BoardNext]_boardVars, NEW t \in Times, pipes'[t] # pipes[t]
    PROVE  PipeChanges(t)
  <1>0. clock \in 0..MaxTime /\ MaxTime \in Nat /\ pipes \in [Times -> Pipe] /\ t \in Nat
    BY Basics DEF Life, Typed, Times
  <1>1. ASSUME NEW s \in Students, Push(s) PROVE PipeChanges(t)
    <2>1. /\ clock' = clock + 1 /\ clock < MaxTime /\ UNCHANGED <<kind, flags, banned, table>>
          /\ pipes' = [pipes EXCEPT ![clock'] = [Running EXCEPT !.owner = s]]
      BY <1>1 DEF Push
    <2>2. t = clock'
      BY <1>0, <2>1
    <2>3. pipes[t] = NoPipe
      BY <1>0, <2>1, <2>2 DEF Life, NothingToCome
    <2>4. \A u \in Times : u # t => pipes'[u] = pipes[u]
      BY <1>0, <2>1, <2>2
    <2>5. \A u \in Times : u # t => (u <= clock' <=> u <= clock)
      BY <1>0, <2>1, <2>2 DEF Times
    <2> QED
      BY <1>0, <2>1, <2>2, <2>3, <2>4, <2>5 DEF PipeChanges
  <1>2. ASSUME NEW u \in Times, PipeReport(u) PROVE PipeChanges(t)
    <2>1. t = u /\ \A k \in Times : k # t => pipes'[k] = pipes[k]
      BY <1>0, <1>2 DEF PipeReport
    <2>2. t <= clock
      BY <1>0, <1>2, <2>1 DEF PipeReport, Life, NothingToCome
    <2>3. pipes'[t].owner = pipes[t].owner
      BY <1>0, <1>2, <2>1 DEF PipeReport
    <2> QED
      BY <1>0, <1>2, <2>1, <2>2, <2>3 DEF PipeReport, PipeChanges
  <1>3. \/ \E s \in Students : Push(s)
        \/ \E u \in Times : PipeReport(u)
    <2>1. CASE History
      <3>1. ASSUME NEW m \in Requests, RequestNext(m) PROVE FALSE
        BY <3>1, RequestWrites DEF RowWrite
      <3> QED
        BY <2>1, <3>1, ReportedPipe DEF History, CreateFlag, SubmitFlag, BanSubmission,
           UnbanSubmission
    <2>2. CASE StartScan \/ ScanStep \/ EndScan \/ UNCHANGED boardVars
      BY <2>2 DEF StartScan, ScanStep, EndScan, boardVars
    <2> QED
      BY <2>1, <2>2 DEF BoardNext
  <1> QED
    BY <1>1, <1>2, <1>3

(* What another student's pipeline does leaves a submission alone.         *)
LEMMA OthersSubmission ==
    ASSUME Life, Life', NEW t \in Times, PipeChanges(t), pipes'[t] # pipes[t],
           NEW s \in Students, pipes'[t].owner # s
    PROVE  Submission(s)' = Submission(s)
  <1>0. /\ UNCHANGED <<kind, flags, banned, table>> /\ t <= clock'
        /\ \A u \in Times : u # t => pipes'[u] = pipes[u] /\ (u <= clock' <=> u <= clock)
        /\ 1..clock \subseteq Times /\ 1..clock' \subseteq Times
        /\ clock \in Nat /\ clock' \in Nat /\ s # NoStudent
    BY Basics DEF PipeChanges, Life, Typed, Times
  <1>1. pipes[t].owner # s
    BY <1>0 DEF PipeChanges, NoPipe
  <1>2. FlagsOf(s)' = FlagsOf(s)
    <2>1. \A u \in Times : u > clock => flags[u] = NoStudent
      BY DEF Life, NothingToCome
    <2>2. \A u \in Times : u > clock' => flags[u] = NoStudent
      BY <1>0 DEF Life, NothingToCome
    <2>3. ASSUME NEW u PROVE (u \in 1..clock' /\ flags[u] = s) <=> (u \in 1..clock /\ flags[u] = s)
      BY <1>0, <2>1, <2>2
    <2>4. FlagsOf(s)' = {u \in 1..clock' : flags[u] = s}
      BY <1>0 DEF FlagsOf
    <2> QED
      BY <2>3, <2>4 DEF FlagsOf
  <1>3. EarliestFlag(s)' = EarliestFlag(s)
    BY <1>2 DEF EarliestFlag
  <1>4. PipelinesOf(s)' = PipelinesOf(s)
    <2>1. ASSUME NEW u
          PROVE  (u \in 1..clock' /\ pipes'[u].owner = s) <=> (u \in 1..clock /\ pipes[u].owner = s)
      <3>1. CASE u = t
        BY <1>1, <3>1
      <3>2. CASE u # t
        BY <1>0, <3>2
      <3> QED
        BY <3>1, <3>2
    <2> QED
      BY <1>0, <2>1 DEF PipelinesOf
  <1>5. t \notin PipelinesOf(s) /\ PipelinesOf(s) \subseteq Times
    BY <1>0, <1>1 DEF PipelinesOf
  <1>6. RepresentativePipeline(s)' = RepresentativePipeline(s)
    <2>1. \A p, q \in PipelinesOf(s) : pipelineLess(q, p)' <=> pipelineLess(q, p)
      BY <1>0, <1>5 DEF pipelineLess
    <2>2. \A p \in PipelinesOf(s) :
             (\A q \in PipelinesOf(s) : ~pipelineLess(q, p)')
               <=> (\A q \in PipelinesOf(s) : ~pipelineLess(q, p))
      BY <2>1
    <2> QED
      BY <1>4, <2>2 DEF RepresentativePipeline
  <1>7. PipelinesOf(s) # {} =>
          pipes'[RepresentativePipeline(s)] = pipes[RepresentativePipeline(s)]
    <2> SUFFICES ASSUME PipelinesOf(s) # {}
                 PROVE  RepresentativePipeline(s) \in PipelinesOf(s)
      BY <1>0, <1>5
    <2> QED
      BY RepresentativePipelineExists DEF RepresentativePipeline
  <1>8. VisibleRequests' = VisibleRequests /\ Representative' = Representative /\ table' = table
    BY <1>0 DEF VisibleRequests, Known, Representative
  <1> QED
    BY <1>0, <1>2, <1>3, <1>4, <1>6, <1>7, <1>8 DEF Submission

(* Nor does it move the others on the leaderboard once it is late.         *)
LEMMA LateEntries ==
    ASSUME Life, Life', NEW t \in Times, PipeChanges(t), pipes'[t] # pipes[t], t > Deadline
    PROVE  /\ Entries' = Entries
           /\ \A u \in Entries : u # t /\ u \in Times /\ pipes'[u] = pipes[u]
  <1>0. /\ banned' = banned /\ t <= clock'
        /\ \A u \in Times : u # t => pipes'[u] = pipes[u] /\ (u <= clock' <=> u <= clock)
        /\ 1..clock \subseteq Times /\ 1..clock' \subseteq Times
        /\ clock \in Nat /\ clock' \in Nat /\ Deadline \in Nat /\ t \in Nat
    BY Basics, BoardAssumption DEF PipeChanges, Life, Typed, Times
  <1>1. ResultsInTime' = ResultsInTime
    <2>1. ASSUME NEW u
          PROVE  (/\ u \in 1..clock' /\ pipes'[u].status = "success" /\ pipes'[u].metric # 0
                  /\ u \notin banned' /\ u <= Deadline)
                 <=> (/\ u \in 1..clock /\ pipes[u].status = "success" /\ pipes[u].metric # 0
                      /\ u \notin banned /\ u <= Deadline)
      <3>1. CASE u = t
        BY <1>0, <3>1
      <3>2. CASE u # t
        BY <1>0, <3>2
      <3> QED
        BY <3>1, <3>2
    <2>2. ASSUME NEW u
          PROVE  u \in ResultsInTime' <=>
                   (/\ u \in 1..clock' /\ pipes'[u].status = "success" /\ pipes'[u].metric # 0
                    /\ u \notin banned' /\ u <= Deadline)
      BY DEF ResultsInTime, ListGroupBenchmarks
    <2>3. ASSUME NEW u
          PROVE  u \in ResultsInTime <=>
                   (/\ u \in 1..clock /\ pipes[u].status = "success" /\ pipes[u].metric # 0
                    /\ u \notin banned /\ u <= Deadline)
      BY DEF ResultsInTime, ListGroupBenchmarks
    <2> QED
      BY <2>1, <2>2, <2>3
  <1>2. \A u \in ResultsInTime : u # t /\ u \in Times /\ pipes'[u] = pipes[u]
    BY <1>0 DEF ResultsInTime, ListGroupBenchmarks
  <1>3. Entries' = {u \in ResultsInTime : \A v \in ResultsInTime :
                      pipes'[v].owner = pipes'[u].owner => ~(\/ pipes'[v].metric < pipes'[u].metric
                                                             \/ pipes'[v].metric = pipes'[u].metric /\ v < u)}
    BY <1>1 DEF Entries, entryLess
  <1>4. Entries = {u \in ResultsInTime : \A v \in ResultsInTime :
                     pipes[v].owner = pipes[u].owner => ~(\/ pipes[v].metric < pipes[u].metric
                                                          \/ pipes[v].metric = pipes[u].metric /\ v < u)}
    BY DEF Entries, entryLess
  <1>5. Entries' = Entries
    BY <1>2, <1>3, <1>4
  <1> QED
    BY <1>2, <1>5 DEF Entries

LEMMA LatePlaces ==
    ASSUME Entries' = Entries, \A u \in Entries : pipes'[u] = pipes[u], NEW s \in Students
    PROVE  Ranked(s)' = Ranked(s) /\ (Ranked(s) => Rank(s)' = Rank(s))
  <1>1. Ranked(s)' = Ranked(s)
    BY DEF Ranked
  <1>2. ASSUME Ranked(s) PROVE Rank(s)' = Rank(s)
    <2>1. EntryOf(s)' = EntryOf(s)
      BY DEF EntryOf
    <2>2. EntryOf(s) \in Entries
      BY <1>2 DEF Ranked, EntryOf
    <2>3. \A u \in Entries : entryLess(u, EntryOf(s))' <=> entryLess(u, EntryOf(s))
      BY <2>1, <2>2 DEF entryLess
    <2>4. {u \in Entries : entryLess(u, EntryOf(s))}' = {u \in Entries : entryLess(u, EntryOf(s))}
      BY <2>3
    <2> QED
      BY <2>4 DEF Rank
  <1> QED
    BY <1>1, <1>2

(* Work after the deadline moves nobody else, on the task or its board.    *)
THEOREM LateWorkIsAlone == BoardSpec => LateWorkMovesNobody
  <1>1. ASSUME Life, Life', [BoardNext]_boardVars, NEW s \in Students, NEW t \in Times,
               pipes'[t] # pipes[t], t > Deadline, pipes'[t].owner # s
        PROVE  Score(s)' = Score(s)
    <2>1. PipeChanges(t)
      BY <1>1, StepPipe
    <2>2. Submission(s)' = Submission(s)
      BY <1>1, <2>1, OthersSubmission
    <2>3. Entries' = Entries /\ \A u \in Entries : pipes'[u] = pipes[u]
      BY <1>1, <2>1, LateEntries
    <2>4. Ranked(s)' = Ranked(s) /\ (Ranked(s) => Rank(s)' = Rank(s))
      BY <2>3, LatePlaces
    <2> QED
      BY <2>2, <2>3, <2>4 DEF Score
  <1>2. /\ Life /\ Life' /\ [BoardNext]_boardVars
        => [\A s \in Students : \A t \in Times :
              (pipes'[t] # pipes[t] /\ t > Deadline /\ pipes'[t].owner # s) =>
                 Score(s)' = Score(s)]_boardVars
    BY <1>1
  <1> QED
    BY <1>2, BoardInductive, PTL DEF BoardSpec, LateWorkMovesNobody

-----------------------------------------------------------------------------
(* Rounded quotients and products keep the order.                          *)
LEMMA ProductOrder ==
    ASSUME NEW a \in Nat, NEW c \in Nat, NEW x \in Nat, NEW y \in Nat, a <= c, x <= y
    PROVE  a * x \in Nat /\ c * y \in Nat /\ a * x <= c * y
  OBVIOUS

LEMMA RoundOrder ==
    ASSUME NEW a \in Nat, NEW c \in Nat, NEW b \in Nat \ {0}, a <= c
    PROVE  RoundDiv(a, b) \in Nat /\ RoundDiv(c, b) \in Nat /\ RoundDiv(a, b) <= RoundDiv(c, b)
  <1> DEFINE x == 2 * a + b
             y == 2 * c + b
             d == 2 * b
  <1>1. x \in Nat /\ y \in Nat /\ d \in Nat \ {0} /\ x <= y
    OBVIOUS
  <1> HIDE DEF x, y, d
  <1>2. x \div d \in Nat /\ y \div d \in Nat /\ x \div d <= y \div d
    BY <1>1
  <1> QED
    BY <1>2 DEF RoundDiv, x, y, d

LEMMA RoundWhole ==
    ASSUME NEW a \in Nat, NEW b \in Nat \ {0}, NEW n \in Nat, b * n <= a
    PROVE  n <= RoundDiv(a, b)
  <1> DEFINE x == 2 * a + b
             d == 2 * b
  <1>1. x \in Nat /\ d \in Nat \ {0} /\ d * n <= x
    OBVIOUS
  <1> HIDE DEF x, d
  <1>2. n <= x \div d
    BY <1>1
  <1> QED
    BY <1>2 DEF RoundDiv, x, d

(* A place is worth no less than a lower one, and no less than no place.   *)
LEMMA PlaceOrder ==
    ASSUME NEW base \in Nat, NEW more \in Nat, base <= more,
           NEW total \in Nat, NEW rank \in 1..total, NEW better \in 1..total, better <= rank
    PROVE  /\ leaderboardScore(base, rank, total) \in Nat
           /\ leaderboardScore(base, rank, total) <= leaderboardScore(more, better, total)
           /\ base <= leaderboardScore(base, rank, total)
  <1>0. Bonus \in Nat
    BY BoardAssumption
  <1>1. CASE total = 1
    <2> DEFINE percent == 100 + Bonus
    <2>1. percent \in Nat /\ 100 <= percent
      BY <1>0
    <2> HIDE DEF percent
    <2>2. base * percent \in Nat /\ more * percent \in Nat /\ base * percent <= more * percent
      BY <2>1, ProductOrder
    <2>3. 100 * base <= base * percent
      BY <2>1, ProductOrder
    <2>4. /\ leaderboardScore(base, rank, total) = RoundDiv(base * percent, 100)
          /\ leaderboardScore(more, better, total) = RoundDiv(more * percent, 100)
      BY <1>1 DEF leaderboardScore, percent
    <2> QED
      BY <2>2, <2>3, <2>4, RoundOrder, RoundWhole
  <1>2. CASE total # 1
    <2> DEFINE below == total - rank
               above == total - better
               steps == 100 * (total - 1)
    <2>1. /\ below \in Nat /\ above \in Nat /\ below <= above
          /\ steps \in Nat \ {0}
      BY <1>2
    <2> HIDE DEF below, above, steps
    <2>2. /\ base * Bonus \in Nat /\ more * Bonus \in Nat /\ base * Bonus <= more * Bonus
      BY <1>0, ProductOrder
    <2>3. /\ base * Bonus * below \in Nat /\ more * Bonus * above \in Nat
          /\ base * Bonus * below <= more * Bonus * above
      BY <2>1, <2>2, ProductOrder
    <2>4. /\ leaderboardScore(base, rank, total) = base + RoundDiv(base * Bonus * below, steps)
          /\ leaderboardScore(more, better, total) = more + RoundDiv(more * Bonus * above, steps)
      BY <1>2 DEF leaderboardScore, below, above, steps
    <2>5. /\ RoundDiv(base * Bonus * below, steps) \in Nat
          /\ RoundDiv(more * Bonus * above, steps) \in Nat
          /\ RoundDiv(base * Bonus * below, steps) <= RoundDiv(more * Bonus * above, steps)
      BY <2>1, <2>3, RoundOrder
    <2> QED
      BY <2>4, <2>5
  <1> QED
    BY <1>1, <1>2

-----------------------------------------------------------------------------
(* The leaderboard: finitely many entries, of which a ranked student has   *)
(* one; nobody's rank is beyond the last place.                            *)
LEMMA EntriesAreFinite ==
    ASSUME Life
    PROVE  Entries \subseteq Times /\ IsFiniteSet(Entries) /\ IsFiniteSet(Times)
  <1>1. Entries \subseteq Times
    BY Basics DEF Entries, ResultsInTime, ListGroupBenchmarks, Life, Typed, Times
  <1>2. IsFiniteSet(Times)
    BY FS_Interval, Basics DEF Times
  <1> QED
    BY <1>1, <1>2, FS_Subset

LEMMA EntryIsOwn ==
    ASSUME NEW s, Ranked(s)
    PROVE  EntryOf(s) \in Entries /\ pipes[EntryOf(s)].owner = s
  BY DEF Ranked, EntryOf

LEMMA EntryTypes ==
    ASSUME Life
    PROVE  \A u \in Times : u \in Nat /\ pipes[u] \in Pipe /\ pipes[u].metric \in Nat
  BY BoardAssumption DEF Life, Typed, Pipe, Times

LEMMA RanksAreWithinTotal ==
    ASSUME Life, NEW s \in Students, Ranked(s)
    PROVE  Cardinality(Entries) \in Nat /\ Rank(s) \in 1..Cardinality(Entries)
  <1> DEFINE e == EntryOf(s)
             ahead == {t \in Entries : entryLess(t, e)}
  <1>1. e \in Entries /\ Entries \subseteq Times /\ IsFiniteSet(Entries)
    BY EntryIsOwn, EntriesAreFinite
  <1>2. ~entryLess(e, e)
    BY <1>1, EntryTypes DEF entryLess
  <1>3. ahead \subseteq Entries \ {e}
    BY <1>2
  <1> HIDE DEF e, ahead
  <1>4. /\ IsFiniteSet(Entries \ {e}) /\ Cardinality(Entries \ {e}) = Cardinality(Entries) - 1
        /\ Cardinality(Entries) \in Nat
    BY <1>1, FS_RemoveElement, FS_CardinalityType
  <1>5. /\ IsFiniteSet(ahead) /\ Cardinality(ahead) <= Cardinality(Entries \ {e})
        /\ Cardinality(ahead) \in Nat
    BY <1>3, <1>4, FS_Subset, FS_CardinalityType
  <1>6. Rank(s) = 1 + Cardinality(ahead)
    BY DEF Rank, ahead, e
  <1> QED
    BY <1>4, <1>5, <1>6

(* A place takes nothing away.                                             *)
LEMMA NoPlaceGivesLess ==
    ASSUME Life, NEW s \in Students, Submission(s).score \in Nat
    PROVE  Score(s) \in Nat /\ Submission(s).score <= Score(s)
  <1> DEFINE base == Submission(s).score
             rank == Rank(s)
             total == Cardinality(Entries)
  <1>1. CASE Ranked(s) /\ Submission(s).status = "success" /\ Submission(s).at <= Deadline
    <2>1. base \in Nat /\ total \in Nat /\ rank \in 1..total /\ rank <= rank
      BY <1>1, RanksAreWithinTotal
    <2>2. Score(s) = leaderboardScore(base, rank, total)
      BY <1>1 DEF Score
    <2> HIDE DEF base, rank, total
    <2>3. leaderboardScore(base, rank, total) \in Nat /\ base <= leaderboardScore(base, rank, total)
      BY <2>1, PlaceOrder
    <2> QED
      BY <2>2, <2>3 DEF base
  <1>2. CASE ~(Ranked(s) /\ Submission(s).status = "success" /\ Submission(s).at <= Deadline)
    <2>1. Score(s) = base
      BY <1>2 DEF Score
    <2> QED
      BY <2>1
  <1> QED
    BY <1>1, <1>2

(* Where pipelines score the task, an entry is a success in time.          *)
LEMMA RankedHasWon ==
    ASSUME Life, NEW s \in Students, Scored(s), Ranked(s), kind = "pipelines", FlagsOf(s) = {}
    PROVE  /\ Submission(s).status = "success" /\ Submission(s).at \in Times
           /\ Submission(s).at <= Deadline
           /\ Submission(s).score = Points[Submission(s).at]
  <1> DEFINE e == EntryOf(s)
  <1>1. e \in Entries /\ pipes[e].owner = s /\ e \in Times
    BY EntryIsOwn, EntriesAreFinite
  <1> HIDE DEF e
  <1>2. /\ e \in 1..clock /\ pipes[e].status = "success" /\ e \notin banned /\ e <= Deadline
    BY <1>1 DEF Entries, ResultsInTime, ListGroupBenchmarks
  <1>3. e \in Winning(s)
    BY <1>1, <1>2 DEF Winning, Passes, PipelinesOf
  <1>4. PICK at \in Winning(s) :
           /\ \A t \in Winning(s) : at <= t
           /\ Submission(s).status = "success" /\ Submission(s).score = Points[at]
           /\ Submission(s).at = at
    BY <1>3 DEF Scored
  <1>5. at \in Times /\ at <= e
    BY <1>3, <1>4 DEF Scored
  <1> QED
    BY <1>1, <1>2, <1>4, <1>5, BoardAssumption DEF Times

(* What a submission in time is worth, and what another is.                *)
LEMMA SubmissionWorth ==
    ASSUME NEW s \in Students, Scored(s)
    PROVE  /\ Submission(s).score \in Nat
           /\ Submission(s).status # "success" => Submission(s).score = 0
           /\ Submission(s).status = "success" =>
                /\ Submission(s).at \in Times /\ Submission(s).score = Points[Submission(s).at]
  <1>1. CASE Winning(s) = {}
    BY <1>1 DEF Scored
  <1>2. CASE Winning(s) # {}
    <2>1. PICK at \in Winning(s) :
            /\ Submission(s).status = "success" /\ Submission(s).score = Points[at]
            /\ Submission(s).at = at
      BY <1>2 DEF Scored
    <2>2. at \in Times /\ Points[at] \in Nat
      BY <2>1, CreditAssumption DEF Scored
    <2> QED
      BY <2>1, <2>2
  <1> QED
    BY <1>1, <1>2

(* Two students, one ahead of the other: by the time of what they have, or *)
(* by their places.                                                        *)
LEMMA AheadScoresNoLess ==
    ASSUME FullUntilDeadline, Life, NEW s \in Students, NEW q \in Students,
           Scored(s), Scored(q), Ahead(s, q)
    PROVE  Score(s) >= Score(q)
  <1> DEFINE own == Submission(s).score
             base == Submission(q).score
             total == Cardinality(Entries)
             high == Rank(s)
             low == Rank(q)
  <1>1. /\ Submission(s).status = "success" /\ Submission(s).at \in Times
        /\ Submission(s).at <= Deadline /\ own = Points[Submission(s).at]
    BY SubmissionWorth DEF Ahead, CountsInTime
  <1>2. own \in Nat /\ base \in Nat
    BY SubmissionWorth
  <1>3. Score(s) \in Nat /\ own <= Score(s)
    BY <1>2, NoPlaceGivesLess
  <1>4. CASE ~CountsInTime(q)
    <2>1. Score(q) = base
      BY <1>4 DEF Score, CountsInTime
    <2>2. CASE Submission(q).status # "success"
      BY <1>3, <2>1, <2>2, SubmissionWorth
    <2>3. CASE Submission(q).status = "success"
      <3>1. Submission(q).at \in Times /\ base = Points[Submission(q).at]
        BY <2>3, SubmissionWorth
      <3>2. Submission(s).at <= Submission(q).at
        BY <1>1, <1>4, <2>3, <3>1, BoardAssumption DEF CountsInTime, Times
      <3>3. base <= own
        BY <1>1, <3>1, <3>2, CreditAssumption
      <3> HIDE DEF own, base
      <3> QED
        BY <1>2, <1>3, <2>1, <3>3
    <2> QED
      BY <2>2, <2>3
  <1>5. CASE CountsInTime(q)
    <2>1. /\ Submission(q).at \in Times /\ Submission(q).at <= Deadline
          /\ base = Points[Submission(q).at] /\ Submission(q).status = "success"
      BY <1>5, SubmissionWorth DEF CountsInTime
    <2>2. own = base
      BY <1>1, <2>1 DEF FullUntilDeadline
    <2>3. Ranked(s) /\ (Ranked(q) => Rank(s) < Rank(q))
      BY <1>5 DEF Ahead
    <2>4. CASE ~Ranked(q)
      <3>1. Score(q) = base
        BY <2>4 DEF Score
      <3> HIDE DEF own, base
      <3> QED
        BY <1>2, <1>3, <2>2, <3>1
    <2>5. CASE Ranked(q)
      <3>1. total \in Nat /\ high \in 1..total /\ low \in 1..total /\ high < low
        BY <2>3, <2>5, RanksAreWithinTotal
      <3>2. /\ Score(s) = leaderboardScore(base, high, total)
            /\ Score(q) = leaderboardScore(base, low, total)
        BY <1>1, <2>1, <2>2, <2>3, <2>5 DEF Score
      <3> HIDE DEF own, base, total, high, low
      <3>3. /\ leaderboardScore(base, low, total) \in Nat
            /\ leaderboardScore(base, low, total) <= leaderboardScore(base, high, total)
        BY <1>2, <3>1, PlaceOrder
      <3> QED
        BY <1>3, <3>2, <3>3
    <2> QED
      BY <2>4, <2>5
  <1> QED
    BY <1>4, <1>5

(* Where a task has the same, full score until the deadline, the places    *)
(* follow the results: who is ahead, in time or by a better place, gets no *)
(* less.                                                                   *)
THEOREM PlacesFollowResults ==
    ASSUME FullUntilDeadline
    PROVE  BoardSpec => []HigherRankNeverScoresLess
  <1>1. ASSUME Life, \A s \in Students : Scored(s) PROVE HigherRankNeverScoresLess
    <2> SUFFICES ASSUME NEW s \in Students
                 PROVE  /\ Score(s) >= Submission(s).score
                        /\ (kind = "pipelines" /\ FlagsOf(s) = {} /\ Ranked(s)) => CountsInTime(s)
                        /\ \A q \in Students : Ahead(s, q) => Score(s) >= Score(q)
      BY DEF HigherRankNeverScoresLess
    <2> DEFINE own == Submission(s).score
    <2>1. Score(s) \in Nat /\ own \in Nat /\ own <= Score(s)
      BY <1>1, SubmissionWorth, NoPlaceGivesLess
    <2>2. Score(s) >= own
      <3> HIDE DEF own
      <3> QED
        BY <2>1
    <2>3. (kind = "pipelines" /\ FlagsOf(s) = {} /\ Ranked(s)) => CountsInTime(s)
      BY <1>1, RankedHasWon DEF CountsInTime
    <2>4. \A q \in Students : Ahead(s, q) => Score(s) >= Score(q)
      BY <1>1, AheadScoresNoLess
    <2> QED
      BY <2>2, <2>3, <2>4
  <1> QED
    BY <1>1, AlwaysScored, PTL

-----------------------------------------------------------------------------
(* A ban takes from a student's winning submissions, and from nobody       *)
(* else's; nor is anything done that was not.                              *)
LEMMA BanTakes ==
    ASSUME Life, Life', [BoardNext]_boardVars, NEW s \in Students, OwnBan(s)
    PROVE  /\ UNCHANGED <<kind, clock, pipes, flags, table>>
           /\ \E t \in Times : t \in 1..clock /\ pipes[t].owner = s /\ banned' = banned \cup {t}
  <1>1. PICK t \in banned' \ banned : pipes[t].owner = s
    BY DEF OwnBan
  <1>2. banned' # banned
    BY <1>1
  <1>3. \E u \in Times : BanSubmission(u)
    <2>1. CASE History
      BY <1>1, <1>2, <2>1 DEF History, Push, AddPipeline, AddBenchmarkResult, CreateFlag, SubmitFlag,
         RequestNext, OpenRequest, UpsertMergeRequest, Review, MergeRequest, CloseRequest,
         ReopenRequest, UnbanSubmission
    <2>2. CASE StartScan \/ ScanStep \/ EndScan \/ UNCHANGED boardVars
      BY <1>2, <2>2 DEF StartScan, ScanStep, EndScan, boardVars
    <2> QED
      BY <2>1, <2>2 DEF BoardNext
  <1>4. PICK u \in Times : BanSubmission(u)
    BY <1>3
  <1>5. u = t /\ UNCHANGED <<kind, clock, pipes, flags, table>> /\ banned' = banned \cup {t}
    BY <1>1, <1>4 DEF BanSubmission
  <1>6. t \in 1..clock
    BY <1>1, <1>5 DEF Life, Typed
  <1> QED
    BY <1>1, <1>4, <1>5, <1>6

LEMMA BanShrinksWinning ==
    ASSUME UNCHANGED <<kind, clock, pipes, flags, table>>, NEW t, banned' = banned \cup {t},
           NEW s \in Students
    PROVE  Winning(s)' \subseteq Winning(s)
  <1>1. FlagsOf(s)' = FlagsOf(s)
    BY DEF FlagsOf
  <1>2. Passes(s)' \subseteq Passes(s)
    BY DEF Passes, PipelinesOf
  <1>3. GreenMerges' \subseteq GreenMerges
    BY DEF GreenMerges, VisibleRequests, Known
  <1>4. {table'[m].ciAt : m \in GreenMerges'} \subseteq {table[m].ciAt : m \in GreenMerges}
    BY <1>3
  <1> QED
    BY <1>1, <1>2, <1>4 DEF Winning

LEMMA LessWinningScoresLess ==
    ASSUME NEW s \in Students, Scored(s), Scored(s)', Winning(s)' \subseteq Winning(s)
    PROVE  /\ Submission(s).score \in Nat /\ Submission(s)'.score \in Nat
           /\ Submission(s)'.score <= Submission(s).score
           /\ Submission(s)'.status = "success" =>
                /\ Submission(s).status = "success"
                /\ Submission(s).at \in Times /\ Submission(s)'.at \in Times
                /\ Submission(s).at <= Submission(s)'.at
  <1>1. Winning(s) \subseteq Times
    BY DEF Scored
  <1>2. CASE Winning(s)' = {}
    <2>1. Submission(s)'.score = 0 /\ Submission(s)'.status # "success"
      BY <1>2 DEF Scored
    <2>2. Submission(s).score \in Nat
      BY <1>1, CreditAssumption DEF Scored
    <2> QED
      BY <2>1, <2>2
  <1>3. CASE Winning(s)' # {}
    <2>1. PICK new \in Winning(s)' : Submission(s)'.score = Points[new] /\ Submission(s)'.at = new
      BY <1>3 DEF Scored
    <2>2. PICK old \in Winning(s) :
            /\ \A t \in Winning(s) : old <= t
            /\ Submission(s).status = "success" /\ Submission(s).score = Points[old]
            /\ Submission(s).at = old
      BY <2>1 DEF Scored
    <2>3. old <= new /\ old \in Times /\ new \in Times
      BY <1>1, <2>1, <2>2
    <2>4. Points[new] <= Points[old] /\ Points[new] \in Nat /\ Points[old] \in Nat
      BY <2>3, CreditAssumption
    <2> QED
      BY <2>1, <2>2, <2>3, <2>4
  <1> QED
    BY <1>2, <1>3

(* On the leaderboard the ban can only replace the student's entry by a    *)
(* worse one, or take it away; those of the others stay.                   *)
Others(s) == {u \in Entries : pipes[u].owner # s}

LEMMA OneEntryEach ==
    ASSUME Life, NEW s \in Students, Ranked(s)
    PROVE  /\ Entries = Others(s) \cup {EntryOf(s)} /\ EntryOf(s) \notin Others(s)
           /\ Cardinality(Entries) = Cardinality(Others(s)) + 1
           /\ IsFiniteSet(Others(s)) /\ Others(s) \subseteq Times
           /\ Rank(s) = 1 + Cardinality({u \in Others(s) : entryLess(u, EntryOf(s))})
  <1> DEFINE e == EntryOf(s)
  <1>1. e \in Entries /\ pipes[e].owner = s /\ e \in Times
        /\ Entries \subseteq Times /\ IsFiniteSet(Entries)
    BY EntryIsOwn, EntriesAreFinite
  <1> HIDE DEF e
  <1>2. ASSUME NEW u \in Entries, pipes[u].owner = s PROVE u = e
    <2>1. ~entryLess(u, e) /\ ~entryLess(e, u)
      BY <1>1, <1>2 DEF Entries
    <2>2. u \in Times /\ u \in Nat /\ e \in Nat /\ pipes[u].metric \in Nat /\ pipes[e].metric \in Nat
      BY <1>1, EntryTypes
    <2> QED
      BY <2>1, <2>2 DEF entryLess
  <1>3. Entries = Others(s) \cup {e} /\ e \notin Others(s)
    BY <1>1, <1>2 DEF Others
  <1>4. IsFiniteSet(Others(s)) /\ Others(s) \subseteq Times
    BY <1>1, FS_Subset DEF Others
  <1>5. Cardinality(Entries) = Cardinality(Others(s)) + 1
    BY <1>3, <1>4, FS_AddElement
  <1>6. ~entryLess(e, e)
    BY <1>1, EntryTypes DEF entryLess
  <1>7. {u \in Entries : entryLess(u, e)} = {u \in Others(s) : entryLess(u, e)}
    BY <1>3, <1>6
  <1>8. Rank(s) = 1 + Cardinality({u \in Others(s) : entryLess(u, e)})
    BY <1>7 DEF Rank, e
  <1> QED
    BY <1>3, <1>4, <1>5, <1>8 DEF e

OnBoard(s) ==
    Ranked(s) =>
        /\ Cardinality(Entries) \in Nat /\ Rank(s) \in 1..Cardinality(Entries)
        /\ Cardinality(Entries) = Cardinality(Others(s)) + 1
        /\ Rank(s) = 1 + Cardinality({u \in Others(s) : entryLess(u, EntryOf(s))})

LEMMA AlwaysOnBoard == BoardSpec => [](\A s \in Students : OnBoard(s))
  <1>1. Life => \A s \in Students : OnBoard(s)
    BY OneEntryEach, RanksAreWithinTotal DEF OnBoard
  <1> QED
    BY <1>1, BoardInductive, PTL

LEMMA BanOnBoard ==
    ASSUME Life, Life', UNCHANGED <<kind, clock, pipes, flags, table>>,
           NEW s \in Students, NEW t \in Times, pipes[t].owner = s, banned' = banned \cup {t},
           Ranked(s)', OnBoard(s)'
    PROVE  /\ Ranked(s) /\ Cardinality(Entries)' = Cardinality(Entries)
           /\ Rank(s) <= Rank(s)'
  <1>1. /\ ResultsInTime' = ResultsInTime \ {t}
        /\ \A u, v : entryLess(u, v)' <=> entryLess(u, v)
    BY DEF ResultsInTime, ListGroupBenchmarks, entryLess
  <1>2. /\ Entries = {u \in ResultsInTime : \A v \in ResultsInTime :
                         pipes[v].owner = pipes[u].owner => ~entryLess(v, u)}
        /\ Entries' = {u \in ResultsInTime' : \A v \in ResultsInTime' :
                         pipes[v].owner = pipes[u].owner => ~entryLess(v, u)}
    BY <1>1 DEF Entries
  <1>3. Others(s)' = Others(s)
    <2>1. Others(s)' = {u \in Entries' : pipes[u].owner # s}
      BY DEF Others
    <2> QED
      BY <1>1, <1>2, <2>1 DEF Others
  <1> DEFINE new == EntryOf(s)'
  <1>4. new \in Entries' /\ pipes[new].owner = s
    <2>1. \E u \in Entries' : pipes'[u].owner = s
      BY DEF Ranked
    <2> QED
      BY <2>1 DEF EntryOf
  <1>5. new \in ResultsInTime /\ ResultsInTime \subseteq Times
    BY <1>1, <1>2, <1>4, Basics DEF ResultsInTime, ListGroupBenchmarks, Life, Typed, Times
  <1> HIDE DEF new
  <1>6. PICK old \in Entries : pipes[old].owner = s /\ ~entryLess(new, old)
    <2> DEFINE own == {u \in ResultsInTime : pipes[u].owner = s}
    <2>1. PICK old \in own : \A v \in own : ~entryLess(v, old)
      <3> DEFINE metrics == {pipes[u].metric : u \in own}
      <3>1. own \subseteq Times /\ new \in own
        BY <1>4, <1>5
      <3>2. metrics \in SUBSET Nat /\ metrics # {}
        BY <3>1, EntryTypes
      <3> HIDE DEF metrics
      <3>3. PICK least \in metrics : \A n \in metrics : least <= n
        BY <3>2, LeastExists
      <3> DEFINE first == {u \in own : pipes[u].metric = least}
      <3>4. first \in SUBSET Nat /\ first # {}
        BY <3>1, <3>3, EntryTypes DEF metrics
      <3> HIDE DEF first, own
      <3>5. PICK old \in first : \A u \in first : old <= u
        BY <3>4, LeastExists
      <3>6. old \in own /\ pipes[old].metric = least
        BY DEF first
      <3>7. ASSUME NEW v \in own PROVE ~entryLess(v, old)
        <4>1. least <= pipes[v].metric /\ (pipes[v].metric = least => old <= v)
          BY <3>3, <3>5 DEF metrics, first
        <4>2. /\ v \in Nat /\ old \in Nat /\ pipes[v].metric \in Nat /\ least \in Nat
          BY <3>1, <3>2, <3>6, EntryTypes
        <4> QED
          BY <3>6, <4>1, <4>2 DEF entryLess
      <3> QED
        BY <3>6, <3>7
    <2> QED
      BY <1>2, <1>4, <1>5, <2>1
  <1>7. Ranked(s) /\ EntryOf(s) = old
    <2>1. Ranked(s)
      BY <1>6 DEF Ranked
    <2>2. EntryOf(s) \in Entries /\ pipes[EntryOf(s)].owner = s
      BY <2>1, EntryIsOwn
    <2>3. Entries = Others(s) \cup {EntryOf(s)}
      BY <2>1, OneEntryEach
    <2> QED
      BY <1>6, <2>1, <2>3 DEF Others
  <1> DEFINE ahead == {u \in Others(s) : entryLess(u, old)}
             behind == {u \in Others(s) : entryLess(u, new)}
  <1>8. /\ Cardinality(Entries) = Cardinality(Others(s)) + 1
        /\ Rank(s) = 1 + Cardinality(ahead)
        /\ IsFiniteSet(Others(s)) /\ Others(s) \subseteq Times
    BY <1>7, OneEntryEach
  <1>9. /\ Cardinality(Entries)' = Cardinality(Others(s)) + 1
        /\ Rank(s)' = 1 + Cardinality(behind)
    <2>1. /\ Cardinality(Entries)' = Cardinality(Others(s)')+ 1
          /\ Rank(s)' = 1 + Cardinality({u \in Others(s)' : entryLess(u, EntryOf(s))'})
      BY DEF OnBoard
    <2>2. {u \in Others(s)' : entryLess(u, EntryOf(s))'} = behind
      BY <1>1, <1>3 DEF new, entryLess
    <2> QED
      BY <1>3, <2>1, <2>2
  <1>10. ahead \subseteq behind
    <2> SUFFICES ASSUME NEW u \in Others(s), entryLess(u, old) PROVE entryLess(u, new)
      OBVIOUS
    <2>1. u \in Times /\ old \in Times /\ new \in Times
      BY <1>5, <1>6, <1>8, EntriesAreFinite
    <2>2. /\ u \in Nat /\ old \in Nat /\ new \in Nat
          /\ pipes[u].metric \in Nat /\ pipes[old].metric \in Nat /\ pipes[new].metric \in Nat
      BY <2>1, EntryTypes
    <2> QED
      BY <1>6, <2>2 DEF entryLess
  <1> HIDE DEF ahead, behind
  <1>11. IsFiniteSet(behind)
    BY <1>8, FS_Subset DEF behind
  <1>12. /\ Cardinality(ahead) \in Nat /\ Cardinality(behind) \in Nat
         /\ Cardinality(ahead) <= Cardinality(behind)
    BY <1>10, <1>11, FS_Subset, FS_CardinalityType
  <1> QED
    BY <1>7, <1>8, <1>9, <1>12

(* A ban of one's own never gains anything: neither the earlier submission *)
(* nor the better place it may bring to others is theirs.                  *)
LEMMA StepBans ==
    ASSUME Life, Life', [BoardNext]_boardVars, NEW s \in Students, OwnBan(s),
           Scored(s), Scored(s)', OnBoard(s), OnBoard(s)'
    PROVE  Score(s)' <= Score(s)
  <1>1. PICK t \in Times : pipes[t].owner = s /\ banned' = banned \cup {t}
    BY BanTakes
  <1>2. UNCHANGED <<kind, clock, pipes, flags, table>>
    BY BanTakes
  <1>3. Winning(s)' \subseteq Winning(s)
    BY <1>1, <1>2, BanShrinksWinning
  <1> DEFINE before == Submission(s).score
             after == Submission(s)'.score
  <1>4. /\ before \in Nat /\ after \in Nat /\ after <= before
        /\ Submission(s)'.status = "success" =>
             /\ Submission(s).status = "success"
             /\ Submission(s).at \in Times /\ Submission(s)'.at \in Times
             /\ Submission(s).at <= Submission(s)'.at
    BY <1>3, LessWinningScoresLess
  <1>5. CASE Ranked(s)' /\ Submission(s)'.status = "success" /\ Submission(s)'.at <= Deadline
    <2> DEFINE total == Cardinality(Entries)
               better == Rank(s)
               rank == Rank(s)'
    <2>1. Ranked(s) /\ Cardinality(Entries)' = total /\ better <= rank
      BY <1>1, <1>2, <1>5, BanOnBoard
    <2>2. total \in Nat /\ better \in 1..total /\ rank \in 1..total /\ better <= rank
      BY <1>5, <2>1 DEF OnBoard
    <2>3. Submission(s).status = "success" /\ Submission(s).at <= Deadline
      BY <1>4, <1>5, BoardAssumption, Basics DEF Times
    <2>4. Score(s) = leaderboardScore(before, better, total)
      BY <2>1, <2>3 DEF Score
    <2>5. Score(s)' = leaderboardScore(after, rank, total)
      BY <1>5, <2>1 DEF Score, leaderboardScore, RoundDiv
    <2>6. before \in Nat /\ after \in Nat /\ after <= before
      BY <1>4
    <2> HIDE DEF total, better, rank, before, after
    <2>7. leaderboardScore(after, rank, total) <= leaderboardScore(before, better, total)
      BY <2>2, <2>6, PlaceOrder
    <2> QED
      BY <2>4, <2>5, <2>7
  <1>6. CASE ~(Ranked(s)' /\ Submission(s)'.status = "success" /\ Submission(s)'.at <= Deadline)
    <2>1. Score(s)' = after
      BY <1>6 DEF Score
    <2>2. Score(s) \in Nat /\ before <= Score(s)
      BY <1>4, NoPlaceGivesLess
    <2> HIDE DEF before, after
    <2> QED
      BY <1>4, <2>1, <2>2
  <1> QED
    BY <1>5, <1>6

(* A ban never raises the score of the student it is about, bonus and rank *)
(* included.                                                               *)
THEOREM BanRaisesNothing == BoardSpec => BanNeverRaises
  <1>1. /\ Life /\ \A s \in Students : Scored(s)
        /\ (Life /\ \A s \in Students : Scored(s))'
        /\ \A s \in Students : OnBoard(s)
        /\ (\A s \in Students : OnBoard(s))'
        /\ [BoardNext]_boardVars
        => [\A s \in Students : OwnBan(s) => Score(s)' <= Score(s)]_boardVars
    BY StepBans
  <1> QED
    BY <1>1, AlwaysScored, AlwaysOnBoard, PTL DEF BoardSpec, BanNeverRaises

-----------------------------------------------------------------------------
(* What the linear policy gives: what it is worth at first, then a         *)
(* quotient that only gets smaller, and the factor in the end.             *)
LEMMA QuotientOrder ==
    ASSUME NEW a \in Nat, NEW c \in Nat, NEW d \in Nat \ {0}, a <= c
    PROVE  a \div d \in Nat /\ c \div d \in Nat /\ a \div d <= c \div d
  OBVIOUS

LEMMA QuotientBounds ==
    ASSUME NEW a \in Nat, NEW d \in Nat \ {0}
    PROVE  /\ a \div d \in Nat /\ d * (a \div d) <= a
           /\ \A n \in Nat : d * n <= a => n <= a \div d
           /\ \A n \in Nat : a <= d * n => a \div d <= n
  OBVIOUS

Share(after, factor, x) == 100 * after - (100 - factor) * x

LEMMA ShareOrder ==
    ASSUME NEW after \in Nat \ {0}, NEW factor \in 0..100,
           NEW x \in 0..after, NEW y \in 0..after, x <= y
    PROVE  /\ Share(after, factor, x) \in Nat /\ Share(after, factor, y) \in Nat
           /\ Share(after, factor, y) <= Share(after, factor, x)
           /\ Share(after, factor, x) <= 100 * after
           /\ factor * after <= Share(after, factor, y)
           /\ Share(after, factor, 0) = 100 * after
  <1> DEFINE loss == 100 - factor
  <1>1. loss \in Nat /\ factor \in Nat /\ factor = 100 - loss
    OBVIOUS
  <1> HIDE DEF loss
  <1>2. /\ loss * x \in Nat /\ loss * y \in Nat /\ loss * after \in Nat
        /\ loss * x <= loss * y /\ loss * y <= loss * after
    BY <1>1, ProductOrder
  <1>3. factor * after = 100 * after - loss * after /\ factor * after \in Nat
    BY <1>1
  <1>4. /\ Share(after, factor, x) = 100 * after - loss * x
        /\ Share(after, factor, y) = 100 * after - loss * y
        /\ Share(after, factor, 0) = 100 * after - loss * 0
    BY DEF Share, loss
  <1> QED
    BY <1>1, <1>2, <1>3, <1>4

LEMMA LinearScoreOrder ==
    ASSUME NEW max \in Nat, NEW deadline \in Nat, NEW after \in Nat, NEW factor \in 0..100,
           NEW s \in Nat, NEW t \in Nat, s <= t
    PROVE  /\ LinearScore(max, deadline, after, factor, s) \in Nat
           /\ LinearScore(max, deadline, after, factor, t) \in Nat
           /\ LinearScore(max, deadline, after, factor, t)
                <= LinearScore(max, deadline, after, factor, s)
           /\ LinearScore(max, deadline, after, factor, s) <= max
           /\ after > 0 /\ t <= deadline => max <= LinearScore(max, deadline, after, factor, t)
  <1> DEFINE least == (max * factor) \div 100
             part(u) == (max * Share(after, factor, u - deadline)) \div (100 * after)
             score(u) == LinearScore(max, deadline, after, factor, u)
  <1>1. /\ least \in Nat /\ least <= max /\ 100 * least <= max * factor
    <2>1. max * factor \in Nat /\ max * factor <= max * 100
      BY ProductOrder
    <2> DEFINE whole == max * factor
    <2> HIDE DEF whole
    <2>2. whole \div 100 \in Nat /\ 100 * (whole \div 100) <= whole
          /\ (whole <= 100 * max => whole \div 100 <= max)
      BY <2>1, QuotientBounds DEF whole
    <2> QED
      BY <2>1, <2>2 DEF whole
  <1>2. ASSUME NEW u \in Nat, NEW v \in Nat, deadline <= u, u <= v, v < deadline + after
        PROVE  /\ part(u) \in Nat /\ part(v) \in Nat
               /\ part(v) <= part(u) /\ part(u) <= max /\ least <= part(v)
               /\ u = deadline => part(u) = max
    <2> DEFINE x == u - deadline
               y == v - deadline
               high == Share(after, factor, x)
               low == Share(after, factor, y)
               d == 100 * after
    <2>1. after \in Nat \ {0} /\ x \in 0..after /\ y \in 0..after /\ x <= y
      BY <1>2
    <2> HIDE DEF x, y
    <2>2. /\ high \in Nat /\ low \in Nat /\ low <= high /\ high <= d
          /\ factor * after <= low /\ d \in Nat \ {0}
      <3>1. /\ Share(after, factor, x) \in Nat /\ Share(after, factor, y) \in Nat
            /\ Share(after, factor, y) <= Share(after, factor, x)
            /\ Share(after, factor, x) <= 100 * after
            /\ factor * after <= Share(after, factor, y)
        BY <2>1, ShareOrder
      <3> QED
        BY <2>1, <3>1
    <2>3. u = deadline => high = d
      <3>1. u = deadline => x = 0
        BY DEF x
      <3>2. Share(after, factor, 0) = 100 * after
        BY <2>1, ShareOrder
      <3> QED
        BY <3>1, <3>2
    <2> HIDE DEF high, low, d
    <2>4. /\ max * low \in Nat /\ max * high \in Nat
          /\ max * low <= max * high /\ max * high <= max * d
      BY <2>2, ProductOrder
    <2>5. d * least <= max * low
      <3>1. d * least = after * (100 * least)
        BY <1>1, <2>1 DEF d
      <3> DEFINE whole == max * factor
                 hundred == 100 * least
      <3>2. whole \in Nat /\ hundred \in Nat /\ hundred <= whole
        BY <1>1
      <3>3. after * whole = max * (factor * after)
        BY <2>1
      <3> HIDE DEF whole, hundred
      <3>4. after * hundred <= after * whole
        BY <2>1, <3>2, ProductOrder
      <3> DEFINE f == factor * after
      <3>5. f \in Nat /\ f <= low
        BY <2>1, <2>2
      <3> HIDE DEF f
      <3>6. max * f <= max * low
        BY <2>2, <3>5, ProductOrder
      <3> QED
        BY <1>1, <2>1, <2>2, <2>4, <3>1, <3>2, <3>3, <3>4, <3>5, <3>6 DEF f, hundred
    <2> DEFINE few == max * low
               many == max * high
    <2>6. few \in Nat /\ many \in Nat /\ few <= many /\ many <= d * max /\ d * least <= few
      BY <2>2, <2>4, <2>5
    <2>7. u = deadline => many = d * max
      BY <2>2, <2>3
    <2> HIDE DEF few, many, least
    <2>8. /\ few \div d \in Nat /\ many \div d \in Nat /\ few \div d <= many \div d
          /\ many \div d <= max /\ least <= few \div d
      BY <1>1, <2>2, <2>6, QuotientOrder, QuotientBounds
    <2>9. u = deadline => many \div d = max
      BY <2>2, <2>6, <2>7, <2>8, QuotientBounds
    <2>10. part(u) = many \div d /\ part(v) = few \div d
      BY DEF many, few, high, low, x, y, d
    <2> HIDE DEF part
    <2> QED
      BY <2>8, <2>9, <2>10
  <1>3. ASSUME NEW u \in Nat
        PROVE  score(u) = IF u < deadline THEN max
                          ELSE IF u < deadline + after THEN part(u) ELSE least
    BY DEF LinearScore, Share
  <1> HIDE DEF score, least, part
  <1>4. /\ score(s) \in Nat /\ score(t) \in Nat /\ score(t) <= score(s) /\ score(s) <= max
        /\ after > 0 /\ t <= deadline => max <= score(t)
    <2>1. CASE t < deadline
      <3>1. score(s) = max /\ score(t) = max
        BY <1>3, <2>1
      <3> QED
        BY <3>1
    <2>2. CASE deadline <= t /\ t < deadline + after
      <3>1. score(t) = part(t) /\ part(t) \in Nat /\ part(t) <= max
            /\ (t = deadline => part(t) = max)
        BY <1>2, <1>3, <2>2
      <3>2. CASE s < deadline
        BY <1>3, <2>2, <3>1, <3>2
      <3>3. CASE deadline <= s
        <4>1. score(s) = part(s) /\ part(s) \in Nat /\ part(t) <= part(s) /\ part(s) <= max
          BY <1>2, <1>3, <2>2, <3>3
        <4> QED
          BY <2>2, <3>1, <4>1
      <3> QED
        BY <3>2, <3>3
    <2>3. CASE deadline + after <= t
      <3>1. score(t) = least /\ ~(after > 0 /\ t <= deadline)
        BY <1>3, <2>3
      <3>2. CASE s < deadline
        BY <1>1, <1>3, <3>1, <3>2
      <3>3. CASE deadline <= s /\ s < deadline + after
        <4>1. score(s) = part(s) /\ part(s) \in Nat /\ least <= part(s) /\ part(s) <= max
          BY <1>2, <1>3, <3>3
        <4> QED
          BY <1>1, <3>1, <4>1
      <3>4. CASE deadline + after <= s
        BY <1>1, <1>3, <3>1, <3>4
      <3> QED
        BY <3>2, <3>3, <3>4
    <2> QED
      BY <2>1, <2>2, <2>3
  <1> QED
    BY <1>4 DEF score

(* The linear policy is one of those the other theorems are about: with a  *)
(* final deadline and the worth of a retake, a later submission never      *)
(* gives more, and whatever is made by the deadline gives the same, where  *)
(* the decline takes time and the final deadline is not before.            *)
THEOREM LinearPolicyNeverGrows ==
    ASSUME NEW max \in Nat, NEW deadline \in Nat, NEW after \in Nat, NEW factor \in 0..100,
           NEW final \in Nat, NEW floor \in Nat,
           NEW points,
           points = [t \in Times |->
                       scorePipeline(LinearScore(max, deadline, after, factor, t), final, floor, t)]
    PROVE  /\ points \in [Times -> Nat]
           /\ \A s, t \in Times : s <= t => points[t] <= points[s]
           /\ after > 0 /\ deadline <= final =>
                \A s, t \in Times : s <= deadline /\ t <= deadline => points[s] = points[t]
  <1> DEFINE score(t) == LinearScore(max, deadline, after, factor, t)
  <1>1. ASSUME NEW s \in Times, NEW t \in Times, s <= t
        PROVE  /\ s \in Nat /\ t \in Nat /\ score(s) \in Nat /\ score(t) \in Nat
               /\ score(t) <= score(s)
               /\ after > 0 /\ t <= deadline => score(t) = max
    <2>1. s \in Nat /\ t \in Nat
      BY CreditAssumption DEF Times
    <2>2. /\ LinearScore(max, deadline, after, factor, s) \in Nat
          /\ LinearScore(max, deadline, after, factor, t) \in Nat
          /\ LinearScore(max, deadline, after, factor, t)
               <= LinearScore(max, deadline, after, factor, s)
          /\ LinearScore(max, deadline, after, factor, s) <= max
          /\ after > 0 /\ t <= deadline => max <= LinearScore(max, deadline, after, factor, t)
      BY <1>1, <2>1, LinearScoreOrder
    <2> HIDE DEF score
    <2> QED
      BY <2>1, <2>2 DEF score
  <1> HIDE DEF score
  <1>2. ASSUME NEW t \in Times
        PROVE  points[t] = scorePipeline(score(t), final, floor, t)
    BY DEF score
  <1>3. ASSUME NEW t \in Times
        PROVE  points[t] \in Nat
    BY <1>1, <1>2, CreditAssumption DEF scorePipeline, Times
  <1>4. ASSUME NEW s \in Times, NEW t \in Times, s <= t
        PROVE  points[t] <= points[s]
    BY <1>1, <1>2, <1>4 DEF scorePipeline
  <1>5. ASSUME after > 0, deadline <= final, NEW t \in Times, t <= deadline
        PROVE  points[t] = IF floor > max THEN floor ELSE max
    <2>1. t \in Nat /\ score(t) = max /\ ~(t > final)
      BY <1>1, <1>5, CreditAssumption DEF Times
    <2> QED
      BY <1>2, <2>1 DEF scorePipeline
  <1> QED
    BY <1>3, <1>4, <1>5

=============================================================================
