----------------------- MODULE MergeRequests_proofs ------------------------
(***************************************************************************)
(* Proofs about MergeRequests, for any number of pushes, requests, threads *)
(* and any review period.                                                  *)
(***************************************************************************)
EXTENDS MergeRequests, FiniteSetTheorems, TLAPS

RequestState == [state: State \cup {"absent"}, sha: 0..MaxPushes, thread: BOOLEAN,
                 noteAge: Age, ci: CIStatus, ciAge: Age, tested: BOOLEAN]
RowState == [state: State \cup {"absent"}, sha: 0..MaxPushes, mergeable: BOOLEAN,
             thread: BOOLEAN, noteAge: Age, green: BOOLEAN, ciAge: Age, diff: Diff]
Listed == [state: State \cup {"absent"}, sha: 0..MaxPushes, mergeable: BOOLEAN]
Syncing == {"notes", "changes", "pipeline"}
RobotState == [pc: Syncing \cup {"idle", "update"}, list: [Requests -> Listed],
               left: SUBSET Requests, thread: BOOLEAN, noteAge: Age, diff: Diff,
               head: 0..MaxPushes, ready: BOOLEAN]

-----------------------------------------------------------------------------
(* GitLab: requests are numbered without gaps and stand for commits that   *)
(* exist; what is not there has neither threads nor CI.                    *)
GitLabHolds ==
    /\ head \in 0..MaxPushes /\ threads \in 0..MaxThreads
    /\ content \in [Commits -> Contents] /\ greens \subseteq Commits
    /\ requests \in [Requests -> RequestState]
    /\ \E k \in 0..MaxRequests : Existing = 1..k
    /\ \A m \in Requests :
         /\ requests[m].sha <= head
         /\ m \in Existing => Sha(m) >= 1
         /\ requests[m].thread \/ requests[m].ci # "none" => m \in Existing
    /\ standing \subseteq Obstacles(requests)

(* With a prompt CI the newest pipeline of a request is that of its commit. *)
TestedHolds ==
    PromptCI => \A m \in Requests :
        /\ requests[m].ci = "running" => requests[m].tested
        /\ requests[m].ci = "success" => Sha(m) \in greens

(* What is true of every step of people, CI and time.                      *)
Forward ==
    /\ head <= head' /\ (head' = head => content' = content)
    /\ \A m \in Existing : m \in Existing' /\ Sha(m) <= Sha(m)'
    /\ greens \subseteq greens'
    /\ standing' \subseteq standing

LEMMA Ages == /\ Old \in Age /\ 0 \in Age
              /\ \A a \in Age : Older(a) \in Age
  BY RobotAssumption DEF Age, Old, Older

LEMMA Blank == /\ NoRequest \in RequestState /\ NoRow \in RowState /\ NotListed \in Listed
               /\ Idle \in RobotState
  <1>1. 0 \in 0..MaxPushes
    BY RobotAssumption
  <1>2. NoRequest \in RequestState
    BY <1>1, Ages DEF NoRequest, RequestState, State, CIStatus
  <1>3. NoRow \in RowState
    BY <1>1, Ages DEF NoRow, RowState, State, Diff
  <1>4. NotListed \in Listed
    BY <1>1 DEF NotListed, Listed, State
  <1>5. Idle \in RobotState
    BY <1>1, <1>4, Ages DEF Idle, RobotState, Syncing, Diff
  <1> QED
    BY <1>2, <1>3, <1>4, <1>5

LEMMA InitGitLab == Init => GitLabHolds /\ TestedHolds
  <1> SUFFICES ASSUME Init PROVE GitLabHolds /\ TestedHolds
    OBVIOUS
  <1>1. \A m \in Requests : requests[m] = NoRequest
    BY DEF Init
  <1>2. Existing = 1..0 /\ 0 \in 0..MaxRequests /\ 0 \in 0..MaxPushes /\ 0 \in 0..MaxThreads
    BY <1>1, RobotAssumption DEF Existing, NoRequest
  <1>3. requests \in [Requests -> RequestState] /\ content \in [Commits -> Contents]
    BY Blank, RobotAssumption DEF Init
  <1>4. \A m \in Requests : /\ requests[m].sha = 0 /\ requests[m].state = "absent"
                            /\ ~requests[m].thread /\ requests[m].ci = "none"
    BY <1>1 DEF NoRequest
  <1>5. greens = {} /\ standing = {} /\ head = 0 /\ threads = 0
    BY DEF Init
  <1>6. \A m \in Requests : m \notin Existing /\ 0 <= 0
    BY <1>4 DEF Existing
  <1>7. GitLabHolds
    BY <1>2, <1>3, <1>4, <1>5, <1>6 DEF GitLabHolds
  <1> QED
    BY <1>4, <1>7 DEF TestedHolds

-----------------------------------------------------------------------------
(* A step that changes one request that is there, and not which it is.     *)
Changes(m, q) ==
    /\ requests' = [requests EXCEPT ![m] = q]
    /\ head' = head /\ content' = content
    /\ threads' \in 0..MaxThreads
    /\ standing' \subseteq standing /\ standing' \subseteq Obstacles(requests')

StandsFor(q) == IF q.state = "opened" THEN head ELSE q.sha

LEMMA ChangesKeep ==
    ASSUME GitLabHolds, TestedHolds, NEW m \in Existing, NEW q \in RequestState,
           Changes(m, q), q.state # "absent", q.sha <= head,
           Sha(m) <= StandsFor(q),
           greens \subseteq greens', greens' \subseteq Commits,
           PromptCI => /\ q.ci = "running" => q.tested
                       /\ q.ci = "success" => StandsFor(q) \in greens'
    PROVE  GitLabHolds' /\ TestedHolds' /\ Forward
  <1>0. m \in Requests
    BY DEF Existing
  <1>1. /\ requests' \in [Requests -> RequestState] /\ requests'[m] = q
        /\ \A k \in Requests : k # m => requests'[k] = requests[k]
    BY <1>0 DEF GitLabHolds, Changes
  <1>2. Existing' = Existing
    BY <1>0, <1>1 DEF Existing
  <1>3. /\ Sha(m)' = StandsFor(q)
        /\ \A k \in Requests : k # m => Sha(k)' = Sha(k)
    BY <1>0, <1>1 DEF Sha, StandsFor, Opened, Changes
  <1>4. head \in 0..MaxPushes /\ 0..MaxPushes \subseteq Int
    BY DEF GitLabHolds
  <1>5. \A k \in Requests : Sha(k) \in Int
    BY <1>4 DEF Sha, GitLabHolds, RequestState
  <1>5a. StandsFor(q) \in Int
    BY <1>4 DEF StandsFor, RequestState
  <1>6. \A k \in Requests : /\ requests'[k].sha <= head'
                            /\ k \in Existing' => Sha(k)' >= 1
                            /\ requests'[k].thread \/ requests'[k].ci # "none" => k \in Existing'
    <2> SUFFICES ASSUME NEW k \in Requests
                 PROVE  /\ requests'[k].sha <= head'
                        /\ k \in Existing' => Sha(k)' >= 1
                        /\ requests'[k].thread \/ requests'[k].ci # "none" => k \in Existing'
      OBVIOUS
    <2>1. CASE k = m
      BY <2>1, <1>0, <1>1, <1>2, <1>3, <1>5, <1>5a DEF GitLabHolds, Changes
    <2>2. CASE k # m
      BY <2>2, <1>1, <1>2, <1>3 DEF GitLabHolds, Changes
    <2> QED
      BY <2>1, <2>2
  <1>7. GitLabHolds'
    BY <1>1, <1>2, <1>6 DEF GitLabHolds, Changes
  <1>8. TestedHolds'
    BY <1>1, <1>3 DEF TestedHolds
  <1>9. Forward
    <2>1. \A k \in Existing : k \in Existing' /\ Sha(k) <= Sha(k)'
      BY <1>0, <1>2, <1>3, <1>5 DEF Existing
    <2> QED
      BY <2>1, <1>4 DEF Forward, Changes
  <1> QED
    BY <1>7, <1>8, <1>9

LEMMA SetRequestsStands ==
    ASSUME NEW reqs, SetRequests(reqs)
    PROVE  /\ requests' = reqs /\ standing' \subseteq standing
           /\ standing' \subseteq Obstacles(requests')
  BY DEF SetRequests

LEMMA WithPipelineTyped ==
    ASSUME NEW q \in RequestState
    PROVE  /\ WithPipeline(q) \in RequestState
           /\ WithPipeline(q).state = q.state /\ WithPipeline(q).sha = q.sha
           /\ WithPipeline(q).ci = "running" /\ WithPipeline(q).tested
           /\ WithPipeline(q).thread = q.thread
  BY Ages DEF WithPipeline, RequestState, CIStatus

LEMMA CloseRequestKeeps ==
    ASSUME GitLabHolds, TestedHolds, NEW m \in Requests, CloseRequest(m)
    PROVE  GitLabHolds' /\ TestedHolds' /\ Forward
  <1> DEFINE q == [requests[m] EXCEPT !.state = "closed", !.sha = head]
  <1>1. requests[m] \in RequestState /\ head \in 0..MaxPushes /\ m \in Existing
    BY DEF GitLabHolds, CloseRequest, Opened, Existing
  <1>2. q \in RequestState /\ q.state = "closed" /\ q.sha = head
        /\ q.ci = requests[m].ci /\ q.tested = requests[m].tested
    BY <1>1 DEF RequestState, State
  <1>3. Changes(m, q)
    <2>1. SetRequests([requests EXCEPT ![m].state = "closed", ![m].sha = head])
      BY DEF CloseRequest
    <2>2. [requests EXCEPT ![m].state = "closed", ![m].sha = head] = [requests EXCEPT ![m] = q]
      BY DEF GitLabHolds
    <2> QED
      BY <2>1, <2>2, SetRequestsStands DEF CloseRequest, Changes, GitLabHolds
  <1>4. Sha(m) = head /\ StandsFor(q) = head
    BY <1>2 DEF Sha, CloseRequest, StandsFor
  <1>5. greens' = greens /\ greens \subseteq Commits
    BY DEF CloseRequest, GitLabHolds
  <1>6. head <= head /\ head \in Int
    BY <1>1
  <1> HIDE DEF q
  <1>7. PromptCI => /\ q.ci = "running" => q.tested
                    /\ q.ci = "success" => StandsFor(q) \in greens'
    BY <1>2, <1>4, <1>5 DEF TestedHolds
  <1> QED
    BY <1>1, <1>2, <1>3, <1>4, <1>5, <1>6, <1>7, ChangesKeep

LEMMA ReopenRequestKeeps ==
    ASSUME GitLabHolds, TestedHolds, NEW m \in Requests, ReopenRequest(m)
    PROVE  GitLabHolds' /\ TestedHolds' /\ Forward
  <1> DEFINE reopened == [requests[m] EXCEPT !.state = "opened"]
             q == IF requests[m].sha = head THEN reopened
                  ELSE IF PromptCI THEN WithPipeline(reopened)
                  ELSE [reopened EXCEPT !.tested = FALSE]
  <1>1. /\ requests[m] \in RequestState /\ head \in 0..MaxPushes /\ m \in Existing
        /\ requests[m].state = "closed" /\ requests[m].sha <= head
    BY DEF GitLabHolds, ReopenRequest, Existing
  <1>2. reopened \in RequestState /\ reopened.sha = requests[m].sha
        /\ reopened.state = "opened"
        /\ reopened.ci = requests[m].ci /\ reopened.tested = requests[m].tested
    BY <1>1 DEF RequestState, State
  <1>3. Changes(m, q)
    <2>1. SetRequests([requests EXCEPT ![m] = q])
      BY DEF ReopenRequest
    <2> HIDE DEF q
    <2> QED
      BY <2>1, SetRequestsStands DEF ReopenRequest, Changes, GitLabHolds
  <1>4. Sha(m) = requests[m].sha
    BY <1>1 DEF Sha, Opened
  <1>5. greens' = greens /\ greens \subseteq Commits
    BY DEF ReopenRequest, GitLabHolds
  <1>6. q \in RequestState /\ q.state = "opened" /\ q.sha = requests[m].sha
    <2>1. CASE requests[m].sha = head
      BY <2>1, <1>2
    <2>2. CASE requests[m].sha # head /\ PromptCI
      BY <2>2, <1>2, WithPipelineTyped
    <2>3. CASE requests[m].sha # head /\ ~PromptCI
      BY <2>3, <1>2 DEF RequestState
    <2> QED
      BY <2>1, <2>2, <2>3
  <1>7. StandsFor(q) = head
    BY <1>6 DEF StandsFor
  <1>8. PromptCI => /\ q.ci = "running" => q.tested
                    /\ q.ci = "success" => StandsFor(q) \in greens'
    <2>1. CASE requests[m].sha = head
      BY <2>1, <1>2, <1>4, <1>5, <1>7 DEF TestedHolds
    <2>2. CASE requests[m].sha # head
      BY <2>2, <1>2, WithPipelineTyped
    <2> QED
      BY <2>1, <2>2
  <1> HIDE DEF q
  <1> QED
    BY <1>1, <1>3, <1>4, <1>5, <1>6, <1>7, <1>8, ChangesKeep

LEMMA MergedHeadKeeps ==
    ASSUME GitLabHolds, TestedHolds, NEW m \in Opened, requests' = MergedHead(m),
           UNCHANGED <<head, content, threads, greens>>,
           standing' \subseteq standing, standing' \subseteq Obstacles(requests')
    PROVE  GitLabHolds' /\ TestedHolds' /\ Forward
  <1> DEFINE q == [NoRequest EXCEPT !.state = "merged", !.sha = head,
                                    !.thread = requests[m].thread,
                                    !.noteAge = requests[m].noteAge]
  <1>1. /\ m \in Requests /\ requests[m] \in RequestState /\ head \in 0..MaxPushes
        /\ m \in Existing
    BY DEF GitLabHolds, Opened, Existing
  <1>2. q \in RequestState /\ q.state = "merged" /\ q.sha = head /\ q.ci = "none"
    BY <1>1, Blank DEF RequestState, State, NoRequest
  <1>3. Changes(m, q)
    BY DEF MergedHead, Changes, GitLabHolds
  <1>4. Sha(m) = head /\ StandsFor(q) = head
    BY <1>2 DEF Sha, StandsFor
  <1>5. greens' = greens /\ greens \subseteq Commits
    BY DEF GitLabHolds
  <1>6. head <= head /\ head \in Int
    BY <1>1
  <1> HIDE DEF q
  <1> QED
    BY <1>1, <1>2, <1>3, <1>4, <1>5, <1>6, ChangesKeep

LEMMA MergeByHandKeeps ==
    ASSUME GitLabHolds, TestedHolds, NEW m \in Requests, MergeByHand(m)
    PROVE  GitLabHolds' /\ TestedHolds' /\ Forward
  BY MergedHeadKeeps, SetRequestsStands DEF MergeByHand

LEMMA ThreadKeeps ==
    ASSUME GitLabHolds, TestedHolds, NEW m \in Requests, OpenThread(m) \/ ResolveThread(m)
    PROVE  GitLabHolds' /\ TestedHolds' /\ Forward
  <1> DEFINE q == IF OpenThread(m) THEN [requests[m] EXCEPT !.thread = TRUE, !.noteAge = 0]
                  ELSE [requests[m] EXCEPT !.thread = FALSE]
  <1>1. requests[m] \in RequestState /\ head \in 0..MaxPushes /\ m \in Existing
        /\ requests[m].sha <= head
    BY DEF GitLabHolds, OpenThread, ResolveThread, Opened, Existing
  <1>2. /\ q \in RequestState
        /\ q.state = requests[m].state /\ q.sha = requests[m].sha
        /\ q.ci = requests[m].ci /\ q.tested = requests[m].tested
    <2>1. CASE OpenThread(m)
      BY <2>1, <1>1, Ages DEF RequestState
    <2>2. CASE ~OpenThread(m)
      BY <2>2, <1>1 DEF RequestState
    <2> QED
      BY <2>1, <2>2
  <1>3. requests' = [requests EXCEPT ![m] = q] /\ standing' \subseteq standing
        /\ standing' \subseteq Obstacles(requests')
    <2>1. CASE OpenThread(m)
      <3>1. SetRequests([requests EXCEPT ![m].thread = TRUE, ![m].noteAge = 0])
        BY <2>1 DEF OpenThread
      <3>2. [requests EXCEPT ![m].thread = TRUE, ![m].noteAge = 0] = [requests EXCEPT ![m] = q]
        BY <2>1 DEF GitLabHolds
      <3> QED
        BY <3>1, <3>2, SetRequestsStands
    <2>2. CASE ~OpenThread(m)
      <3>1. SetRequests([requests EXCEPT ![m].thread = FALSE])
        BY <2>2 DEF ResolveThread
      <3> QED
        BY <2>2, <3>1, SetRequestsStands
    <2> QED
      BY <2>1, <2>2
  <1>4. threads' \in 0..MaxThreads
    BY RobotAssumption DEF OpenThread, ResolveThread, GitLabHolds
  <1>5. Changes(m, q)
    BY <1>3, <1>4 DEF Changes, OpenThread, ResolveThread
  <1>6. greens' = greens /\ greens \subseteq Commits
    BY DEF OpenThread, ResolveThread, GitLabHolds
  <1> HIDE DEF q
  <1>7. StandsFor(q) = Sha(m) /\ Sha(m) <= Sha(m)
    BY <1>1, <1>2 DEF StandsFor, Sha, Opened, RequestState
  <1>8. PromptCI => /\ q.ci = "running" => q.tested
                    /\ q.ci = "success" => StandsFor(q) \in greens'
    BY <1>2, <1>6, <1>7 DEF TestedHolds
  <1>9. q.state # "absent"
    BY <1>1, <1>2 DEF Existing
  <1> QED
    BY <1>1, <1>2, <1>5, <1>6, <1>7, <1>8, <1>9, ChangesKeep

LEMMA PipelineKeeps ==
    ASSUME GitLabHolds, TestedHolds, NEW m \in Requests, CreatePipeline(m) \/ RerunPipeline(m)
    PROVE  GitLabHolds' /\ TestedHolds' /\ Forward
  <1> DEFINE q == WithPipeline(requests[m])
  <1>1. requests[m] \in RequestState /\ head \in 0..MaxPushes /\ m \in Existing
        /\ requests[m].sha <= head /\ requests[m].state = "opened"
    BY DEF GitLabHolds, CreatePipeline, RerunPipeline, Opened, Existing
  <1>2. /\ q \in RequestState /\ q.state = "opened" /\ q.sha = requests[m].sha
        /\ q.ci = "running" /\ q.tested
    BY <1>1, WithPipelineTyped
  <1>3. Changes(m, q)
    BY SetRequestsStands DEF CreatePipeline, RerunPipeline, Changes, GitLabHolds
  <1>4. greens' = greens /\ greens \subseteq Commits
    BY DEF CreatePipeline, RerunPipeline, GitLabHolds
  <1> HIDE DEF q
  <1>5. StandsFor(q) = Sha(m) /\ Sha(m) <= Sha(m)
    BY <1>1, <1>2 DEF StandsFor, Sha, Opened, RequestState
  <1> QED
    BY <1>1, <1>2, <1>3, <1>4, <1>5, ChangesKeep

LEMMA FinishPipelineKeeps ==
    ASSUME GitLabHolds, TestedHolds, NEW m \in Requests, FinishPipeline(m)
    PROVE  GitLabHolds' /\ TestedHolds' /\ Forward
  <1>0. PICK result \in {"success", "failed"} :
           /\ SetRequests([requests EXCEPT ![m].ci = result])
           /\ greens' = IF result = "success" /\ requests[m].tested
                        THEN greens \cup {Sha(m)} ELSE greens
    BY DEF FinishPipeline
  <1> DEFINE q == [requests[m] EXCEPT !.ci = result]
  <1>1. requests[m] \in RequestState /\ head \in 0..MaxPushes /\ m \in Existing
        /\ requests[m].sha <= head /\ requests[m].ci = "running"
    BY DEF GitLabHolds, FinishPipeline
  <1>2. /\ q \in RequestState /\ q.state = requests[m].state /\ q.sha = requests[m].sha
        /\ q.ci = result /\ q.tested = requests[m].tested
    BY <1>1 DEF RequestState, CIStatus
  <1>3. Changes(m, q)
    BY <1>0, SetRequestsStands DEF FinishPipeline, Changes, GitLabHolds
  <1> HIDE DEF q
  <1>4. StandsFor(q) = Sha(m) /\ Sha(m) \in Int /\ Sha(m) <= Sha(m)
        /\ Sha(m) >= 1 /\ Sha(m) <= MaxPushes
    BY <1>1, <1>2, RobotAssumption DEF StandsFor, Sha, Opened, RequestState, GitLabHolds
  <1>5. greens \subseteq greens' /\ greens' \subseteq Commits
    BY <1>0, <1>4, RobotAssumption DEF GitLabHolds, Commits
  <1>6. PromptCI => /\ q.ci = "running" => q.tested
                    /\ q.ci = "success" => StandsFor(q) \in greens'
    BY <1>0, <1>1, <1>2, <1>4 DEF TestedHolds
  <1>7. q.state # "absent"
    BY <1>1, <1>2 DEF Existing
  <1> QED
    BY <1>1, <1>2, <1>3, <1>4, <1>5, <1>6, <1>7, ChangesKeep

(* The next request has a number nobody has.                               *)
LEMMA NewRequestKeeps ==
    ASSUME GitLabHolds, TestedHolds, CanOpen, requests' = NewRequest,
           UNCHANGED <<head, content, threads, greens>>,
           standing' \subseteq standing, standing' \subseteq Obstacles(requests')
    PROVE  GitLabHolds' /\ TestedHolds' /\ Forward
  <1>1. PICK k \in 0..MaxRequests : Existing = 1..k
    BY DEF GitLabHolds
  <1>2. k \in Nat /\ MaxRequests \in Nat /\ Cardinality(Existing) = k
    <2>1. k \in Int /\ k >= 0 /\ 1 \in Int /\ MaxRequests \in Nat
      BY <1>1, RobotAssumption
    <2>2. Cardinality(1..k) = IF 1 > k THEN 0 ELSE k - 1 + 1
      BY <2>1, FS_Interval
    <2> QED
      BY <1>1, <2>1, <2>2
  <1> DEFINE m == k + 1
             opened == [NoRequest EXCEPT !.state = "opened"]
             q == IF PromptCI THEN WithPipeline(opened) ELSE opened
  <1>3. k < MaxRequests
    BY <1>1, <1>2 DEF CanOpen, Requests
  <1>4. m \in Requests /\ m \notin Existing
    BY <1>1, <1>2, <1>3 DEF Requests
  <1>5. opened \in RequestState /\ opened.state = "opened" /\ opened.sha = 0
        /\ opened.ci = "none"
    BY Blank DEF RequestState, State, NoRequest
  <1>6. q \in RequestState /\ q.state = "opened" /\ q.sha = 0 /\ q.ci # "success"
        /\ (q.ci = "running" => q.tested)
    BY <1>5, WithPipelineTyped
  <1>7. requests' = [requests EXCEPT ![m] = q]
    BY <1>2 DEF NewRequest
  <1> HIDE DEF m, q
  <1>8. /\ requests' \in [Requests -> RequestState] /\ requests'[m] = q
        /\ \A j \in Requests : j # m => requests'[j] = requests[j]
    BY <1>4, <1>6, <1>7 DEF GitLabHolds
  <1>9. Existing' = Existing \cup {m}
    BY <1>4, <1>6, <1>8 DEF Existing
  <1>10. \E j \in 0..MaxRequests : Existing' = 1..j
    <2>1. k + 1 \in 0..MaxRequests /\ Existing' = 1..(k + 1)
      BY <1>1, <1>2, <1>3, <1>9 DEF m
    <2> QED
      BY <2>1
  <1>11. /\ Sha(m)' = head
         /\ \A j \in Requests : j # m => Sha(j)' = Sha(j)
    BY <1>4, <1>6, <1>8 DEF Sha, Opened
  <1>12. head \in 0..MaxPushes /\ head \in Int /\ head >= 1
    BY RobotAssumption DEF GitLabHolds, CanOpen
  <1>13. \A j \in Requests : /\ requests'[j].sha <= head'
                             /\ j \in Existing' => Sha(j)' >= 1
                             /\ requests'[j].thread \/ requests'[j].ci # "none" => j \in Existing'
    <2> SUFFICES ASSUME NEW j \in Requests
                 PROVE  /\ requests'[j].sha <= head'
                        /\ j \in Existing' => Sha(j)' >= 1
                        /\ requests'[j].thread \/ requests'[j].ci # "none" => j \in Existing'
      OBVIOUS
    <2>1. CASE j = m
      BY <2>1, <1>6, <1>8, <1>9, <1>11, <1>12
    <2>2. CASE j # m
      BY <2>2, <1>8, <1>9, <1>11 DEF GitLabHolds
    <2> QED
      BY <2>1, <2>2
  <1>14. GitLabHolds'
    BY <1>8, <1>10, <1>13 DEF GitLabHolds
  <1>15. TestedHolds'
    BY <1>6, <1>8, <1>11 DEF TestedHolds
  <1>16. \A j \in Existing : j \in Existing' /\ Sha(j) <= Sha(j)'
    <2>1. \A j \in Existing : j \in Requests /\ j # m /\ Sha(j) \in Int
      BY <1>4, <1>12 DEF Existing, Sha, GitLabHolds, RequestState
    <2> QED
      BY <1>9, <1>11, <2>1
  <1>17. Forward
    BY <1>12, <1>16 DEF Forward
  <1> QED
    BY <1>14, <1>15, <1>17

LEMMA OpenByHandKeeps ==
    ASSUME GitLabHolds, TestedHolds, OpenByHand
    PROVE  GitLabHolds' /\ TestedHolds' /\ Forward
  BY NewRequestKeeps, SetRequestsStands DEF OpenByHand

LEMMA PushKeeps ==
    ASSUME GitLabHolds, TestedHolds, Push
    PROVE  GitLabHolds' /\ TestedHolds' /\ Forward
  <1>1. /\ head \in Int /\ head >= 0 /\ head' = head + 1 /\ head' \in 0..MaxPushes
        /\ greens' = greens /\ threads' = threads
    BY RobotAssumption DEF Push, GitLabHolds
  <1>2. content' \in [Commits -> Contents]
    BY DEF Push, GitLabHolds
  <1>3. /\ requests' = [m \in Requests |->
                          IF m \notin Opened THEN requests[m]
                          ELSE IF PromptCI THEN WithPipeline(requests[m])
                          ELSE [requests[m] EXCEPT !.tested = FALSE]]
        /\ standing' \subseteq standing /\ standing' \subseteq Obstacles(requests')
    BY SetRequestsStands DEF Push
  <1>4. ASSUME NEW m \in Requests
        PROVE  /\ requests[m] \in RequestState /\ requests'[m] \in RequestState
               /\ requests'[m].state = requests[m].state /\ requests'[m].sha = requests[m].sha
               /\ requests'[m].thread = requests[m].thread
               /\ m \notin Opened => requests'[m] = requests[m]
               /\ m \in Opened /\ PromptCI => requests'[m].ci = "running" /\ requests'[m].tested
    <2>1. requests[m] \in RequestState
      BY DEF GitLabHolds
    <2>2. CASE m \notin Opened
      BY <2>1, <2>2, <1>3
    <2>3. CASE m \in Opened /\ PromptCI
      BY <2>1, <2>3, <1>3, WithPipelineTyped
    <2>4. CASE m \in Opened /\ ~PromptCI
      BY <2>1, <2>4, <1>3 DEF RequestState
    <2> QED
      BY <2>1, <2>2, <2>3, <2>4
  <1>5. requests' \in [Requests -> RequestState]
    BY <1>3, <1>4
  <1>6. Existing' = Existing /\ Opened' = Opened
    BY <1>4 DEF Existing, Opened
  <1>7. \A m \in Requests : Sha(m)' = IF m \in Opened THEN head + 1 ELSE Sha(m)
    BY <1>1, <1>4, <1>6 DEF Sha
  <1>8. \A m \in Requests : /\ requests'[m].sha <= head'
                            /\ m \in Existing' => Sha(m)' >= 1
                            /\ requests'[m].thread \/ requests'[m].ci # "none" => m \in Existing'
    <2> SUFFICES ASSUME NEW m \in Requests
                 PROVE  /\ requests'[m].sha <= head'
                        /\ m \in Existing' => Sha(m)' >= 1
                        /\ requests'[m].thread \/ requests'[m].ci # "none" => m \in Existing'
      OBVIOUS
    <2>1. requests'[m].sha <= head'
      BY <1>1, <1>4 DEF GitLabHolds, RequestState
    <2>2. m \in Opened => m \in Existing
      BY DEF Opened, Existing
    <2> QED
      BY <2>1, <2>2, <1>1, <1>4, <1>6, <1>7 DEF GitLabHolds
  <1>9. GitLabHolds'
    <2>1. \E k \in 0..MaxRequests : Existing' = 1..k
      BY <1>6 DEF GitLabHolds
    <2>2. threads' \in 0..MaxThreads /\ greens' \subseteq Commits
      BY <1>1 DEF GitLabHolds
    <2> QED
      BY <1>1, <1>2, <1>3, <1>5, <1>8, <2>1, <2>2 DEF GitLabHolds
  <1>10. TestedHolds'
    BY <1>1, <1>4, <1>7 DEF TestedHolds
  <1>11. \A m \in Existing : m \in Existing' /\ Sha(m) <= Sha(m)'
    <2> SUFFICES ASSUME NEW m \in Existing PROVE m \in Existing' /\ Sha(m) <= Sha(m)'
      OBVIOUS
    <2>1. m \in Requests /\ requests[m] \in RequestState
      BY <1>4 DEF Existing
    <2>2. CASE m \in Opened
      BY <2>1, <2>2, <1>1, <1>6, <1>7 DEF Sha
    <2>3. CASE m \notin Opened
      BY <2>1, <2>3, <1>6, <1>7 DEF Sha, RequestState
    <2> QED
      BY <2>2, <2>3
  <1>12. Forward
    BY <1>1, <1>3, <1>11 DEF Forward
  <1> QED
    BY <1>9, <1>10, <1>12

LEMMA TickKeeps ==
    ASSUME GitLabHolds, TestedHolds, Tick
    PROVE  GitLabHolds' /\ TestedHolds' /\ Forward
  <1>1. UNCHANGED <<head, content, threads, greens, standing>>
    BY DEF Tick
  <1>2. ASSUME NEW m \in Requests
        PROVE  /\ requests[m] \in RequestState /\ requests'[m] \in RequestState
               /\ requests'[m].state = requests[m].state /\ requests'[m].sha = requests[m].sha
               /\ requests'[m].thread = requests[m].thread /\ requests'[m].ci = requests[m].ci
               /\ requests'[m].tested = requests[m].tested
    <2>1. requests[m] \in RequestState
      BY DEF GitLabHolds
    <2>2. PICK dated : requests'[m] = [requests[m] EXCEPT
              !.noteAge = Older(@), !.ciAge = IF dated THEN Older(@) ELSE @]
      BY DEF Tick, AgeAll
    <2>3. Older(requests[m].noteAge) \in Age
          /\ (IF dated THEN Older(requests[m].ciAge) ELSE requests[m].ciAge) \in Age
      BY <2>1, Ages DEF RequestState
    <2> QED
      BY <2>1, <2>2, <2>3 DEF RequestState
  <1>3. requests' \in [Requests -> RequestState]
    BY <1>2 DEF Tick, AgeAll
  <1>4. Existing' = Existing /\ Opened' = Opened /\ Obstacles(requests') = Obstacles(requests)
    BY <1>2 DEF Existing, Opened, Obstacles
  <1>5. \A m \in Requests : Sha(m)' = Sha(m)
    BY <1>1, <1>2, <1>4 DEF Sha
  <1>6. GitLabHolds'
    BY <1>1, <1>2, <1>3, <1>4, <1>5 DEF GitLabHolds
  <1>7. TestedHolds'
    BY <1>1, <1>2, <1>5 DEF TestedHolds
  <1>8. \A m \in Existing : m \in Existing' /\ Sha(m) <= Sha(m)'
    <2>1. \A m \in Existing : m \in Requests /\ Sha(m) \in Int
      BY DEF Existing, Sha, GitLabHolds, RequestState
    <2> QED
      BY <2>1, <1>4, <1>5
  <1>9. head \in Int
    BY DEF GitLabHolds
  <1>10. Forward
    BY <1>1, <1>8, <1>9 DEF Forward
  <1> QED
    BY <1>6, <1>7, <1>10

LEMMA PeopleKeep ==
    ASSUME GitLabHolds, TestedHolds, People \/ CINext
    PROVE  GitLabHolds' /\ TestedHolds' /\ Forward
  BY PushKeeps, OpenByHandKeeps, CloseRequestKeeps, ReopenRequestKeeps, MergeByHandKeeps,
     ThreadKeeps, PipelineKeeps, FinishPipelineKeeps DEF People, CINext

(* GitLab's part of the robot's update.                                    *)
LEMMA UpdateKeeps ==
    ASSUME GitLabHolds, TestedHolds, UpdateBranch
    PROVE  GitLabHolds' /\ TestedHolds' /\ Forward
  <1>1. UNCHANGED <<head, content, threads, greens>> /\ standing' = {}
    BY DEF UpdateBranch
  <1>2. standing' \subseteq standing /\ standing' \subseteq Obstacles(requests')
    BY <1>1
  <1>3. CASE requests' = requests
    <2>1. /\ Existing' = Existing /\ \A m \in Requests : Sha(m)' = Sha(m)
      BY <1>1, <1>3 DEF Existing, Sha, Opened
    <2>2. \A m \in Existing : m \in Requests /\ Sha(m) \in Int
      BY DEF Existing, Sha, GitLabHolds, RequestState
    <2>3. head \in Int
      BY DEF GitLabHolds
    <2> QED
      BY <1>1, <1>2, <1>3, <2>1, <2>2, <2>3 DEF GitLabHolds, TestedHolds, Forward
  <1>4. CASE CanOpen /\ requests' = NewRequest
    BY <1>1, <1>2, <1>4, NewRequestKeeps
  <1>5. CASE OpenRow \in Opened /\ requests' = MergedHead(OpenRow)
    BY <1>1, <1>2, <1>5, MergedHeadKeeps
  <1> QED
    BY <1>3, <1>4, <1>5 DEF UpdateBranch, CreateMergeRequest, AcceptMergeRequest

-----------------------------------------------------------------------------
(* The table: what a row says of the head, the head has.  A diff was read  *)
(* after the commit it is stored with, and the branch only moves forward.  *)
RowHolds(row) ==
    /\ row.sha <= head
    /\ row.sha = head => row.diff \in {content[head], "empty"}
    /\ PromptCI /\ row.green /\ row.sha = head => head \in greens

RowsHold == rows \in [Requests -> RowState] /\ \A m \in Requests : RowHolds(rows[m])

(* The robot: what it has listed is there and has not moved back, and the  *)
(* changes it has read are those of the commit it listed, if that is still *)
(* the head.                                                               *)
RobotHolds ==
    /\ robot \in RobotState
    /\ robot.left \subseteq Existing
    /\ \A m \in Requests :
         /\ robot.list[m].sha <= head
         /\ robot.list[m].state # "absent" => m \in Existing /\ robot.list[m].sha <= Sha(m)
    /\ robot.pc = "pipeline" =>
         \A m \in Requests :
           (IsCurrent(m) /\ robot.list[m].state = "opened" /\ robot.list[m].sha = head)
             => robot.diff \in {content[head], "empty"}

(* What has stood in the way since the iteration began is in the rows this *)
(* iteration has stored, or is among what it has still to read; and it is  *)
(* ready to merge only if it is in neither.                                *)
ObstaclesHold ==
    /\ robot.pc \in Syncing =>
         \A m \in Requests \ robot.left :
           /\ <<"thread", m>> \in standing => rows[m].thread
           /\ <<"ci", m>> \in standing => ~rows[m].green
    /\ robot.pc \in {"changes", "pipeline"} =>
         \A m \in Requests : IsCurrent(m) /\ <<"thread", m>> \in standing => robot.thread
    /\ robot.pc = "update" /\ robot.ready =>
         /\ \A o \in standing : o[1] # "thread" /\ o # <<"ci", OpenRow>>
         /\ OpenRow \in Requests => /\ rows[OpenRow].diff \notin {"extra", "empty"}
                                    /\ rows[OpenRow].green

IInv == GitLabHolds /\ TestedHolds /\ RowsHold /\ RobotHolds /\ ObstaclesHold

LEMMA InitIInv == Init => IInv
  <1> SUFFICES ASSUME Init PROVE IInv
    OBVIOUS
  <1>1. GitLabHolds /\ TestedHolds
    BY InitGitLab
  <1>2. /\ robot = Idle /\ head = 0 /\ standing = {}
        /\ rows \in [Requests -> RowState] /\ \A m \in Requests : rows[m] = NoRow
    BY Blank DEF Init
  <1>3. RowsHold
    BY <1>2 DEF RowsHold, RowHolds, NoRow
  <1>4. /\ robot \in RobotState /\ robot.left = {} /\ robot.pc = "idle"
        /\ \A m \in Requests : robot.list[m].sha = 0 /\ robot.list[m].state = "absent"
    BY <1>2, Blank DEF Idle, NotListed
  <1>5. RobotHolds
    BY <1>2, <1>4 DEF RobotHolds
  <1>6. ObstaclesHold
    BY <1>4 DEF ObstaclesHold, Syncing
  <1> QED
    BY <1>1, <1>3, <1>5, <1>6 DEF IInv

(* The rows stay true while GitLab moves forward and they only age.        *)
OnlyAge ==
    /\ rows' \in [Requests -> RowState]
    /\ \A m \in Requests : /\ rows'[m].state = rows[m].state /\ rows'[m].sha = rows[m].sha
                           /\ rows'[m].thread = rows[m].thread
                           /\ rows'[m].green = rows[m].green /\ rows'[m].diff = rows[m].diff

LEMMA RowsStay ==
    ASSUME GitLabHolds, GitLabHolds', RowsHold, Forward, OnlyAge
    PROVE  RowsHold'
  <1>1. head \in Int /\ head' \in Int
    BY DEF GitLabHolds
  <1>2. ASSUME NEW m \in Requests PROVE RowHolds(rows[m])'
    <2>1. rows[m] \in RowState /\ RowHolds(rows[m]) /\ rows[m].sha \in Int
      BY DEF RowsHold, RowState
    <2>2. CASE head' = head
      BY <1>1, <2>1, <2>2 DEF RowHolds, Forward, OnlyAge
    <2>3. CASE head' # head
      BY <1>1, <2>1, <2>3 DEF RowHolds, Forward, OnlyAge
    <2> QED
      BY <2>2, <2>3
  <1> QED
    BY <1>2 DEF RowsHold, OnlyAge

LEMMA UnchangedAges ==
    ASSUME RowsHold, rows' = rows
    PROVE  OnlyAge
  BY DEF RowsHold, OnlyAge

(* The iteration goes on while people, CI and time do.                     *)
LEMMA OthersKeep ==
    ASSUME IInv, GitLabHolds', TestedHolds', Forward, OnlyAge,
           robot' \in RobotState, robot'.pc = robot.pc, robot'.list = robot.list,
           robot'.left = robot.left, robot'.thread = robot.thread,
           robot'.diff = robot.diff, robot'.ready = robot.ready
    PROVE  IInv'
  <1>0. /\ GitLabHolds /\ RowsHold /\ RobotHolds /\ ObstaclesHold
    BY DEF IInv
  <1>1. RowsHold'
    BY <1>0, RowsStay
  <1>2. head \in Int /\ head' \in Int /\ head <= head'
    BY <1>0 DEF GitLabHolds, Forward
  <1>3. \A m \in Requests : robot.list[m].sha \in Int /\ robot.list[m] \in Listed
    BY <1>0 DEF RobotHolds, RobotState, Listed
  <1>4. \A m \in Existing : m \in Requests /\ Sha(m) \in Int /\ Sha(m)' \in Int
    <2>1. \A m \in Existing : m \in Requests /\ requests[m].sha \in Int /\ requests'[m].sha \in Int
      BY <1>0 DEF Existing, GitLabHolds, RequestState
    <2> QED
      BY <1>2, <2>1 DEF Sha
  <1>5. \A m \in Requests : IsCurrent(m)' <=> IsCurrent(m)
    BY DEF IsCurrent
  <1>6. RobotHolds'
    <2>1. robot'.left \subseteq Existing'
      BY <1>0 DEF RobotHolds, Forward
    <2>2. ASSUME NEW m \in Requests
          PROVE  /\ robot'.list[m].sha <= head'
                 /\ robot'.list[m].state # "absent" =>
                      m \in Existing' /\ robot'.list[m].sha <= Sha(m)'
      <3>1. robot.list[m].sha <= head
        BY <1>0 DEF RobotHolds
      <3>2. robot.list[m].state # "absent" => m \in Existing /\ robot.list[m].sha <= Sha(m)
        BY <1>0 DEF RobotHolds
      <3> QED
        BY <1>2, <1>3, <1>4, <3>1, <3>2 DEF Forward
    <2>3. ASSUME NEW m \in Requests, robot.pc = "pipeline", IsCurrent(m)',
                 robot.list[m].state = "opened", robot.list[m].sha = head'
          PROVE  robot.diff \in {content'[head'], "empty"}
      <3>1. robot.list[m].sha <= head
        BY <1>0 DEF RobotHolds
      <3>2. head' = head /\ content' = content
        BY <1>2, <2>3, <3>1 DEF Forward
      <3> QED
        BY <1>0, <1>5, <2>3, <3>2 DEF RobotHolds
    <2> QED
      BY <2>1, <2>2, <2>3 DEF RobotHolds
  <1>7. ObstaclesHold'
    <2>1. RowsIn("opened")' = RowsIn("opened")
      BY DEF RowsIn, OnlyAge
    <2>2. OpenRow' = OpenRow
      BY <2>1 DEF OpenRow
    <2>3. standing' \subseteq standing
      BY DEF Forward
    <2>4. robot'.pc \in Syncing =>
            \A m \in Requests \ robot'.left :
              /\ <<"thread", m>> \in standing' => rows'[m].thread
              /\ <<"ci", m>> \in standing' => ~rows'[m].green
      BY <1>0, <2>3 DEF ObstaclesHold, OnlyAge
    <2>5. robot'.pc \in {"changes", "pipeline"} =>
            \A m \in Requests : IsCurrent(m)' /\ <<"thread", m>> \in standing' => robot'.thread
      BY <1>0, <1>5, <2>3 DEF ObstaclesHold
    <2>6. robot'.pc = "update" /\ robot'.ready =>
            /\ \A o \in standing' : o[1] # "thread" /\ o # <<"ci", OpenRow>>
            /\ OpenRow \in Requests => /\ rows'[OpenRow].diff \notin {"extra", "empty"}
                                       /\ rows'[OpenRow].green
      BY <1>0, <2>3 DEF ObstaclesHold, OnlyAge
    <2> QED
      BY <2>2, <2>4, <2>5, <2>6 DEF ObstaclesHold
  <1> QED
    BY <1>1, <1>6, <1>7 DEF IInv

LEMMA TickAges ==
    ASSUME IInv, Tick
    PROVE  IInv'
  <1>0. RowsHold /\ RobotHolds /\ GitLabHolds /\ TestedHolds
    BY DEF IInv
  <1>1. ASSUME NEW m \in Requests
        PROVE  /\ rows'[m] \in RowState
               /\ rows'[m].state = rows[m].state /\ rows'[m].sha = rows[m].sha
               /\ rows'[m].thread = rows[m].thread
               /\ rows'[m].green = rows[m].green /\ rows'[m].diff = rows[m].diff
    <2>1. rows[m] \in RowState
      BY <1>0 DEF RowsHold
    <2>2. PICK dated : rows'[m] = [rows[m] EXCEPT
              !.noteAge = Older(@), !.ciAge = IF dated THEN Older(@) ELSE @]
      BY DEF Tick, AgeAll
    <2>3. Older(rows[m].noteAge) \in Age
          /\ (IF dated THEN Older(rows[m].ciAge) ELSE rows[m].ciAge) \in Age
      BY <2>1, Ages DEF RowState
    <2> QED
      BY <2>1, <2>2, <2>3 DEF RowState
  <1>2. OnlyAge
    <2>1. rows' \in [Requests -> RowState]
      BY <1>1 DEF Tick, AgeAll
    <2> QED
      BY <1>1, <2>1 DEF OnlyAge
  <1>3. /\ robot' \in RobotState /\ robot'.pc = robot.pc /\ robot'.list = robot.list
        /\ robot'.left = robot.left /\ robot'.thread = robot.thread
        /\ robot'.diff = robot.diff /\ robot'.ready = robot.ready
    <2>1. robot \in RobotState /\ robot' = [robot EXCEPT !.noteAge = Older(robot.noteAge)]
      BY <1>0 DEF RobotHolds, Tick
    <2>2. Older(robot.noteAge) \in Age
      BY <2>1, Ages DEF RobotState
    <2> QED
      BY <2>1, <2>2 DEF RobotState
  <1> QED
    BY <1>0, <1>2, <1>3, TickKeeps, OthersKeep

LEMMA PeopleKeepAll ==
    ASSUME IInv, People \/ CINext
    PROVE  IInv'
  <1>0. RowsHold /\ RobotHolds /\ GitLabHolds /\ TestedHolds
    BY DEF IInv
  <1>1. rows' = rows /\ robot' = robot
    BY DEF People, CINext, Push, OpenByHand, CloseRequest, ReopenRequest, MergeByHand,
           OpenThread, ResolveThread, RerunPipeline, CreatePipeline, FinishPipeline
  <1>2. OnlyAge
    BY <1>0, <1>1, UnchangedAges
  <1>3. robot' \in RobotState
    BY <1>0, <1>1 DEF RobotHolds
  <1> QED
    BY <1>0, <1>1, <1>2, <1>3, PeopleKeep, OthersKeep

-----------------------------------------------------------------------------
(* The iteration ends, after its update or because of a failure.           *)
LEMMA IdleKeeps ==
    ASSUME IInv, GitLabHolds', TestedHolds', Forward,
           rows' = rows, robot' = Idle, standing' = {}
    PROVE  IInv'
  <1>0. GitLabHolds /\ RowsHold
    BY DEF IInv
  <1>1. RowsHold'
    BY <1>0, UnchangedAges, RowsStay
  <1>2. /\ robot' \in RobotState /\ robot'.left = {} /\ robot'.pc = "idle"
        /\ \A m \in Requests : robot'.list[m].sha = 0 /\ robot'.list[m].state = "absent"
    BY Blank DEF Idle, NotListed
  <1>3. head' >= 0
    BY RobotAssumption DEF GitLabHolds
  <1>4. RobotHolds'
    BY <1>2, <1>3 DEF RobotHolds
  <1>5. ObstaclesHold'
    BY <1>2 DEF ObstaclesHold, Syncing
  <1> QED
    BY <1>1, <1>4, <1>5 DEF IInv

(* GitLab stands still during the robot's reads.                           *)
LEMMA StandsStill ==
    ASSUME GitLabHolds, TestedHolds, UNCHANGED gitlabVars,
           standing' \subseteq Obstacles(requests)
    PROVE  /\ GitLabHolds' /\ TestedHolds'
           /\ Existing' = Existing
           /\ \A m \in Requests : Sha(m)' = Sha(m) /\ DiffOf(m)' = DiffOf(m)
           /\ head' = head /\ content' = content /\ requests' = requests /\ greens' = greens
  <1>1. UNCHANGED <<head, content, requests, threads, greens>>
    BY DEF gitlabVars
  <1>2. /\ Existing' = Existing /\ Opened' = Opened
        /\ \A m \in Requests : Sha(m)' = Sha(m)
        /\ \A m \in Requests : DiffOf(m)' = DiffOf(m)
    BY <1>1 DEF Existing, Sha, Opened, DiffOf, InMain, Merged
  <1>3. Obstacles(requests') = Obstacles(requests)
    BY <1>1
  <1>4. GitLabHolds'
    BY <1>1, <1>2, <1>3 DEF GitLabHolds
  <1>5. TestedHolds'
    BY <1>1, <1>2 DEF TestedHolds
  <1> QED
    BY <1>1, <1>2, <1>4, <1>5

LEMMA StopKeeps ==
    ASSUME IInv, SyncFails \/ RobotStops
    PROVE  IInv'
  <1>0. GitLabHolds /\ TestedHolds
    BY DEF IInv
  <1>1. UNCHANGED gitlabVars /\ rows' = rows /\ robot' = Idle /\ standing' = {}
    BY DEF SyncFails, RobotStops
  <1>2. standing' \subseteq Obstacles(requests)
    BY <1>1
  <1>3. /\ GitLabHolds' /\ TestedHolds' /\ Existing' = Existing
        /\ \A m \in Requests : Sha(m)' = Sha(m)
        /\ head' = head /\ content' = content /\ greens' = greens
    BY <1>0, <1>1, <1>2, StandsStill
  <1>4. head \in Int /\ \A m \in Existing : m \in Requests /\ Sha(m) \in Int
    BY <1>0 DEF Existing, Sha, GitLabHolds, RequestState
  <1>5. Forward
    BY <1>1, <1>3, <1>4 DEF Forward
  <1> QED
    BY <1>1, <1>3, <1>5, IdleKeeps

LEMMA UpdateBranchKeeps ==
    ASSUME IInv, UpdateBranch
    PROVE  IInv'
  <1>1. GitLabHolds' /\ TestedHolds' /\ Forward
    BY UpdateKeeps DEF IInv
  <1>2. rows' = rows /\ robot' = Idle /\ standing' = {}
    BY DEF UpdateBranch
  <1> QED
    BY <1>1, <1>2, IdleKeeps

LEMMA SyncListKeeps ==
    ASSUME IInv, SyncList
    PROVE  IInv'
  <1>0. GitLabHolds /\ TestedHolds /\ RowsHold /\ RobotHolds
    BY DEF IInv
  <1> DEFINE list == [m \in Requests |->
                        [state |-> requests[m].state,
                         sha |-> IF m \in Existing THEN Sha(m) ELSE 0,
                         mergeable |-> m \in Existing /\ content[Sha(m)] # "conflict"]]
  <1>1. /\ UNCHANGED gitlabVars /\ rows' = rows /\ standing' = Obstacles(requests)
        /\ robot' = [Idle EXCEPT !.pc = "notes", !.left = Existing, !.list = list]
    BY DEF SyncList
  <1>2. /\ GitLabHolds' /\ TestedHolds' /\ Existing' = Existing
        /\ \A m \in Requests : Sha(m)' = Sha(m)
        /\ head' = head /\ content' = content /\ greens' = greens
    BY <1>0, <1>1, StandsStill
  <1>3. head \in 0..MaxPushes /\ head \in Int /\ 0 \in 0..MaxPushes /\ head >= 0
    BY <1>0, RobotAssumption DEF GitLabHolds
  <1>4. ASSUME NEW m \in Requests
        PROVE  /\ list[m] \in Listed /\ list[m].sha <= head
               /\ list[m].state # "absent" => m \in Existing /\ list[m].sha = Sha(m)
    <2>1. requests[m] \in RequestState /\ requests[m].sha <= head
      BY <1>0 DEF GitLabHolds
    <2>2. Sha(m) \in 0..MaxPushes /\ Sha(m) <= head
      BY <1>3, <2>1 DEF Sha, RequestState
    <2>3. list[m].state # "absent" => m \in Existing
      BY DEF Existing
    <2> QED
      BY <1>3, <2>1, <2>2, <2>3 DEF Listed, RequestState
  <1>5. list \in [Requests -> Listed]
    BY <1>4
  <1> HIDE DEF list
  <1>6. Existing \subseteq Requests
    BY DEF Existing
  <1>7. /\ robot' \in RobotState /\ robot'.pc = "notes" /\ robot'.left = Existing
        /\ robot'.list = list
    BY <1>1, <1>5, <1>6, Blank DEF RobotState, Syncing, Idle
  <1>8. RowsHold'
    BY <1>0, <1>1, <1>2 DEF RowsHold, RowHolds
  <1>9. \A m \in Requests : Sha(m) \in Int
    BY <1>0, <1>3 DEF Sha, GitLabHolds, RequestState
  <1>10. RobotHolds'
    BY <1>2, <1>4, <1>7, <1>9 DEF RobotHolds
  <1>11. ObstaclesHold'
    <2>1. ASSUME NEW m \in Requests \ Existing
          PROVE  <<"thread", m>> \notin standing' /\ <<"ci", m>> \notin standing'
      BY <1>0, <1>1 DEF Obstacles, GitLabHolds, Existing
    <2> QED
      BY <1>7, <2>1 DEF ObstaclesHold
  <1> QED
    BY <1>2, <1>8, <1>10, <1>11 DEF IInv

LEMMA SyncNotesKeeps ==
    ASSUME IInv, NEW m \in Requests, SyncNotes(m)
    PROVE  IInv'
  <1>0. GitLabHolds /\ TestedHolds /\ RowsHold /\ RobotHolds /\ ObstaclesHold
    BY DEF IInv
  <1>1. /\ UNCHANGED gitlabVars /\ rows' = rows /\ standing' = standing
        /\ robot' = [robot EXCEPT !.pc = "changes", !.thread = requests[m].thread,
                                  !.noteAge = requests[m].noteAge]
        /\ robot.pc = "notes" /\ IsCurrent(m)
    BY DEF SyncNotes
  <1>2. standing' \subseteq Obstacles(requests)
    BY <1>0, <1>1 DEF GitLabHolds
  <1>3. /\ GitLabHolds' /\ TestedHolds' /\ Existing' = Existing
        /\ \A k \in Requests : Sha(k)' = Sha(k)
        /\ head' = head /\ content' = content /\ greens' = greens
    BY <1>0, <1>1, <1>2, StandsStill
  <1>4. requests[m] \in RequestState /\ robot \in RobotState
    BY <1>0 DEF GitLabHolds, RobotHolds
  <1>5. /\ robot' \in RobotState /\ robot'.pc = "changes" /\ robot'.left = robot.left
        /\ robot'.list = robot.list /\ robot'.thread = requests[m].thread
    BY <1>1, <1>4 DEF RobotState, Syncing, RequestState
  <1>6. RowsHold'
    BY <1>0, <1>1, <1>3 DEF RowsHold, RowHolds
  <1>7. RobotHolds'
    BY <1>0, <1>3, <1>5 DEF RobotHolds
  <1>8. ASSUME NEW k \in Requests, IsCurrent(k)' PROVE k = m
    <2>1. robot.left \subseteq 1..MaxRequests /\ MaxRequests \in Nat
      BY <1>4, RobotAssumption DEF RobotState, Requests
    <2>2. k \in robot.left /\ m \in robot.left /\ m <= k /\ k <= m
      BY <1>1, <1>5, <1>8 DEF IsCurrent
    <2> QED
      BY <2>1, <2>2
  <1>9. <<"thread", m>> \in standing => requests[m].thread
    BY <1>0 DEF GitLabHolds, Obstacles
  <1>10. ObstaclesHold'
    BY <1>0, <1>1, <1>5, <1>8, <1>9 DEF ObstaclesHold, Syncing
  <1> QED
    BY <1>3, <1>6, <1>7, <1>10 DEF IInv

LEMMA SyncChangesKeeps ==
    ASSUME IInv, NEW m \in Requests, SyncChanges(m)
    PROVE  IInv'
  <1>0. GitLabHolds /\ TestedHolds /\ RowsHold /\ RobotHolds /\ ObstaclesHold
    BY DEF IInv
  <1>1. /\ UNCHANGED gitlabVars /\ rows' = rows /\ standing' = standing
        /\ robot' = [robot EXCEPT !.pc = "pipeline", !.diff = DiffOf(m)]
        /\ robot.pc = "changes" /\ IsCurrent(m)
    BY DEF SyncChanges
  <1>2. standing' \subseteq Obstacles(requests)
    BY <1>0, <1>1 DEF GitLabHolds
  <1>3. /\ GitLabHolds' /\ TestedHolds' /\ Existing' = Existing
        /\ \A k \in Requests : Sha(k)' = Sha(k)
        /\ head' = head /\ content' = content /\ greens' = greens
    BY <1>0, <1>1, <1>2, StandsStill
  <1>4. requests[m] \in RequestState /\ robot \in RobotState /\ m \in Existing
        /\ head \in 0..MaxPushes
    BY <1>0, <1>1 DEF GitLabHolds, RobotHolds, IsCurrent
  <1>5. Sha(m) \in 1..MaxPushes /\ Sha(m) <= head
    BY <1>0, <1>4, RobotAssumption DEF GitLabHolds, Sha, RequestState
  <1>6. DiffOf(m) \in {content[Sha(m)], "empty"} /\ DiffOf(m) \in Diff
    BY <1>0, <1>5 DEF DiffOf, Diff, GitLabHolds, Commits, Sha
  <1>7. /\ robot' \in RobotState /\ robot'.pc = "pipeline" /\ robot'.left = robot.left
        /\ robot'.list = robot.list /\ robot'.thread = robot.thread /\ robot'.diff = DiffOf(m)
    BY <1>1, <1>4, <1>6 DEF RobotState, Syncing
  <1>8. RowsHold'
    BY <1>0, <1>1, <1>3 DEF RowsHold, RowHolds
  <1>9. ASSUME NEW k \in Requests, IsCurrent(k)' PROVE k = m
    <2>1. robot.left \subseteq 1..MaxRequests /\ MaxRequests \in Nat
      BY <1>4, RobotAssumption DEF RobotState, Requests
    <2>2. k \in robot.left /\ m \in robot.left /\ m <= k /\ k <= m
      BY <1>1, <1>7, <1>9 DEF IsCurrent
    <2> QED
      BY <2>1, <2>2
  <1>10. (robot.list[m].state = "opened" /\ robot.list[m].sha = head)
            => DiffOf(m) \in {content[head], "empty"}
    <2> SUFFICES ASSUME robot.list[m].state = "opened", robot.list[m].sha = head
                 PROVE  Sha(m) = head
      BY <1>6
    <2>1. head <= Sha(m)
      BY <1>0 DEF RobotHolds
    <2> QED
      BY <1>4, <1>5, <2>1
  <1>11. RobotHolds'
    BY <1>0, <1>3, <1>7, <1>9, <1>10 DEF RobotHolds
  <1>12. \A k \in Requests : IsCurrent(k)' => IsCurrent(k)
    BY <1>7 DEF IsCurrent
  <1>13. ObstaclesHold'
    BY <1>0, <1>1, <1>7, <1>12 DEF ObstaclesHold, Syncing
  <1> QED
    BY <1>3, <1>8, <1>11, <1>13 DEF IInv

LEMMA SyncStoreKeeps ==
    ASSUME IInv, NEW m \in Requests, SyncStore(m)
    PROVE  IInv'
  <1>0. GitLabHolds /\ TestedHolds /\ RowsHold /\ RobotHolds /\ ObstaclesHold
    BY DEF IInv
  <1>1. /\ UNCHANGED gitlabVars /\ rows' = [rows EXCEPT ![m] = RowOf(m)]
        /\ standing' = standing
        /\ robot' = [robot EXCEPT !.pc = "notes", !.left = robot.left \ {m},
                                  !.list[m] = NotListed,
                                  !.thread = FALSE, !.noteAge = Old, !.diff = "empty"]
        /\ robot.pc = "pipeline" /\ IsCurrent(m)
    BY DEF SyncStore
  <1>2. standing' \subseteq Obstacles(requests)
    BY <1>0, <1>1 DEF GitLabHolds
  <1>3. /\ GitLabHolds' /\ TestedHolds' /\ Existing' = Existing
        /\ \A k \in Requests : Sha(k)' = Sha(k)
        /\ head' = head /\ content' = content /\ greens' = greens
    BY <1>0, <1>1, <1>2, StandsStill
  <1>4. /\ requests[m] \in RequestState /\ robot \in RobotState /\ robot.list[m] \in Listed
        /\ head \in 0..MaxPushes /\ m \in Existing
    BY <1>0, <1>1 DEF GitLabHolds, RobotHolds, RobotState, IsCurrent
  <1>5. /\ robot' \in RobotState /\ robot'.pc = "notes" /\ robot'.left = robot.left \ {m}
        /\ robot'.list[m] = NotListed
        /\ \A k \in Requests : k # m => robot'.list[k] = robot.list[k]
    <2>1. [robot.list EXCEPT ![m] = NotListed] \in [Requests -> Listed]
      BY <1>4, Blank DEF RobotState
    <2>2. robot' = [robot EXCEPT !.pc = "notes", !.left = robot.left \ {m},
                                 !.list = [robot.list EXCEPT ![m] = NotListed],
                                 !.thread = FALSE, !.noteAge = Old, !.diff = "empty"]
      BY <1>1
    <2>3. "empty" \in Diff /\ Old \in Age /\ robot.left \ {m} \subseteq Requests
      BY <1>4, Ages DEF Diff, RobotState
    <2>4. /\ robot' \in RobotState /\ robot'.pc = "notes" /\ robot'.left = robot.left \ {m}
          /\ robot'.list = [robot.list EXCEPT ![m] = NotListed]
      BY <1>4, <2>1, <2>2, <2>3 DEF RobotState, Syncing
    <2> QED
      BY <1>4, <2>4 DEF RobotState
  <1>6. /\ RowOf(m) \in RowState
        /\ RowOf(m).sha = robot.list[m].sha /\ RowOf(m).thread = robot.thread
        /\ RowOf(m).green =>
             robot.list[m].state = "opened" /\ requests[m].ci = "success"
        /\ RowOf(m).diff = IF robot.list[m].state = "opened" THEN robot.diff ELSE "empty"
    <2> DEFINE listed == robot.list[m]
               seen == [NoRow EXCEPT !.state = listed.state, !.sha = listed.sha,
                                     !.thread = robot.thread, !.noteAge = robot.noteAge]
               green == requests[m].ci = "success"
               age == IF green THEN requests[m].ciAge ELSE 0
               open == [seen EXCEPT !.mergeable = listed.mergeable, !.diff = robot.diff,
                                    !.green = green, !.ciAge = age]
    <2>1. RowOf(m) = IF listed.state # "opened" THEN seen ELSE open
      BY DEF RowOf
    <2>2. seen \in RowState /\ seen.sha = listed.sha /\ seen.thread = robot.thread
          /\ seen.green = FALSE /\ seen.diff = "empty"
      BY <1>4, Blank DEF NoRow, RowState, Listed, RobotState
    <2>3. age \in Age /\ green \in BOOLEAN
      BY <1>4, Ages DEF RequestState
    <2> HIDE DEF seen, age, green
    <2>4. open \in RowState /\ open.sha = seen.sha /\ open.thread = seen.thread
          /\ open.green = green /\ open.diff = robot.diff
      BY <1>4, <2>2, <2>3 DEF RowState, Listed, RobotState
    <2> HIDE DEF open
    <2> QED
      BY <2>1, <2>2, <2>4 DEF green
  <1>7. /\ rows' \in [Requests -> RowState] /\ rows'[m] = RowOf(m)
        /\ \A k \in Requests : k # m => rows'[k] = rows[k]
    BY <1>0, <1>1, <1>6 DEF RowsHold
  <1>8. RowHolds(RowOf(m))
    <2>1. robot.list[m].sha <= head
      BY <1>0 DEF RobotHolds
    <2>2. robot.list[m].sha = head /\ robot.list[m].state = "opened" =>
            robot.diff \in {content[head], "empty"}
      BY <1>0, <1>1 DEF RobotHolds
    <2>3. robot.list[m].sha = head /\ robot.list[m].state = "opened" => Sha(m) = head
      <3> SUFFICES ASSUME robot.list[m].sha = head, robot.list[m].state = "opened"
                   PROVE  Sha(m) = head
        OBVIOUS
      <3>1. head <= Sha(m)
        BY <1>0 DEF RobotHolds
      <3>2. Sha(m) <= head /\ Sha(m) \in Int /\ head \in Int
        BY <1>0, <1>4 DEF Sha, GitLabHolds, RequestState
      <3> QED
        BY <3>1, <3>2
    <2>4. PromptCI /\ requests[m].ci = "success" => Sha(m) \in greens
      BY <1>0 DEF TestedHolds
    <2> QED
      BY <1>6, <2>1, <2>2, <2>3, <2>4 DEF RowHolds
  <1>9. RowsHold'
    <2>1. ASSUME NEW k \in Requests PROVE RowHolds(rows[k])'
      <3>1. RowHolds(rows'[k])
        BY <1>0, <1>7, <1>8 DEF RowsHold
      <3> QED
        BY <1>3, <3>1 DEF RowHolds
    <2> QED
      BY <1>7, <2>1 DEF RowsHold
  <1>10. RobotHolds'
    <2>1. ASSUME NEW k \in Requests
          PROVE  /\ robot'.list[k].sha <= head'
                 /\ robot'.list[k].state # "absent" =>
                      k \in Existing' /\ robot'.list[k].sha <= Sha(k)'
      <3>1. CASE k = m
        BY <1>3, <1>4, <1>5, <3>1, RobotAssumption DEF NotListed
      <3>2. CASE k # m
        BY <1>0, <1>3, <1>5, <3>2 DEF RobotHolds
      <3> QED
        BY <3>1, <3>2
    <2> QED
      BY <1>0, <1>3, <1>5, <2>1 DEF RobotHolds
  <1>11. ObstaclesHold'
    <2>1. <<"thread", m>> \in standing => RowOf(m).thread
      BY <1>0, <1>1, <1>6 DEF ObstaclesHold
    <2>2. <<"ci", m>> \in standing => ~RowOf(m).green
      <3>1. <<"ci", m>> \in standing => requests[m].ci # "success"
        BY <1>0 DEF GitLabHolds, Obstacles
      <3> QED
        BY <1>6, <3>1
    <2>3. ASSUME NEW k \in Requests \ robot'.left
          PROVE  /\ <<"thread", k>> \in standing' => rows'[k].thread
                 /\ <<"ci", k>> \in standing' => ~rows'[k].green
      <3>1. CASE k = m
        BY <1>1, <1>7, <2>1, <2>2, <3>1
      <3>2. CASE k # m
        BY <1>0, <1>1, <1>5, <1>7, <3>2 DEF ObstaclesHold, Syncing
      <3> QED
        BY <3>1, <3>2
    <2> QED
      BY <1>5, <2>3 DEF ObstaclesHold, Syncing
  <1> QED
    BY <1>3, <1>9, <1>10, <1>11 DEF IInv

LEMMA UpdateStartKeeps ==
    ASSUME IInv, UpdateStart
    PROVE  IInv'
  <1>0. GitLabHolds /\ TestedHolds /\ RowsHold /\ RobotHolds /\ ObstaclesHold
    BY DEF IInv
  <1> DEFINE ready == RowsIn("opened") # {} /\ ReviewTtl # 0 /\ ReadyToMerge
  <1>1. /\ UNCHANGED gitlabVars /\ rows' = rows /\ standing' = standing
        /\ robot' = [Idle EXCEPT !.pc = "update", !.head = head, !.ready = ready]
        /\ robot.pc = "notes" /\ robot.left = {}
    BY DEF UpdateStart
  <1>2. standing' \subseteq Obstacles(requests)
    BY <1>0, <1>1 DEF GitLabHolds
  <1>3. /\ GitLabHolds' /\ TestedHolds' /\ Existing' = Existing
        /\ \A k \in Requests : Sha(k)' = Sha(k)
        /\ head' = head /\ content' = content /\ greens' = greens
    BY <1>0, <1>1, <1>2, StandsStill
  <1>4. ready => /\ \A m \in Requests : ~rows[m].thread
                 /\ rows[OpenRow].diff \notin {"extra", "empty"} /\ rows[OpenRow].green
    BY DEF ReadyToMerge
  <1>5. ready \in BOOLEAN
    OBVIOUS
  <1> HIDE DEF ready
  <1>6. /\ robot' \in RobotState /\ robot'.pc = "update" /\ robot'.left = {}
        /\ robot'.ready = ready /\ robot'.list = [m \in Requests |-> NotListed]
    BY <1>0, <1>1, <1>5, Blank DEF RobotState, Syncing, Idle, GitLabHolds
  <1>7. \A m \in Requests : robot'.list[m].sha = 0 /\ robot'.list[m].state = "absent"
    BY <1>6 DEF NotListed
  <1>8. RowsHold'
    BY <1>0, <1>1, <1>3 DEF RowsHold, RowHolds
  <1>9. head' >= 0
    BY <1>3, RobotAssumption DEF GitLabHolds
  <1>10. RobotHolds'
    BY <1>6, <1>7, <1>9 DEF RobotHolds
  <1>11. ready => \A o \in standing : o[1] # "thread" /\ o # <<"ci", OpenRow>>
    <2> SUFFICES ASSUME ready, NEW o \in standing
                 PROVE  o[1] # "thread" /\ o # <<"ci", OpenRow>>
      OBVIOUS
    <2>1. PICK m \in Requests : o = <<"thread", m>> \/ o = <<"ci", m>>
      BY <1>0 DEF GitLabHolds, Obstacles
    <2>2. m \notin robot.left
      BY <1>1
    <2>3. o # <<"thread", m>>
      BY <1>0, <1>1, <1>4, <2>2 DEF ObstaclesHold, Syncing
    <2>4. o = <<"ci", m>> => ~rows[m].green
      BY <1>0, <1>1, <2>2 DEF ObstaclesHold, Syncing
    <2>5. o = <<"ci", m>> /\ o[1] = "ci"
      BY <2>1, <2>3
    <2>6. o # <<"ci", OpenRow>>
      BY <1>4, <2>4, <2>5
    <2> QED
      BY <2>5, <2>6
  <1>12. OpenRow' = OpenRow
    BY <1>1 DEF OpenRow, RowsIn
  <1>13. ObstaclesHold'
    BY <1>1, <1>4, <1>6, <1>11, <1>12 DEF ObstaclesHold, Syncing
  <1> QED
    BY <1>3, <1>8, <1>10, <1>13 DEF IInv

LEMMA NextIInv == IInv /\ [Next]_vars => IInv'
  <1> SUFFICES ASSUME IInv, [Next]_vars PROVE IInv'
    OBVIOUS
  <1>1. CASE Tick
    BY <1>1, TickAges
  <1>2. CASE People \/ CINext
    BY <1>2, PeopleKeepAll
  <1>3. CASE RobotNext
    BY <1>3, SyncListKeeps, SyncNotesKeeps, SyncChangesKeeps, SyncStoreKeeps, StopKeeps,
       UpdateStartKeeps, UpdateBranchKeeps DEF RobotNext
  <1>4. CASE UNCHANGED vars
    <2>1. /\ UNCHANGED <<head, content, requests, threads, rows, robot, greens, standing>>
      BY <1>4 DEF vars
    <2>2. UNCHANGED <<Existing, Opened, OpenRow>>
      BY <2>1 DEF Existing, Opened, OpenRow, RowsIn
    <2>3. \A m \in Requests : Sha(m)' = Sha(m) /\ (IsCurrent(m)' <=> IsCurrent(m))
      BY <2>1, <2>2 DEF Sha, IsCurrent
    <2>4. Obstacles(requests') = Obstacles(requests)
      BY <2>1
    <2>5. GitLabHolds' /\ TestedHolds'
      BY <2>1, <2>2, <2>3, <2>4 DEF IInv, GitLabHolds, TestedHolds
    <2>6. RowsHold' /\ RobotHolds'
      BY <2>1, <2>2, <2>3 DEF IInv, RowsHold, RowHolds, RobotHolds
    <2>7. ObstaclesHold'
      BY <2>1, <2>2, <2>3 DEF IInv, ObstaclesHold
    <2> QED
      BY <2>5, <2>6, <2>7 DEF IInv
  <1> QED
    BY <1>1, <1>2, <1>3, <1>4 DEF Next

LEMMA SpecIInv == Spec => []IInv
  <1> QED
    BY InitIInv, NextIInv, PTL DEF Spec

-----------------------------------------------------------------------------
(* Every variable keeps its type.                                          *)
THEOREM TypeCorrect == Spec => []TypeOK
  <1>1. IInv => TypeOK
    BY DEF IInv, GitLabHolds, RowsHold, RobotHolds, TypeOK, RequestState, RowState, RobotState,
           Listed, Syncing
  <1> QED
    BY <1>1, SpecIInv, PTL

(* What the robot's step merges is the open row's request, at the commit   *)
(* the row has, and that is the head.                                      *)
LEMMA MergeIsReady ==
    ASSUME IInv, [Next]_vars, NEW m \in Requests, RobotMerges(m)
    PROVE  /\ m = OpenRow /\ robot.pc = "update" /\ robot.ready
           /\ head = rows[m].sha /\ content[head] # "conflict"
           /\ head \in 1..MaxPushes
  <1>1. UpdateBranch \/ RobotStops
    <2>1. robot.pc = "update" /\ robot'.pc = "idle"
      BY DEF RobotMerges, Updates
    <2>2. robot' # robot
      BY <2>1
    <2>3. robot \in RobotState
      BY DEF IInv, RobotHolds
    <2>4. ~Tick
      BY <2>1, <2>3 DEF Tick, RobotState
    <2>5. ~People /\ ~CINext
      BY <2>2 DEF People, CINext, Push, OpenByHand, CloseRequest, ReopenRequest, MergeByHand,
                  OpenThread, ResolveThread, RerunPipeline, CreatePipeline, FinishPipeline
    <2>6. /\ ~SyncList /\ ~SyncFails /\ ~UpdateStart
          /\ \A k \in Requests : ~SyncNotes(k) /\ ~SyncChanges(k) /\ ~SyncStore(k)
      BY <2>1 DEF SyncList, SyncFails, UpdateStart, SyncNotes, SyncChanges, SyncStore
    <2> QED
      BY <2>2, <2>4, <2>5, <2>6 DEF Next, RobotNext, vars
  <1>2. m \in Opened /\ requests[m].state = "opened" /\ requests'[m].state = "merged"
    BY DEF RobotMerges, Opened
  <1>3. UpdateBranch
    BY <1>1, <1>2 DEF RobotStops, gitlabVars
  <1>4. requests \in [Requests -> RequestState] /\ GitLabHolds
    BY DEF IInv, GitLabHolds
  <1>5. requests' # NewRequest
    <2> SUFFICES ASSUME requests' = NewRequest PROVE FALSE
      OBVIOUS
    <2> DEFINE k == Cardinality(Existing) + 1
               opened == [NoRequest EXCEPT !.state = "opened"]
               q == IF PromptCI THEN WithPipeline(opened) ELSE opened
    <2>1. opened.state = "opened" /\ opened \in RequestState
      BY Blank DEF NoRequest, RequestState, State
    <2>2. q.state = "opened"
      BY <2>1, WithPipelineTyped
    <2>3. requests' = [requests EXCEPT ![k] = q]
      BY DEF NewRequest
    <2> HIDE DEF k, q
    <2> QED
      BY <1>2, <1>4, <2>2, <2>3
  <1>6. /\ robot.ready
        /\ requests' = AcceptMergeRequest(OpenRow, rows[OpenRow].sha)
        /\ requests' # requests
    BY <1>2, <1>3, <1>5 DEF UpdateBranch, CreateMergeRequest
  <1>7. /\ OpenRow \in Opened /\ content[head] # "conflict" /\ head = rows[OpenRow].sha
        /\ requests' = MergedHead(OpenRow)
    BY <1>6 DEF AcceptMergeRequest
  <1>8. m = OpenRow
    BY <1>2, <1>4, <1>7 DEF MergedHead
  <1>9. head \in 1..MaxPushes
    <2>1. m \in Existing /\ Sha(m) = head
      BY <1>2 DEF Existing, Sha
    <2> QED
      BY <1>4, <2>1, RobotAssumption DEF GitLabHolds
  <1> QED
    BY <1>3, <1>6, <1>7, <1>8, <1>9 DEF UpdateBranch

(* Whatever was pushed, at whatever point of the robot's reads, the robot  *)
(* merges only content that a look at the changes has found clean.         *)
THEOREM OnlyCleanIsMerged == Spec => RobotMergesClean
  <1>1. ASSUME IInv, [Next]_vars, NEW m \in Requests, RobotMerges(m)
        PROVE  content[head] = "clean"
    <2>1. /\ m = OpenRow /\ robot.pc = "update" /\ robot.ready
          /\ head = rows[m].sha /\ content[head] # "conflict" /\ head \in 1..MaxPushes
      BY <1>1, MergeIsReady
    <2>2. rows[m].diff \notin {"extra", "empty"}
      BY <1>1, <2>1 DEF IInv, ObstaclesHold
    <2>3. rows[m].diff \in {content[head], "empty"}
      BY <1>1, <2>1 DEF IInv, RowsHold, RowHolds
    <2>4. content[head] \in {"clean", "extra", "conflict"}
      BY <1>1, <2>1, RobotAssumption DEF IInv, GitLabHolds, Commits
    <2> QED
      BY <2>1, <2>2, <2>3, <2>4
  <1>2. IInv /\ [Next]_vars =>
          [\A m \in Requests : RobotMerges(m) => content[head] = "clean"]_vars
    BY <1>1
  <1> QED
    BY <1>2, SpecIInv, PTL DEF Spec, RobotMergesClean

(* What has stood in the way since the iteration began keeps the robot     *)
(* from merging, for any number of requests and any failures.              *)
THEOREM ObstaclesBlock == Spec => StandingObstacleBlocks
  <1>1. ASSUME IInv, [Next]_vars, NEW m \in Requests, RobotMerges(m)
        PROVE  \A o \in standing : o[1] # "thread" /\ o # <<"ci", m>>
    BY <1>1, MergeIsReady DEF IInv, ObstaclesHold
  <1>2. IInv /\ [Next]_vars =>
          [\A m \in Requests : RobotMerges(m) =>
             \A o \in standing : o[1] # "thread" /\ o # <<"ci", m>>]_vars
    BY <1>1
  <1> QED
    BY <1>2, SpecIInv, PTL DEF Spec, StandingObstacleBlocks

(* Where GitLab creates the pipeline together with the push, the robot     *)
(* merges only what a pipeline passed on.                                  *)
THEOREM OnlyTestedIsMerged == PromptCI => (Spec => RobotMergesTested)
  <1>1. ASSUME PromptCI, IInv, [Next]_vars, NEW m \in Requests, RobotMerges(m)
        PROVE  head \in greens
    <2>1. /\ m = OpenRow /\ robot.pc = "update" /\ robot.ready /\ head = rows[m].sha
      BY <1>1, MergeIsReady
    <2>2. rows[m].green
      BY <1>1, <2>1 DEF IInv, ObstaclesHold
    <2> QED
      BY <1>1, <2>1, <2>2 DEF IInv, RowsHold, RowHolds
  <1>2. PromptCI => (IInv /\ [Next]_vars =>
          [\A m \in Requests : RobotMerges(m) => head \in greens]_vars)
    BY <1>1
  <1> SUFFICES ASSUME PromptCI PROVE Spec => RobotMergesTested
    OBVIOUS
  <1>3. IInv /\ [Next]_vars =>
          [\A m \in Requests : RobotMerges(m) => head \in greens]_vars
    BY <1>2
  <1> QED
    BY <1>3, SpecIInv, PTL DEF Spec, RobotMergesTested

=============================================================================
