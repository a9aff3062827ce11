------------------------ MODULE ProjectSetup_proofs -------------------------
(***************************************************************************)
(* Proofs about ProjectSetup, for any number of users, groups and faults.  *)
(* The invariant is StudentGetsCompleteRepository together with what the   *)
(* worker's position says of the project it works on: the worker acts on   *)
(* an answer GitLab gave earlier, which only stays true because nobody     *)
(* else deletes or fails a project that is past its import.                *)
(***************************************************************************)
EXTENDS ProjectSetup, TLAPS

Ready(c) == project[c].fork = "ready" /\ project[c].configured

(* What was found still holds at the later calls.                          *)
AnswerHolds ==
    \A c \in worker.todo :
        /\ worker.pc = "fill" /\ worker.status # "importing"
               => project[c].fork = worker.status
        /\ worker.pc \in {"protect", "member", "store"} => Ready(c)
        /\ worker.pc = "store" => project[c].member

IInv == TypeOK /\ StudentGetsCompleteRepository /\ AnswerHolds

-----------------------------------------------------------------------------
(* Every variable keeps its type; the channel keeps its capacity.          *)
LEMMA InitTypeOK == Init => TypeOK
  <1> SUFFICES ASSUME Init PROVE TypeOK
    OBVIOUS
  <1>1. SignupGroup \in Groups /\ 0 \in 0..MaxGroupChanges /\ 0 \in 0..MaxFaults
    BY SetupAssumption
  <1>2. NoProject \in Project
    BY DEF NoProject, Project, Fork
  <1>3. worker \in [pc: {"start", "idle", "find", "fill", "protect", "member", "store"},
                    pass: SUBSET Copy, todo: SUBSET Copy, status: Fork]
    BY DEF Init, Idle, Fork
  <1>4. channel \in Seq(Copy) /\ Len(channel) <= ChannelCap
    BY SetupAssumption DEF Init
  <1> QED
    BY <1>1, <1>2, <1>3, <1>4 DEF Init, TypeOK

(* The project table under an update of one project.                       *)
LEMMA ProjectUpdate ==
    ASSUME TypeOK, NEW c \in Copy, NEW new \in Project
    PROVE  [project EXCEPT ![c] = new] \in [Copy -> Project]
  BY DEF TypeOK

LEMMA ProjectKinds ==
    ASSUME TypeOK, NEW c \in Copy
    PROVE  /\ project[c] \in Project
           /\ NoProject \in Project
           /\ [NoProject EXCEPT !.fork = "importing"] \in Project
           /\ [NoProject EXCEPT !.fork = "empty"] \in Project
           /\ \A f \in Fork : [project[c] EXCEPT !.fork = f] \in Project
           /\ \A b \in BOOLEAN : /\ [project[c] EXCEPT !.configured = b] \in Project
                                 /\ [project[c] EXCEPT !.protected = b] \in Project
                                 /\ [project[c] EXCEPT !.member = b] \in Project
  BY DEF TypeOK, Project, NoProject, Fork

LEMMA NextTypeOK == TypeOK /\ [Next]_vars => TypeOK'
  <1> SUFFICES ASSUME TypeOK, [Next]_vars PROVE TypeOK'
    OBVIOUS
  <1> USE SetupAssumption
  <1> DEFINE PCs == {"start", "idle", "find", "fill", "protect", "member", "store"}
             Worker == [pc: PCs, pass: SUBSET Copy, todo: SUBSET Copy, status: Fork]
  <1>0. worker \in Worker /\ Idle \in Worker /\ Finished \in Worker
    BY DEF TypeOK, Idle, Finished, Fork
  <1>1. ASSUME NEW c \in Copy, ForkSucceeds(c) PROVE TypeOK'
    <2>1. project' \in [Copy -> Project]
      BY <1>1, ProjectUpdate, ProjectKinds DEF ForkSucceeds, Fork
    <2> QED
      BY <1>1, <2>1 DEF ForkSucceeds, TypeOK, rowVars, memVars, countVars
  <1>2. ASSUME NEW c \in Copy, ForkFails(c) PROVE TypeOK'
    <2>1. project' \in [Copy -> Project]
      BY <1>2, ProjectUpdate, ProjectKinds DEF ForkFails, Fork
    <2>2. faults' \in 0..MaxFaults
      BY <1>2 DEF ForkFails, Fault, TypeOK
    <2> QED
      BY <1>2, <2>1, <2>2 DEF ForkFails, TypeOK, rowVars, memVars
  <1>3. ASSUME NEW u \in Users, SetUserGitlabAccount(u) PROVE TypeOK'
    BY <1>3 DEF SetUserGitlabAccount, TypeOK, CopyOf, Copy, countVars
  <1>4. ASSUME NEW c \in Copy, Send(c)
        PROVE  channel' \in Seq(Copy) /\ Len(channel') <= ChannelCap
    BY <1>4 DEF Send, TypeOK
  <1>5. ASSUME NEW c \in Copy, AsyncPrepareProject(c) PROVE TypeOK'
    BY <1>4, <1>5 DEF AsyncPrepareProject, TypeOK, rowVars, countVars
  <1>6. ASSUME NEW c \in Copy, RetryTimer(c) PROVE TypeOK'
    BY <1>4, <1>6 DEF RetryTimer, TypeOK, rowVars, countVars
  <1>7. ASSUME NEW u \in Users, ChangeGroup(u) PROVE TypeOK'
    BY <1>7 DEF ChangeGroup, TypeOK, memVars
  <1>8. CASE ListUsersWithoutRepos
    <2>1. Missing \subseteq Copy
      BY DEF Missing, CopyOf, Copy, TypeOK
    <2>2. worker' \in Worker
      BY <1>8, <2>1, <1>0 DEF ListUsersWithoutRepos, Idle
    <2> QED
      BY <1>8, <2>2 DEF ListUsersWithoutRepos, TypeOK, rowVars, countVars
  <1>9. ASSUME NEW c \in Copy, StartOn(c) PROVE worker' \in Worker
    BY <1>9, <1>0 DEF StartOn
  <1>10. CASE NextOfPass
    <2>1. PICK c \in worker.pass : StartOn(c)
      BY <1>10 DEF NextOfPass
    <2>2. worker' \in Worker
      BY <2>1, <1>0, <1>9
    <2> QED
      BY <1>10, <2>2 DEF NextOfPass, TypeOK, rowVars, countVars
  <1>11. CASE Receive
    <2>1. /\ Head(channel) \in Copy /\ Tail(channel) \in Seq(Copy)
          /\ Len(Tail(channel)) <= ChannelCap
      BY <1>11 DEF Receive, TypeOK
    <2>2. worker' \in Worker
      BY <1>11, <2>1, <1>9 DEF Receive
    <2> QED
      BY <1>11, <2>1, <2>2 DEF Receive, TypeOK, rowVars, countVars
  <1>12. ASSUME NEW c \in Copy, InitializeProject(c) PROVE TypeOK'
    <2>1. ASSUME Works, worker' \in Worker, project' \in [Copy -> Project],
                 repo' \in [Users -> Groups \cup {NoGroup}], retries' \subseteq Copy
          PROVE  TypeOK'
      BY <2>1 DEF Works, TypeOK, rowVars, countVars
    <2>2. c.user \in Users /\ c.group \in Groups
      BY DEF Copy
    <2>3. ASSUME NEW pc \in PCs, Go(pc) PROVE worker' \in Worker
      BY <2>3, <1>0 DEF Go
    <2>4. CASE FindOrCreateProject(c)
      <3>1. /\ project' = [project EXCEPT ![c] = project'[c]]
            /\ project'[c] \in Project
        BY <2>4, ProjectKinds DEF FindOrCreateProject, TypeOK
      <3>2. project' \in [Copy -> Project]
        BY <3>1, ProjectUpdate
      <3>3. project'[c].fork \in Fork
        BY <3>1 DEF Project
      <3>4. worker' \in Worker
        BY <2>4, <3>3, <1>0 DEF FindOrCreateProject
      <3> QED
        BY <2>4, <2>1, <3>2, <3>4 DEF FindOrCreateProject, TypeOK
    <2>5. CASE ForkNotReady(c)
      BY <2>5, <2>1, <1>0 DEF ForkNotReady, TypeOK
    <2>6. CASE DeleteFailedFork(c)
      BY <2>6, <2>1, <1>0, ProjectUpdate, ProjectKinds DEF DeleteFailedFork, TypeOK
    <2>7. CASE CreateReadme(c)
      <3>1. project' \in [Copy -> Project]
        BY <2>7, ProjectUpdate, ProjectKinds DEF CreateReadme, Fork
      <3>2. worker' \in Worker
        BY <2>7, <1>0 DEF CreateReadme, Fork
      <3> QED
        BY <2>7, <2>1, <3>1, <3>2 DEF CreateReadme, TypeOK
    <2>8. CASE ConfigureProject(c)
      BY <2>8, <2>1, <2>3, ProjectUpdate, ProjectKinds DEF ConfigureProject, TypeOK
    <2>9. CASE ProtectBranch(c)
      BY <2>9, <2>1, <2>3, ProjectUpdate, ProjectKinds DEF ProtectBranch, TypeOK
    <2>10. CASE UnprotectBranch(c)
      BY <2>10, <2>1, <1>0, ProjectUpdate, ProjectKinds DEF UnprotectBranch, TypeOK
    <2>11. CASE AddProjectMember(c)
      BY <2>11, <2>1, <2>3, ProjectUpdate, ProjectKinds DEF AddProjectMember, TypeOK
    <2>12. CASE SetUserRepository(c)
      BY <2>12, <2>1, <2>2, <1>0 DEF SetUserRepository, TypeOK
    <2> QED
      BY <1>12, <2>4, <2>5, <2>6, <2>7, <2>8, <2>9, <2>10, <2>11, <2>12
         DEF InitializeProject
  <1>13. CASE CallFails
    BY <1>13, <1>0 DEF CallFails, Fault, TypeOK, rowVars
  <1>14. CASE Crash
    <2>1. worker' \in Worker
      BY <1>14, <1>0 DEF Crash
    <2>2. faults' \in 0..MaxFaults
      BY <1>14 DEF Crash, Fault, TypeOK
    <2>3. channel' \in Seq(Copy) /\ Len(channel') <= ChannelCap
      BY <1>14 DEF Crash
    <2> QED
      BY <1>14, <2>1, <2>2, <2>3 DEF Crash, TypeOK, rowVars
  <1>15. CASE UNCHANGED vars
    BY <1>15 DEF vars, rowVars, memVars, countVars, TypeOK
  <1> QED
    BY <1>1, <1>2, <1>3, <1>5, <1>6, <1>7, <1>8, <1>10, <1>11, <1>12, <1>13, <1>14, <1>15
       DEF Next, ForkEnds, Sends, WorkerNext

(* No variable of the argument changes in the steps of the web server, of  *)
(* the timers, and in the worker's own bookkeeping.                        *)
LEMMA Untouched ==
    ASSUME IInv, UNCHANGED <<project, repo>>,
           \/ worker' = worker
           \/ worker'.pc \in {"start", "idle", "find"}
           \/ worker'.todo = {}
    PROVE  StudentGetsCompleteRepository' /\ AnswerHolds'
  BY DEF IInv, StudentGetsCompleteRepository, AnswerHolds, Ready

(* A step of InitializeProject(c) that leaves every other project alone.   *)
LEMMA OneProject ==
    ASSUME IInv, NEW c \in Copy, NEW new \in Project,
           project' = [project EXCEPT ![c] = new],
           new.member => new.fork = "ready" /\ new.configured,
           project[c].member => new.member,
           repo' = repo
    PROVE  StudentGetsCompleteRepository'
  <1>1. /\ project'[c] = new
        /\ \A d \in Copy \ {c} : project'[d] = project[d]
    BY DEF IInv, TypeOK
  <1> QED
    BY <1>1 DEF IInv, StudentGetsCompleteRepository

LEMMA StepHolds ==
    ASSUME IInv, NEW c \in Copy, InitializeProject(c)
    PROVE  StudentGetsCompleteRepository' /\ AnswerHolds'
  <1> USE DEF IInv
  <1>0. /\ worker.todo = {c} \/ ~At(worker.pc, c)
        /\ worker \in [pc: {"start", "idle", "find", "fill", "protect", "member", "store"},
                        pass: SUBSET Copy, todo: SUBSET Copy, status: Fork]
        /\ project[c] \in Project /\ project \in [Copy -> Project]
        /\ Finished.pc = "idle" /\ Finished.todo = {}
    BY DEF TypeOK, At, Finished, Idle
  <1>1. CASE FindOrCreateProject(c)
    <2>1. PICK new \in Project :
              /\ project' = [project EXCEPT ![c] = new]
              /\ new = project[c] \/ (project[c] = NoProject /\ ~new.member)
      <3>1. CASE project[c] = NoProject
        BY <1>1, <3>1, ProjectKinds DEF FindOrCreateProject, NoProject
      <3>2. CASE project[c] # NoProject
        BY <1>1, <3>2, <1>0 DEF FindOrCreateProject
      <3> QED
        BY <3>1, <3>2
    <2>2. StudentGetsCompleteRepository'
      BY <1>1, <2>1, OneProject
         DEF FindOrCreateProject, StudentGetsCompleteRepository, NoProject
    <2>3. worker'.pc = "fill" /\ worker'.todo = {c} /\ worker'.status = project'[c].fork
      BY <1>1, <1>0 DEF FindOrCreateProject, At
    <2> QED
      BY <2>2, <2>3 DEF AnswerHolds
  <1>2. CASE ForkNotReady(c)
    BY <1>2, <1>0, Untouched DEF ForkNotReady
  <1>3. CASE DeleteFailedFork(c)
    <2>1. project[c].fork = "failed"
      BY <1>3 DEF DeleteFailedFork, At, AnswerHolds
    <2>2. StudentGetsCompleteRepository'
      BY <1>3, <2>1, OneProject, ProjectKinds
         DEF DeleteFailedFork, StudentGetsCompleteRepository, NoProject
    <2> QED
      BY <1>3, <2>2, <1>0 DEF DeleteFailedFork, AnswerHolds
  <1>4. CASE CreateReadme(c)
    <2>1. project[c].fork = "empty"
      BY <1>4 DEF CreateReadme, At, AnswerHolds
    <2>2. StudentGetsCompleteRepository'
      <3>1. [project[c] EXCEPT !.fork = "ready"] \in Project
        BY ProjectKinds DEF Fork
      <3>2. ~project[c].member
        BY <2>1 DEF StudentGetsCompleteRepository
      <3>3. ~[project[c] EXCEPT !.fork = "ready"].member
        BY <3>2, <1>0 DEF Project
      <3> QED
        BY <1>4, <3>1, <3>2, <3>3, OneProject DEF CreateReadme
    <2>3. project'[c].fork = "ready"
      BY <1>4, <1>0 DEF CreateReadme, Project
    <2>4. worker'.pc = "fill" /\ worker'.todo = {c} /\ worker'.status = "ready"
      BY <1>4, <1>0 DEF CreateReadme, At
    <2> QED
      BY <2>2, <2>3, <2>4 DEF AnswerHolds
  <1>5. CASE ConfigureProject(c)
    <2>1. project[c].fork = "ready"
      BY <1>5 DEF ConfigureProject, At, AnswerHolds
    <2> DEFINE new == [project[c] EXCEPT !.configured = TRUE]
    <2>2. /\ new \in Project /\ new.fork = "ready" /\ new.configured
          /\ new.member = project[c].member
      BY <2>1, <1>0, ProjectKinds DEF Project
    <2>3. StudentGetsCompleteRepository'
      BY <1>5, <2>2, OneProject DEF ConfigureProject
    <2>4. project'[c] = new
      BY <1>5, <1>0 DEF ConfigureProject
    <2>5. worker'.pc = "protect" /\ worker'.todo = {c}
      BY <1>5, <1>0 DEF ConfigureProject, At, Go
    <2> QED
      BY <2>2, <2>3, <2>4, <2>5 DEF AnswerHolds, Ready
  <1>6. ASSUME At("protect", c), NEW b \in BOOLEAN,
               project' = [project EXCEPT ![c].protected = b], repo' = repo,
               worker'.pc \in {"protect", "member"}, worker'.todo = {c}
        PROVE  StudentGetsCompleteRepository' /\ AnswerHolds'
    <2> DEFINE new == [project[c] EXCEPT !.protected = b]
    <2>1. Ready(c)
      BY <1>6 DEF At, AnswerHolds
    <2>2. /\ new \in Project /\ new.fork = "ready" /\ new.configured
          /\ new.member = project[c].member
      BY <2>1, <1>0, ProjectKinds DEF Project, Ready
    <2>3. StudentGetsCompleteRepository'
      BY <1>6, <2>2, OneProject
    <2>4. project'[c] = new
      BY <1>6, <1>0
    <2> QED
      BY <1>6, <2>2, <2>3, <2>4 DEF AnswerHolds, Ready
  <1>7. CASE ProtectBranch(c)
    BY <1>6, <1>7, <1>0 DEF ProtectBranch, Go, At
  <1>8. CASE UnprotectBranch(c)
    BY <1>6, <1>8, <1>0 DEF UnprotectBranch, At
  <1>9. CASE AddProjectMember(c)
    <2> DEFINE new == [project[c] EXCEPT !.member = TRUE]
    <2>1. Ready(c)
      BY <1>9 DEF AddProjectMember, At, AnswerHolds
    <2>2. new \in Project /\ new.fork = "ready" /\ new.configured /\ new.member
      BY <2>1, <1>0, ProjectKinds DEF Project, Ready
    <2>3. StudentGetsCompleteRepository'
      BY <1>9, <2>2, OneProject DEF AddProjectMember
    <2>4. project'[c] = new
      BY <1>9, <1>0 DEF AddProjectMember
    <2>5. worker'.pc = "store" /\ worker'.todo = {c}
      BY <1>9, <1>0 DEF AddProjectMember, At, Go
    <2> QED
      BY <2>2, <2>3, <2>4, <2>5 DEF AnswerHolds, Ready
  <1>10. CASE SetUserRepository(c)
    <2>1. project[c].member
      BY <1>10 DEF SetUserRepository, At, AnswerHolds
    <2>2. \A d \in Copy : repo'[d.user] = d.group => d = c \/ repo[d.user] = d.group
      BY <1>10 DEF SetUserRepository, Copy, TypeOK
    <2>3. StudentGetsCompleteRepository'
      BY <1>10, <2>1, <2>2 DEF SetUserRepository, StudentGetsCompleteRepository
    <2> QED
      BY <1>10, <2>3, <1>0 DEF SetUserRepository, AnswerHolds
  <1> QED
    BY <1>1, <1>2, <1>3, <1>4, <1>5, <1>7, <1>8, <1>9, <1>10 DEF InitializeProject

(* GitLab may end an import under the worker; no answer it still relies on *)
(* was about a running import.                                             *)
LEMMA ForkEndHolds ==
    ASSUME IInv, NEW c \in Copy, ForkSucceeds(c) \/ ForkFails(c)
    PROVE  StudentGetsCompleteRepository' /\ AnswerHolds'
  <1>1. PICK f \in {"ready", "failed"} : project' = [project EXCEPT ![c].fork = f]
    BY DEF ForkSucceeds, ForkFails
  <1>2. project[c].fork = "importing" /\ UNCHANGED <<repo, worker>>
    BY DEF ForkSucceeds, ForkFails, memVars
  <1>3. project[c] \in Project /\ project \in [Copy -> Project]
    BY DEF IInv, TypeOK
  <1> DEFINE new == [project[c] EXCEPT !.fork = f]
  <1>4. new \in Project /\ new.member = project[c].member
    BY <1>3 DEF Project, Fork
  <1>5. ~project[c].member
    BY <1>2 DEF IInv, StudentGetsCompleteRepository
  <1>6. StudentGetsCompleteRepository'
    BY <1>1, <1>2, <1>4, <1>5, OneProject
  <1>7. \A d \in Copy \ {c} : project'[d] = project[d]
    BY <1>1, <1>3
  <1>8. c \in worker.todo =>
            \/ worker.pc \in {"start", "idle", "find"}
            \/ worker.pc = "fill" /\ worker.status = "importing"
    BY <1>2 DEF IInv, TypeOK, AnswerHolds, Ready
  <1>9. worker.todo \subseteq Copy
    BY DEF IInv, TypeOK
  <1>10. AnswerHolds'
    BY <1>2, <1>7, <1>8, <1>9 DEF IInv, AnswerHolds, Ready
  <1> QED
    BY <1>6, <1>10

LEMMA NextHolds == IInv /\ [Next]_vars => StudentGetsCompleteRepository' /\ AnswerHolds'
  <1> SUFFICES ASSUME IInv, [Next]_vars
               PROVE  StudentGetsCompleteRepository' /\ AnswerHolds'
    OBVIOUS
  <1>1. ASSUME NEW u \in Users, SetUserGitlabAccount(u) \/ ChangeGroup(u)
        PROVE  UNCHANGED <<project, repo, worker>>
    BY <1>1 DEF SetUserGitlabAccount, ChangeGroup, memVars
  <1>2. CASE Sends
    BY <1>2, Untouched DEF Sends, AsyncPrepareProject, RetryTimer
  <1>3. worker \in [pc: {"start", "idle", "find", "fill", "protect", "member", "store"},
                    pass: SUBSET Copy, todo: SUBSET Copy, status: Fork]
    BY DEF IInv, TypeOK
  <1>4. CASE ListUsersWithoutRepos
    BY <1>4, Untouched DEF ListUsersWithoutRepos, Idle
  <1>5. ASSUME NEW c, StartOn(c) PROVE worker'.pc = "find"
    BY <1>5, <1>3 DEF StartOn
  <1>6. CASE NextOfPass
    BY <1>5, <1>6, Untouched DEF NextOfPass
  <1>7. CASE Receive
    BY <1>5, <1>7, Untouched DEF Receive
  <1>8. CASE CallFails
    BY <1>8, Untouched DEF CallFails, Finished, Idle
  <1>9. CASE Crash
    BY <1>9, Untouched DEF Crash, Idle
  <1>10. CASE UNCHANGED vars
    BY <1>10, Untouched DEF vars, memVars
  <1> QED
    BY <1>1, <1>2, <1>4, <1>6, <1>7, <1>8, <1>9, <1>10, Untouched, StepHolds, ForkEndHolds
       DEF Next, ForkEnds, WorkerNext

LEMMA InitHolds == Init => IInv
  <1> SUFFICES ASSUME Init PROVE IInv
    OBVIOUS
  <1>1. worker.todo = {}
    BY DEF Init, Idle
  <1>2. \A c \in Copy : ~project[c].member /\ repo[c.user] # c.group
    BY SetupAssumption DEF Init, NoProject, Copy
  <1> QED
    BY <1>1, <1>2, InitTypeOK DEF IInv, StudentGetsCompleteRepository, AnswerHolds

-----------------------------------------------------------------------------
(* Every variable of ProjectSetup keeps its type.                          *)
THEOREM TypeCorrect == Spec => []TypeOK
  <1>1. TypeOK /\ [Next]_vars => TypeOK'
    BY NextTypeOK
  <1> QED
    BY <1>1, InitTypeOK, PTL DEF Spec

(* A student is only given a repository that is complete and configured,   *)
(* and a repository on record has its student as a member, however many    *)
(* copies of a user are under way and whatever fails.                      *)
THEOREM RepositoryIsComplete == Spec => []StudentGetsCompleteRepository
  <1>1. IInv /\ [Next]_vars => IInv'
    BY NextTypeOK, NextHolds DEF IInv
  <1>2. IInv => StudentGetsCompleteRepository
    BY DEF IInv
  <1> QED
    BY <1>1, <1>2, InitHolds, PTL DEF Spec

-----------------------------------------------------------------------------
(* A handler about to send is the only one for its user, who is linked; so *)
(* what leaves the handlers is what AccountLinks says is handed over.      *)
LoginsHold ==
    \A c \in logins : /\ c.user \in linked
                      /\ \A d \in logins : c.user = d.user => c = d

LEMMA LinksStep ==
    ASSUME TypeOK, LoginsHold, [Next]_vars
    PROVE  LoginsHold' /\ [Links!Next]_(Links!linkVars)
  <1>1. CASE UNCHANGED <<linked, logins>>
    BY <1>1 DEF LoginsHold, Links!linkVars
  <1>2. ASSUME NEW u \in Users, SetUserGitlabAccount(u)
        PROVE  LoginsHold' /\ [Links!Next]_(Links!linkVars)
    <2>1. /\ u \notin linked /\ linked' = linked \cup {u} /\ logins' = logins \cup {CopyOf(u)}
          /\ CopyOf(u).user = u
      BY <1>2 DEF SetUserGitlabAccount, CopyOf
    <2> DEFINE copy == CopyOf(u)
    <2> HIDE DEF copy
    <2>2. copy.user = u /\ logins' = logins \cup {copy}
      BY <2>1 DEF copy
    <2>3. {c.user : c \in logins'} = {c.user : c \in logins} \cup {u}
      BY <2>2
    <2>4. LoginsHold'
      BY <2>1, <2>2 DEF LoginsHold
    <2>5. Links!Link(u)
      BY <2>1, <2>3 DEF Links!Link
    <2> QED
      BY <2>1, <2>4, <2>5 DEF Links!Next
  <1>3. ASSUME NEW c \in Copy, AsyncPrepareProject(c)
        PROVE  LoginsHold' /\ [Links!Next]_(Links!linkVars)
    <2>1. c \in logins /\ logins' = logins \ {c} /\ linked' = linked
      BY <1>3 DEF AsyncPrepareProject, rowVars
    <2>2. {d.user : d \in logins'} = {d.user : d \in logins} \ {c.user}
      BY <2>1 DEF LoginsHold
    <2>3. LoginsHold'
      BY <2>1 DEF LoginsHold
    <2>4. Links!HandOver(c.user) /\ c.user \in {d.user : d \in logins}
      BY <2>1, <2>2 DEF Links!HandOver
    <2> QED
      BY <2>3, <2>4 DEF Links!Next
  <1>4. CASE Crash
    <2>1. logins' = {} /\ linked' = linked
      BY <1>4 DEF Crash, rowVars
    <2> QED
      BY <2>1 DEF LoginsHold, Links!Next, Links!Restart
  <1>5. \/ UNCHANGED <<linked, logins>>
        \/ \E u \in Users : SetUserGitlabAccount(u)
        \/ \E c \in Copy : AsyncPrepareProject(c)
        \/ Crash
    BY DEF Next, vars, rowVars, memVars, ChangeGroup, ForkEnds, ForkSucceeds, ForkFails, Sends,
       RetryTimer, WorkerNext, ListUsersWithoutRepos, NextOfPass, Receive, InitializeProject,
       FindOrCreateProject, ForkNotReady, DeleteFailedFork, CreateReadme, ConfigureProject,
       ProtectBranch, UnprotectBranch, AddProjectMember, SetUserRepository, CallFails, Works
  <1> QED
    BY <1>1, <1>2, <1>3, <1>4, <1>5

(* What Accounts promises of the login handlers is what ProjectSetup has   *)
(* them do: each linked user reaches the worker's channel at most once.    *)
THEOREM SetupFollowsLinks == Spec => ImplementsLinks
  <1>1. Init => LoginsHold /\ Links!Init
    BY DEF Init, LoginsHold, Links!Init
  <1>2. TypeOK /\ LoginsHold /\ [Next]_vars => LoginsHold'
    BY LinksStep
  <1>3. TypeOK /\ LoginsHold /\ [Next]_vars => [Links!Next]_(Links!linkVars)
    BY LinksStep
  <1> QED
    BY <1>1, <1>2, <1>3, TypeCorrect, PTL DEF Spec, ImplementsLinks, Links!Spec

=============================================================================
