---------------------------- MODULE ProjectSetup ----------------------------
(***************************************************************************)
(* From a linked GitLab account to a student's repository.                 *)
(* The OAuth handler (src/internal/web/login.go) hands the user to the one *)
(* worker of ProjectsMaker (src/internal/gitlab/projects.go) through a     *)
(* bounded channel; a ticker has the worker list the users without a       *)
(* repository; a project that is still being forked comes back through a   *)
(* timer.  Each of the three holds a copy of the user row, which the API   *)
(* may change meanwhile.  InitializeProject (gitlab.go) is one GitLab call *)
(* after the other.                                                        *)
(*                                                                         *)
(* GitLab is external.  A project's name is made of the group and the      *)
(* user, so a copy of the row is named as its project is.                  *)
(***************************************************************************)
EXTENDS Naturals, Sequences, FiniteSets

CONSTANTS
    Users, Groups,
    SignupGroup,     \* the group users sign up to
    ChannelCap,      \* capacity of ProjectsMaker.users
    MaxGroupChanges, MaxFaults,  \* bounds; a fault is a failed fork, a failed
                                 \* call or a crash
    NoGroup

ASSUME SetupAssumption ==
    /\ ChannelCap \in Nat \ {0}
    /\ MaxGroupChanges \in Nat /\ MaxFaults \in Nat
    /\ SignupGroup \in Groups /\ NoGroup \notin Groups

VARIABLES
    useTemplate,  \* is gitlab.templateProject configured?
    \* database: users table
    linked,    \* users with a GitLab account
    group,     \* group_name
    repo,      \* the group in the name of the user's repository
    \* GitLab
    project,   \* the project of each name
    \* the server's memory
    logins,    \* OAuth handlers about to send their copy to the worker
    channel,   \* ProjectsMaker.users
    retries,   \* running retry timers; equal copies are counted once
    worker,
    \* what the bounds count
    groupChanges, faults

rowVars == <<useTemplate, linked, group>>
memVars == <<logins, channel, retries, worker>>
countVars == <<groupChanges, faults>>
vars == <<rowVars, repo, project, memVars, countVars>>

-----------------------------------------------------------------------------
Copy == [user: Users, group: Groups]
CopyOf(u) == [user |-> u, group |-> group[u]]

Fork == {"none", "importing", "failed", "empty", "ready"}
Project == [fork: Fork, configured: BOOLEAN, protected: BOOLEAN, member: BOOLEAN]
NoProject == [fork |-> "none", configured |-> FALSE, protected |-> FALSE, member |-> FALSE]

(* pass: the users a tick has listed and the worker has yet to look at;    *)
(* todo: the copy it works on, a set of at most one; status: the import    *)
(* status GitLab answered with.                                            *)
Idle == [pc |-> "idle", pass |-> {}, todo |-> {}, status |-> "none"]

Init ==
    /\ useTemplate \in BOOLEAN
    /\ linked = {} /\ group = [u \in Users |-> SignupGroup]
    /\ repo = [u \in Users |-> NoGroup]
    /\ project = [c \in Copy |-> NoProject]
    /\ logins = {} /\ channel = <<>> /\ retries = {}
    /\ worker = [Idle EXCEPT !.pc = "start"]
    /\ groupChanges = 0 /\ faults = 0

Fault == faults < MaxFaults /\ faults' = faults + 1

-----------------------------------------------------------------------------
(* GitLab ends a fork.                                                     *)

ForkSucceeds(c) ==
    /\ project[c].fork = "importing"
    /\ project' = [project EXCEPT ![c].fork = "ready"]
    /\ UNCHANGED <<rowVars, repo, memVars, countVars>>

ForkFails(c) ==
    /\ project[c].fork = "importing"
    /\ Fault
    /\ project' = [project EXCEPT ![c].fork = "failed"]
    /\ UNCHANGED <<rowVars, repo, memVars, groupChanges>>

-----------------------------------------------------------------------------
(* The web server.                                                         *)

(* oauth: the guarded update lets one callback link the account, and that  *)
(* one goes on to the worker.                                              *)
SetUserGitlabAccount(u) ==
    /\ u \notin linked
    /\ linked' = linked \cup {u}
    /\ logins' = logins \cup {CopyOf(u)}
    /\ UNCHANGED <<useTemplate, group, repo, project, channel, retries, worker, countVars>>

(* Mutant of Send: a queue that takes any number of users.                 *)
SendAlways(c) == channel' = Append(channel, c)

(* A send waits while the channel is full.                                 *)
Send(c) == Len(channel) < ChannelCap /\ channel' = Append(channel, c)

AsyncPrepareProject(c) ==
    /\ c \in logins
    /\ Send(c)
    /\ logins' = logins \ {c}
    /\ UNCHANGED <<rowVars, repo, project, retries, worker, countVars>>

(* POST /api/change_group finds the user by the GitLab login.              *)
ChangeGroup(u) ==
    /\ u \in linked /\ groupChanges < MaxGroupChanges
    /\ \E g \in Groups \ {group[u]} : group' = [group EXCEPT ![u] = g]
    /\ groupChanges' = groupChanges + 1
    /\ UNCHANGED <<useTemplate, linked, repo, project, memVars, faults>>

-----------------------------------------------------------------------------
(* The worker.                                                             *)

Missing == {CopyOf(u) : u \in {x \in linked : repo[x] = NoGroup}}

(* The first pass comes before the loop, the others with a tick.           *)
ListUsersWithoutRepos ==
    /\ worker.pc \in {"start", "idle"} /\ worker.pass = {}
    /\ worker' = [Idle EXCEPT !.pass = Missing]
    /\ UNCHANGED <<rowVars, repo, project, logins, channel, retries, countVars>>

StartOn(c) ==
    worker' = [worker EXCEPT !.pc = "find", !.pass = @ \ {c}, !.todo = {c}]

NextOfPass ==
    /\ worker.pc = "idle"
    /\ \E c \in worker.pass : StartOn(c)
    /\ UNCHANGED <<rowVars, repo, project, logins, channel, retries, countVars>>

Receive ==
    /\ worker.pc = "idle" /\ worker.pass = {} /\ channel # <<>>
    /\ StartOn(Head(channel))
    /\ channel' = Tail(channel)
    /\ UNCHANGED <<rowVars, repo, project, logins, retries, countVars>>

RetryTimer(c) ==
    /\ c \in retries
    /\ Send(c)
    /\ retries' = retries \ {c}
    /\ UNCHANGED <<rowVars, repo, project, logins, worker, countVars>>

Finished == [Idle EXCEPT !.pass = worker.pass]

(* The calls of InitializeProject(c), each a step.  checkForkReady goes by *)
(* the import status that findOrCreateProject was answered with.           *)
At(pc, c) == worker.pc = pc /\ worker.todo = {c}
Go(pc) == worker' = [worker EXCEPT !.pc = pc]
Works == UNCHANGED <<rowVars, logins, channel, countVars>>

(* Forking is asynchronous, an empty project is there at once.             *)
FindOrCreateProject(c) ==
    /\ At("find", c)
    /\ LET new == [NoProject EXCEPT !.fork = IF useTemplate THEN "importing" ELSE "empty"]
       IN project' = [project EXCEPT ![c] = IF @ = NoProject THEN new ELSE @]
    /\ worker' = [worker EXCEPT !.pc = "fill", !.status = project'[c].fork]
    /\ UNCHANGED <<repo, retries>> /\ Works

(* Mutant of ForkNotReady: the fork is taken for a finished one.           *)
ForkTakenForReady(c) ==
    /\ At("fill", c) /\ worker.status = "importing"
    /\ Go("protect")
    /\ UNCHANGED <<project, repo, retries>> /\ Works

(* Mutant of ForkNotReady: the worker sends to its own channel.            *)
ForkRequeued(c) ==
    /\ At("fill", c) /\ worker.status = "importing"
    /\ Send(c)
    /\ worker' = Finished
    /\ UNCHANGED <<rowVars, project, repo, retries, logins, countVars>>

ForkNotReady(c) ==
    /\ At("fill", c) /\ worker.status = "importing"
    /\ retries' = retries \cup {c}
    /\ worker' = Finished
    /\ UNCHANGED <<project, repo>> /\ Works

(* A failed fork is deleted; the next attempt forks again.                 *)
DeleteFailedFork(c) ==
    /\ At("fill", c) /\ worker.status = "failed"
    /\ project' = [project EXCEPT ![c] = NoProject]
    /\ worker' = Finished
    /\ UNCHANGED <<repo, retries>> /\ Works

(* A README that is already there is no error.                             *)
CreateReadme(c) ==
    /\ At("fill", c) /\ worker.status = "empty"
    /\ project' = [project EXCEPT ![c].fork = "ready"]
    /\ worker' = [worker EXCEPT !.status = "ready"]
    /\ UNCHANGED <<repo, retries>> /\ Works

ConfigureProject(c) ==
    /\ At("fill", c) /\ worker.status = "ready"
    /\ project' = [project EXCEPT ![c].configured = TRUE]
    /\ Go("protect")
    /\ UNCHANGED <<repo, retries>> /\ Works

(* GitLab refuses to protect a protected branch: the protection is removed *)
(* and made again.                                                         *)
ProtectBranch(c) ==
    /\ At("protect", c) /\ ~project[c].protected
    /\ project' = [project EXCEPT ![c].protected = TRUE]
    /\ Go("member")
    /\ UNCHANGED <<repo, retries>> /\ Works

UnprotectBranch(c) ==
    /\ At("protect", c) /\ project[c].protected
    /\ project' = [project EXCEPT ![c].protected = FALSE]
    /\ UNCHANGED <<worker, repo, retries>> /\ Works

AddProjectMember(c) ==
    /\ At("member", c)
    /\ project' = [project EXCEPT ![c].member = TRUE]
    /\ Go("store")
    /\ UNCHANGED <<repo, retries>> /\ Works

(* Whatever the row says by now.                                           *)
SetUserRepository(c) ==
    /\ At("store", c)
    /\ repo' = [repo EXCEPT ![c.user] = c.group]
    /\ worker' = Finished
    /\ UNCHANGED <<project, retries>> /\ Works

(* A failed call ends the attempt; the timer is only for unfinished forks. *)
CallFails ==
    /\ worker.pc # "idle"
    /\ Fault
    /\ worker' = Finished
    /\ UNCHANGED <<rowVars, repo, project, logins, channel, retries, groupChanges>>

InitializeProject(c) ==
    \/ FindOrCreateProject(c)
    \/ ForkNotReady(c) \/ DeleteFailedFork(c) \/ CreateReadme(c)
    \/ ConfigureProject(c) \/ ProtectBranch(c) \/ UnprotectBranch(c)
    \/ AddProjectMember(c) \/ SetUserRepository(c)

WorkerNext ==
    \/ ListUsersWithoutRepos \/ NextOfPass \/ Receive
    \/ \E c \in Copy : InitializeProject(c)

(* The process dies and restarts: the database and GitLab stay.            *)
Crash ==
    /\ Fault
    /\ logins' = {} /\ channel' = <<>> /\ retries' = {}
    /\ worker' = [Idle EXCEPT !.pc = "start"]
    /\ UNCHANGED <<rowVars, repo, project, groupChanges>>

ForkEnds == \E c \in Copy : ForkSucceeds(c) \/ ForkFails(c)
Sends == \E c \in Copy : AsyncPrepareProject(c) \/ RetryTimer(c)

Next ==
    \/ \E u \in Users : SetUserGitlabAccount(u) \/ ChangeGroup(u)
    \/ ForkEnds \/ Sends \/ WorkerNext \/ CallFails \/ Crash

(* GitLab ends every fork, the worker's ticker keeps firing, and Go wakes  *)
(* blocked senders in turn.  Students, staff and faults owe nothing.       *)
Fairness == WF_vars(ForkEnds) /\ WF_vars(Sends) /\ WF_vars(WorkerNext)

Spec == Init /\ [][Next]_vars
FairSpec == Spec /\ Fairness

-----------------------------------------------------------------------------
TypeOK ==
    /\ useTemplate \in BOOLEAN
    /\ linked \subseteq Users /\ group \in [Users -> Groups]
    /\ repo \in [Users -> Groups \cup {NoGroup}]
    /\ project \in [Copy -> Project]
    /\ logins \subseteq Copy /\ retries \subseteq Copy
    /\ channel \in Seq(Copy) /\ Len(channel) <= ChannelCap
    /\ worker \in [pc: {"start", "idle", "find", "fill", "protect", "member", "store"},
                   pass: SUBSET Copy, todo: SUBSET Copy, status: Fork]
    /\ groupChanges \in 0..MaxGroupChanges
    /\ faults \in 0..MaxFaults

(* gitlab.go:185-187: the repository is complete before the student gets   *)
(* it.  A student is only a member of a project that was forked or filled  *)
(* and configured, and a repository on record has its student as a member, *)
(* however passes, retries, failures and restarts interleave on it.        *)
StudentGetsCompleteRepository ==
    \A c \in Copy :
        /\ project[c].member => project[c].fork = "ready" /\ project[c].configured
        /\ repo[c.user] = c.group => project[c].member

(* projects.go:90-94: the retry and the periodic pass make up for whatever *)
(* fails: every linked user ends up with a repository, although the worker *)
(* reads and the retries write the same bounded channel.                   *)
LinkedGetsRepository == <>[](\A u \in linked : repo[u] # NoGroup)

(* gitlab.go:236-238: an existing protection is replaced so that the       *)
(* levels always match the configuration.                                  *)
ProtectionIsRestored ==
    \A c \in Copy :
        (project[c].member /\ ~project[c].protected) ~> project[c].protected

(* Handlers about to send are what AccountLinks says they are: those that  *)
(* linked a user and have not handed it over, one of each user.            *)
Links == INSTANCE AccountLinks WITH pending <- {c.user : c \in logins}
ImplementsLinks == Links!Spec

=============================================================================
