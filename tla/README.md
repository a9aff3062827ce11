# notmanytask, verified

TLA+ models of the course server in `src/` (`notmanytask`): what its goroutines,
handlers and GitLab may do to each other's data, what must hold all the same, and
proofs of the parts that matter for any number of students, pipelines and faults.

Tools: TLC for the runs listed below, TLAPS 1.4.5 (Z3, Zenon, LS4) for the
`*_proofs` modules. `PROJECT.json` lists components, runs, mutants, the source lines
behind each definition, findings, hazards and theorems.

## 1. The system

The server (`cmd/notmanytask`, started by `internal/web/run.go`) is one process around
one PostgreSQL database and one GitLab group. Its goroutines:

| part | source | state it keeps | operations |
|---|---|---|---|
| Pipelines fetcher | `internal/gitlab/pipelines.go` | in-memory set `fresh` | `Run` (full scan, optional), `RunFresh` (polls what graders reported), `AddFresh` |
| Merge request robot | `internal/gitlab/merge_requests.go`, `branch.go` | `merge_requests` rows, `pipelines` rows | `iteration` = `syncProject` for every project, then `updateProject` (open or merge requests) |
| Projects maker | `internal/gitlab/projects.go`, `gitlab.go` | channel of 4, retry timers, `users.repository` | list users without repository, `InitializeProject`, retry |
| Deadlines fetcher | `internal/deadlines` | the last good deadlines of each group | `reload`, `GroupDeadlines`, scoring policies |
| Web and API | `internal/web` | sessions, 10 s cache of standings | signup, login, OAuth, Telegram link; report, flag, override, change group, ban; standings |
| Scorer | `internal/scorer` | none (reads the database) | user scores, merge request classification, standings, leaderboards |
| Telegram bot | `internal/tgbot` | none | looks users up and renders scores |
| crashme | `cmd/crashme` | its own process | hands a flag to whoever crashes a task's binary |
| Renderer, publisher | `internal/render`, `cmd/cli` | a tree of files, a git branch | renders a course's public tree, publishes it by push |

How they meet:

* **Pipelines.** Poll, scan and the robot's sync each read GitLab, then write the
  same `pipelines` row with an upsert. There is no lock, version or transaction
  between a read and its write. The task of a merge request pipeline comes from the
  `merge_requests` row that only the sync writes. The report handler stores a
  benchmark metric, then calls `AddFresh`; the metric counts on a leaderboard only
  through the row of its pipeline.
* **Merge requests.** The sync makes four GitLab calls per request and the update acts on
  the rows it left, while students push, reviewers open threads and CI runs.
* **Users.** Signup, OAuth, Telegram, `changeGroup` and the projects maker write
  different columns of one row, mostly from copies they read earlier. The OAuth
  handler hands its copy to the projects maker through the channel.
* **Scores.** Computed on request from several tables read one after another, cached
  for 10 s. Bans, flags and overrides are written by other handlers meanwhile.

What is hard: reads that are stale when used, three writers of one row, a set shared
by handlers and a poll, restarts that forget the in-memory half of the state, timers
and ticks that repeat work which is already done, and rules (which request
represents a task) whose result depends on long histories.

### What makes each part correct

* Pipelines: no report is dropped; rows lag behind GitLab but never invent; they
  converge; a reported metric counts in the end.
* Robot: merges only clean and tested heads, never over a standing obstacle; merges a
  quiet head in the end.
* Scores: one pass over the rows finds the request that represents a task; the earliest
  green merge wins; a score falls and a task is undone only when the very submission that
  scores it is banned or loses its green (a re-check, a re-run), or when a later flag takes its
  place; a ban never raises a score; who is ahead gets no less; late results move nobody.
* Projects maker: nobody gets an unfinished repository; every linked user gets one;
  the protection of `main` stays.
* Standings and moderation: a moderation that was answered is on every page served,
  but for pages whose computation it fell into; pages settle on what the tables say.
* Accounts: a GitLab account has one user and is handed over once; who got no further than
  the form may send it again, even when two forms race; no writer undoes another's column.
* Deadlines: a group's deadlines never go back and catch up with its file.
* crashme: permits come back and none lies idle; a flag is for one crash and belongs to the
  first who submits it; everyone who waits or crashes a task gets an answer.

## 2. Modules

| module | models | kind |
|---|---|---|
| `PipelineSync` | fetcher, poll, report handler, the sync's pipeline write | detailed specification |
| `PipelineMirror` | what the database promises about CI | abstract specification |
| `PipelineSync_proofs` | type correctness, no dropped report, refinement of the mirror, convergence is for good | proofs |
| `MergeRequests` | one submits branch: people, CI, GitLab, the robot | specification |
| `MergeRequests_proofs` | type correctness, only clean and tested heads merged, obstacles block | proofs |
| `MergeCredit` | classification, comparison and score of a request | operators |
| `CreditScan` | the scorer's pass over a task's requests | specification |
| `CreditScan_proofs` | representative kept, earliest green merge wins | proofs |
| `ScoringPolicy` | the linear policy, final deadline and retake floor | operators |
| `Scoreboard` | a task's score over its life, in all three workflows; leaderboard | specification |
| `Scoreboard_proofs` | type correctness, what may lower a score or undo a task, late work, places and bans; the linear policy | proofs |
| `ProjectSetup` | OAuth hand-over, channel, worker, GitLab project | specification |
| `ProjectSetup_proofs` | type correctness, complete repositories, what it takes from the login | proofs |
| `Moderation` | pages, their cache and those who change what they show | specification |
| `Moderation_proofs` | type correctness, which moderations a page may miss, settled pages stay | proofs |
| `Accounts` | signup, login, OAuth, Telegram, group change on the users table | specification |
| `Accounts_proofs` | type correctness, one hand-over per user, nothing lost, no refusal without a cause, refinement of the links | proofs |
| `AccountLinks` | what the login handlers promise to the projects maker | abstract specification |
| `Deadlines` | the deadlines fetcher | specification |
| `Crashme` | crashme, the flag API and the claim of a flag | specification |
| `Semaphore` | what the permits of crashme promise to those who connect | abstract specification |
| `Crashme_proofs` | type correctness, permits come back, refinement of the semaphore, flags are for one crash, first submitter keeps, deadlines advance and stay | proofs |
| `MC*` | instances of the above | model values |

What composes what:

* `PipelineSync` composes the fetcher with the report handler and the robot's write;
  `MergeRequests` models the rest of the robot.
* `Scoreboard` extends `CreditScan`: the table the loop walks is one its history has made,
  so the runs check the loop on every table the history reaches, and the theorems on any.
* `Crashme` extends `Deadlines`: the API refuses a flag for a task no deadlines in force name.
* `Accounts` ends where `ProjectSetup` begins: `handed` is what goes into its channel. They meet at
  `AccountLinks`, which both implement (`ImplementsLinks`): the callbacks that `Accounts` models step by step
  are, in `ProjectSetup`, the actions `SetUserGitlabAccount` and `AsyncPrepareProject`, which do nothing that
  `AccountLinks` excludes. That they may do all it allows is read off their guards and not proved.

A definition preceded by "Mutant of ..." is a plausible bug in that operation: replacing the
operation by it breaks the property named in `PROJECT.json`.

### PipelineSync

`ci`, `opened`, `reruns` are GitLab's; `rows`, `mr`, `metrics` the tables; `report` is
the progress of each handler; `fresh` the `sync.Map`; `poll`, `scan`, `sync` hold what
a goroutine has read and not yet written. Each GitLab read, each lookup of the task
(`MergeRequestPipelineTask`) and each write is a step. `PollEnd` deletes the keys
*after* the range: a key is a report (the map's keys are pointers), so a later report
on the same pipeline is a key of its own. `ScanList` takes a page at a time, newest
first. `Crash` keeps the tables and forgets the memory. A failed call is `...Fails`.
`seen` and `answered` are history, read by properties only.

### MergeRequests

`head`, `content`, `requests`, `threads` are GitLab's side; `rows` the table; `robot`
what the iteration has read: `SyncList` (list), `SyncNotes`, `SyncChanges`, `SyncStore`
(pipelines, upsert), then `UpdateStart` and `UpdateBranch`. Timestamps are kept as
ages in ticks up to `reviewTtl`, which is all `Before(reviewDeadline)` tells
apart. `AcceptMergeRequest` refuses a moved head (the SHA option). `PromptCI` says
whether GitLab creates the pipeline together with the push.

Assumptions about GitLab: the branch only moves forward (no force push); a transient
merge status blocks like `cannot_be_merged`; one open request per branch. Any
unsuccessful final status counts as "failed".

### MergeCredit, CreditScan, ScoringPolicy, Scoreboard

`MergeCredit` is the code's `classifyMergeRequest`, `mergeRequestBetter`,
`isCreditable` and `scoreMergeRequest`; `Points` stands for any deadline policy that
never gives more for a later submission. `CreditScan` starts from any table and any
bans and walks it like `loadUserMergeRequests`.

`Scoreboard` keeps one task under one of its three `kind`s. `clock` numbers submissions:
`pipes[t]` is the `pipelines` row of the t-th with its benchmark, `flags[t]` the t-th flag,
`table` the author's `merge_requests` rows, `banned` the bans. The kind decides only how
`Submission` scores and whether there are requests: flags are created and submitted, benchmarks
reported and ranked and pipelines pushed on a task of any kind, as the code asks nothing of it.
`AddPipeline` stores any status over any other at any time, and `UpsertMergeRequest` any status of
any pipeline no older than the stored one: retried jobs, re-checks of a merged head, and answers
of GitLab that come late all look like that to the tables. `Submission(s)` is what the
policy makes of a student's task (`calcUserScoresImpl`), `Entries`, `Rank` and
`leaderboardScore` are the board, `Score` the two together. `StartScan` hands the table to
`CreditScan`'s loop; the copies are its own, so the history waits for it. What holds of every
history is stated apart: `Withdrawn` and `LateFlag` are the only two causes a loss may have. The run takes its
`Points` from `ScoringPolicy`: the linear policy with a final deadline and a retake floor,
in integers rounded down.

### ProjectSetup

A copy of a user row is `[user, group]`, which is also the project's name
(`makeProjectName`: names and login do not change). `logins` are OAuth handlers
before their send, `channel` the Go channel, `retries` the `AfterFunc` timers, `worker`
the one goroutine with the users it listed. `InitializeProject` is a step per call that
changes GitLab; `FindOrCreateProject` is one step because only the worker creates
projects. `useTemplate` covers both kinds of course. GitLab's deletion of a failed
fork is immediate. Equal copies in running timers are counted once.

### Moderation

A table is the number of writes it has had (`tables`), a page the numbers its queries saw. `reader`
is a request for a page: `cache.Fetch` finds an entry, or the page is computed query by query,
outside any lock, and stored for `Ttl` ticks. `mod` is a moderator's handler between its write
and `ClearCache`; `ApiOverride` writes and clears nothing. Queries made before the bans and
shown as overrides are (pipelines, flags, requests) count as "overrides"; the leaderboard
joins the bans in a query of its own ("boards"). `cleared` and `crossed` are history: the
moderations answered, and those each computation has seen pass from write to `Clear`.

### Accounts

`users` is the table; a request in `req` holds the cookie it came with and the copy of the
row it has read. `FirstOrCreate` is two steps (`SignupFind`, `SignupCreate`) and leaves empty
fields out of its condition; the unique indexes decide in `SignupCreate` and
`SetUserGitlabAccount`, whose update takes only a row that is not linked. A session never changes,
so a token is its user's number. GitLab's answer is any account.

### Deadlines, Crashme

A group's file is the number of its edits. `reload` fetches group by group and swaps all in or, after one
failure, nothing. In `Crashme` a connection goes from `Accept` through `TryAcquire` and
`AcquireTimesOut` (x/sync's semaphore: a queue in order, a permit is handed to its head), the first line,
the command, and `fetchFlag`: `SendRequest`, `createFlag` in the server, a lost answer or failed
call and the next try, `TenSecondsPass`. `Dies` is the process's end by `log.Fatal` or the nil connection
of a failed accept. `flags` is the server's table, which survives.

## 3. Runs

Every run finishes in about three minutes or less on two workers. Deadlock is not checked
anywhere: with its bounds spent, a model may stop where the server idles.

| run | bounds | shows |
|---|---|---|
| `PipelineSync_fresh` | 1 pipeline, 2 reports, 1 re-run, 1 fault, no scan | `TypeOK`, `NoReportDropped`, `RequestConverges`: two reports racing the poll's deletes |
| `PipelineSync_scan` | 2 pipelines, pages of 1, full scan, 1 fault | `TableConverges`, `RequestConverges`, `ImplementsMirror` |
| `PipelineSync_metric` | 2 pipelines, 1 report with a metric, no fault | finding: `MetricCounts` is violated |
| `MergeRequests_clean` | 2 pushes of any content, 2 requests, no threads | `TypeOK`, `RobotMergesClean`, `RobotMergesTested` with a prompt CI |
| `MergeRequests_quiet` | 1 push, 2 requests, 1 thread, late CI | `QuietHeadIsMerged`, `StandingObstacleBlocks` |
| `MergeRequests_untested` | 2 pushes, late CI | finding: `RobotMergesTested` is violated |
| `Scoreboard_life` | 2 students, 2 requests, 1 ban at a time, deadline at the second instant; 3 pipelines of either student with metrics 1 and 2, or one submission in time and one late with metric 1 in the other kinds | `BoardTypeOK`, `KeepsRepresentative`, `EarliestGreenWins`, `HigherRankNeverScoresLess`, `OnlyWithdrawalLowers`, `BanNeverRaises`, `DoneStaysDone`, `LateWorkMovesNobody` |
| `ProjectSetup_ready` | 2 users, 2 groups, channel of 1, 1 group change, 1 fault | `TypeOK`, `StudentGetsCompleteRepository`, `LinkedGetsRepository` |
| `ProjectSetup_protection` | 1 user, 1 fault | finding: `ProtectionIsRestored` is violated |
| `Moderation_pages` | 2 readers (one of either page), 1 moderator, 2 writes of bans, 1 override, 2 ticks to live | `TypeOK`, `MissedOnlyInFlight`, `PagesSettle` |
| `Crashme_flags` | 3 connections, 1 permit, 2 students, 4 flags, 1 fault; 2 groups, 1 edit | `CrashTypeOK`, `PermitsAreUsed`, `OneFlagPerCrash`, `FirstSubmitterKeepsFlag`, `WaitingEnds`, `CrashIsAnswered`, `DeadlinesNeverGoBack`, `DeadlinesConverge` |
| `Accounts_rows` | 1 browser, 2 requests at a time, 3 forms, 2 accounts, 1 group change | `TypeOK`, `HandedAsLinked`, `RefusalHasCause`, `NothingIsLost` |

Why the bounds are enough: the races are between two parties (two reports of a
pipeline, a newer pipeline and an older one, a push before and one after a read, an
older and a newer request of a task, a copy in the channel and one in a pass, a page and a
moderation, two callbacks). Two of each are present where the race is, and one fault may fall
between any two steps. Two readers are there in `Moderation` so that one may serve what the other
stores while a moderation is half done; three connections in `Crashme` so that two wait in
order for one permit; two requests in one browser since a request keeps the cookie it came
with, so a second browser adds nothing. `Scoreboard` has a submission in time and a late one of
every sort, so that a flag may come after a pipeline or a merge, and what ranks may be in time while what
scores is late. Its bounds are `Since` (where a task of a kind begins on the clock), `Pushing` (whose
pipelines it has: in the kinds without a pipeline workflow the author's), `MaxMetric`, `MaxReviewed`, `MaxBanned`
and `ScanReported`: the loop reads only its copies of the table and the bans, which are all met before
the first status, benchmark or flag is in, so computations need not go on later. In `Accounts` the forms are one name with the secret
of a group, of a subgroup, and with another e-mail. A channel of one fills up sooner than one of
four. The theorems of section 4 hold for any bounds.

Fairness. CI ends the jobs it started and GitLab its forks; a handler that
started runs on; the tickers keep firing, so each goroutine's next step is weakly
fair; time passes. Go wakes blocked senders of a channel in turn (`Sends`). In `Moderation` time,
`ClearCache` and each reader's steps are weakly fair, and nobody has to ask or to moderate.
In `Crashme` the goroutines, the two time limits and the deadlines' ticker are; clients may be
silent for ever and commands run for ever. Nothing is assumed of students, reviewers,
graders, staff, re-runs or faults; faults and crashes are bounded in the liveness runs of
`PipelineSync`, `ProjectSetup` and `Crashme`, while in `MergeRequests` and `Moderation`
failures and restarts are unlimited: `QuietHeadIsMerged` only speaks of behaviours in
which people and failures come to rest, and `DeadlinesConverge` of those in which fetches
stop failing.

### Findings

* `PipelineSync_metric`. The robot reads "running", the poll reads and stores
  "success" and forgets the pipeline, the robot stores "running". If a newer pipeline
  exists and the full scan is off, nobody reads the old one again: its benchmark never
  counts (`web/api.go:119-121` says it does once the poll sees it succeed).
* `MergeRequests_untested`. The newest pipeline of a request may belong to the commit
  before the head. Its SHA is not compared, so an untested head is merged on an old
  green (`merge_requests.go:374-377`: anything unknown blocks the merge).
* `ProjectSetup_protection`. The same user can be initialised twice (pass and
  channel). The second run unprotects the branch; when the call that protects it again fails,
  the user has a repository, no pass lists them, and `main` stays unprotected
  (`gitlab.go:236-238`).

Seen while modelling and not run:

* A restart forgets `fresh`, and without the full scan a reported pipeline that is not its
  request's newest is never fetched again. A pipeline polled before the first sync of its request and
  followed by a newer one keeps the raw ref as its task.
* A thread opened between sync and merge does not stop the merge. A request merged
  by hand between sync and update gets a needless second one.
* Notes are looked at before changes (`scorer.go:562`), so a request with foreign
  files and notes shows as under review, where `docs/merge-requests.md:34` has `failed`.
* Copies of a user from before and after a change of group name two projects, and the last one
  stored is on record.
* A flag counts before anything else (`scorer.go:404-415`): submitted after the deadline, it replaces a
  pipeline or merge that was in time, and the score falls. A re-run of a pipeline that had succeeded is
  stored over the success (`database.go:206-213`): a task that was done is failed or checking again, without a
  ban and without a new commit.
* A second signup of an unlinked user with another e-mail is refused as "already registered"
  for good. The secret of a group finds the row of a subgroup, as `FirstOrCreate`
  leaves the empty subgroup out of its condition.
* When the standings cannot be computed, `render.go:216` reverses a nil result: the request dies
  where an error page was meant.
* One failed `Accept` ends the crashme process, whatever its budget of ten errors: the loop goes on to handle the
  connection it did not get (`cmd/crashme/main.go:139`). A task's binary is found under more names
  (`-` for `_`, any leading path) than the server's, which then refuses the flag.

## 4. Proofs

Constants are only constrained by the named assumptions: `PipelineAssumption` (ids are
positive and every non-empty set of pipelines has a newest), `CreditAssumption` (points never
grow with time), `RowAssumption`, `SetupAssumption`, `RobotAssumption`,
`ModerationAssumption`, `DeadlinesAssumption`, `CrashmeAssumption`,
`AccountsAssumption` and `BoardAssumption`. TLC evaluates each in a run.

* `PipelineSync_proofs`
  * `TypeCorrect`, `NoReportIsDropped`, `PipelineSyncIsMirror`, from one inductive
    invariant: `TypeOK`, `SourcesKnown` (rows and reports only mention statuses and
    pipelines GitLab had), `PollHolds`, `ScanHolds`, `SyncHolds` (what each goroutine
    carries was read) and `NoReportDropped`. The last is not inductive alone: that
    `PollEnd` may delete a key needs that every key it removes is already answered.
  * The refinement maps a write of a row to `StorePipeline`, the request's upsert to
    `StoreRequest`, GitLab's steps to `GitLabMoves` and all else to stuttering.
* `MergeRequests_proofs`: `TypeCorrect`, `OnlyCleanIsMerged`, `ObstaclesBlock`,
  `OnlyTestedIsMerged`. An iteration acts on four reads made at different times, so the
  invariant dates them: `GitLabHolds` (the branch only moves forward), `TestedHolds` (a green is
  of a commit that was pushed), `RowsHold` (a row whose commit is still the head has the head's diff, and a
  green of it if it has one), `RobotHolds` (the same for what the iteration carries: the diff is read
  after the list) and `ObstaclesHold` (an obstacle that has stood since the iteration began is in
  the stored rows or still to be read). With the SHA option of the accept call a row
  that is merged is the head's. `OnlyTestedIsMerged` assumes `PromptCI`; without it
  `MergeRequests_untested` is a counterexample.
* `CreditScan_proofs`: `ScanKeepsRepresentative` is inductive because `mergeRequestBetter`
  is a strict weak order (`BetterIsTransitive`, `BetterSplits`); `EarliestGreenMergeWins` follows
  at the end of the pass.
* `Scoreboard_proofs`: `BoardTypeCorrect`, `ComputationKeepsRepresentative` and
  `ComputationCreditsEarliest` (the scan's lemmas, with the history going on around it),
  `LossesHaveACause`, `DoneStays`, `LateWorkIsAlone`. The invariant `Life` says that types hold and that
  nothing is from after the clock; the history is otherwise free. From it `EverybodyScored` reduces the
  choices of the scorer to one thing: the policy's points for the earliest member of `Winning(s)`, the
  submissions that win the task: the student's flags or, without any, the green pipelines or green merges.
  `WinningStays` then shows that the earliest one stays in that set unless it is withdrawn, or the set
  becomes that of the flags; `StepLowers` that a first flag older than what it replaces is worth no less.
  `LateWorkIsAlone` compares the sets behind a score before and after a step (`PipeChanges`,
  `OthersSubmission`, `LateEntries`).
  * `PlacesFollowResults` and `BanRaisesNothing` are about the board, whose scores are rounded quotients. Both
    rest on lemmas on `RoundDiv` (it is monotone and bounded), on how the number of places and a place
    change together, and on the place of who is banned. `PlacesFollowResults` is about the case as well that
    a submission scores which is not the one that ranks: a bonus never makes up for being late (`AheadScoresNoLess`),
    and where pipelines score the task a result that ranks makes its student one who did it in time (`RankedHasWon`).
    It assumes `FullUntilDeadline`: by
    the deadline the policy gives everybody the same, which the code expects
    (`leaderboard.go:118-120`) and its policies do (`scoring.go:50-54`). Without it a better metric that came
    later could rank higher and be worth less. TLC evaluates it in `MCScoreboard`.
  * `LinearPolicyNeverGrows` shows that the linear policy, with its final deadline and retake floor and its rounding,
    meets `CreditAssumption`, and `FullUntilDeadline` where its decline takes time and the final deadline is
    not before the first: the two hypotheses hold of what courses are configured with.
* `ProjectSetup_proofs`: `TypeCorrect`, and `RepositoryIsComplete` from
  `AnswerHolds`: the worker acts on an import status it read earlier, and what it
  found still holds at the later calls because only the worker deletes projects
  and an import ends once.
* `Moderation_proofs`: `TypeCorrect` and `ModerationIsServed`. `VersionsHold` says what is
  answered, written or read has been written; `RunningHolds`, that a computation past a query has seen
  every moderation answered before it started, or carries it in `crossed`; `MissedOnlyInFlight`, the property,
  says the same of what is stored.
* `Accounts_proofs`: `TypeCorrect`, `HandedOnce`, `NothingLost`, `RefusedWithCause`. `Types` knows that ids in
  cookies and requests are rows, as rows are never deleted. That the hand-over is right when it happens,
  two steps after the callback read the row, needs `OneOwner` (the index) and `HandOverHolds`: between
  the guarded update and the send nobody else links, hands over or has handed over this user.
  `RefusedWithCause` rests on `CauseHolds`: a signup that goes on to create its row met only rows of that
  name with another e-mail, which they keep. What the index then refuses it for is one of those, a linked row, or
  one that came in between, which has the same name and e-mail: the form sent again finds it.
* `Crashme_proofs`: `DeadlinesOnlyAdvance` from `PassIsNewer` (a pass carries nothing older than what
  is in force); `FlagsAreForOneCrash` and `FirstSubmitterWins` from `QueueHolds` and `FlagsHold` (a flag is in
  the table for the one connection that asked for it, and shown only to that one).
  `PermitsComeBack` from `PermitsHold`: the permits out are the cardinality of those that hold one, who
  waits is queued, and nobody is queued while one is free. It needs `QueueHolds`, that the queue repeats nobody.
  `TypeCorrect` adds `CountsHold`, the bounded counters.

What a refinement adds. `AccountsKeepLinks`, `SetupFollowsLinks`, `CrashmeIsSemaphore` and
`PipelineSyncIsMirror` say of every step of the detailed specification which step of the abstract one it
is: the invariants above bound what states are reached, and these what happens on the way.
`CrashmeIsSemaphore` rests on `QueueHolds` (the queue is of those who wait, each once) and
`PermitsHold` (the free permits are those nobody holds).

The safety half of liveness. That tables converge, pages settle and deadlines catch up is left to TLC, but that
they stay so, which nothing else in the code guards, is proved: `ConvergenceIsForGood`
(`AgreementLasts`: a pipeline at rest that its row agrees with, and which no goroutine still carries an older read
of, is not undone by any writer, failure or restart), `SettledPagesLast` (`SettledLasts`: a page that shows what
the tables say does so until somebody writes) and `CaughtUpStays` (`CaughtUpLasts`). In each the hypothesis
includes the reads still under way: without it the property is false, since a stale read may be written
or cached later.

The properties `ImplementsLinks` (in `Accounts` and `ProjectSetup`), `ImplementsSemaphore`,
`AgreementLasts`, `SettledLasts` and `CaughtUpLasts` are proved and in no run's list; each can be
checked by adding it to the PROPERTIES of `Accounts_rows`, `ProjectSetup_ready`, `Crashme_flags`,
`PipelineSync_fresh` and `_scan`, `Moderation_pages`, `Crashme_flags`.

Model-checked only: all liveness (`TableConverges`, `RequestConverges`, `QuietHeadIsMerged`,
`LinkedGetsRepository`, `PagesSettle`, `WaitingEnds`, `CrashIsAnswered`, `DeadlinesConverge`), since
fairness is beyond the prover. Every invariant and every action property of a passing run is a theorem.

## 5. Not modelled, and the plan

* Renderer and publisher (`internal/render`): a batch program that copies a tree of files and
  calls git; nothing runs beside it and its state is the file system's.
* Telegram bot: it looks up and shows; what it shows is the scorer's.
* Configuration, command line clients, fuzzer, logging, HTML: parsing and pure I/O.
* Inside modelled parts: the exponential policies and floating point, the bytes that crashme
  passes on, the submissions list of the admin pages, cross-site tokens, how names are
  transliterated, GitLab's pages of projects, whether a user's account may be deleted by hand.

Abstract specifications: the lagging mirror, the account links, the semaphore. Next, in this order:

1. the exponential policies in integers, with the proof that they meet `CreditAssumption`;
2. an abstract robot ("accept only a clean, tested head") that `MergeRequests` implements;
3. the composition of `Accounts` and `ProjectSetup` in one specification over one users table; they
   are composed through `AccountLinks` so far.
