------------------------------ MODULE Crashme -------------------------------
(***************************************************************************)
(* The crashme service (src/cmd/crashme/main.go): connections share a few  *)
(* permits, name a task, feed its binary and get a flag when it crashes.   *)
(* Flags are created by the server (src/internal/web/api.go createFlag),   *)
(* which knows the tasks of the deadlines in force, and claimed by         *)
(* students (src/internal/web/render.go handleFlagSubmit).                 *)
(***************************************************************************)
EXTENDS Deadlines, FiniteSets, SequencesExt

CONSTANTS
    Conns,     \* connections
    Permits,   \* of the semaphore
    Students,
    MaxFlags,  \* bound: flags created
    Budget,    \* of failed accepts
    MaxFaults, \* bound: failed accepts, lost requests and answers
    Nobody

Flags == 1..MaxFlags

ASSUME CrashmeAssumption ==
    /\ Permits \in Nat \ {0} /\ MaxFlags \in Nat /\ Budget \in Nat /\ MaxFaults \in Nat
    /\ Nobody \notin Students

VARIABLES
    conn,    \* the goroutine of each connection
    used,    \* permits taken
    queue,   \* connections waiting for one, in order
    budget,  \* accept errors that are left
    nilConn, \* a goroutine was started without a connection
    flags,   \* the table: who submitted each flag created, in order of creation
    faults

procVars == <<conn, used, queue, budget, nilConn>>
vars     == <<deadlinesVars, procVars, flags, faults>>

Stage == {"away", "accepted", "waiting", "asking", "running",
          "fetching", "sent", "answered", "refused", "closed"}

(* exact: the task was named as the server knows it; flag: created for it, *)
(* and shown to it at the end; late: the ten seconds of the retries are up.*)
Away == [pc |-> "away", exact |-> FALSE, flag |-> 0, late |-> FALSE]

CrashInit ==
    /\ DeadlinesInit
    /\ conn = [c \in Conns |-> Away]
    /\ used = 0 /\ queue = <<>> /\ budget = Budget /\ nilConn = FALSE
    /\ flags = <<>>
    /\ faults = 0

Fault == faults < MaxFaults /\ faults' = faults + 1

In(c, stage) == conn[c].pc = stage
Moves(c, stage) == conn' = [conn EXCEPT ![c].pc = stage]

-----------------------------------------------------------------------------
(* Mutant of Accept: the budget refills past its maximum.                  *)
AcceptRefills(c) ==
    /\ In(c, "away") /\ Moves(c, "accepted")
    /\ budget' = budget + 1
    /\ UNCHANGED <<deadlinesVars, used, queue, nilConn, flags, faults>>

Accept(c) ==
    /\ In(c, "away") /\ Moves(c, "accepted")
    /\ budget' = IF budget < Budget THEN budget + 1 ELSE budget
    /\ UNCHANGED <<deadlinesVars, used, queue, nilConn, flags, faults>>

(* The process ends, and whoever runs it starts it again.                  *)
Dies ==
    /\ conn' = [c \in Conns |->
                  IF In(c, "away") \/ In(c, "closed") THEN conn[c]
                  ELSE [Away EXCEPT !.pc = "closed"]]
    /\ used' = 0 /\ queue' = <<>> /\ budget' = Budget /\ nilConn' = FALSE

(* With the budget spent, a failed accept is fatal; with some left the     *)
(* loop goes on to handle the connection it did not get, ...               *)
AcceptFails ==
    /\ Fault
    /\ IF budget = 0 THEN Dies
       ELSE /\ budget' = budget - 1 /\ nilConn' = TRUE
            /\ UNCHANGED <<conn, used, queue>>
    /\ UNCHANGED <<deadlinesVars, flags>>

(* ... whose first use is fatal, too.                                      *)
HandleNilConnection ==
    /\ nilConn /\ Dies
    /\ UNCHANGED <<deadlinesVars, flags, faults>>

(* TryAcquire takes a permit only when nobody waits; else Acquire queues.  *)
TryAcquire(c) ==
    /\ In(c, "accepted")
    /\ IF used < Permits /\ queue = <<>>
       THEN used' = used + 1 /\ Moves(c, "asking") /\ UNCHANGED queue
       ELSE queue' = Append(queue, c) /\ Moves(c, "waiting") /\ UNCHANGED used
    /\ UNCHANGED <<deadlinesVars, budget, nilConn, flags, faults>>

(* Mutant of AcquireTimesOut: Acquire has no deadline.                     *)
AcquireForEver(c) == FALSE /\ UNCHANGED vars

(* A minute has passed.                                                    *)
AcquireTimesOut(c) ==
    /\ In(c, "waiting") /\ Moves(c, "closed")
    /\ \E i \in DOMAIN queue : queue[i] = c /\ queue' = RemoveAt(queue, i)
    /\ UNCHANGED <<deadlinesVars, used, budget, nilConn, flags, faults>>

(* Mutant of Closes: the connection is closed and its permit kept.         *)
ClosesKeeping(c, record) ==
    /\ conn' = [conn EXCEPT ![c] = record]
    /\ UNCHANGED <<used, queue>>

(* The handler returns: the permit goes to the first who waits.            *)
Closes(c, record) ==
    IF queue = <<>>
    THEN /\ conn' = [conn EXCEPT ![c] = record]
         /\ used' = used - 1 /\ UNCHANGED queue
    ELSE /\ conn' = [conn EXCEPT ![c] = record, ![Head(queue)].pc = "asking"]
         /\ queue' = Tail(queue) /\ UNCHANGED used

Closed(c) == [Away EXCEPT !.pc = "closed"]

(* The first line names no binary, is too long, or never comes.            *)
BadFirstLine(c) ==
    /\ In(c, "asking")
    /\ Closes(c, Closed(c))
    /\ UNCHANGED <<deadlinesVars, budget, nilConn, flags, faults>>

(* The binary is found under more names than the server's: the last part   *)
(* of the name, with _ for -; the server is asked for the name as typed.   *)
ReadTask(c) ==
    /\ In(c, "asking")
    /\ \E exact \in BOOLEAN :
         conn' = [conn EXCEPT ![c].pc = "running", ![c].exact = exact]
    /\ UNCHANGED <<deadlinesVars, used, queue, budget, nilConn, flags, faults>>

(* The command ends normally, is interrupted, or cannot be started; or it  *)
(* crashes and the client has gone.                                        *)
CommandEnds(c) ==
    /\ In(c, "running")
    /\ Closes(c, Closed(c))
    /\ UNCHANGED <<deadlinesVars, budget, nilConn, flags, faults>>

CommandCrashes(c) ==
    /\ In(c, "running") /\ Moves(c, "fetching")
    /\ UNCHANGED <<deadlinesVars, used, queue, budget, nilConn, flags, faults>>

-----------------------------------------------------------------------------
(* fetchFlag: requests are sent again, further and further apart, until    *)
(* one is answered or ten seconds have passed.                             *)
SendRequest(c) ==
    /\ In(c, "fetching") /\ ~conn[c].late
    /\ Moves(c, "sent")
    /\ UNCHANGED <<deadlinesVars, used, queue, budget, nilConn, flags, faults>>

(* Mutant of TenSecondsPass: the retries have no end.                      *)
RetryForEver(c) == FALSE /\ UNCHANGED vars

TenSecondsPass(c) ==
    /\ conn[c].pc \in {"fetching", "sent", "answered", "refused"} /\ ~conn[c].late
    /\ conn' = [conn EXCEPT ![c].late = TRUE]
    /\ UNCHANGED <<deadlinesVars, used, queue, budget, nilConn, flags, faults>>

(* The call fails before the server answers, or a refusal is lost.         *)
CallFails(c) ==
    /\ conn[c].pc \in {"sent", "refused"} /\ Moves(c, "fetching")
    /\ UNCHANGED <<deadlinesVars, used, queue, budget, nilConn, flags, faults>>

(* The answer is lost with its flag, which stays in the table.             *)
AnswerLost(c) ==
    /\ In(c, "answered") /\ Fault
    /\ conn' = [conn EXCEPT ![c].pc = "fetching", ![c].flag = 0]
    /\ UNCHANGED <<deadlinesVars, used, queue, budget, nilConn, flags>>

(* Mutant of createFlag: a flag nobody has submitted yet is given again.   *)
createOrReuseFlag(c) ==
    /\ In(c, "sent") /\ Len(flags) < MaxFlags
    /\ IF conn[c].exact /\ AnyGroupHasTask
       THEN IF \E f \in DOMAIN flags : flags[f] = Nobody
            THEN /\ conn' = [conn EXCEPT ![c].pc = "answered",
                               ![c].flag = CHOOSE f \in DOMAIN flags : flags[f] = Nobody]
                 /\ UNCHANGED flags
            ELSE /\ flags' = Append(flags, Nobody)
                 /\ conn' = [conn EXCEPT ![c].pc = "answered", ![c].flag = Len(flags')]
       ELSE Moves(c, "refused") /\ UNCHANGED flags
    /\ UNCHANGED <<deadlinesVars, used, queue, budget, nilConn, faults>>

(* The server: an unknown task is refused for good, any other gets a flag. *)
createFlag(c) ==
    /\ In(c, "sent") /\ Len(flags) < MaxFlags
    /\ IF conn[c].exact /\ AnyGroupHasTask
       THEN /\ flags' = Append(flags, Nobody)
            /\ conn' = [conn EXCEPT ![c].pc = "answered", ![c].flag = Len(flags')]
       ELSE Moves(c, "refused") /\ UNCHANGED flags
    /\ UNCHANGED <<deadlinesVars, used, queue, budget, nilConn, faults>>

(* The flag is shown, or the error: refused, or out of time.               *)
ShowAnswer(c) ==
    /\ \/ conn[c].pc \in {"answered", "refused"}
       \/ In(c, "fetching") /\ conn[c].late
    /\ Closes(c, [Closed(c) EXCEPT !.flag = conn[c].flag])
    /\ UNCHANGED <<deadlinesVars, budget, nilConn, flags, faults>>

-----------------------------------------------------------------------------
Shown == {c \in Conns : In(c, "closed") /\ conn[c].flag # 0}

(* Mutant of SubmitFlag: the last to submit a flag has it.                 *)
SubmitFlagAgain(s, c) ==
    /\ c \in Shown
    /\ flags' = [flags EXCEPT ![conn[c].flag] = s]
    /\ UNCHANGED <<deadlinesVars, procVars, faults>>

(* A student submits a flag they have seen; one that is taken is unknown.  *)
SubmitFlag(s, c) ==
    /\ c \in Shown /\ flags[conn[c].flag] = Nobody
    /\ flags' = [flags EXCEPT ![conn[c].flag] = s]
    /\ UNCHANGED <<deadlinesVars, procVars, faults>>

ConnStep(c) ==
    \/ TryAcquire(c) \/ AcquireTimesOut(c) \/ SendRequest(c) \/ TenSecondsPass(c)
    \/ createFlag(c) \/ ShowAnswer(c)

DeadlinesNext ==
    /\ (\E g \in Groups : EditDeadlines(g)) \/ FetcherNext \/ FetchFails
    /\ UNCHANGED <<procVars, flags, faults>>

CrashNext ==
    \/ DeadlinesNext
    \/ AcceptFails \/ HandleNilConnection
    \/ \E c \in Conns :
         \/ Accept(c) \/ BadFirstLine(c) \/ ReadTask(c) \/ CommandEnds(c)
         \/ CommandCrashes(c) \/ CallFails(c) \/ AnswerLost(c)
         \/ ConnStep(c)
         \/ \E s \in Students : SubmitFlag(s, c)

(* Goroutines run on, a minute and ten seconds pass, the server answers or *)
(* the call fails, tickers fire.  Clients may be silent for ever, commands *)
(* may run for ever, nobody has to submit a flag.                          *)
CrashFairness ==
    /\ WF_vars(FetcherNext /\ UNCHANGED <<procVars, flags, faults>>)
    /\ \A c \in Conns : WF_vars(ConnStep(c)) /\ WF_vars(TenSecondsPass(c))
    /\ WF_vars(HandleNilConnection)

CrashSpec == CrashInit /\ [][CrashNext]_vars
FairCrashSpec == CrashSpec /\ CrashFairness

-----------------------------------------------------------------------------
Holding == {c \in Conns : conn[c].pc \notin {"away", "accepted", "waiting", "closed"}}

CrashTypeOK ==
    /\ docs \in [Groups -> Nat] /\ current \in [Groups -> Nat]
    /\ reload \in [at: 0..(NumGroups + 1), got: [Groups -> Nat]]
    /\ conn \in [Conns -> [pc: Stage, exact: BOOLEAN, flag: 0..MaxFlags, late: BOOLEAN]]
    /\ used \in Nat /\ queue \in Seq(Conns)
    /\ budget \in 0..Budget /\ nilConn \in BOOLEAN
    /\ flags \in Seq(Students \cup {Nobody}) /\ Len(flags) <= MaxFlags
    /\ faults \in 0..MaxFaults

(* Every permit is held by one connection and comes back whichever way its *)
(* handler returns, and no permit lies idle while somebody waits.          *)
PermitsAreUsed ==
    /\ used = Cardinality(Holding) /\ used <= Permits
    /\ \A c \in Conns : In(c, "waiting") <=> \E i \in DOMAIN queue : queue[i] = c
    /\ queue # <<>> => used = Permits

(* A flag is for one crash: however requests and answers are lost and sent *)
(* again, no two connections are given the same flag, and nobody has one   *)
(* that was not shown to somebody.                                         *)
OneFlagPerCrash ==
    /\ \A c, d \in Conns : (c # d /\ conn[c].flag # 0) => conn[c].flag # conn[d].flag
    /\ \A f \in DOMAIN flags : flags[f] # Nobody => \E c \in Shown : conn[c].flag = f

(* A flag belongs to the first who submits it, for ever.                   *)
FirstSubmitterKeepsFlag ==
    [][\A f \in DOMAIN flags :
         /\ f \in DOMAIN flags'
         /\ flags[f] # Nobody => flags'[f] = flags[f]]_vars

(* Silent clients may hold every permit for ever; who waits for one gets   *)
(* it or an error all the same.                                            *)
WaitingEnds == \A c \in Conns : In(c, "waiting") ~> ~In(c, "waiting")

(* Who has crashed a task gets an answer: the flag, a refusal or an error. *)
CrashIsAnswered == \A c \in Conns : In(c, "fetching") ~> In(c, "closed")

(* The counter and the queue are a semaphore of the connections: served in *)
(* the order they came, whoever gives up, closes or dies in between.       *)
Sem == INSTANCE Semaphore WITH Clients <- Conns, holders <- Holding, line <- queue
ImplementsSemaphore == Sem!Spec

=============================================================================
