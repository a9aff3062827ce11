--------------------------- MODULE Crashme_proofs ---------------------------
(***************************************************************************)
(* Proofs about Crashme and Deadlines, for any number of connections,      *)
(* permits, students, flags, groups and faults.                            *)
(***************************************************************************)
EXTENDS Crashme, SequenceTheorems, FiniteSetTheorems, TLAPS

(* The deadlines by themselves: a step of the whole is one of theirs.      *)
DeadlinesStep == (\E g \in Groups : EditDeadlines(g)) \/ FetcherNext \/ FetchFails

LEMMA CrashStepOnDeadlines ==
    CrashNext => DeadlinesStep \/ UNCHANGED deadlinesVars
  <1> USE DEF deadlinesVars
  <1> SUFFICES ASSUME CrashNext PROVE DeadlinesStep \/ UNCHANGED deadlinesVars
    OBVIOUS
  <1>1. CASE DeadlinesNext
    BY <1>1 DEF DeadlinesNext, DeadlinesStep
  <1>2. CASE AcceptFails \/ HandleNilConnection
    BY <1>2 DEF AcceptFails, HandleNilConnection
  <1>3. ASSUME NEW c \in Conns,
               \/ Accept(c) \/ BadFirstLine(c) \/ ReadTask(c) \/ CommandEnds(c)
               \/ CommandCrashes(c) \/ CallFails(c) \/ AnswerLost(c)
        PROVE  UNCHANGED deadlinesVars
    BY <1>3 DEF Accept, BadFirstLine, ReadTask, CommandEnds, CommandCrashes, CallFails, AnswerLost
  <1>4. ASSUME NEW c \in Conns, ConnStep(c)
        PROVE  UNCHANGED deadlinesVars
    BY <1>4 DEF ConnStep, TryAcquire, AcquireTimesOut, SendRequest, TenSecondsPass,
                createFlag, ShowAnswer
  <1>5. ASSUME NEW c \in Conns, NEW s \in Students, SubmitFlag(s, c)
        PROVE  UNCHANGED deadlinesVars
    BY <1>5 DEF SubmitFlag
  <1> QED
    BY <1>1, <1>2, <1>3, <1>4, <1>5 DEF CrashNext

(* What a pass has fetched is no older than what is in force, and nothing  *)
(* is newer than the files.                                                *)
PassIsNewer ==
    /\ docs \in [Groups -> Nat] /\ current \in [Groups -> Nat]
    /\ reload \in [at: Nat, got: [Groups -> Nat]]
    /\ \A g \in Groups : /\ current[g] <= docs[g]
                         /\ g < reload.at => current[g] <= reload.got[g]
                         /\ reload.got[g] <= docs[g]

LEMMA InitPassIsNewer == CrashInit => PassIsNewer
  BY DeadlinesAssumption DEF CrashInit, DeadlinesInit, PassIsNewer, Nowhere, Groups

LEMMA NextPassIsNewer ==
    PassIsNewer /\ [CrashNext]_vars => PassIsNewer' /\ (\A g \in Groups : current'[g] >= current[g])
  <1> SUFFICES ASSUME PassIsNewer, [CrashNext]_vars
               PROVE  PassIsNewer' /\ (\A g \in Groups : current'[g] >= current[g])
    OBVIOUS
  <1>0. /\ NumGroups \in Nat
        /\ \A g \in Groups : g \in Nat /\ g >= 1 /\ g <= NumGroups
    BY DeadlinesAssumption DEF Groups
  <1>1. ASSUME NEW g \in Groups, EditDeadlines(g)
        PROVE  PassIsNewer' /\ (\A h \in Groups : current'[h] >= current[h])
    <2>1. /\ docs' \in [Groups -> Nat]
          /\ \A h \in Groups : docs[h] \in Nat /\ docs'[h] >= docs[h]
      <3>1. docs \in [Groups -> Nat] /\ docs' = [docs EXCEPT ![g] = docs[g] + 1]
        BY <1>1 DEF EditDeadlines, PassIsNewer
      <3> QED
        BY <3>1
    <2>2. current' = current /\ reload' = reload
      BY <1>1 DEF EditDeadlines
    <2>3. \A h \in Groups : current[h] \in Nat /\ reload.got[h] \in Nat
      BY DEF PassIsNewer
    <2>4. \A h \in Groups : /\ current[h] <= docs'[h]
                            /\ h < reload.at => current[h] <= reload.got[h]
                            /\ reload.got[h] <= docs'[h]
      BY <2>1, <2>3 DEF PassIsNewer
    <2>5. current \in [Groups -> Nat] /\ reload \in [at: Nat, got: [Groups -> Nat]]
      BY DEF PassIsNewer
    <2>6. \A h \in Groups : current[h] >= current[h]
      BY <2>3
    <2> QED
      BY <2>1, <2>2, <2>4, <2>5, <2>6, Zenon DEF PassIsNewer
  <1>2. CASE ReloadStart
    BY <1>2, <1>0 DEF ReloadStart, PassIsNewer, Nowhere
  <1>3. CASE Fetch
    <2>1. /\ docs' = docs /\ current' = current
          /\ reload.at \in Groups /\ reload'.at = reload.at + 1
          /\ reload'.got = [reload.got EXCEPT ![reload.at] = docs[reload.at]]
          /\ reload' \in [at: Nat, got: [Groups -> Nat]]
      <3>1. /\ reload.at \in Groups /\ docs' = docs /\ current' = current
            /\ reload' = [reload EXCEPT !.at = reload.at + 1,
                                        !.got = [reload.got EXCEPT ![reload.at] = docs[reload.at]]]
        BY <1>3 DEF Fetch
      <3>2. /\ reload \in [at: Nat, got: [Groups -> Nat]]
            /\ reload.got \in [Groups -> Nat] /\ docs[reload.at] \in Nat
        BY <3>1 DEF PassIsNewer
      <3>3. [reload.got EXCEPT ![reload.at] = docs[reload.at]] \in [Groups -> Nat]
        BY <3>2
      <3>4. reload.at + 1 \in Nat
        BY <3>2
      <3> QED
        BY <3>1, <3>2, <3>3, <3>4
    <2>2. ASSUME NEW h \in Groups
          PROVE  /\ h < reload'.at => current[h] <= reload'.got[h]
                 /\ reload'.got[h] <= docs[h]
                 /\ current[h] >= current[h]
      <3>1. CASE h = reload.at
        BY <2>1, <3>1 DEF PassIsNewer
      <3>2. CASE h # reload.at
        BY <2>1, <3>2, <1>0 DEF PassIsNewer
      <3> QED
        BY <3>1, <3>2
    <2>3. docs \in [Groups -> Nat] /\ current \in [Groups -> Nat]
          /\ \A h \in Groups : current[h] <= docs[h]
      BY DEF PassIsNewer
    <2> QED
      BY <2>1, <2>2, <2>3, Zenon DEF PassIsNewer
  <1>4. CASE FetchFails
    BY <1>4, <1>0 DEF FetchFails, PassIsNewer, Nowhere
  <1>5. CASE Swap
    BY <1>5, <1>0 DEF Swap, PassIsNewer, Nowhere
  <1>6. CASE UNCHANGED deadlinesVars
    BY <1>6 DEF deadlinesVars, PassIsNewer
  <1>7. DeadlinesStep \/ UNCHANGED deadlinesVars
    BY CrashStepOnDeadlines DEF vars, deadlinesVars
  <1> QED
    BY <1>1, <1>2, <1>3, <1>4, <1>5, <1>6, <1>7 DEF DeadlinesStep, FetcherNext

(* No group ever falls back to older deadlines, for any number of groups   *)
(* and whatever fetches fail (fetcher.go).                                 *)
THEOREM DeadlinesOnlyAdvance == CrashSpec => DeadlinesNeverGoBack
  <1>1. CrashInit => PassIsNewer
    BY InitPassIsNewer
  <1>2. PassIsNewer /\ [CrashNext]_vars => PassIsNewer'
    BY NextPassIsNewer
  <1>3. PassIsNewer /\ [CrashNext]_vars => [\A g \in Groups : current'[g] >= current[g]]_deadlinesVars
    BY NextPassIsNewer
  <1> QED
    BY <1>1, <1>2, <1>3, PTL DEF CrashSpec, DeadlinesNeverGoBack

(* The safety half of DeadlinesConverge: what is in force is never newer   *)
(* than the file and never goes back, so a group that has caught up stays. *)
THEOREM CaughtUpStays == CrashSpec => CaughtUpLasts
  <1> DEFINE Stays == \A g \in Groups : (current[g] = docs[g] /\ docs'[g] = docs[g]) =>
                                            current'[g] = docs'[g]
  <1>1. PassIsNewer /\ [CrashNext]_vars => Stays
    <2> SUFFICES ASSUME PassIsNewer, [CrashNext]_vars, NEW g \in Groups,
                        current[g] = docs[g], docs'[g] = docs[g]
                 PROVE  current'[g] = docs'[g]
      OBVIOUS
    <2>1. PassIsNewer' /\ current'[g] >= current[g]
      BY NextPassIsNewer
    <2>2. current[g] \in Nat /\ current'[g] \in Nat /\ current'[g] <= docs'[g]
      BY <2>1 DEF PassIsNewer
    <2> QED
      BY <2>1, <2>2
  <1> HIDE DEF Stays
  <1>2. PassIsNewer /\ [CrashNext]_vars => [Stays]_deadlinesVars
    BY <1>1
  <1>3. PassIsNewer /\ [CrashNext]_vars => PassIsNewer'
    BY NextPassIsNewer
  <1>4. CrashSpec => [][Stays]_deadlinesVars
    BY <1>2, <1>3, InitPassIsNewer, PTL DEF CrashSpec
  <1> QED
    BY <1>4 DEF Stays, CaughtUpLasts

-----------------------------------------------------------------------------
(* The connections and their queue: who is queued waits, once.             *)
Conn == [pc: Stage, exact: BOOLEAN, flag: Nat, late: BOOLEAN]

QueueHolds ==
    /\ conn \in [Conns -> Conn]
    /\ queue \in Seq(Conns)
    /\ \A i \in DOMAIN queue : conn[queue[i]].pc = "waiting"
    /\ \A i, j \in DOMAIN queue : queue[i] = queue[j] => i = j

(* Flags are with connections that are answered or closed, each with one;  *)
(* a flag that was submitted is with one that is closed.                   *)
FlagsHold ==
    /\ flags \in Seq(Students \cup {Nobody})
    /\ \A c \in Conns : /\ conn[c].flag <= Len(flags)
                        /\ conn[c].flag # 0 => conn[c].pc \in {"answered", "closed"}
    /\ OneFlagPerCrash

(* What most steps do to the flags of connections: they keep or lose them, *)
(* and those that are closed keep them.                                    *)
KeepsFlags ==
    \A c \in Conns :
        /\ conn'[c].flag # 0 => /\ conn'[c].flag = conn[c].flag
                               /\ conn'[c].pc \in {"answered", "closed"}
        /\ conn[c].pc = "closed" => conn'[c].pc = "closed" /\ conn'[c].flag = conn[c].flag

LEMMA KeepingFlags ==
    ASSUME QueueHolds, QueueHolds', FlagsHold, flags' = flags, KeepsFlags
    PROVE  FlagsHold'
  <1>1. \A c \in Conns : conn'[c].flag \in Nat /\ conn[c].flag \in Nat
    BY DEF QueueHolds, Conn
  <1>2. \A c \in Conns : /\ conn'[c].flag <= Len(flags)
                         /\ conn'[c].flag # 0 => conn'[c].pc \in {"answered", "closed"}
    BY <1>1 DEF FlagsHold, KeepsFlags
  <1>3. \A c, d \in Conns :
          (c # d /\ conn'[c].flag # 0) => conn'[c].flag # conn'[d].flag
    BY DEF FlagsHold, OneFlagPerCrash, KeepsFlags
  <1>4. \A f \in DOMAIN flags : flags[f] # Nobody => \E c \in Shown' : conn'[c].flag = f
    BY DEF FlagsHold, OneFlagPerCrash, KeepsFlags, Shown, In
  <1> QED
    BY <1>2, <1>3, <1>4 DEF FlagsHold, OneFlagPerCrash

(* A sequence without its i-th element.                                    *)
LEMMA RemoveAtElements ==
    ASSUME NEW S, NEW s \in Seq(S), NEW i \in DOMAIN s
    PROVE  /\ RemoveAt(s, i) \in Seq(S)
           /\ Len(RemoveAt(s, i)) = Len(s) - 1
           /\ \A j \in 1..(Len(s) - 1) :
                RemoveAt(s, i)[j] = IF j < i THEN s[j] ELSE s[j + 1]
  <1>1. i \in 1..Len(s) /\ Len(s) \in Nat
    OBVIOUS
  <1>2. /\ SubSeq(s, 1, i - 1) \in Seq(S) /\ Len(SubSeq(s, 1, i - 1)) = i - 1
        /\ \A j \in 1..(i - 1) : SubSeq(s, 1, i - 1)[j] = s[j]
    BY <1>1
  <1>3. /\ SubSeq(s, i + 1, Len(s)) \in Seq(S)
        /\ Len(SubSeq(s, i + 1, Len(s))) = Len(s) - i
        /\ \A j \in 1..(Len(s) - i) : SubSeq(s, i + 1, Len(s))[j] = s[i + j]
    BY <1>1
  <1> DEFINE before == SubSeq(s, 1, i - 1)
             after  == SubSeq(s, i + 1, Len(s))
  <1> HIDE DEF before, after
  <1>4. /\ before \o after \in Seq(S)
        /\ Len(before \o after) = Len(s) - 1
        /\ \A j \in 1..(Len(s) - 1) :
             (before \o after)[j] = IF j < i THEN before[j] ELSE after[j - (i - 1)]
    <2>1. before \in Seq(S) /\ after \in Seq(S)
          /\ Len(before) = i - 1 /\ Len(after) = Len(s) - i
      BY <1>2, <1>3 DEF before, after
    <2>2. /\ before \o after \in Seq(S)
          /\ Len(before \o after) = Len(before) + Len(after)
          /\ \A j \in 1..(Len(before) + Len(after)) :
               (before \o after)[j] = IF j <= Len(before) THEN before[j] ELSE after[j - Len(before)]
      BY <2>1, ConcatProperties, Zenon
    <2>3. Len(before) + Len(after) = Len(s) - 1
      BY <2>1, <1>1
    <2>4. ASSUME NEW j \in 1..(Len(s) - 1)
          PROVE  (before \o after)[j] = IF j < i THEN before[j] ELSE after[j - (i - 1)]
      <3>1. j \in 1..(Len(before) + Len(after))
        BY <2>3
      <3>2. (before \o after)[j] = IF j <= Len(before) THEN before[j] ELSE after[j - Len(before)]
        BY <2>2, <3>1, Zenon
      <3>3. (j <= Len(before)) <=> j < i
        BY <2>1, <1>1
      <3> QED
        BY <2>1, <3>2, <3>3, Zenon
    <2> QED
      BY <2>2, <2>3, <2>4, Zenon
  <1>5. RemoveAt(s, i) = before \o after
    BY DEF RemoveAt, before, after
  <1>6. ASSUME NEW j \in 1..(Len(s) - 1)
        PROVE  (before \o after)[j] = IF j < i THEN s[j] ELSE s[j + 1]
    <2>1. CASE j < i
      BY <2>1, <1>4, <1>2, <1>1 DEF before
    <2>2. CASE ~(j < i)
      <3>1. j - (i - 1) \in 1..(Len(s) - i) /\ i + (j - (i - 1)) = j + 1
        BY <2>2, <1>1
      <3>2. after[j - (i - 1)] = s[i + (j - (i - 1))]
        BY <3>1, <1>3 DEF after
      <3> QED
        BY <2>2, <1>4, <3>1, <3>2
    <2> QED
      BY <2>1, <2>2
  <1> QED
    BY <1>4, <1>5, <1>6

(* One connection, which neither waits nor is closed, gets a new record.   *)
LEMMA MovingHolds ==
    ASSUME QueueHolds, FlagsHold, NEW c \in Conns, NEW r \in Conn,
           conn' = [conn EXCEPT ![c] = r], queue' = queue,
           conn[c].pc \notin {"waiting", "closed"},
           r.flag # 0 => r.flag = conn[c].flag /\ r.pc \in {"answered", "closed"}
    PROVE  QueueHolds' /\ KeepsFlags
  <1>1. \A d \in Conns : d # c => conn'[d] = conn[d]
    BY DEF QueueHolds
  <1>2. conn'[c] = r /\ conn' \in [Conns -> Conn]
    BY DEF QueueHolds
  <1>3. \A i \in DOMAIN queue : queue[i] \in Conns /\ queue[i] # c
    BY DEF QueueHolds
  <1>4. QueueHolds'
    BY <1>1, <1>2, <1>3 DEF QueueHolds
  <1>5. KeepsFlags
    BY <1>1, <1>2 DEF KeepsFlags, FlagsHold
  <1> QED
    BY <1>4, <1>5

LEMMA MovesHolds ==
    ASSUME QueueHolds, FlagsHold, NEW c \in Conns, NEW stage \in Stage, Moves(c, stage),
           queue' = queue, conn[c].pc \notin {"waiting", "closed", "answered"}
    PROVE  QueueHolds' /\ KeepsFlags
  <1> DEFINE r == [conn[c] EXCEPT !.pc = stage]
  <1>1. conn[c] \in Conn /\ r \in Conn /\ r.flag = conn[c].flag
    BY DEF QueueHolds, Conn
  <1>2. conn[c].flag = 0
    BY DEF FlagsHold
  <1>3. conn' = [conn EXCEPT ![c] = r]
    BY DEF Moves
  <1> HIDE DEF r
  <1> QED
    BY <1>1, <1>2, <1>3, MovingHolds

(* The first who waits gets the permit of a handler that returns.          *)
LEMMA ClosingHolds ==
    ASSUME QueueHolds, FlagsHold, NEW c \in Conns, NEW r \in Conn, Closes(c, r),
           conn[c].pc \notin {"waiting", "closed"}, r.pc = "closed",
           r.flag # 0 => r.flag = conn[c].flag
    PROVE  QueueHolds' /\ KeepsFlags
  <1>1. CASE queue = <<>>
    <2>1. conn' = [conn EXCEPT ![c] = r] /\ queue' = queue
      BY <1>1 DEF Closes
    <2> QED
      BY <2>1, MovingHolds
  <1>2. CASE queue # <<>>
    <2> DEFINE h == Head(queue)
    <2>1. /\ queue \in Seq(Conns) /\ 1 \in DOMAIN queue /\ h = queue[1]
      BY <1>2 DEF QueueHolds
    <2>2. h \in Conns /\ conn[h].pc = "waiting" /\ h # c
      BY <2>1 DEF QueueHolds
    <2>3. /\ conn' = [conn EXCEPT ![c] = r, ![h].pc = "asking"]
          /\ queue' = Tail(queue)
      BY <1>2 DEF Closes
    <2> HIDE DEF h
    <2>4. /\ conn' \in [Conns -> Conn]
          /\ conn'[c] = r /\ conn'[h] = [conn[h] EXCEPT !.pc = "asking"]
          /\ \A d \in Conns : d # c /\ d # h => conn'[d] = conn[d]
      <3> DEFINE w == [conn[h] EXCEPT !.pc = "asking"]
      <3>1. w \in Conn
        BY <2>2 DEF QueueHolds, Conn, Stage
      <3>2. conn \in [Conns -> Conn]
        BY DEF QueueHolds
      <3>3. conn' = [[conn EXCEPT ![c] = r] EXCEPT ![h] = w]
        BY <2>2, <2>3, <3>2
      <3> HIDE DEF w
      <3>4. /\ conn' \in [Conns -> Conn] /\ conn'[c] = r /\ conn'[h] = w
            /\ \A d \in Conns : d # c /\ d # h => conn'[d] = conn[d]
        BY <2>2, <3>1, <3>2, <3>3
      <3> QED
        BY <3>4 DEF w
    <2>5. /\ queue' \in Seq(Conns)
          /\ Len(queue') = Len(queue) - 1
          /\ \A i \in DOMAIN queue' : i + 1 \in DOMAIN queue /\ queue'[i] = queue[i + 1]
      BY <1>2, <2>1, <2>3
    <2>6. \A i \in DOMAIN queue' :
            queue'[i] \in Conns /\ queue'[i] # h /\ queue'[i] # c /\ conn[queue'[i]].pc = "waiting"
      <3> TAKE i \in DOMAIN queue'
      <3>1. i + 1 \in DOMAIN queue /\ i + 1 # 1 /\ queue'[i] = queue[i + 1]
        BY <2>5
      <3> QED
        BY <3>1, <2>1, <2>2 DEF QueueHolds
    <2>7. \A i, j \in DOMAIN queue' : queue'[i] = queue'[j] => i = j
      <3> TAKE i, j \in DOMAIN queue'
      <3>1. /\ i \in Nat /\ j \in Nat
            /\ i + 1 \in DOMAIN queue /\ queue'[i] = queue[i + 1]
            /\ j + 1 \in DOMAIN queue /\ queue'[j] = queue[j + 1]
        BY <2>5
      <3>2. queue[i + 1] = queue[j + 1] => i + 1 = j + 1
        BY <3>1 DEF QueueHolds
      <3> QED
        BY <3>1, <3>2
    <2>8. QueueHolds'
      BY <2>4, <2>5, <2>6, <2>7 DEF QueueHolds
    <2>9. conn[h].flag = 0 /\ conn[h].flag = conn'[h].flag
      BY <2>2, <2>4 DEF FlagsHold, QueueHolds, Conn
    <2>10. KeepsFlags
      BY <2>2, <2>4, <2>9 DEF KeepsFlags, FlagsHold
    <2> QED
      BY <2>8, <2>10
  <1> QED
    BY <1>1, <1>2

-----------------------------------------------------------------------------
LEMMA DyingHolds ==
    ASSUME QueueHolds, FlagsHold, Dies
    PROVE  QueueHolds' /\ KeepsFlags
  <1>1. Away \in Conn /\ [Away EXCEPT !.pc = "closed"] \in Conn /\ Away.flag = 0
    BY DEF Away, Conn, Stage
  <1>2. QueueHolds'
    BY <1>1 DEF Dies, QueueHolds
  <1>3. \A c \in Conns : conn'[c] = conn[c] \/ (conn[c].pc # "closed" /\ conn'[c].flag = 0)
    BY <1>1 DEF Dies, In, Away
  <1> QED
    BY <1>2, <1>3 DEF KeepsFlags, FlagsHold

LEMMA QueueingHolds ==
    ASSUME QueueHolds, FlagsHold, NEW c \in Conns, TryAcquire(c)
    PROVE  QueueHolds' /\ KeepsFlags
  <1>1. CASE queue' = queue
    BY <1>1, MovesHolds DEF TryAcquire, In, Stage
  <1>2. CASE queue' = Append(queue, c) /\ Moves(c, "waiting")
    <2>1. /\ conn[c].pc = "accepted" /\ conn \in [Conns -> Conn]
      BY DEF TryAcquire, In, QueueHolds
    <2>2. /\ conn' \in [Conns -> Conn] /\ conn'[c].pc = "waiting"
          /\ conn'[c].flag = conn[c].flag
          /\ \A d \in Conns : d # c => conn'[d] = conn[d]
      BY <1>2, <2>1 DEF Moves, Conn, Stage
    <2>3. /\ queue \in Seq(Conns) /\ queue' \in Seq(Conns) /\ Len(queue') = Len(queue) + 1
          /\ \A i \in DOMAIN queue : queue[i] \in Conns /\ queue[i] # c /\ queue'[i] = queue[i]
          /\ queue'[Len(queue) + 1] = c
      BY <1>2, <2>1 DEF QueueHolds
    <2>4. \A i \in DOMAIN queue' : i \in DOMAIN queue \/ i = Len(queue) + 1
      BY <2>3
    <2>5. QueueHolds'
      BY <2>2, <2>3, <2>4 DEF QueueHolds
    <2>6. KeepsFlags
      BY <2>1, <2>2 DEF KeepsFlags, FlagsHold
    <2> QED
      BY <2>5, <2>6
  <1> QED
    BY <1>1, <1>2 DEF TryAcquire

LEMMA TimingOutHolds ==
    ASSUME QueueHolds, FlagsHold, NEW c \in Conns, AcquireTimesOut(c)
    PROVE  QueueHolds' /\ KeepsFlags
  <1>1. PICK i \in DOMAIN queue : queue[i] = c /\ queue' = RemoveAt(queue, i)
    BY DEF AcquireTimesOut
  <1>2. queue \in Seq(Conns) /\ conn \in [Conns -> Conn] /\ conn[c].pc = "waiting"
    BY DEF QueueHolds, AcquireTimesOut, In
  <1>3. /\ queue' \in Seq(Conns) /\ Len(queue') = Len(queue) - 1
        /\ \A j \in 1..(Len(queue) - 1) : queue'[j] = IF j < i THEN queue[j] ELSE queue[j + 1]
    BY <1>1, <1>2, RemoveAtElements
  <1>4. /\ conn' \in [Conns -> Conn] /\ conn'[c].pc = "closed" /\ conn'[c].flag = conn[c].flag
        /\ \A d \in Conns : d # c => conn'[d] = conn[d]
    BY <1>2 DEF AcquireTimesOut, Moves, Conn, Stage
  <1>5. conn[c].flag = 0
    BY <1>2 DEF FlagsHold
  <1> DEFINE from(j) == IF j < i THEN j ELSE j + 1
  <1>6. ASSUME NEW j \in DOMAIN queue'
        PROVE  /\ j \in Nat /\ from(j) \in DOMAIN queue /\ from(j) # i
               /\ queue'[j] = queue[from(j)]
    <2>1. j \in 1..(Len(queue) - 1) /\ i \in 1..Len(queue) /\ Len(queue) \in Nat
      BY <1>2, <1>3
    <2>2. from(j) \in 1..Len(queue) /\ from(j) # i
      BY <2>1
    <2>3. queue'[j] = queue[from(j)]
      BY <2>1, <1>3
    <2> QED
      BY <1>2, <2>1, <2>2, <2>3
  <1>7. \A j, k \in DOMAIN queue' : from(j) = from(k) => j = k
    BY <1>1, <1>2, <1>6
  <1> HIDE DEF from
  <1>8. \A j \in DOMAIN queue' : queue'[j] \in Conns /\ queue'[j] # c
    BY <1>1, <1>2, <1>6 DEF QueueHolds
  <1>9. \A j \in DOMAIN queue' : conn[queue'[j]].pc = "waiting"
    BY <1>6 DEF QueueHolds
  <1>10. \A j, k \in DOMAIN queue' : queue'[j] = queue'[k] => j = k
    BY <1>6, <1>7 DEF QueueHolds
  <1>11. QueueHolds'
    BY <1>3, <1>4, <1>8, <1>9, <1>10 DEF QueueHolds
  <1>12. KeepsFlags
    BY <1>4, <1>5 DEF KeepsFlags, FlagsHold
  <1> QED
    BY <1>11, <1>12

LEMMA ConnRecords ==
    ASSUME QueueHolds, NEW c \in Conns
    PROVE  /\ conn[c] \in Conn /\ Closed(c) \in Conn
           /\ Closed(c).pc = "closed" /\ Closed(c).flag = 0
           /\ [Closed(c) EXCEPT !.flag = conn[c].flag] \in Conn
  BY DEF QueueHolds, Conn, Stage, Closed, Away

(* The handler of one connection, up to the flag.                          *)
LEMMA HandlerHolds ==
    ASSUME QueueHolds, FlagsHold, NEW c \in Conns,
           \/ Accept(c) \/ BadFirstLine(c) \/ ReadTask(c) \/ CommandEnds(c)
           \/ CommandCrashes(c) \/ CallFails(c) \/ AnswerLost(c)
           \/ SendRequest(c) \/ TenSecondsPass(c) \/ ShowAnswer(c)
    PROVE  QueueHolds' /\ KeepsFlags
  <1> USE DEF In
  <1>1. CASE Accept(c)
    BY <1>1, MovesHolds DEF Accept, Stage
  <1>2. CASE BadFirstLine(c)
    BY <1>2, ConnRecords, ClosingHolds DEF BadFirstLine
  <1>3. CASE ReadTask(c)
    <2>1. PICK exact \in BOOLEAN :
            conn' = [conn EXCEPT ![c] = [[conn[c] EXCEPT !.pc = "running"] EXCEPT !.exact = exact]]
      BY <1>3 DEF ReadTask, QueueHolds, Conn
    <2> DEFINE r == [[conn[c] EXCEPT !.pc = "running"] EXCEPT !.exact = exact]
    <2>2. r \in Conn /\ r.flag = conn[c].flag /\ conn[c].flag = 0
      BY <1>3, ConnRecords DEF ReadTask, Conn, Stage, FlagsHold
    <2> HIDE DEF r
    <2> QED
      BY <1>3, <2>1, <2>2, MovingHolds DEF ReadTask, r
  <1>4. CASE CommandEnds(c)
    BY <1>4, ConnRecords, ClosingHolds DEF CommandEnds
  <1>5. CASE CommandCrashes(c)
    BY <1>5, MovesHolds DEF CommandCrashes, Stage
  <1>6. CASE CallFails(c)
    BY <1>6, MovesHolds DEF CallFails, Stage
  <1>7. CASE AnswerLost(c)
    <2> DEFINE r == [[conn[c] EXCEPT !.pc = "fetching"] EXCEPT !.flag = 0]
    <2>1. conn' = [conn EXCEPT ![c] = r]
      BY <1>7 DEF AnswerLost, QueueHolds
    <2>2. r \in Conn /\ r.flag = 0
      BY ConnRecords DEF Conn, Stage
    <2> HIDE DEF r
    <2> QED
      BY <1>7, <2>1, <2>2, MovingHolds DEF AnswerLost
  <1>8. CASE SendRequest(c)
    BY <1>8, MovesHolds DEF SendRequest, Stage
  <1>9. CASE TenSecondsPass(c)
    <2> DEFINE r == [conn[c] EXCEPT !.late = TRUE]
    <2>1. conn' = [conn EXCEPT ![c] = r]
      BY <1>9 DEF TenSecondsPass, QueueHolds
    <2>2. r \in Conn /\ r.flag = conn[c].flag /\ r.pc = conn[c].pc
      BY ConnRecords DEF Conn
    <2>3. conn[c].pc # "answered" => conn[c].flag = 0
      BY <1>9 DEF TenSecondsPass, FlagsHold
    <2> HIDE DEF r
    <2> QED
      BY <1>9, <2>1, <2>2, <2>3, MovingHolds DEF TenSecondsPass
  <1>10. CASE ShowAnswer(c)
    <2> DEFINE r == [Closed(c) EXCEPT !.flag = conn[c].flag]
    <2>1. r \in Conn /\ r.pc = "closed" /\ r.flag = conn[c].flag
      BY ConnRecords DEF Closed, Away
    <2>2. Closes(c, r) /\ conn[c].pc \in {"answered", "refused", "fetching"}
      BY <1>10 DEF ShowAnswer
    <2> HIDE DEF r
    <2> QED
      BY <2>1, <2>2, ClosingHolds
  <1> QED
    BY <1>1, <1>2, <1>3, <1>4, <1>5, <1>6, <1>7, <1>8, <1>9, <1>10

(* A flag that is created is new, and with the connection it is for.       *)
LEMMA CreatingHolds ==
    ASSUME QueueHolds, FlagsHold, NEW c \in Conns, createFlag(c)
    PROVE  QueueHolds' /\ FlagsHold'
  <1>1. conn[c].pc = "sent" /\ conn[c].flag = 0
    BY DEF createFlag, In, FlagsHold
  <1>2. CASE Moves(c, "refused") /\ UNCHANGED flags
    <2>1. QueueHolds' /\ KeepsFlags
      BY <1>1, <1>2, MovesHolds DEF createFlag, Stage
    <2> QED
      BY <1>2, <2>1, KeepingFlags
  <1>3. CASE /\ flags' = Append(flags, Nobody)
             /\ conn' = [conn EXCEPT ![c].pc = "answered", ![c].flag = Len(flags')]
    <2>1. /\ flags \in Seq(Students \cup {Nobody})
          /\ flags' \in Seq(Students \cup {Nobody})
          /\ Len(flags) \in Nat /\ Len(flags') = Len(flags) + 1
          /\ \A f \in DOMAIN flags' : f \in DOMAIN flags \/ f = Len(flags')
          /\ \A f \in DOMAIN flags : flags'[f] = flags[f]
          /\ flags'[Len(flags')] = Nobody
      BY <1>3 DEF FlagsHold
    <2> DEFINE r == [[conn[c] EXCEPT !.pc = "answered"] EXCEPT !.flag = Len(flags')]
    <2>2. r \in Conn /\ r.pc = "answered" /\ r.flag = Len(flags) + 1
      <3>1. conn[c] \in Conn /\ Len(flags') = Len(flags) + 1 /\ Len(flags) + 1 \in Nat
        <4>1. conn[c] \in Conn
          BY ConnRecords
        <4> QED
          BY <2>1, <4>1
      <3> QED
        BY <3>1 DEF Conn, Stage
    <2>3. conn' = [conn EXCEPT ![c] = r]
      BY <1>3 DEF QueueHolds
    <2> HIDE DEF r
    <2>4. /\ conn' \in [Conns -> Conn] /\ conn'[c] = r
          /\ \A d \in Conns : d # c => conn'[d] = conn[d]
      BY <2>2, <2>3 DEF QueueHolds
    <2>5. QueueHolds'
      <3>1. \A i \in DOMAIN queue : queue[i] \in Conns /\ queue[i] # c
        BY <1>1 DEF QueueHolds
      <3> QED
        BY <2>4, <3>1 DEF QueueHolds, createFlag
    <2>6. \A d \in Conns : conn[d].flag \in Nat /\ conn[d].flag <= Len(flags)
      BY DEF QueueHolds, Conn, FlagsHold
    <2>7. \A d \in Conns : /\ conn'[d].flag <= Len(flags')
                           /\ conn'[d].flag # 0 => conn'[d].pc \in {"answered", "closed"}
      BY <2>1, <2>2, <2>4, <2>6 DEF FlagsHold
    <2>8. \A d, e \in Conns :
            (d # e /\ conn'[d].flag # 0) => conn'[d].flag # conn'[e].flag
      BY <2>1, <2>2, <2>4, <2>6 DEF FlagsHold, OneFlagPerCrash
    <2>9. \A f \in DOMAIN flags' : flags'[f] # Nobody => \E d \in Shown' : conn'[d].flag = f
      BY <1>1, <2>1, <2>4 DEF FlagsHold, OneFlagPerCrash, Shown, In
    <2> QED
      BY <2>1, <2>5, <2>7, <2>8, <2>9 DEF FlagsHold, OneFlagPerCrash
  <1> QED
    BY <1>2, <1>3 DEF createFlag

LEMMA SubmittingHolds ==
    ASSUME QueueHolds, FlagsHold, NEW c \in Conns, NEW s \in Students, SubmitFlag(s, c)
    PROVE  QueueHolds' /\ FlagsHold'
  <1>1. /\ conn' = conn /\ queue' = queue /\ c \in Shown
        /\ flags' = [flags EXCEPT ![conn[c].flag] = s]
    BY DEF SubmitFlag, procVars
  <1>2. /\ flags' \in Seq(Students \cup {Nobody}) /\ Len(flags') = Len(flags)
        /\ \A f \in DOMAIN flags : f # conn[c].flag => flags'[f] = flags[f]
    <2>1. flags \in Seq(Students \cup {Nobody}) /\ s \in Students \cup {Nobody}
      BY DEF FlagsHold
    <2>2. conn[c].flag \in 1..Len(flags)
      BY <1>1, <2>1 DEF Shown, FlagsHold, QueueHolds, Conn
    <2> QED
      BY <1>1, <2>1, <2>2, ExceptSeq
  <1>3. \A f \in DOMAIN flags' : flags'[f] # Nobody => \E d \in Shown : conn[d].flag = f
    BY <1>1, <1>2 DEF FlagsHold, OneFlagPerCrash
  <1>4. Shown' = Shown
    BY <1>1 DEF Shown, In
  <1> QED
    BY <1>1, <1>2, <1>3, <1>4 DEF QueueHolds, FlagsHold, OneFlagPerCrash

LEMMA StutteringHolds ==
    ASSUME QueueHolds, FlagsHold, UNCHANGED <<conn, queue, flags>>
    PROVE  QueueHolds' /\ FlagsHold'
  BY DEF QueueHolds, FlagsHold, OneFlagPerCrash, Shown, In

LEMMA InitHolds == CrashInit => QueueHolds /\ FlagsHold
  BY DEF CrashInit, QueueHolds, FlagsHold, OneFlagPerCrash, Away, Conn, Stage

LEMMA NextHolds == QueueHolds /\ FlagsHold /\ [CrashNext]_vars => QueueHolds' /\ FlagsHold'
  <1> SUFFICES ASSUME QueueHolds, FlagsHold, [CrashNext]_vars PROVE QueueHolds' /\ FlagsHold'
    OBVIOUS
  <1>1. CASE DeadlinesNext \/ UNCHANGED vars
    BY <1>1, StutteringHolds DEF DeadlinesNext, vars, procVars
  <1>2. CASE AcceptFails \/ HandleNilConnection
    <2>1. CASE Dies
      BY <1>2, <2>1, DyingHolds, KeepingFlags DEF AcceptFails, HandleNilConnection
    <2>2. CASE UNCHANGED <<conn, queue, flags>>
      BY <2>2, StutteringHolds
    <2> QED
      BY <1>2, <2>1, <2>2 DEF AcceptFails, HandleNilConnection
  <1>3. ASSUME NEW c \in Conns,
               \/ Accept(c) \/ BadFirstLine(c) \/ ReadTask(c) \/ CommandEnds(c)
               \/ CommandCrashes(c) \/ CallFails(c) \/ AnswerLost(c)
               \/ SendRequest(c) \/ TenSecondsPass(c) \/ ShowAnswer(c)
        PROVE  QueueHolds' /\ FlagsHold'
    <2>1. QueueHolds' /\ KeepsFlags
      BY <1>3, HandlerHolds
    <2>2. flags' = flags
      BY <1>3 DEF Accept, BadFirstLine, ReadTask, CommandEnds, CommandCrashes, CallFails,
                  AnswerLost, SendRequest, TenSecondsPass, ShowAnswer
    <2> QED
      BY <2>1, <2>2, KeepingFlags
  <1>4. ASSUME NEW c \in Conns, TryAcquire(c) \/ AcquireTimesOut(c)
        PROVE  QueueHolds' /\ FlagsHold'
    BY <1>4, QueueingHolds, TimingOutHolds, KeepingFlags DEF TryAcquire, AcquireTimesOut
  <1>5. ASSUME NEW c \in Conns, createFlag(c)
        PROVE  QueueHolds' /\ FlagsHold'
    BY <1>5, CreatingHolds
  <1>6. ASSUME NEW c \in Conns, NEW s \in Students, SubmitFlag(s, c)
        PROVE  QueueHolds' /\ FlagsHold'
    BY <1>6, SubmittingHolds
  <1> QED
    BY <1>1, <1>2, <1>3, <1>4, <1>5, <1>6 DEF CrashNext, ConnStep

(* No two connections are ever given one flag, and a flag that a student   *)
(* submits was shown to somebody, however many connections, permits and    *)
(* losses there are (api.go createFlag, crashme fetchFlag).                *)
THEOREM FlagsAreForOneCrash == CrashSpec => []OneFlagPerCrash
  <1>1. FlagsHold => OneFlagPerCrash
    BY DEF FlagsHold
  <1> QED
    BY <1>1, InitHolds, NextHolds, PTL DEF CrashSpec

(* A flag stays with its first submitter (database.go SubmitFlag).         *)
THEOREM FirstSubmitterWins == CrashSpec => FirstSubmitterKeepsFlag
  <1> DEFINE Kept == \A f \in DOMAIN flags :
                       /\ f \in DOMAIN flags'
                       /\ flags[f] # Nobody => flags'[f] = flags[f]
  <1>1. FlagsHold /\ [CrashNext]_vars => [Kept]_vars
    <2> SUFFICES ASSUME FlagsHold, CrashNext PROVE Kept
      OBVIOUS
    <2>1. flags \in Seq(Students \cup {Nobody})
      BY DEF FlagsHold
    <2>2. \/ flags' = flags \/ flags' = Append(flags, Nobody)
          \/ \E s \in Students, c \in Conns :
                flags[conn[c].flag] = Nobody /\ flags' = [flags EXCEPT ![conn[c].flag] = s]
      BY DEF CrashNext, DeadlinesNext, AcceptFails, HandleNilConnection, Accept, BadFirstLine,
             ReadTask, CommandEnds, CommandCrashes, CallFails, AnswerLost, ConnStep, TryAcquire,
             AcquireTimesOut, SendRequest, TenSecondsPass, createFlag, ShowAnswer, SubmitFlag
    <2> QED
      BY <2>1, <2>2
  <1> QED
    BY <1>1, InitHolds, NextHolds, PTL DEF CrashSpec, FirstSubmitterKeepsFlag

-----------------------------------------------------------------------------
(* The permits: as many are taken as connections hold one, whoever waits   *)
(* is in the queue, and nobody waits while one is free.                    *)
Out == {"away", "accepted", "waiting", "closed"}

PermitsHold ==
    /\ IsFiniteSet(Holding) /\ used = Cardinality(Holding)
    /\ used \in Nat /\ used <= Permits
    /\ \A c \in Conns : In(c, "waiting") => \E i \in DOMAIN queue : queue[i] = c
    /\ queue # <<>> => used = Permits

(* A connection that neither takes, gives back nor waits for a permit.     *)
LEMMA SameHolders ==
    ASSUME QueueHolds, QueueHolds', PermitsHold, queue' = queue, used' = used,
           NEW c \in Conns,
           \A d \in Conns : d # c => conn'[d] = conn[d],
           conn[c].pc \in Out <=> conn'[c].pc \in Out,
           conn'[c].pc = "waiting" => conn[c].pc = "waiting"
    PROVE  PermitsHold'
  <1>1. Holding' = Holding
    BY DEF Holding, Out
  <1>2. \A d \in Conns : In(d, "waiting")' => In(d, "waiting")
    BY DEF In
  <1> QED
    BY <1>1, <1>2 DEF PermitsHold

LEMMA DyingPermits ==
    ASSUME PermitsHold, Dies
    PROVE  PermitsHold'
  <1>1. \A c \in Conns : conn'[c].pc \in {"away", "closed"}
    BY DEF Dies, In, Away
  <1>2. Holding' = {} /\ \A c \in Conns : ~In(c, "waiting")'
    BY <1>1 DEF Holding, In
  <1>3. used' = 0 /\ queue' = <<>> /\ 0 <= Permits
    BY CrashmeAssumption DEF Dies
  <1> QED
    BY <1>2, <1>3, FS_EmptySet DEF PermitsHold

(* Who holds a permit after each step on the semaphore.                    *)
LEMMA AcquiringHolders ==
    ASSUME QueueHolds, NEW c \in Conns, TryAcquire(c)
    PROVE  /\ c \notin Holding /\ \A i \in DOMAIN queue : queue[i] # c
           /\ \A d \in Conns : d # c => conn'[d] = conn[d]
           /\ IF used < Permits /\ queue = <<>>
              THEN /\ Holding' = Holding \cup {c} /\ used' = used + 1 /\ queue' = queue
                   /\ conn'[c].pc = "asking"
              ELSE /\ Holding' = Holding /\ used' = used /\ queue' = Append(queue, c)
                   /\ conn'[c].pc = "waiting"
  <1>1. /\ conn \in [Conns -> Conn] /\ conn[c] \in Conn /\ conn[c].pc = "accepted"
        /\ c \notin Holding /\ \A i \in DOMAIN queue : conn[queue[i]].pc = "waiting"
    BY DEF TryAcquire, In, QueueHolds, Holding
  <1>2. CASE used < Permits /\ queue = <<>>
    <2>1. used' = used + 1 /\ queue' = queue /\ Moves(c, "asking")
      BY <1>2 DEF TryAcquire
    <2>2. conn'[c].pc = "asking" /\ \A d \in Conns : d # c => conn'[d] = conn[d]
      BY <1>1, <2>1 DEF Moves, Conn
    <2>3. Holding' = Holding \cup {c}
      BY <2>2 DEF Holding
    <2> QED
      BY <1>1, <1>2, <2>1, <2>2, <2>3
  <1>3. CASE ~(used < Permits /\ queue = <<>>)
    <2>1. used' = used /\ queue' = Append(queue, c) /\ Moves(c, "waiting")
      BY <1>3 DEF TryAcquire
    <2>2. conn'[c].pc = "waiting" /\ \A d \in Conns : d # c => conn'[d] = conn[d]
      BY <1>1, <2>1 DEF Moves, Conn
    <2>3. Holding' = Holding
      BY <1>1, <2>2 DEF Holding
    <2> QED
      BY <1>1, <1>3, <2>1, <2>2, <2>3
  <1> QED
    BY <1>2, <1>3

LEMMA TimingOutHolders ==
    ASSUME QueueHolds, NEW c \in Conns, AcquireTimesOut(c)
    PROVE  Holding' = Holding
  <1>1. /\ conn \in [Conns -> Conn] /\ conn[c].pc = "waiting"
    BY DEF QueueHolds, AcquireTimesOut, In
  <1>2. conn'[c].pc = "closed" /\ \A d \in Conns : d # c => conn'[d] = conn[d]
    BY <1>1 DEF AcquireTimesOut, Moves, Conn
  <1> QED
    BY <1>1, <1>2 DEF Holding

LEMMA ClosingHolders ==
    ASSUME QueueHolds, NEW c \in Conns, NEW r \in Conn, Closes(c, r),
           conn[c].pc \notin Out, r.pc = "closed"
    PROVE  /\ c \in Holding
           /\ IF queue = <<>>
              THEN /\ Holding' = Holding \ {c} /\ queue' = queue /\ used' = used - 1
                   /\ conn'[c].pc = "closed"
                   /\ \A d \in Conns : d # c => conn'[d] = conn[d]
              ELSE /\ Head(queue) \in Conns \ Holding /\ queue' = Tail(queue) /\ used' = used
                   /\ Holding' = (Holding \ {c}) \cup {Head(queue)}
                   /\ conn'[c].pc = "closed" /\ conn'[Head(queue)].pc = "asking"
                   /\ \A d \in Conns : d # c /\ d # Head(queue) => conn'[d] = conn[d]
  <1>1. /\ conn \in [Conns -> Conn] /\ queue \in Seq(Conns) /\ c \in Holding
        /\ \A i \in DOMAIN queue : conn[queue[i]].pc = "waiting"
    BY DEF QueueHolds, Holding, Out
  <1>2. CASE queue = <<>>
    <2>1. /\ conn' = [conn EXCEPT ![c] = r] /\ queue' = queue /\ used' = used - 1
      BY <1>2 DEF Closes
    <2>2. conn'[c].pc = "closed" /\ \A d \in Conns : d # c => conn'[d] = conn[d]
      BY <1>1, <2>1
    <2>3. Holding' = Holding \ {c}
      BY <2>2 DEF Holding
    <2> QED
      BY <1>1, <1>2, <2>1, <2>2, <2>3
  <1>3. CASE queue # <<>>
    <2> DEFINE h == Head(queue)
    <2>1. 1 \in DOMAIN queue /\ h = queue[1] /\ h \in Conns
      BY <1>1, <1>3
    <2>2. conn[h].pc = "waiting" /\ h # c /\ h \notin Holding
      BY <1>1, <2>1 DEF Out, Holding
    <2>3. /\ conn' = [conn EXCEPT ![c] = r, ![h].pc = "asking"]
          /\ queue' = Tail(queue) /\ used' = used
      BY <1>3 DEF Closes
    <2> HIDE DEF h
    <2>4. /\ conn'[c].pc = "closed" /\ conn'[h].pc = "asking"
          /\ \A d \in Conns : d # c /\ d # h => conn'[d] = conn[d]
      <3> DEFINE w == [conn[h] EXCEPT !.pc = "asking"]
      <3>1. w.pc = "asking"
        BY <1>1, <2>1 DEF Conn
      <3>2. conn' = [[conn EXCEPT ![c] = r] EXCEPT ![h] = w]
        BY <1>1, <2>1, <2>2, <2>3
      <3> HIDE DEF w
      <3> QED
        BY <1>1, <2>1, <2>2, <3>1, <3>2
    <2>5. Holding' = (Holding \ {c}) \cup {h}
      BY <2>1, <2>2, <2>4 DEF Holding
    <2> QED
      BY <1>1, <1>3, <2>1, <2>2, <2>3, <2>4, <2>5 DEF h
  <1> QED
    BY <1>2, <1>3

LEMMA AcquiringPermits ==
    ASSUME QueueHolds, PermitsHold, NEW c \in Conns, TryAcquire(c)
    PROVE  PermitsHold'
  <1>1. /\ conn \in [Conns -> Conn] /\ conn[c] \in Conn /\ conn[c].pc = "accepted"
        /\ c \notin Holding /\ queue \in Seq(Conns) /\ Permits \in Nat
    BY CrashmeAssumption DEF TryAcquire, In, QueueHolds, Holding
  <1>2. CASE used < Permits /\ queue = <<>> /\ used' = used + 1 /\ Moves(c, "asking")
             /\ queue' = queue
    <2>1. conn'[c].pc = "asking" /\ \A d \in Conns : d # c => conn'[d] = conn[d]
      BY <1>2, AcquiringHolders
    <2>2. Holding' = Holding \cup {c}
      BY <1>2, AcquiringHolders
    <2>3. IsFiniteSet(Holding') /\ Cardinality(Holding') = used + 1
      BY <1>1, <2>2, FS_AddElement DEF PermitsHold
    <2>4. \A d \in Conns : ~In(d, "waiting")'
      BY <1>2, <2>1 DEF PermitsHold, In
    <2>5. used' \in Nat /\ used' <= Permits
      BY <1>1, <1>2 DEF PermitsHold
    <2> QED
      BY <1>2, <2>3, <2>4, <2>5 DEF PermitsHold
  <1>3. CASE ~(used < Permits /\ queue = <<>>) /\ queue' = Append(queue, c)
             /\ Moves(c, "waiting") /\ used' = used
    <2>1. conn'[c].pc = "waiting" /\ \A d \in Conns : d # c => conn'[d] = conn[d]
      BY <1>3, AcquiringHolders
    <2>2. Holding' = Holding
      BY <1>3, AcquiringHolders
    <2>3. /\ Len(queue) + 1 \in DOMAIN queue' /\ queue'[Len(queue) + 1] = c
          /\ \A i \in DOMAIN queue : i \in DOMAIN queue' /\ queue'[i] = queue[i]
      BY <1>1, <1>3
    <2>4. \A d \in Conns : In(d, "waiting")' => \E i \in DOMAIN queue' : queue'[i] = d
      <3> SUFFICES ASSUME NEW d \in Conns, conn'[d].pc = "waiting"
                   PROVE  \E i \in DOMAIN queue' : queue'[i] = d
        BY DEF In
      <3>1. CASE d = c
        BY <2>3, <3>1
      <3>2. CASE d # c
        BY <2>1, <2>3, <3>2 DEF PermitsHold, In
      <3> QED
        BY <3>1, <3>2
    <2>5. used = Permits
      BY <1>1, <1>3 DEF PermitsHold
    <2> QED
      BY <1>3, <2>2, <2>4, <2>5 DEF PermitsHold
  <1> QED
    BY <1>2, <1>3 DEF TryAcquire

LEMMA TimingOutPermits ==
    ASSUME QueueHolds, PermitsHold, NEW c \in Conns, AcquireTimesOut(c)
    PROVE  PermitsHold'
  <1>1. PICK i \in DOMAIN queue : queue[i] = c /\ queue' = RemoveAt(queue, i)
    BY DEF AcquireTimesOut
  <1>2. /\ queue \in Seq(Conns) /\ conn \in [Conns -> Conn] /\ conn[c].pc = "waiting"
        /\ used' = used
    BY DEF QueueHolds, AcquireTimesOut, In
  <1>3. /\ queue' \in Seq(Conns) /\ Len(queue') = Len(queue) - 1
        /\ \A j \in 1..(Len(queue) - 1) : queue'[j] = IF j < i THEN queue[j] ELSE queue[j + 1]
    BY <1>1, <1>2, RemoveAtElements
  <1>4. conn'[c].pc = "closed" /\ \A d \in Conns : d # c => conn'[d] = conn[d]
    BY <1>2 DEF AcquireTimesOut, Moves, Conn
  <1>5. Holding' = Holding
    BY TimingOutHolders
  <1>6. ASSUME NEW d \in Conns, conn'[d].pc = "waiting"
        PROVE  \E j \in DOMAIN queue' : queue'[j] = d
    <2>1. d # c /\ conn[d].pc = "waiting"
      BY <1>4, <1>6
    <2>2. PICK k \in DOMAIN queue : queue[k] = d
      BY <2>1 DEF PermitsHold, In
    <2>3. k \in 1..Len(queue) /\ i \in 1..Len(queue) /\ Len(queue) \in Nat /\ k # i
      BY <1>1, <1>2, <2>1, <2>2
    <2>4. CASE k < i
      <3>1. k \in 1..(Len(queue) - 1) /\ k \in DOMAIN queue'
        BY <1>3, <2>3, <2>4
      <3> QED
        BY <1>3, <2>2, <2>4, <3>1
    <2>5. CASE i < k
      <3>1. k - 1 \in 1..(Len(queue) - 1) /\ k - 1 \in DOMAIN queue'
            /\ ~(k - 1 < i) /\ (k - 1) + 1 = k
        BY <1>3, <2>3, <2>5
      <3>2. queue'[k - 1] = queue[k]
        BY <1>3, <3>1
      <3> QED
        BY <2>2, <3>1, <3>2
    <2> QED
      BY <2>3, <2>4, <2>5
  <1>7. used = Permits
    BY <1>1, <1>2 DEF PermitsHold
  <1> QED
    BY <1>2, <1>5, <1>6, <1>7 DEF PermitsHold, In

LEMMA ClosingPermits ==
    ASSUME QueueHolds, PermitsHold, NEW c \in Conns, NEW r \in Conn, Closes(c, r),
           conn[c].pc \notin Out, r.pc = "closed"
    PROVE  PermitsHold'
  <1>1. /\ conn \in [Conns -> Conn] /\ queue \in Seq(Conns) /\ c \in Holding
        /\ \A i \in DOMAIN queue : conn[queue[i]].pc = "waiting"
    BY DEF QueueHolds, Holding, Out
  <1>2. CASE queue = <<>>
    <2>1. queue' = queue /\ used' = used - 1
      BY <1>2, ClosingHolders
    <2>2. conn'[c].pc = "closed" /\ \A d \in Conns : d # c => conn'[d] = conn[d]
      BY <1>2, ClosingHolders
    <2>3. Holding' = Holding \ {c}
      BY <1>2, ClosingHolders
    <2>4. IsFiniteSet(Holding') /\ Cardinality(Holding') = used - 1
      BY <1>1, <2>3, FS_RemoveElement DEF PermitsHold
    <2>5. Cardinality(Holding') \in Nat
      BY <2>4, FS_CardinalityType
    <2>6. used' \in Nat /\ used' <= Permits
      BY <2>1, <2>4, <2>5, CrashmeAssumption DEF PermitsHold
    <2>7. \A d \in Conns : ~In(d, "waiting")'
      BY <1>2, <2>2 DEF PermitsHold, In
    <2> QED
      BY <1>2, <2>1, <2>4, <2>6, <2>7 DEF PermitsHold
  <1>3. CASE queue # <<>>
    <2> DEFINE h == Head(queue)
    <2>1. 1 \in DOMAIN queue /\ h = queue[1] /\ h \in Conns
      BY <1>1, <1>3
    <2>2. h \notin Holding
      BY <1>3, ClosingHolders
    <2>3. queue' = Tail(queue) /\ used' = used
      BY <1>3, ClosingHolders
    <2>4. /\ conn'[c].pc = "closed" /\ conn'[h].pc = "asking"
          /\ \A d \in Conns : d # c /\ d # h => conn'[d] = conn[d]
      BY <1>3, ClosingHolders
    <2>5. Holding' = (Holding \ {c}) \cup {h}
      BY <1>3, ClosingHolders
    <2> HIDE DEF h
    <2>6. IsFiniteSet(Holding \ {c}) /\ Cardinality(Holding \ {c}) = used - 1
          /\ h \notin Holding \ {c}
      BY <1>1, <2>2, FS_RemoveElement DEF PermitsHold
    <2>7. IsFiniteSet(Holding') /\ Cardinality(Holding') = (used - 1) + 1
      BY <2>5, <2>6, FS_AddElement
    <2>8. used' = Cardinality(Holding') /\ used' \in Nat /\ used' = Permits
      BY <1>3, <2>3, <2>7, CrashmeAssumption DEF PermitsHold
    <2>9. ASSUME NEW d \in Conns, conn'[d].pc = "waiting"
          PROVE  \E j \in DOMAIN queue' : queue'[j] = d
      <3>1. d # h /\ conn[d].pc = "waiting"
        BY <2>4, <2>9
      <3>2. PICK k \in DOMAIN queue : queue[k] = d
        BY <3>1 DEF PermitsHold, In
      <3>3. k \in 2..Len(queue)
        BY <1>1, <2>1, <3>1, <3>2
      <3>4. k - 1 \in DOMAIN queue' /\ queue'[k - 1] = queue[k]
        BY <1>1, <1>3, <2>3, <3>3
      <3> QED
        BY <3>2, <3>4
    <2> QED
      BY <2>7, <2>8, <2>9, CrashmeAssumption DEF PermitsHold, In
  <1> QED
    BY <1>2, <1>3

(* A connection that goes on neither takes a permit nor gives one back.    *)
GoesOn(c) ==
    \/ Accept(c) \/ ReadTask(c) \/ CommandCrashes(c) \/ CallFails(c) \/ AnswerLost(c)
    \/ SendRequest(c) \/ TenSecondsPass(c) \/ createFlag(c)

Returns(c) == BadFirstLine(c) \/ CommandEnds(c) \/ ShowAnswer(c)

LEMMA GoingOnHolders ==
    ASSUME QueueHolds, NEW c \in Conns, GoesOn(c)
    PROVE  /\ queue' = queue /\ used' = used
           /\ \A d \in Conns : d # c => conn'[d] = conn[d]
           /\ \/ conn[c].pc = "away" /\ conn'[c].pc = "accepted"
              \/ conn[c].pc \notin Out /\ conn'[c].pc \notin Out
           /\ Holding' = Holding
  <1>0. conn \in [Conns -> Conn] /\ conn[c] \in Conn
    BY DEF QueueHolds
  <1>1. queue' = queue /\ used' = used
    BY DEF GoesOn, Accept, ReadTask, CommandCrashes, CallFails, AnswerLost, SendRequest,
       TenSecondsPass, createFlag
  <1>2. \A d \in Conns : d # c => conn'[d] = conn[d]
    BY <1>0 DEF GoesOn, Accept, ReadTask, CommandCrashes, CallFails, AnswerLost, SendRequest,
       TenSecondsPass, createFlag, Moves
  <1>3. \/ conn[c].pc = "away" /\ conn'[c].pc = "accepted"
        \/ conn[c].pc \notin Out /\ conn'[c].pc \notin Out
    <2>1. CASE Accept(c)
      BY <1>0, <2>1 DEF Accept, In, Moves, Conn
    <2>2. CASE CommandCrashes(c) \/ CallFails(c) \/ SendRequest(c)
      BY <1>0, <2>2 DEF CommandCrashes, CallFails, SendRequest, In, Moves, Conn, Out
    <2>3. CASE ReadTask(c)
      <3>1. PICK exact \in BOOLEAN : conn' = [conn EXCEPT ![c].pc = "running", ![c].exact = exact]
        BY <2>3 DEF ReadTask
      <3> QED
        BY <1>0, <2>3, <3>1 DEF ReadTask, In, Conn, Out
    <2>4. CASE AnswerLost(c)
      BY <1>0, <2>4 DEF AnswerLost, In, Conn, Out
    <2>5. CASE TenSecondsPass(c)
      BY <1>0, <2>5 DEF TenSecondsPass, In, Conn, Out
    <2>6. CASE createFlag(c)
      BY <1>0, <2>6 DEF createFlag, In, Moves, Conn, Out
    <2> QED
      BY <2>1, <2>2, <2>3, <2>4, <2>5, <2>6 DEF GoesOn
  <1>4. Holding' = Holding
    BY <1>2, <1>3 DEF Holding, Out
  <1> QED
    BY <1>1, <1>2, <1>3, <1>4

(* Where a handler returns, it closes the connection it served.            *)
LEMMA ReturningCloses ==
    ASSUME QueueHolds, NEW c \in Conns, Returns(c)
    PROVE  /\ conn[c].pc \notin Out
           /\ \E r \in Conn : Closes(c, r) /\ r.pc = "closed"
  <1>1. CASE BadFirstLine(c) \/ CommandEnds(c)
    <2>1. Closes(c, Closed(c)) /\ conn[c].pc \notin Out
      BY <1>1 DEF BadFirstLine, CommandEnds, In, Out
    <2>2. Closed(c) \in Conn /\ Closed(c).pc = "closed"
      BY ConnRecords
    <2> QED
      BY <2>1, <2>2
  <1>2. CASE ShowAnswer(c)
    <2> DEFINE r == [Closed(c) EXCEPT !.flag = conn[c].flag]
    <2>1. r \in Conn /\ r.pc = "closed"
      BY ConnRecords DEF Closed, Away
    <2>2. Closes(c, r) /\ conn[c].pc \notin Out
      BY <1>2 DEF ShowAnswer, In, Out
    <2> HIDE DEF r
    <2> QED
      BY <2>1, <2>2
  <1> QED
    BY <1>1, <1>2 DEF Returns

(* The handler of one connection: where it ends, it gives its permit back. *)
LEMMA HandlerPermits ==
    ASSUME QueueHolds, FlagsHold, PermitsHold, NEW c \in Conns, GoesOn(c) \/ Returns(c)
    PROVE  PermitsHold'
  <1>1. CASE Returns(c)
    BY <1>1, ReturningCloses, ClosingPermits
  <1>2. CASE GoesOn(c)
    <2>1. /\ queue' = queue /\ used' = used
          /\ \A d \in Conns : d # c => conn'[d] = conn[d]
          /\ \/ conn[c].pc = "away" /\ conn'[c].pc = "accepted"
             \/ conn[c].pc \notin Out /\ conn'[c].pc \notin Out
      BY <1>2, GoingOnHolders
    <2>2. QueueHolds'
      BY <1>2, HandlerHolds, CreatingHolds DEF GoesOn
    <2>3. /\ conn[c].pc \in Out <=> conn'[c].pc \in Out
          /\ conn'[c].pc = "waiting" => conn[c].pc = "waiting"
      BY <2>1 DEF Out
    <2> QED
      BY <2>1, <2>2, <2>3, SameHolders
  <1> QED
    BY <1>1, <1>2

LEMMA InitPermits == CrashInit => PermitsHold
  <1> SUFFICES ASSUME CrashInit PROVE PermitsHold
    OBVIOUS
  <1>1. Holding = {} /\ \A c \in Conns : ~In(c, "waiting")
    BY DEF CrashInit, Holding, In, Away
  <1>2. used = 0 /\ queue = <<>> /\ 0 <= Permits
    BY CrashmeAssumption DEF CrashInit
  <1> QED
    BY <1>1, <1>2, FS_EmptySet DEF PermitsHold

LEMMA NextPermits ==
    QueueHolds /\ FlagsHold /\ PermitsHold /\ [CrashNext]_vars => PermitsHold'
  <1> SUFFICES ASSUME QueueHolds, FlagsHold, PermitsHold, [CrashNext]_vars PROVE PermitsHold'
    OBVIOUS
  <1>1. CASE UNCHANGED <<conn, used, queue>>
    BY <1>1 DEF PermitsHold, Holding, In
  <1>2. CASE Dies
    BY <1>2, DyingPermits
  <1>3. ASSUME NEW c \in Conns, TryAcquire(c) \/ AcquireTimesOut(c) PROVE PermitsHold'
    BY <1>3, AcquiringPermits, TimingOutPermits
  <1>4. ASSUME NEW c \in Conns, GoesOn(c) \/ Returns(c) PROVE PermitsHold'
    BY <1>4, HandlerPermits
  <1>5. CASE DeadlinesNext \/ AcceptFails \/ HandleNilConnection \/ UNCHANGED vars
    BY <1>1, <1>2, <1>5 DEF DeadlinesNext, AcceptFails, HandleNilConnection, vars, procVars
  <1>6. ASSUME NEW c \in Conns, NEW s \in Students, SubmitFlag(s, c) PROVE PermitsHold'
    BY <1>1, <1>6 DEF SubmitFlag, procVars
  <1> QED
    BY <1>3, <1>4, <1>5, <1>6 DEF CrashNext, ConnStep, GoesOn, Returns

(* Every permit that is taken is held by a connection that is being        *)
(* served, there are never more than the semaphore has, and nobody waits   *)
(* while one is free (cmd/crashme/main.go handleConnection).               *)
THEOREM PermitsComeBack == CrashSpec => []PermitsAreUsed
  <1>1. QueueHolds /\ PermitsHold => PermitsAreUsed
    BY DEF QueueHolds, PermitsHold, PermitsAreUsed, In
  <1> QED
    BY <1>1, InitHolds, NextHolds, InitPermits, NextPermits, PTL DEF CrashSpec

(* Each step of the service on the semaphore is one of the abstract one.   *)
LEMMA AcquiringRefines ==
    ASSUME QueueHolds, PermitsHold, NEW c \in Conns, TryAcquire(c)
    PROVE  Sem!Acquire(c)
  <1>0. Sem!Cardinality(Holding) = Cardinality(Holding)
    BY DEF Cardinality, Sem!Cardinality
  <1>1. used = Cardinality(Holding) /\ used \in Nat /\ Permits \in Nat
        /\ (queue # <<>> => used = Permits)
    BY CrashmeAssumption DEF PermitsHold
  <1>2. c \notin Holding /\ ~\E i \in DOMAIN queue : queue[i] = c
    BY AcquiringHolders
  <1>3. CASE used < Permits
    <2>1. queue = <<>>
      BY <1>1, <1>3
    <2>2. Holding' = Holding \cup {c} /\ queue' = queue
      BY <1>3, <2>1, AcquiringHolders
    <2> QED
      BY <1>0, <1>1, <1>2, <1>3, <2>1, <2>2 DEF Sem!Acquire
  <1>4. CASE ~(used < Permits)
    <2>1. Holding' = Holding /\ queue' = Append(queue, c)
      BY <1>4, AcquiringHolders
    <2> QED
      BY <1>0, <1>1, <1>2, <1>4, <2>1 DEF Sem!Acquire
  <1> QED
    BY <1>3, <1>4

LEMMA TimingOutRefines ==
    ASSUME QueueHolds, NEW c \in Conns, AcquireTimesOut(c)
    PROVE  Sem!GiveUp(c)
  <1>1. Holding' = Holding
    BY TimingOutHolders
  <1>2. \E i \in DOMAIN queue : queue[i] = c /\ queue' = RemoveAt(queue, i)
    BY DEF AcquireTimesOut
  <1> QED
    BY <1>1, <1>2 DEF Sem!GiveUp, RemoveAt, Sem!RemoveAt

LEMMA ReturningRefines ==
    ASSUME QueueHolds, NEW c \in Conns, Returns(c)
    PROVE  Sem!Release(c)
  <1>1. PICK r \in Conn : Closes(c, r) /\ r.pc = "closed"
    BY ReturningCloses
  <1>2. conn[c].pc \notin Out
    BY ReturningCloses
  <1>3. c \in Holding
    BY <1>1, <1>2, ClosingHolders
  <1>4. IF queue = <<>>
        THEN Holding' = Holding \ {c} /\ queue' = queue
        ELSE Holding' = (Holding \ {c}) \cup {Head(queue)} /\ queue' = Tail(queue)
    BY <1>1, <1>2, ClosingHolders
  <1> QED
    BY <1>3, <1>4 DEF Sem!Release

LEMMA DyingRefines == Dies => Sem!Restart
  <1> SUFFICES ASSUME Dies PROVE Sem!Restart
    OBVIOUS
  <1>1. \A c \in Conns : conn'[c].pc \in {"away", "closed"}
    BY DEF Dies, In, Away
  <1>2. Holding' = {} /\ queue' = <<>>
    BY <1>1 DEF Dies, Holding
  <1> QED
    BY <1>2 DEF Sem!Restart

LEMMA SemaphoreStep ==
    QueueHolds /\ PermitsHold /\ [CrashNext]_vars => [Sem!Next]_(Sem!semaphoreVars)
  <1> SUFFICES ASSUME QueueHolds, PermitsHold, [CrashNext]_vars
               PROVE  Sem!Next \/ (Holding' = Holding /\ queue' = queue)
    BY DEF Sem!semaphoreVars
  <1>1. ASSUME UNCHANGED <<conn, queue>>
        PROVE  Holding' = Holding /\ queue' = queue
    BY <1>1 DEF Holding
  <1>2. CASE Dies
    BY <1>2, DyingRefines DEF Sem!Next
  <1>3. ASSUME NEW c \in Conns, TryAcquire(c) \/ AcquireTimesOut(c) \/ Returns(c)
        PROVE  Sem!Next
    BY <1>3, AcquiringRefines, TimingOutRefines, ReturningRefines DEF Sem!Next
  <1>4. ASSUME NEW c \in Conns, GoesOn(c)
        PROVE  Holding' = Holding /\ queue' = queue
    BY <1>4, GoingOnHolders
  <1>5. CASE DeadlinesNext \/ AcceptFails \/ HandleNilConnection \/ UNCHANGED vars
    BY <1>1, <1>2, <1>5 DEF DeadlinesNext, AcceptFails, HandleNilConnection, vars, procVars
  <1>6. ASSUME NEW c \in Conns, NEW s \in Students, SubmitFlag(s, c)
        PROVE  Holding' = Holding /\ queue' = queue
    BY <1>1, <1>6 DEF SubmitFlag, procVars
  <1> QED
    BY <1>3, <1>4, <1>5, <1>6 DEF CrashNext, ConnStep, GoesOn, Returns

(* The counter and the queue of handleConnection are the semaphore they    *)
(* are meant to be: permits are given in the order they were asked for,    *)
(* for any number of connections and permits, whatever times out, closes   *)
(* or dies (cmd/crashme/main.go 215-226).                                  *)
THEOREM CrashmeIsSemaphore == CrashSpec => ImplementsSemaphore
  <1>1. CrashInit => Sem!Init
    BY DEF CrashInit, Sem!Init, Holding, Away
  <1> QED
    BY <1>1, SemaphoreStep, InitHolds, NextHolds, InitPermits, NextPermits, PTL
       DEF CrashSpec, ImplementsSemaphore, Sem!Spec

-----------------------------------------------------------------------------
(* What counts stays within its bounds.                                    *)
CountsHold ==
    /\ reload.at \in 0..(NumGroups + 1)
    /\ budget \in 0..Budget /\ nilConn \in BOOLEAN
    /\ faults \in 0..MaxFaults /\ Len(flags) <= MaxFlags

LEMMA ReloadCounts ==
    ASSUME PassIsNewer, CountsHold, [CrashNext]_vars
    PROVE  reload'.at \in 0..(NumGroups + 1)
  <1>0. NumGroups \in Nat \ {0} /\ reload \in [at: Nat, got: [Groups -> Nat]]
    BY DeadlinesAssumption DEF PassIsNewer
  <1>1. CASE UNCHANGED reload
    BY <1>1 DEF CountsHold
  <1>2. CASE ReloadStart \/ FetchFails \/ Swap
    <2>1. reload' = Nowhere \/ reload' = [Nowhere EXCEPT !.at = 1]
      BY <1>2 DEF ReloadStart, FetchFails, Swap
    <2>2. reload'.at \in {0, 1}
      BY <2>1 DEF Nowhere
    <2> QED
      BY <1>0, <2>2
  <1>3. CASE Fetch
    <2>1. reload'.at = reload.at + 1 /\ reload.at \in 1..NumGroups
      BY <1>0, <1>3 DEF Fetch, Groups
    <2> QED
      BY <1>0, <2>1
  <1>4. CASE \E g \in Groups : EditDeadlines(g)
    BY <1>1, <1>4 DEF EditDeadlines
  <1>5. DeadlinesStep \/ UNCHANGED reload
    BY CrashStepOnDeadlines DEF deadlinesVars, vars
  <1> QED
    BY <1>1, <1>2, <1>3, <1>4, <1>5 DEF DeadlinesStep, FetcherNext

LEMMA AcceptCounts ==
    ASSUME CountsHold, [CrashNext]_vars
    PROVE  budget' \in 0..Budget /\ nilConn' \in BOOLEAN /\ faults' \in 0..MaxFaults
  <1>0. /\ budget \in 0..Budget /\ nilConn \in BOOLEAN /\ faults \in 0..MaxFaults
        /\ Budget \in Nat /\ MaxFaults \in Nat
    BY CrashmeAssumption DEF CountsHold
  <1>1. CASE UNCHANGED <<budget, nilConn, faults>>
    BY <1>0, <1>1
  <1>2. ASSUME NEW c \in Conns, Accept(c)
        PROVE  budget' \in 0..Budget /\ nilConn' \in BOOLEAN /\ faults' \in 0..MaxFaults
    BY <1>0, <1>2 DEF Accept
  <1>3. CASE AcceptFails
    <2>1. faults' \in 0..MaxFaults
      BY <1>0, <1>3 DEF AcceptFails, Fault
    <2>2. (budget' = Budget /\ nilConn' = FALSE) \/ (budget' = budget - 1 /\ budget # 0 /\ nilConn' = TRUE)
      BY <1>3 DEF AcceptFails, Dies
    <2>3. budget' \in 0..Budget
      BY <1>0, <2>2
    <2>4. nilConn' \in BOOLEAN
      BY <2>2, Zenon
    <2> QED
      BY <2>1, <2>3, <2>4
  <1>4. CASE HandleNilConnection
    <2>1. budget' = Budget /\ nilConn' = FALSE /\ faults' = faults
      BY <1>4 DEF HandleNilConnection, Dies
    <2>2. budget' \in 0..Budget
      BY <1>0, <2>1
    <2> QED
      BY <1>0, <2>1, <2>2, Zenon
  <1>5. ASSUME NEW c \in Conns, AnswerLost(c)
        PROVE  budget' \in 0..Budget /\ nilConn' \in BOOLEAN /\ faults' \in 0..MaxFaults
    BY <1>0, <1>5 DEF AnswerLost, Fault
  <1>6. ASSUME NEW c \in Conns,
               \/ BadFirstLine(c) \/ ReadTask(c) \/ CommandEnds(c) \/ CommandCrashes(c)
               \/ CallFails(c) \/ ConnStep(c) \/ \E s \in Students : SubmitFlag(s, c)
        PROVE  UNCHANGED <<budget, nilConn, faults>>
    <2>1. CASE ConnStep(c)
      BY <2>1 DEF ConnStep, TryAcquire, AcquireTimesOut, SendRequest, TenSecondsPass,
         createFlag, ShowAnswer
    <2> QED
      BY <1>6, <2>1 DEF BadFirstLine, ReadTask, CommandEnds, CommandCrashes, CallFails,
         SubmitFlag, procVars
  <1>7. CASE DeadlinesNext \/ UNCHANGED vars
    BY <1>1, <1>7 DEF DeadlinesNext, vars, procVars
  <1> QED
    BY <1>1, <1>2, <1>3, <1>4, <1>5, <1>6, <1>7 DEF CrashNext

LEMMA FlagCounts ==
    ASSUME FlagsHold, CountsHold, [CrashNext]_vars
    PROVE  Len(flags') <= MaxFlags
  <1>1. flags \in Seq(Students \cup {Nobody}) /\ Len(flags) <= MaxFlags /\ MaxFlags \in Nat
    BY CrashmeAssumption DEF FlagsHold, CountsHold
  <1>2. \/ flags' = flags
        \/ flags' = Append(flags, Nobody) /\ Len(flags) < MaxFlags
        \/ \E s \in Students, c \in Conns : flags' = [flags EXCEPT ![conn[c].flag] = s]
    BY DEF CrashNext, DeadlinesNext, AcceptFails, HandleNilConnection, Accept, BadFirstLine,
       ReadTask, CommandEnds, CommandCrashes, CallFails, AnswerLost, ConnStep, TryAcquire,
       AcquireTimesOut, SendRequest, TenSecondsPass, createFlag, ShowAnswer, SubmitFlag, vars
  <1>3. CASE flags' = Append(flags, Nobody) /\ Len(flags) < MaxFlags
    BY <1>1, <1>3
  <1>4. ASSUME NEW i, NEW s, flags' = [flags EXCEPT ![i] = s]
        PROVE  Len(flags') <= MaxFlags
    <2>1. DOMAIN flags' = 1..Len(flags) /\ Len(flags) \in Nat
      BY <1>1, <1>4
    <2> QED
      BY <1>1, <2>1, LenProperties
  <1> QED
    BY <1>1, <1>2, <1>3, <1>4

LEMMA NextCounts ==
    PassIsNewer /\ FlagsHold /\ CountsHold /\ [CrashNext]_vars => CountsHold'
  BY ReloadCounts, AcceptCounts, FlagCounts DEF CountsHold

(* Every variable keeps its type: flags and queued connections exist, the  *)
(* accept budget stays within its maximum.                                 *)
THEOREM TypeCorrect == CrashSpec => []CrashTypeOK
  <1>1. CrashInit => CountsHold
    <2> SUFFICES ASSUME CrashInit PROVE CountsHold
      OBVIOUS
    <2>1. /\ reload.at = 0 /\ budget = Budget /\ nilConn = FALSE /\ faults = 0 /\ Len(flags) = 0
      BY DEF CrashInit, DeadlinesInit, Nowhere
    <2>2. nilConn \in BOOLEAN
      BY <2>1, Zenon
    <2>3. /\ reload.at \in 0..(NumGroups + 1) /\ budget \in 0..Budget
          /\ faults \in 0..MaxFaults /\ Len(flags) <= MaxFlags
      BY <2>1, CrashmeAssumption, DeadlinesAssumption
    <2> QED
      BY <2>2, <2>3 DEF CountsHold
  <1>2. PassIsNewer /\ QueueHolds /\ FlagsHold /\ PermitsHold /\ CountsHold => CrashTypeOK
    <2> SUFFICES ASSUME PassIsNewer, QueueHolds, FlagsHold, PermitsHold, CountsHold
                 PROVE  CrashTypeOK
      OBVIOUS
    <2>1. reload \in [at: 0..(NumGroups + 1), got: [Groups -> Nat]]
      BY DEF PassIsNewer, CountsHold
    <2>2. conn \in [Conns -> [pc: Stage, exact: BOOLEAN, flag: 0..MaxFlags, late: BOOLEAN]]
      <3>1. \A c \in Conns : conn[c] \in Conn /\ conn[c].flag \in 0..MaxFlags
        <4>1. Len(flags) \in Nat /\ MaxFlags \in Nat /\ Len(flags) <= MaxFlags
          BY CrashmeAssumption DEF FlagsHold, CountsHold
        <4> QED
          BY <4>1 DEF QueueHolds, FlagsHold, Conn
      <3> QED
        BY <3>1 DEF QueueHolds, Conn
    <2> QED
      BY <2>1, <2>2 DEF CrashTypeOK, PassIsNewer, QueueHolds, FlagsHold, PermitsHold, CountsHold
  <1>3. PassIsNewer /\ [CrashNext]_vars => PassIsNewer'
    BY NextPassIsNewer
  <1> QED
    BY <1>1, <1>2, <1>3, InitPassIsNewer, InitHolds, NextHolds, InitPermits, NextPermits,
       NextCounts, PTL DEF CrashSpec

=============================================================================
