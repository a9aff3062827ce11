------------------------- MODULE Moderation_proofs --------------------------
(***************************************************************************)
(* Proofs about Moderation, for any number of readers, moderators and      *)
(* writes and any lifetime of a page.                                      *)
(***************************************************************************)
EXTENDS Moderation, TLAPS

ReaderState == [pc: {"idle", "fetch", "overrides", "bans", "boards", "store"},
                key: Keys, page: Page]
ModState == [pc: {"idle", "written"}, table: Tables, version: Nat, seen: SUBSET Readers]
Entry == [page: Page, left: 0..Ttl, crossed: SUBSET Moderated]

LEMMA Blanks == /\ NoPage \in Page /\ NoEntry \in Entry
                /\ ReaderIdle \in ReaderState /\ ModIdle \in ModState
  <1>1. NoPage \in Page
    BY DEF NoPage, Page
  <1>2. 0 \in 0..Ttl
    BY ModerationAssumption
  <1> QED
    BY <1>1, <1>2 DEF NoEntry, Entry, ReaderIdle, ReaderState, ModIdle, ModState, Keys, Tables

(* Every variable keeps its type.                                          *)
LEMMA InitTypeOK == Init => TypeOK
  <1> SUFFICES ASSUME Init PROVE TypeOK
    OBVIOUS
  <1>1. /\ tables \in [Tables -> Nat] /\ isBanned \in BOOLEAN
        /\ crossed \in [Readers -> SUBSET Moderated] /\ cleared \subseteq Moderated
    BY DEF Init
  <1>2. /\ mod \in [Moderators -> ModState] /\ reader \in [Readers -> ReaderState]
        /\ cache \in [Keys -> Entry]
    BY Blanks DEF Init
  <1> QED
    BY <1>1, <1>2 DEF TypeOK, ReaderState, ModState, Entry

LEMMA WriteTyped ==
    ASSUME TypeOK, NEW m \in Moderators, NEW t \in Tables, Writes(m, t)
    PROVE  /\ tables' \in [Tables -> Nat] /\ mod' \in [Moderators -> ModState]
           /\ mod'[m] = [pc |-> "written", table |-> t, version |-> tables[t] + 1, seen |-> Computing]
           /\ tables'[t] = tables[t] + 1
           /\ \A u \in Tables : u # t => tables'[u] = tables[u]
           /\ \A n \in Moderators : n # m => mod'[n] = mod[n]
  <1>1. tables \in [Tables -> Nat] /\ mod \in [Moderators -> ModState]
    BY DEF TypeOK, ModState
  <1>2. tables[t] \in Nat /\ tables[t] + 1 \in Nat /\ tables' = [tables EXCEPT ![t] = tables[t] + 1]
    BY <1>1 DEF Writes
  <1> DEFINE new == [pc |-> "written", table |-> t, version |-> tables[t] + 1, seen |-> Computing]
  <1>3. new \in ModState
    BY <1>2 DEF ModState, Computing
  <1>4. tables'[t] = tables[t] + 1
    BY <1>1, <1>2
  <1>5. mod' = [mod EXCEPT ![m] = new]
    BY <1>4 DEF Writes
  <1> HIDE DEF new
  <1>6. mod' \in [Moderators -> ModState] /\ mod'[m] = new
        /\ \A n \in Moderators : n # m => mod'[n] = mod[n]
    BY <1>1, <1>3, <1>5
  <1> QED
    BY <1>1, <1>2, <1>4, <1>6 DEF new

LEMMA ReaderTyped ==
    ASSUME TypeOK, NEW r \in Readers, ReaderStep(r)
    PROVE  reader' \in [Readers -> ReaderState]
  <1>1. reader \in [Readers -> ReaderState] /\ tables \in [Tables -> Nat]
    BY DEF TypeOK, ReaderState
  <1>2. CASE ServeCached(r) \/ StorePage(r) \/ ComputeFails(r)
    BY <1>1, <1>2, Blanks DEF ServeCached, StorePage, ComputeFails
  <1>3. CASE StartCompute(r)
    BY <1>1, <1>3 DEF StartCompute, ReaderState
  <1>4. ASSUME NEW part \in {"overrides", "bans", "boards"}, NEW seen \in Nat,
               NEW next \in {"bans", "boards", "store"}, Query(r, part, seen, next)
        PROVE  reader' \in [Readers -> ReaderState]
    <2>1. [reader[r].page EXCEPT ![part] = seen] \in Page
      BY <1>1, <1>4 DEF ReaderState, Page
    <2> DEFINE new == [[reader[r] EXCEPT !.pc = next] EXCEPT !.page = [reader[r].page EXCEPT ![part] = seen]]
    <2>2. new \in ReaderState
      BY <1>1, <2>1 DEF ReaderState
    <2>3. reader' = [reader EXCEPT ![r] = new]
      BY <1>1, <1>4 DEF Query, ReaderState
    <2> HIDE DEF new
    <2> QED
      BY <1>1, <2>2, <2>3
  <1>5. tables["overrides"] \in Nat /\ tables["bans"] \in Nat
    BY <1>1 DEF Tables
  <1> QED
    BY <1>2, <1>3, <1>4, <1>5 DEF ReaderStep, ListOverrides, loadSubmissionBans, CalcLeaderboards

LEMMA NextTypeOK == TypeOK /\ [Next]_vars => TypeOK'
  <1> SUFFICES ASSUME TypeOK, [Next]_vars PROVE TypeOK'
    OBVIOUS
  <1> USE DEF dbVars, pageVars
  <1>1. /\ tables \in [Tables -> Nat] /\ isBanned \in BOOLEAN
        /\ mod \in [Moderators -> ModState] /\ reader \in [Readers -> ReaderState]
        /\ cache \in [Keys -> Entry] /\ crossed \in [Readers -> SUBSET Moderated]
        /\ cleared \subseteq Moderated
    BY DEF TypeOK, ReaderState, ModState, Entry
  <1> DEFINE Goal == /\ tables' \in [Tables -> Nat] /\ isBanned' \in BOOLEAN
                     /\ mod' \in [Moderators -> ModState] /\ reader' \in [Readers -> ReaderState]
                     /\ cache' \in [Keys -> Entry] /\ crossed' \in [Readers -> SUBSET Moderated]
                     /\ cleared' \subseteq Moderated
  <1> SUFFICES Goal
    BY DEF TypeOK, ReaderState, ModState, Entry
  <1>2. CASE ApiOverride
    BY <1>1, <1>2 DEF ApiOverride, Tables
  <1>3. ASSUME NEW m \in Moderators, BanSubmission(m) \/ UnbanSubmission(m) \/ SetOrClearScore(m)
        PROVE  Goal
    <2>1. (Writes(m, "bans") \/ Writes(m, "overrides")) /\ isBanned' \in BOOLEAN /\ UNCHANGED <<cleared, pageVars>>
      BY <1>1, <1>3 DEF BanSubmission, UnbanSubmission, SetOrClearScore
    <2> QED
      BY <1>1, <2>1, WriteTyped DEF Tables
  <1>4. ASSUME NEW m \in Moderators, ClearCache(m)
        PROVE  Goal
    <2>1. <<mod[m].table, mod[m].version>> \in Moderated
      BY <1>1 DEF ModState, Moderated, Tables
    <2>2. cleared' \subseteq Moderated /\ crossed' \in [Readers -> SUBSET Moderated]
      BY <1>1, <1>4, <2>1 DEF ClearCache, Passed
    <2>3. cache' \in [Keys -> Entry] /\ mod' \in [Moderators -> ModState]
      BY <1>1, <1>4, Blanks DEF ClearCache
    <2> QED
      BY <1>1, <1>4, <2>2, <2>3 DEF ClearCache
  <1>5. ASSUME NEW r \in Readers, NEW k \in Keys, AskPage(r, k)
        PROVE  Goal
    <2>1. [pc |-> "fetch", key |-> k, page |-> NoPage] \in ReaderState
      BY Blanks DEF ReaderState
    <2> QED
      BY <1>1, <1>5, <2>1 DEF AskPage
  <1>6. ASSUME NEW r \in Readers, ReaderStep(r)
        PROVE  Goal
    <2>1. reader' \in [Readers -> ReaderState]
      BY <1>6, ReaderTyped
    <2>2. CASE UNCHANGED <<dbVars, mod, cleared, cache, crossed>>
      BY <1>1, <2>1, <2>2
    <2>3. CASE StorePage(r) \/ ComputeFails(r)
      <3>1. crossed' \in [Readers -> SUBSET Moderated] /\ mod' \in [Moderators -> ModState]
        <4>1. \A m \in Moderators : [mod[m] EXCEPT !.seen = mod[m].seen \ {r}] \in ModState
          BY <1>1 DEF ModState
        <4>2. Ends(r)
          BY <2>3 DEF StorePage, ComputeFails
        <4> QED
          BY <1>1, <4>1, <4>2 DEF Ends
      <3>2. cache' \in [Keys -> Entry]
        <4>1. [page |-> reader[r].page, left |-> Ttl, crossed |-> crossed[r]] \in Entry
          BY <1>1, ModerationAssumption DEF Entry, ReaderState
        <4> QED
          BY <1>1, <2>3, <4>1 DEF StorePage, ComputeFails
      <3> QED
        BY <1>1, <2>1, <2>3, <3>1, <3>2 DEF StorePage, ComputeFails
    <2> QED
      BY <1>6, <2>2, <2>3 DEF ReaderStep, ServeCached, StartCompute, ListOverrides,
                              loadSubmissionBans, CalcLeaderboards, Query
  <1>7. CASE Tick
    <2>1. ASSUME NEW k \in Keys, ~(cache[k].left <= 1)
          PROVE  [cache[k] EXCEPT !.left = cache[k].left - 1] \in Entry
      <3>1. cache[k] \in Entry /\ cache[k].left - 1 \in 0..Ttl
        BY <1>1, <2>1, ModerationAssumption DEF Entry
      <3> QED
        BY <3>1 DEF Entry
    <2>2. cache' \in [Keys -> Entry]
      BY <1>1, <1>7, <2>1, Blanks DEF Tick
    <2> QED
      BY <1>1, <1>7, <2>2 DEF Tick
  <1>8. CASE Restart
    BY <1>1, <1>8, Blanks DEF Restart
  <1>9. CASE UNCHANGED vars
    BY <1>1, <1>9 DEF vars
  <1> HIDE DEF Goal
  <1> QED
    BY <1>2, <1>3, <1>4, <1>5, <1>6, <1>7, <1>8, <1>9 DEF Next, ModNext

THEOREM TypeCorrect == Spec => []TypeOK
  BY InitTypeOK, NextTypeOK, PTL DEF Spec

-----------------------------------------------------------------------------
(* One of the queries made was too early for the write.                    *)
MissesSoFar(r, table, version) ==
    \/ table = "overrides" /\ Made(r, "overrides") /\ reader[r].page.overrides < version
    \/ table = "bans" /\ Made(r, "bans") /\ reader[r].page.bans < version
    \/ table = "bans" /\ Made(r, "boards") /\ reader[r].page.boards < version

(* What is written is in the tables.                                       *)
VersionsHold ==
    /\ \A w \in cleared : w[2] <= tables[w[1]]
    /\ \A m \in Moderators :
         mod[m].pc = "written" => mod[m].version <= tables[mod[m].table]

(* A computation that misses a write was running when it was made, and, if *)
(* the cache was cleared for it meanwhile, has seen it pass by.            *)
RunningHolds ==
    \A r \in Readers :
        /\ \A w \in cleared : MissesSoFar(r, w[1], w[2]) => w \in crossed[r]
        /\ \A m \in Moderators :
             (mod[m].pc = "written" /\ MissesSoFar(r, mod[m].table, mod[m].version))
                => r \in mod[m].seen

IInv == TypeOK /\ VersionsHold /\ RunningHolds /\ MissedOnlyInFlight

LEMMA MissesIsRunning ==
    ASSUME NEW r \in Readers, NEW t, NEW v, MissesSoFar(r, t, v)
    PROVE  r \in Computing
  BY DEF MissesSoFar, Made, Computing

LEMMA InitIInv == Init => IInv
  <1> SUFFICES ASSUME Init PROVE IInv
    OBVIOUS
  <1>1. TypeOK
    BY InitTypeOK
  <1>2. \A r \in Readers : \A t, v : ~MissesSoFar(r, t, v)
    BY DEF Init, MissesSoFar, Made, ReaderIdle
  <1>3. VersionsHold /\ RunningHolds
    BY <1>2 DEF Init, VersionsHold, RunningHolds, ModIdle
  <1>4. MissedOnlyInFlight
    BY DEF Init, MissedOnlyInFlight
  <1> QED
    BY <1>1, <1>3, <1>4 DEF IInv

(* A write raises one version; only computations that run have missed it.  *)
LEMMA WriteIInv ==
    ASSUME IInv, NEW m \in Moderators, NEW t \in Tables, Writes(m, t),
           UNCHANGED <<cleared, pageVars>>
    PROVE  VersionsHold' /\ RunningHolds' /\ MissedOnlyInFlight'
  <1> USE DEF pageVars
  <1>1. TypeOK /\ VersionsHold /\ RunningHolds /\ MissedOnlyInFlight
    BY DEF IInv
  <1>2. /\ mod'[m] = [pc |-> "written", table |-> t, version |-> tables[t] + 1, seen |-> Computing]
        /\ tables'[t] = tables[t] + 1
        /\ \A u \in Tables : u # t => tables'[u] = tables[u]
        /\ \A n \in Moderators : n # m => mod'[n] = mod[n]
    BY <1>1, WriteTyped
  <1>3. /\ \A u \in Tables : tables[u] \in Nat /\ tables'[u] \in Nat /\ tables[u] <= tables'[u]
    BY <1>1, <1>2 DEF TypeOK
  <1>4. /\ \A w \in cleared : w[1] \in Tables /\ w[2] \in Nat
        /\ \A n \in Moderators : mod[n].table \in Tables /\ mod[n].version \in Nat
    BY <1>1 DEF TypeOK, Moderated, Tables
  <1>5. VersionsHold'
    <2>1. \A w \in cleared : w[2] <= tables'[w[1]]
      BY <1>1, <1>3, <1>4 DEF VersionsHold
    <2>2. ASSUME NEW n \in Moderators, mod'[n].pc = "written"
          PROVE  mod'[n].version <= tables'[mod'[n].table]
      <3>1. CASE n = m
        BY <1>2, <1>3, <3>1
      <3>2. CASE n # m
        BY <1>1, <1>2, <1>3, <1>4, <2>2, <3>2 DEF VersionsHold
      <3> QED
        BY <3>1, <3>2
    <2> QED
      BY <2>1, <2>2 DEF VersionsHold
  <1>6. \A r \in Readers : \A u, v : MissesSoFar(r, u, v)' <=> MissesSoFar(r, u, v)
    BY DEF MissesSoFar, Made
  <1>7. RunningHolds'
    <2> SUFFICES ASSUME NEW r \in Readers
                 PROVE  /\ \A w \in cleared : MissesSoFar(r, w[1], w[2]) => w \in crossed[r]
                        /\ \A n \in Moderators :
                             (mod'[n].pc = "written" /\ MissesSoFar(r, mod'[n].table, mod'[n].version))
                               => r \in mod'[n].seen
      BY <1>6 DEF RunningHolds
    <2>1. \A w \in cleared : MissesSoFar(r, w[1], w[2]) => w \in crossed[r]
      BY <1>1 DEF RunningHolds
    <2>2. ASSUME NEW n \in Moderators, mod'[n].pc = "written",
                 MissesSoFar(r, mod'[n].table, mod'[n].version)
          PROVE  r \in mod'[n].seen
      <3>1. CASE n = m
        BY <1>2, <2>2, <3>1, MissesIsRunning
      <3>2. CASE n # m
        BY <1>1, <1>2, <2>2, <3>2 DEF RunningHolds
      <3> QED
        BY <3>1, <3>2
    <2> QED
      BY <2>1, <2>2
  <1>8. MissedOnlyInFlight'
    BY <1>1 DEF MissedOnlyInFlight, Valid, Misses
  <1> QED
    BY <1>5, <1>7, <1>8

(* Who has missed the write has it among those that passed by.             *)
LEMMA ClearIInv ==
    ASSUME IInv, NEW m \in Moderators, ClearCache(m)
    PROVE  VersionsHold' /\ RunningHolds' /\ MissedOnlyInFlight'
  <1> USE DEF dbVars
  <1> DEFINE w == <<mod[m].table, mod[m].version>>
  <1>1. TypeOK /\ VersionsHold /\ RunningHolds
    BY DEF IInv
  <1>2. /\ mod[m].pc = "written" /\ tables' = tables /\ reader' = reader
        /\ cleared' = cleared \cup {w}
        /\ mod' = [mod EXCEPT ![m] = ModIdle]
        /\ \A r \in Readers : crossed'[r] = IF r \in mod[m].seen THEN crossed[r] \cup {w} ELSE crossed[r]
    BY DEF ClearCache, Passed
  <1>3. /\ mod'[m].pc = "idle"
        /\ \A n \in Moderators : n # m => mod'[n] = mod[n]
    BY <1>1, <1>2 DEF TypeOK, ModIdle
  <1>4. \A r \in Readers : \A u, v : MissesSoFar(r, u, v)' <=> MissesSoFar(r, u, v)
    BY <1>2 DEF MissesSoFar, Made
  <1>5. VersionsHold'
    BY <1>1, <1>2, <1>3 DEF VersionsHold
  <1>6. RunningHolds'
    <2> SUFFICES ASSUME NEW r \in Readers
                 PROVE  /\ \A x \in cleared' : MissesSoFar(r, x[1], x[2]) => x \in crossed'[r]
                        /\ \A n \in Moderators :
                             (mod'[n].pc = "written" /\ MissesSoFar(r, mod'[n].table, mod'[n].version))
                               => r \in mod'[n].seen
      BY <1>4 DEF RunningHolds
    <2>1. \A x \in cleared : MissesSoFar(r, x[1], x[2]) => x \in crossed'[r]
      BY <1>1, <1>2 DEF RunningHolds
    <2>2. MissesSoFar(r, mod[m].table, mod[m].version) => w \in crossed'[r]
      BY <1>1, <1>2 DEF RunningHolds
    <2>3. \A n \in Moderators :
            (mod'[n].pc = "written" /\ MissesSoFar(r, mod'[n].table, mod'[n].version)) => r \in mod'[n].seen
      BY <1>1, <1>3 DEF RunningHolds
    <2>4. w[1] = mod[m].table /\ w[2] = mod[m].version
      OBVIOUS
    <2> QED
      BY <1>2, <2>1, <2>2, <2>3, <2>4
  <1>7. MissedOnlyInFlight'
    BY DEF ClearCache, MissedOnlyInFlight, Valid, NoEntry
  <1> QED
    BY <1>5, <1>6, <1>7

(* The override API raises a version and touches nothing else.             *)
LEMMA ApiOverrideIInv ==
    ASSUME IInv, ApiOverride
    PROVE  VersionsHold' /\ RunningHolds' /\ MissedOnlyInFlight'
  <1> USE DEF pageVars
  <1>1. TypeOK /\ VersionsHold /\ RunningHolds /\ MissedOnlyInFlight
    BY DEF IInv
  <1>2. /\ mod' = mod /\ cleared' = cleared /\ reader' = reader /\ cache' = cache /\ crossed' = crossed
        /\ \A u \in Tables : tables[u] \in Nat /\ tables'[u] \in Nat /\ tables[u] <= tables'[u]
    BY <1>1 DEF ApiOverride, TypeOK
  <1>3. /\ \A w \in cleared : w[1] \in Tables /\ w[2] \in Nat
        /\ \A m \in Moderators : mod[m].table \in Tables /\ mod[m].version \in Nat
    BY <1>1 DEF TypeOK, Moderated, Tables
  <1>4. VersionsHold'
    BY <1>1, <1>2, <1>3 DEF VersionsHold
  <1>5. \A r \in Readers : \A u, v : MissesSoFar(r, u, v)' <=> MissesSoFar(r, u, v)
    BY <1>2 DEF MissesSoFar, Made
  <1>6. RunningHolds'
    BY <1>1, <1>2, <1>5 DEF RunningHolds
  <1>7. MissedOnlyInFlight'
    BY <1>1, <1>2 DEF MissedOnlyInFlight, Valid, Misses
  <1> QED
    BY <1>4, <1>6, <1>7

(* Requests are there or go on, and those who moderate wait for no more    *)
(* computations than before: only r can miss what it did not.              *)
LEMMA RunningKept ==
    ASSUME IInv, NEW r \in Readers, UNCHANGED <<tables, cleared>>,
           \A s \in Readers : s # r => reader'[s] = reader[s] /\ crossed'[s] = crossed[s],
           \A m \in Moderators :
               /\ mod'[m].pc = mod[m].pc /\ mod'[m].table = mod[m].table
               /\ mod'[m].version = mod[m].version /\ mod[m].seen \subseteq mod'[m].seen \cup {r},
           \A w \in cleared : MissesSoFar(r, w[1], w[2])' => w \in crossed'[r],
           \A m \in Moderators : mod[m].pc = "written" =>
               (MissesSoFar(r, mod[m].table, mod[m].version)' => r \in mod'[m].seen)
    PROVE  VersionsHold' /\ RunningHolds'
  <1>1. VersionsHold /\ RunningHolds
    BY DEF IInv
  <1>2. VersionsHold'
    BY <1>1 DEF VersionsHold
  <1>3. ASSUME NEW s \in Readers, s # r
        PROVE  /\ \A w \in cleared : MissesSoFar(s, w[1], w[2])' => w \in crossed'[s]
               /\ \A m \in Moderators :
                    (mod[m].pc = "written" /\ MissesSoFar(s, mod[m].table, mod[m].version)')
                       => s \in mod'[m].seen
    <2>1. \A u, v : MissesSoFar(s, u, v)' <=> MissesSoFar(s, u, v)
      BY <1>3 DEF MissesSoFar, Made
    <2> QED
      BY <1>1, <1>3, <2>1 DEF RunningHolds
  <1>4. ASSUME NEW s \in Readers
        PROVE  /\ \A w \in cleared : MissesSoFar(s, w[1], w[2])' => w \in crossed'[s]
               /\ \A m \in Moderators :
                    (mod[m].pc = "written" /\ MissesSoFar(s, mod[m].table, mod[m].version)')
                       => s \in mod'[m].seen
    <2>1. CASE s = r
      BY <2>1
    <2>2. CASE s # r
      BY <1>3, <2>2
    <2> QED
      BY <2>1, <2>2
  <1>5. \A s \in Readers : \A w \in cleared' : MissesSoFar(s, w[1], w[2])' => w \in crossed'[s]
    BY <1>4
  <1>6. \A s \in Readers, m \in Moderators :
          (mod[m].pc = "written" /\ MissesSoFar(s, mod[m].table, mod[m].version))'
             => s \in mod'[m].seen
    BY <1>4
  <1>7. RunningHolds'
    BY <1>5, <1>6 DEF RunningHolds
  <1> QED
    BY <1>2, <1>7

(* A page is asked for, served, or its computation begins.                 *)
LEMMA BeginIInv ==
    ASSUME IInv, NEW r \in Readers,
           (\E k \in Keys : AskPage(r, k)) \/ ServeCached(r) \/ StartCompute(r)
    PROVE  VersionsHold' /\ RunningHolds' /\ MissedOnlyInFlight'
  <1> USE DEF dbVars
  <1>1. TypeOK /\ MissedOnlyInFlight
    BY DEF IInv
  <1>2. /\ UNCHANGED <<tables, mod, cleared, cache, crossed>>
        /\ \A s \in Readers : s # r => reader'[s] = reader[s]
    BY <1>1 DEF AskPage, ServeCached, StartCompute, TypeOK
  <1>3. \A u, v : ~MissesSoFar(r, u, v)'
    <2>1. CASE (\E k \in Keys : AskPage(r, k)) \/ ServeCached(r)
      BY <1>1, <2>1 DEF AskPage, ServeCached, TypeOK, ReaderIdle, MissesSoFar, Made
    <2>2. CASE StartCompute(r)
      <3>1. /\ reader'[r].key = reader[r].key
            /\ reader'[r].pc = IF reader[r].key = "scores" THEN "overrides" ELSE "boards"
        BY <1>1, <2>2 DEF StartCompute, TypeOK
      <3> QED
        BY <3>1 DEF MissesSoFar, Made
    <2> QED
      BY <2>1, <2>2
  <1>4. VersionsHold' /\ RunningHolds'
    BY <1>2, <1>3, RunningKept
  <1>5. MissedOnlyInFlight'
    BY <1>1, <1>2 DEF MissedOnlyInFlight, Valid, Misses
  <1> QED
    BY <1>4, <1>5

(* What a query reads holds every write made by then: it adds nothing to   *)
(* what the computation has missed.                                        *)
LEMMA QueryIInv ==
    ASSUME IInv, NEW r \in Readers,
           ListOverrides(r) \/ loadSubmissionBans(r) \/ CalcLeaderboards(r)
    PROVE  VersionsHold' /\ RunningHolds' /\ MissedOnlyInFlight'
  <1> USE DEF dbVars
  <1>1. TypeOK /\ VersionsHold /\ RunningHolds /\ MissedOnlyInFlight
    BY DEF IInv
  <1>2. /\ UNCHANGED <<tables, mod, cleared, cache, crossed>>
        /\ \A s \in Readers : s # r => reader'[s] = reader[s]
    BY <1>1 DEF ListOverrides, loadSubmissionBans, CalcLeaderboards, Query, TypeOK
  <1>3. reader[r] \in ReaderState /\ reader[r].page \in Page
    BY <1>1 DEF TypeOK, ReaderState
  <1>4. ASSUME NEW t, NEW v, t = "overrides" => v <= tables["overrides"],
               t = "bans" => v <= tables["bans"], v \in Nat,
               MissesSoFar(r, t, v)'
        PROVE  MissesSoFar(r, t, v)
    <2>1. tables["overrides"] \in Nat /\ tables["bans"] \in Nat
      BY <1>1 DEF TypeOK, Tables
    <2>2. CASE ListOverrides(r)
      <3>1. /\ reader[r].pc = "overrides" /\ reader'[r].pc = "bans" /\ reader'[r].key = reader[r].key
            /\ reader'[r].page.overrides = tables["overrides"]
        BY <1>1, <1>3, <2>2 DEF ListOverrides, Query, TypeOK, ReaderState, Page
      <3> QED
        BY <1>4, <2>1, <3>1 DEF MissesSoFar, Made
    <2>3. CASE loadSubmissionBans(r)
      <3>1. /\ reader[r].pc = "bans" /\ reader'[r].pc = "boards" /\ reader'[r].key = reader[r].key
            /\ reader'[r].page.overrides = reader[r].page.overrides
            /\ reader'[r].page.bans = tables["bans"]
        BY <1>1, <1>3, <2>3 DEF loadSubmissionBans, Query, TypeOK, ReaderState, Page
      <3> QED
        BY <1>4, <2>1, <3>1 DEF MissesSoFar, Made
    <2>4. CASE CalcLeaderboards(r)
      <3>1. /\ reader[r].pc = "boards" /\ reader'[r].pc = "store" /\ reader'[r].key = reader[r].key
            /\ reader'[r].page.overrides = reader[r].page.overrides
            /\ reader'[r].page.bans = reader[r].page.bans
            /\ reader'[r].page.boards = tables["bans"]
        BY <1>1, <1>3, <2>4 DEF CalcLeaderboards, Query, TypeOK, ReaderState, Page
      <3> QED
        BY <1>4, <2>1, <3>1 DEF MissesSoFar, Made
    <2> QED
      BY <2>2, <2>3, <2>4
  <1>5. ASSUME NEW w \in cleared, MissesSoFar(r, w[1], w[2])'
        PROVE  w \in crossed'[r]
    <2>1. w[1] \in Tables /\ w[2] \in Nat /\ w[2] <= tables[w[1]]
      BY <1>1 DEF TypeOK, Moderated, Tables, VersionsHold
    <2>2. MissesSoFar(r, w[1], w[2])
      BY <1>4, <1>5, <2>1
    <2> QED
      BY <1>1, <1>2, <2>2 DEF RunningHolds
  <1>6. ASSUME NEW m \in Moderators, mod[m].pc = "written",
               MissesSoFar(r, mod[m].table, mod[m].version)'
        PROVE  r \in mod'[m].seen
    <2>1. mod[m].version \in Nat /\ mod[m].version <= tables[mod[m].table]
      BY <1>1, <1>6 DEF TypeOK, VersionsHold
    <2>2. \A t, v : t = mod[m].table /\ v = mod[m].version => MissesSoFar(r, t, v)'
      BY <1>2, <1>6 DEF MissesSoFar, Made
    <2>3. MissesSoFar(r, mod[m].table, mod[m].version)
      BY <1>4, <2>1, <2>2
    <2> QED
      BY <1>1, <1>2, <1>6, <2>3 DEF RunningHolds
  <1>7. VersionsHold' /\ RunningHolds'
    BY <1>2, <1>5, <1>6, RunningKept
  <1>8. MissedOnlyInFlight'
    BY <1>1, <1>2 DEF MissedOnlyInFlight, Valid, Misses
  <1> QED
    BY <1>7, <1>8

(* The page stored misses what its computation missed.                     *)
LEMMA EndIInv ==
    ASSUME IInv, NEW r \in Readers, StorePage(r) \/ ComputeFails(r)
    PROVE  VersionsHold' /\ RunningHolds' /\ MissedOnlyInFlight'
  <1> USE DEF dbVars
  <1>1. TypeOK /\ RunningHolds /\ MissedOnlyInFlight
    BY DEF IInv
  <1>2. /\ UNCHANGED <<tables, cleared>> /\ reader'[r] = ReaderIdle
        /\ \A s \in Readers : s # r => reader'[s] = reader[s] /\ crossed'[s] = crossed[s]
    BY <1>1 DEF StorePage, ComputeFails, Ends, TypeOK
  <1>3. \A m \in Moderators :
            /\ mod'[m].pc = mod[m].pc /\ mod'[m].table = mod[m].table
            /\ mod'[m].version = mod[m].version /\ mod[m].seen \subseteq mod'[m].seen \cup {r}
    <2>1. mod' = [m \in Moderators |-> [mod[m] EXCEPT !.seen = @ \ {r}]]
      BY DEF StorePage, ComputeFails, Ends
    <2>2. \A m \in Moderators : mod[m] \in ModState
      BY <1>1 DEF TypeOK, ModState
    <2> QED
      BY <2>1, <2>2 DEF ModState
  <1>4. \A u, v : ~MissesSoFar(r, u, v)'
    BY <1>2 DEF MissesSoFar, Made, ReaderIdle
  <1>5. VersionsHold' /\ RunningHolds'
    BY <1>2, <1>3, <1>4, RunningKept
  <1>6. MissedOnlyInFlight'
    <2>1. CASE ComputeFails(r)
      BY <1>1, <2>1 DEF ComputeFails, MissedOnlyInFlight, Valid, Misses
    <2>2. CASE StorePage(r)
      <3> DEFINE new == [page |-> reader[r].page, left |-> Ttl, crossed |-> crossed[r]]
      <3>1. reader[r].pc = "store" /\ reader[r].key \in Keys /\ cache' = [cache EXCEPT ![reader[r].key] = new]
        BY <1>1, <2>2 DEF StorePage, TypeOK
      <3>2. ASSUME NEW w \in cleared, Misses(reader[r].key, new.page, w[1], w[2])
            PROVE  w \in new.crossed
        <4>1. MissesSoFar(r, w[1], w[2])
          BY <3>1, <3>2 DEF Misses, MissesSoFar, Made, Keys
        <4> QED
          BY <1>1, <4>1 DEF RunningHolds
      <3> HIDE DEF new
      <3>3. /\ cache'[reader[r].key] = new
            /\ \A k \in Keys : k # reader[r].key => cache'[k] = cache[k]
        BY <1>1, <3>1 DEF TypeOK
      <3> SUFFICES ASSUME NEW k \in Keys, NEW w \in cleared,
                          Valid(k)', Misses(k, cache'[k].page, w[1], w[2])
                   PROVE  w \in cache'[k].crossed
        BY <1>2 DEF MissedOnlyInFlight, Misses
      <3>4. CASE k = reader[r].key
        BY <3>2, <3>3, <3>4
      <3>5. CASE k # reader[r].key
        BY <1>1, <3>3, <3>5 DEF MissedOnlyInFlight, Valid
      <3> QED
        BY <3>4, <3>5
    <2> QED
      BY <2>1, <2>2
  <1> QED
    BY <1>5, <1>6

LEMMA TickIInv ==
    ASSUME IInv, Tick
    PROVE  VersionsHold' /\ RunningHolds' /\ MissedOnlyInFlight'
  <1> USE DEF dbVars
  <1>1. TypeOK /\ VersionsHold /\ RunningHolds /\ MissedOnlyInFlight
    BY DEF IInv
  <1>2. UNCHANGED <<tables, mod, cleared, reader, crossed>>
    BY DEF Tick
  <1>3. VersionsHold' /\ RunningHolds'
    BY <1>1, <1>2 DEF VersionsHold, RunningHolds, MissesSoFar, Made
  <1>4. \A k \in Keys :
          \/ ~Valid(k)'
          \/ Valid(k) /\ cache'[k].page = cache[k].page /\ cache'[k].crossed = cache[k].crossed
    <2> SUFFICES ASSUME NEW k \in Keys
                 PROVE  \/ ~Valid(k)'
                        \/ Valid(k) /\ cache'[k].page = cache[k].page
                                    /\ cache'[k].crossed = cache[k].crossed
      OBVIOUS
    <2>1. cache[k] \in Entry /\ cache[k].left \in Nat
      BY <1>1, ModerationAssumption DEF TypeOK, Entry
    <2>2. CASE cache[k].left <= 1
      <3>1. cache'[k] = NoEntry
        BY <2>2 DEF Tick
      <3> QED
        BY <3>1 DEF Valid, NoEntry
    <2>3. CASE ~(cache[k].left <= 1)
      <3>1. cache'[k] = [cache[k] EXCEPT !.left = @ - 1]
        BY <2>3 DEF Tick
      <3> QED
        BY <2>1, <2>3, <3>1 DEF Valid, Entry
    <2> QED
      BY <2>2, <2>3
  <1>5. MissedOnlyInFlight'
    BY <1>1, <1>2, <1>4 DEF MissedOnlyInFlight, Misses
  <1> QED
    BY <1>3, <1>5

LEMMA RestartIInv ==
    ASSUME IInv, Restart
    PROVE  VersionsHold' /\ RunningHolds' /\ MissedOnlyInFlight'
  <1> USE DEF dbVars
  <1>1. VersionsHold'
    BY DEF IInv, Restart, VersionsHold, ModIdle
  <1>2. RunningHolds'
    <2>1. \A r \in Readers : \A u, v : ~MissesSoFar(r, u, v)'
      BY DEF Restart, MissesSoFar, Made, ReaderIdle
    <2> QED
      BY <2>1 DEF Restart, RunningHolds, ModIdle
  <1>3. MissedOnlyInFlight'
    BY DEF Restart, MissedOnlyInFlight, Valid, NoEntry
  <1> QED
    BY <1>1, <1>2, <1>3

LEMMA NextIInv == IInv /\ [Next]_vars => IInv'
  <1> SUFFICES ASSUME IInv, [Next]_vars PROVE IInv'
    OBVIOUS
  <1>1. TypeOK'
    BY NextTypeOK DEF IInv
  <1> DEFINE Goal == VersionsHold' /\ RunningHolds' /\ MissedOnlyInFlight'
  <1> SUFFICES Goal
    BY <1>1 DEF IInv
  <1>2. CASE ApiOverride
    BY <1>2, ApiOverrideIInv
  <1>3. ASSUME NEW m \in Moderators, BanSubmission(m) \/ UnbanSubmission(m) \/ SetOrClearScore(m)
        PROVE  Goal
    <2>1. \E t \in Tables : Writes(m, t) /\ UNCHANGED <<cleared, pageVars>>
      BY <1>3 DEF BanSubmission, UnbanSubmission, SetOrClearScore, Tables
    <2> QED
      BY <2>1, WriteIInv
  <1>4. ASSUME NEW m \in Moderators, ClearCache(m)
        PROVE  Goal
    BY <1>4, ClearIInv
  <1>5. ASSUME NEW r \in Readers, NEW k \in Keys, AskPage(r, k)
        PROVE  Goal
    BY <1>5, BeginIInv
  <1>6. ASSUME NEW r \in Readers, ReaderStep(r)
        PROVE  Goal
    BY <1>6, BeginIInv, QueryIInv, EndIInv DEF ReaderStep
  <1>7. CASE Tick
    BY <1>7, TickIInv
  <1>8. CASE Restart
    BY <1>8, RestartIInv
  <1>9. CASE UNCHANGED vars
    BY <1>9 DEF IInv, vars, dbVars, pageVars, VersionsHold, RunningHolds, MissesSoFar, Made,
               MissedOnlyInFlight, Valid, Misses
  <1> HIDE DEF Goal
  <1> QED
    BY <1>2, <1>3, <1>4, <1>5, <1>6, <1>7, <1>8, <1>9 DEF Next, ModNext

(* A moderation whose request has been answered is on every page served    *)
(* from the cache, unless one computation ran all the way from its write   *)
(* to its Clear.                                                           *)
THEOREM ModerationIsServed == Spec => []MissedOnlyInFlight
  <1>1. IInv => MissedOnlyInFlight
    BY DEF IInv
  <1> QED
    BY InitIInv, NextIInv, <1>1, PTL DEF Spec

-----------------------------------------------------------------------------
(* Settled pages last.  A query made now reads what the tables say now.    *)
LEMMA QueryReadsNow ==
    ASSUME TypeOK, NEW r \in Readers, NEW part \in {"overrides", "bans", "boards"}, NEW next,
           Query(r, part, tables[IF part = "overrides" THEN "overrides" ELSE "bans"], next),
           <<part, next>> \in {<<"overrides", "bans">>, <<"bans", "boards">>, <<"boards", "store">>},
           ReadsNow(r)
    PROVE  reader'[r].key = reader[r].key /\ ReadsNow(r)'
  <1> USE DEF dbVars
  <1>1. reader \in [Readers -> ReaderState] /\ reader[r] \in ReaderState
    BY DEF TypeOK, ReaderState
  <1> DEFINE now == tables[IF part = "overrides" THEN "overrides" ELSE "bans"]
             page == [reader[r].page EXCEPT ![part] = now]
  <1>2. /\ reader[r].pc = part /\ tables' = tables
        /\ reader'[r].pc = next /\ reader'[r].key = reader[r].key /\ reader'[r].page = page
    BY <1>1 DEF Query, ReaderState
  <1>3. /\ page.overrides = IF part = "overrides" THEN now ELSE reader[r].page.overrides
        /\ page.bans = IF part = "bans" THEN now ELSE reader[r].page.bans
        /\ page.boards = IF part = "boards" THEN now ELSE reader[r].page.boards
    BY <1>1 DEF ReaderState, Page
  <1> HIDE DEF page
  <1>4. CASE part = "overrides" /\ next = "bans"
    BY <1>2, <1>3, <1>4 DEF ReadsNow, Made
  <1>5. CASE part = "bans" /\ next = "boards"
    BY <1>2, <1>3, <1>5 DEF ReadsNow, Made
  <1>6. CASE part = "boards" /\ next = "store"
    BY <1>2, <1>3, <1>6 DEF ReadsNow, Made
  <1> QED
    BY <1>2, <1>4, <1>5, <1>6

(* One reader moves: it asks for another page, ends, or reads.             *)
LEMMA ReaderShowsNow ==
    ASSUME NEW k \in Keys, ShowsNow(k), tables' = tables, cache' = cache, NEW r \in Readers,
           \A s \in Readers : s # r => reader'[s] = reader[s],
           reader'[r].key = k => ReadsNow(r)'
    PROVE  ShowsNow(k)'
  <1>1. \A s \in Readers : s # r => (ReadsNow(s)' <=> ReadsNow(s))
    BY DEF ReadsNow, Made
  <1>2. \A s \in Readers : reader'[s].key = k => ReadsNow(s)'
    BY <1>1 DEF ShowsNow
  <1>3. Valid(k)' => Settled(k)'
    BY DEF ShowsNow, Valid, Settled
  <1> QED
    BY <1>2, <1>3 DEF ShowsNow

LEMMA ShowsNowStep ==
    ASSUME TypeOK, [Next]_vars, NEW k \in Keys, ShowsNow(k), tables' = tables
    PROVE  ShowsNow(k)'
  <1> USE DEF dbVars, pageVars
  <1>1. /\ reader \in [Readers -> ReaderState] /\ cache \in [Keys -> Entry]
    BY DEF TypeOK, ReaderState, Entry
  <1>2. CASE UNCHANGED <<reader, cache>>
    BY <1>2 DEF ShowsNow, Valid, Settled, ReadsNow, Made
  <1>3. ASSUME NEW r \in Readers, NEW j \in Keys, AskPage(r, j)
        PROVE  ShowsNow(k)'
    <2>1. cache' = cache /\ reader'[r].pc = "fetch" /\ \A s \in Readers : s # r => reader'[s] = reader[s]
      BY <1>1, <1>3 DEF AskPage
    <2>2. ReadsNow(r)'
      BY <2>1 DEF ReadsNow, Made
    <2> QED
      BY <2>1, <2>2, ReaderShowsNow
  <1>4. ASSUME NEW r \in Readers, ServeCached(r) \/ ComputeFails(r)
        PROVE  ShowsNow(k)'
    <2>1. cache' = cache /\ reader'[r] = ReaderIdle /\ \A s \in Readers : s # r => reader'[s] = reader[s]
      BY <1>1, <1>4 DEF ServeCached, ComputeFails
    <2>2. ReadsNow(r)'
      BY <2>1 DEF ReadsNow, Made, ReaderIdle
    <2> QED
      BY <2>1, <2>2, ReaderShowsNow
  <1>5. ASSUME NEW r \in Readers, StartCompute(r)
        PROVE  ShowsNow(k)'
    <2>1. /\ cache' = cache /\ reader'[r].key = reader[r].key
          /\ reader'[r].pc = IF reader[r].key = "scores" THEN "overrides" ELSE "boards"
          /\ \A s \in Readers : s # r => reader'[s] = reader[s]
      BY <1>1, <1>5 DEF StartCompute, ReaderState
    <2>2. ReadsNow(r)'
      BY <2>1 DEF ReadsNow, Made
    <2> QED
      BY <2>1, <2>2, ReaderShowsNow
  <1>6. ASSUME NEW r \in Readers, ListOverrides(r) \/ loadSubmissionBans(r) \/ CalcLeaderboards(r)
        PROVE  ShowsNow(k)'
    <2>1. cache' = cache /\ \A s \in Readers : s # r => reader'[s] = reader[s]
      BY <1>1, <1>6 DEF ListOverrides, loadSubmissionBans, CalcLeaderboards, Query
    <2>2. reader'[r].key = reader[r].key
      BY <1>1, <1>6 DEF ListOverrides, loadSubmissionBans, CalcLeaderboards, Query, ReaderState
    <2>3. ASSUME reader[r].key = k PROVE ReadsNow(r)'
      BY <1>6, <2>3, QueryReadsNow DEF ShowsNow, ListOverrides, loadSubmissionBans, CalcLeaderboards
    <2> QED
      BY <2>1, <2>2, <2>3, ReaderShowsNow
  <1>7. ASSUME NEW r \in Readers, StorePage(r)
        PROVE  ShowsNow(k)'
    <2> DEFINE j == reader[r].key
               stored == [page |-> reader[r].page, left |-> Ttl, crossed |-> crossed[r]]
    <2>1. /\ j \in Keys /\ reader[r].pc = "store" /\ reader'[r] = ReaderIdle
          /\ \A s \in Readers : s # r => reader'[s] = reader[s]
          /\ cache'[j] = stored /\ \A i \in Keys : i # j => cache'[i] = cache[i]
      BY <1>1, <1>7 DEF StorePage, ReaderState
    <2>2. \A s \in Readers : reader'[s].key = k => ReadsNow(s)'
      BY <2>1 DEF ShowsNow, ReadsNow, Made, ReaderIdle
    <2>3. Valid(k)' => Settled(k)'
      <3>1. CASE k = j
        <4>1. ReadsNow(r)
          BY <3>1 DEF ShowsNow
        <4>2. cache'[k].page = reader[r].page
          BY <2>1, <3>1
        <4> QED
          BY <2>1, <3>1, <4>1, <4>2 DEF Settled, ReadsNow, Made
      <3>2. CASE k # j
        BY <2>1, <3>2 DEF ShowsNow, Valid, Settled
      <3> QED
        BY <3>1, <3>2
    <2> QED
      BY <2>2, <2>3 DEF ShowsNow
  <1>8. ASSUME reader' = reader,
               cache'[k].left = 0 \/ (cache[k].left > 0 /\ cache'[k].page = cache[k].page)
        PROVE  ShowsNow(k)'
    <2>1. \A r \in Readers : reader'[r].key = k => ReadsNow(r)'
      BY <1>8 DEF ShowsNow, ReadsNow, Made
    <2>2. Valid(k)' => Settled(k)'
      BY <1>8 DEF ShowsNow, Valid, Settled
    <2> QED
      BY <2>1, <2>2 DEF ShowsNow
  <1>9. ASSUME NEW m \in Moderators, ClearCache(m)
        PROVE  ShowsNow(k)'
    <2>1. reader' = reader /\ cache'[k].left = 0
      BY <1>9 DEF ClearCache, NoEntry
    <2> QED
      BY <1>8, <2>1
  <1>10. CASE Tick
    <2>1. reader' = reader /\ cache'[k] = IF cache[k].left <= 1 THEN NoEntry
                                           ELSE [cache[k] EXCEPT !.left = cache[k].left - 1]
      BY <1>10 DEF Tick
    <2>2. CASE cache[k].left <= 1
      <3>1. cache'[k].left = 0
        BY <2>1, <2>2 DEF NoEntry
      <3> QED
        BY <1>8, <2>1, <3>1
    <2>3. CASE ~(cache[k].left <= 1)
      <3>1. cache[k].left > 0 /\ cache'[k].page = cache[k].page
        BY <1>1, <2>1, <2>3, ModerationAssumption DEF Entry
      <3> QED
        BY <1>8, <2>1, <3>1
    <2> QED
      BY <2>2, <2>3
  <1>11. CASE Restart
    BY <1>11 DEF Restart, ShowsNow, Valid, NoEntry, ReadsNow, Made, ReaderIdle
  <1>12. CASE ApiOverride \/ UNCHANGED vars
    BY <1>2, <1>12 DEF ApiOverride, vars
  <1>13. ASSUME NEW m \in Moderators, BanSubmission(m) \/ UnbanSubmission(m) \/ SetOrClearScore(m)
         PROVE  ShowsNow(k)'
    BY <1>2, <1>13 DEF BanSubmission, UnbanSubmission, SetOrClearScore
  <1> QED
    BY <1>3, <1>4, <1>5, <1>6, <1>7, <1>9, <1>10, <1>11, <1>12, <1>13 DEF Next, ModNext, ReaderStep

(* The safety half of PagesSettle, for any number of readers, moderators   *)
(* and writes and any lifetime: a page that shows what the tables say is   *)
(* not replaced by one that does not, unless somebody writes.              *)
THEOREM SettledPagesLast == Spec => SettledLasts
  <1>1. TypeOK /\ [Next]_vars => [\A k \in Keys : (ShowsNow(k) /\ tables' = tables) => ShowsNow(k)']_vars
    BY ShowsNowStep
  <1> QED
    BY <1>1, InitTypeOK, NextTypeOK, PTL DEF Spec, SettledLasts

=============================================================================
