----------------------------- MODULE Moderation -----------------------------
(***************************************************************************)
(* The standings and leaderboard pages against those who change what they  *)
(* show: moderators and the override API (src/internal/web/render.go,      *)
(* admin.go, api.go, src/internal/scorer/scorer.go).  A page is computed   *)
(* by one query after another and kept for ten seconds; only some of the   *)
(* writers clear the cache.                                                *)
(*                                                                         *)
(* What a table holds is its version, the number of writes it has had; a   *)
(* page is the versions its queries saw.                                   *)
(***************************************************************************)
EXTENDS Integers, FiniteSets

CONSTANTS
    Readers,     \* requests for pages being served
    Moderators,  \* requests to moderate being served
    Ttl,         \* of a cached page, in ticks
    Asks,        \* which of them each reader asks for
    MaxWrites    \* bound: writes of a table, by table

Tables == {"overrides", "bans"}
Keys   == {"scores", "leaderboard"}  \* the kinds of page in the cache

ASSUME ModerationAssumption ==
    /\ Asks \in [Readers -> SUBSET Keys]
    /\ Ttl \in Nat \ {0} /\ MaxWrites \in [Tables -> Nat]

VARIABLES
    tables,    \* versions of the tables a page is computed from
    isBanned,  \* whether the submission in question is banned
    mod,       \* requests to moderate
    reader,    \* requests for pages
    cache,     \* the cached pages
    crossed,   \* history: moderations each computation has seen pass by whole
    cleared    \* history: moderations that are done

dbVars   == <<tables, isBanned>>
pageVars == <<reader, cache, crossed>>
vars     == <<dbVars, mod, cleared, pageVars>>

Moderated == {"overrides", "bans"} \X Nat

NoPage == [overrides |-> 0, bans |-> 0, boards |-> 0]
NoEntry == [page |-> NoPage, left |-> 0, crossed |-> {}]
ReaderIdle == [pc |-> "idle", key |-> "scores", page |-> NoPage]
ModIdle == [pc |-> "idle", table |-> "bans", version |-> 0, seen |-> {}]

Init ==
    /\ tables = [t \in Tables |-> 0]
    /\ isBanned = FALSE
    /\ mod = [m \in Moderators |-> ModIdle]
    /\ reader = [r \in Readers |-> ReaderIdle]
    /\ cache = [k \in Keys |-> NoEntry]
    /\ crossed = [r \in Readers |-> {}]
    /\ cleared = {}

-----------------------------------------------------------------------------
(* The override API writes and answers; it does not clear the cache.  Nor  *)
(* does what stores pipelines, requests and flags, or replaces the         *)
(* deadlines: all are read before the bans and shown as overrides are.     *)
ApiOverride ==
    /\ tables["overrides"] < MaxWrites["overrides"]
    /\ tables' = [tables EXCEPT !["overrides"] = @ + 1]
    /\ UNCHANGED <<isBanned, mod, cleared, pageVars>>

Computing == {r \in Readers : reader[r].pc \notin {"idle", "fetch"}}

Writes(m, table) ==
    /\ mod[m].pc = "idle" /\ tables[table] < MaxWrites[table]
    /\ tables' = [tables EXCEPT ![table] = @ + 1]
    /\ mod' = [mod EXCEPT ![m] = [pc |-> "written", table |-> table,
                                  version |-> tables'[table], seen |-> Computing]]

BanSubmission(m) ==
    /\ Writes(m, "bans")
    /\ isBanned' = TRUE
    /\ UNCHANGED <<cleared, pageVars>>

(* Lifting a ban that is not there ends in "not found", without a write.   *)
UnbanSubmission(m) ==
    /\ isBanned
    /\ Writes(m, "bans")
    /\ isBanned' = FALSE
    /\ UNCHANGED <<cleared, pageVars>>

(* AddOverride and RemoveOverride on a moderator's behalf.                 *)
SetOrClearScore(m) ==
    /\ Writes(m, "overrides")
    /\ UNCHANGED <<isBanned, cleared, pageVars>>

(* The moderation has passed by the computations that ran all along.       *)
Passed(m) ==
    /\ cleared' = cleared \cup {<<mod[m].table, mod[m].version>>}
    /\ crossed' = [r \in Readers |->
         IF r \in mod[m].seen THEN crossed[r] \cup {<<mod[m].table, mod[m].version>>}
         ELSE crossed[r]]

(* Mutant of ClearCache: only the standings are forgotten.                 *)
ClearScores(m) ==
    /\ mod[m].pc = "written"
    /\ cache' = [cache EXCEPT !["scores"] = NoEntry]
    /\ mod' = [mod EXCEPT ![m] = ModIdle]
    /\ Passed(m)
    /\ UNCHANGED <<dbVars, reader>>

ClearCache(m) ==
    /\ mod[m].pc = "written"
    /\ cache' = [k \in Keys |-> NoEntry]
    /\ mod' = [mod EXCEPT ![m] = ModIdle]
    /\ Passed(m)
    /\ UNCHANGED <<dbVars, reader>>

ModNext ==
    \E m \in Moderators :
        BanSubmission(m) \/ UnbanSubmission(m) \/ SetOrClearScore(m) \/ ClearCache(m)

-----------------------------------------------------------------------------
(* A page is asked for.                                                    *)
AskPage(r, k) ==
    /\ reader[r].pc = "idle" /\ k \in Asks[r]
    /\ reader' = [reader EXCEPT ![r] = [pc |-> "fetch", key |-> k, page |-> NoPage]]
    /\ UNCHANGED <<dbVars, mod, cleared, cache, crossed>>

Valid(k) == cache[k].left > 0

(* Mutant of ServeCached: serving an entry extends it.                     *)
ServeAndExtend(r) ==
    /\ reader[r].pc = "fetch" /\ Valid(reader[r].key)
    /\ reader' = [reader EXCEPT ![r] = ReaderIdle]
    /\ cache' = [cache EXCEPT ![reader[r].key].left = Ttl]
    /\ UNCHANGED <<dbVars, mod, cleared, crossed>>

(* cache.Fetch finds an entry that has not expired.                        *)
ServeCached(r) ==
    /\ reader[r].pc = "fetch" /\ Valid(reader[r].key)
    /\ reader' = [reader EXCEPT ![r] = ReaderIdle]
    /\ UNCHANGED <<dbVars, mod, cleared, cache, crossed>>

(* It does not, and this request computes the page, whoever else does.     *)
StartCompute(r) ==
    /\ reader[r].pc = "fetch" /\ ~Valid(reader[r].key)
    /\ reader' = [reader EXCEPT ![r].pc =
         IF reader[r].key = "scores" THEN "overrides" ELSE "boards"]
    /\ UNCHANGED <<dbVars, mod, cleared, cache, crossed>>

Query(r, part, seen, next) ==
    /\ reader[r].pc = part
    /\ reader' = [reader EXCEPT ![r].pc = next, ![r].page[part] = seen]
    /\ UNCHANGED <<dbVars, mod, cleared, cache, crossed>>

(* CalcScoreboardWithFilter: what students did and the overrides, the bans *)
(* and the boards with a join of the bans of its own; the leaderboard page *)
(* only the last.                                                          *)
ListOverrides(r) == Query(r, "overrides", tables["overrides"], "bans")
loadSubmissionBans(r) == Query(r, "bans", tables["bans"], "boards")
CalcLeaderboards(r) == Query(r, "boards", tables["bans"], "store")

Ends(r) ==
    /\ crossed' = [crossed EXCEPT ![r] = {}]
    /\ mod' = [m \in Moderators |-> [mod[m] EXCEPT !.seen = @ \ {r}]]

(* The computed page is stored whatever happened meanwhile, and shown.     *)
StorePage(r) ==
    /\ reader[r].pc = "store"
    /\ cache' = [cache EXCEPT ![reader[r].key] =
         [page |-> reader[r].page, left |-> Ttl, crossed |-> crossed[r]]]
    /\ reader' = [reader EXCEPT ![r] = ReaderIdle]
    /\ Ends(r)
    /\ UNCHANGED <<dbVars, cleared>>

(* A query fails: an error page, or for the standings a nil dereference    *)
(* that ends the request.  Nothing is stored.                              *)
ComputeFails(r) ==
    /\ r \in Computing /\ reader[r].pc # "store"
    /\ reader' = [reader EXCEPT ![r] = ReaderIdle]
    /\ Ends(r)
    /\ UNCHANGED <<dbVars, cleared, cache>>

ReaderStep(r) ==
    \/ ServeCached(r) \/ StartCompute(r)
    \/ ListOverrides(r) \/ loadSubmissionBans(r) \/ CalcLeaderboards(r) \/ StorePage(r)
    \/ ComputeFails(r)

(* Mutant of Tick: the time left of an expired entry goes on falling.      *)
TickOn ==
    /\ \E k \in Keys : cache[k].left > 0
    /\ cache' = [k \in Keys |-> [cache[k] EXCEPT !.left = @ - 1]]
    /\ UNCHANGED <<dbVars, mod, cleared, reader, crossed>>

Tick ==
    /\ \E k \in Keys : cache[k].left > 0
    /\ cache' = [k \in Keys |-> IF cache[k].left <= 1 THEN NoEntry
                               ELSE [cache[k] EXCEPT !.left = @ - 1]]
    /\ UNCHANGED <<dbVars, mod, cleared, reader, crossed>>

(* The process dies and restarts: requests and cache are gone.             *)
Restart ==
    /\ mod' = [m \in Moderators |-> ModIdle]
    /\ reader' = [r \in Readers |-> ReaderIdle]
    /\ cache' = [k \in Keys |-> NoEntry]
    /\ crossed' = [r \in Readers |-> {}]
    /\ UNCHANGED <<dbVars, cleared>>

Next ==
    \/ ApiOverride \/ ModNext
    \/ \E r \in Readers, k \in Keys : AskPage(r, k)
    \/ \E r \in Readers : ReaderStep(r)
    \/ Tick \/ Restart

(* Time passes, and requests that were begun are served.  Nobody has to    *)
(* ask for a page or to moderate.                                          *)
Fairness ==
    /\ WF_vars(Tick)
    /\ WF_vars(\E m \in Moderators : ClearCache(m))
    /\ \A r \in Readers : WF_vars(ReaderStep(r))

Spec == Init /\ [][Next]_vars
FairSpec == Spec /\ Fairness

-----------------------------------------------------------------------------
Page == [overrides: Nat, bans: Nat, boards: Nat]

TypeOK ==
    /\ tables \in [Tables -> Nat] /\ isBanned \in BOOLEAN
    /\ mod \in [Moderators -> [pc: {"idle", "written"}, table: Tables,
                               version: Nat, seen: SUBSET Readers]]
    /\ reader \in [Readers -> [pc: {"idle", "fetch", "overrides", "bans", "boards", "store"},
                               key: Keys, page: Page]]
    /\ cache \in [Keys -> [page: Page, left: 0..Ttl, crossed: SUBSET Moderated]]
    /\ crossed \in [Readers -> SUBSET Moderated] /\ cleared \subseteq Moderated

(* A page misses a moderation if one of its queries was too early for it.  *)
Misses(k, page, table, version) ==
    \/ table = "overrides" /\ k = "scores" /\ page.overrides < version
    \/ table = "bans" /\ k = "scores" /\ page.bans < version
    \/ table = "bans" /\ page.boards < version

(* A moderation whose request has been answered is on every page served,   *)
(* on either kind of page, but for those whose one computation was running *)
(* all the way from its write to its Clear (render.go:214, admin.go:269).  *)
MissedOnlyInFlight ==
    \A k \in Keys : \A w \in cleared :
        (Valid(k) /\ Misses(k, cache[k].page, w[1], w[2])) => w \in cache[k].crossed

(* When writers rest, the pages come to show what the tables say, also     *)
(* what was written without clearing the cache and however often the pages *)
(* are asked for (api.go:239).                                             *)
Settled(k) ==
    LET page == cache[k].page IN
    /\ page.boards = tables["bans"]
    /\ k = "scores" => /\ page.bans = tables["bans"]
                       /\ page.overrides = tables["overrides"]

PagesSettle == <>[](\A k \in Keys : Valid(k) => Settled(k))

(* The query for a part of its page has been made by a computation.        *)
Made(r, part) ==
    \/ part = "overrides" /\ reader[r].key = "scores" /\ reader[r].pc \in {"bans", "boards", "store"}
    \/ part = "bans" /\ reader[r].key = "scores" /\ reader[r].pc \in {"boards", "store"}
    \/ part = "boards" /\ reader[r].pc = "store"

(* What a computation has read is what the tables say now.                 *)
ReadsNow(r) ==
    /\ Made(r, "overrides") => reader[r].page.overrides = tables["overrides"]
    /\ Made(r, "bans") => reader[r].page.bans = tables["bans"]
    /\ Made(r, "boards") => reader[r].page.boards = tables["bans"]

(* A page that shows what the tables say goes on doing so until somebody   *)
(* writes, whoever computes it, stores it, clears it or lets it expire,    *)
(* once the computations that began before the last write are over.        *)
ShowsNow(k) ==
    /\ Valid(k) => Settled(k)
    /\ \A r \in Readers : reader[r].key = k => ReadsNow(r)
SettledLasts == [][\A k \in Keys : (ShowsNow(k) /\ tables' = tables) => ShowsNow(k)']_vars

=============================================================================
