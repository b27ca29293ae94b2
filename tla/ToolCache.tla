----------------------------- MODULE ToolCache -----------------------------
(***************************************************************************)
(* The lazily filled cache of a backend's tool list, server/tool_cache.rs. *)
(*                                                                         *)
(* Tasks call get_all (and get, which is get_all and a lookup), refresh    *)
(* and invalidate concurrently.  Every atomic access and every await is a  *)
(* step of its own.  A tool list is abstracted to the backend version it   *)
(* was read from: the include and exclude filters never change, so the     *)
(* filtered view is a function of that version.                            *)
(***************************************************************************)
EXTENDS Naturals

CONSTANTS
    Getters,        \* tasks that call get_all or get
    Refreshers,     \* tasks that call refresh
    Invalidators,   \* tasks that call invalidate; the three sets may overlap
    MaxGeneration,  \* bound: how many times the cache is invalidated
    MaxVersion      \* bound: how many times the backend's tool list changes

ASSUME BoundsAssumption == MaxGeneration \in Nat /\ MaxVersion \in Nat

Tasks == Getters \cup Refreshers \cup Invalidators

VARIABLES
    backend,     \* the version of the tool list the backend would answer now
    generation,  \* AtomicU64, incremented by invalidate
    populated,   \* AtomicBool read by is_populated
    cache,       \* Option<CachedTools>: the empty set, or the set of one entry
    writer,      \* holder of the RwLock's write guard: {} or {t}
    pc,
    seen,        \* the generation a task last loaded
    held,        \* the list a task has in a local: {} or {entry}
    since,       \* history: the generation when the task's call began
    filled       \* history: generations a get_all stored a list for, since the
                 \* last store of a refresh

vars == <<backend, generation, populated, cache, writer, pc, seen, held, since, filled>>

Generations == 0 .. MaxGeneration
Versions    == 0 .. MaxVersion

(***************************************************************************)
(* CachedTools is the generation tag and the list (version).  The other    *)
(* three fields are history: who fetched the list, in a call begun at      *)
(* which generation, and the generation at the instant the backend         *)
(* answered.                                                               *)
(***************************************************************************)
Entry == [generation : Generations, version : Versions,
          by : {"get_all", "refresh"}, begun : Generations, fetchedAt : Generations]

GetAllPcs  == {"read", "write", "recheck", "fetch", "store", "publish", "done"}
RefreshPcs == {"r_fetch", "r_load", "r_store", "r_publish"}
Pcs        == {"idle", "i_clear"} \cup GetAllPcs \cup RefreshPcs
LockedPcs  == {"recheck", "fetch", "store", "publish"}

TypeOK ==
    /\ backend \in Versions
    /\ generation \in Generations
    /\ populated \in BOOLEAN
    /\ cache \subseteq Entry
    /\ writer \subseteq Tasks
    /\ pc \in [Tasks -> Pcs]
    /\ seen \in [Tasks -> Generations]
    /\ held \in [Tasks -> SUBSET Entry]
    /\ since \in [Tasks -> Generations]
    /\ filled \subseteq Generations

Init ==
    /\ backend = 0
    /\ generation = 0
    /\ populated = FALSE
    /\ cache = {}
    /\ writer = {}
    /\ pc = [t \in Tasks |-> "idle"]
    /\ seen = [t \in Tasks |-> 0]
    /\ held = [t \in Tasks |-> {}]
    /\ since = [t \in Tasks |-> 0]
    /\ filled = {}

Goto(t, from, to) == pc[t] = from /\ pc' = [pc EXCEPT ![t] = to]

\* The call of t ends; its locals are dropped.
Return(t) ==
    /\ pc' = [pc EXCEPT ![t] = "idle"]
    /\ seen' = [seen EXCEPT ![t] = 0]
    /\ held' = [held EXCEPT ![t] = {}]
    /\ since' = [since EXCEPT ![t] = 0]

\* Cached entries whose tag is the generation t loaded.
Current(t) == {e \in cache : e.generation = seen[t]}

----------------------------------------------------------------------------
(* get_all *)

LoadGeneration(t) ==
    /\ t \in Getters
    /\ Goto(t, "idle", "read")
    /\ seen' = [seen EXCEPT ![t] = generation]
    /\ since' = [since EXCEPT ![t] = generation]
    /\ UNCHANGED <<backend, generation, populated, cache, writer, held, filled>>

\* Mutant: the generation of the entry is not compared.
ReadCacheAnyEntry(t) ==
    /\ pc[t] = "read"
    /\ writer = {}
    /\ pc' = [pc EXCEPT ![t] = IF cache # {} THEN "done" ELSE "write"]
    /\ held' = [held EXCEPT ![t] = cache]
    /\ UNCHANGED <<backend, generation, populated, cache, writer, seen, since, filled>>

\* The read guard lives only while the entry is compared and cloned, with no
\* await in between, so taking it, looking and dropping it are one step.
ReadCache(t) ==
    /\ pc[t] = "read"
    /\ writer = {}
    /\ pc' = [pc EXCEPT ![t] = IF Current(t) # {} THEN "done" ELSE "write"]
    /\ held' = [held EXCEPT ![t] = Current(t)]
    /\ UNCHANGED <<backend, generation, populated, cache, writer, seen, since, filled>>

\* Mutant: the second half of get_all runs without the write guard.
AcquireNothing(t) ==
    /\ Goto(t, "write", "recheck")
    /\ seen' = [seen EXCEPT ![t] = generation]
    /\ UNCHANGED <<backend, generation, populated, cache, writer, held, since, filled>>

AcquireWrite(t) ==
    /\ writer = {}
    /\ Goto(t, "write", "recheck")
    /\ writer' = {t}
    /\ seen' = [seen EXCEPT ![t] = generation]
    /\ UNCHANGED <<backend, generation, populated, cache, held, since, filled>>

\* Mutant: the check is not repeated under the guard.
RecheckSkipped(t) ==
    /\ Goto(t, "recheck", "fetch")
    /\ UNCHANGED <<backend, generation, populated, cache, writer, seen, held, since, filled>>

\* The second check of the double-checked locking, under the write guard.
Recheck(t) ==
    /\ pc[t] = "recheck"
    /\ pc' = [pc EXCEPT ![t] = IF Current(t) # {} THEN "done" ELSE "fetch"]
    /\ held' = [held EXCEPT ![t] = Current(t)]
    /\ writer' = IF Current(t) # {} THEN {} ELSE writer
    /\ UNCHANGED <<backend, generation, populated, cache, seen, since, filled>>

\* The list the backend answers to t at this instant.
Answered(t, who) ==
    {[generation |-> seen[t], version |-> backend, by |-> who,
      begun |-> since[t], fetchedAt |-> generation]}

FetchAnswered(t) ==
    /\ Goto(t, "fetch", "store")
    /\ held' = [held EXCEPT ![t] = Answered(t, "get_all")]
    /\ UNCHANGED <<backend, generation, populated, cache, writer, seen, since, filled>>

\* Mutant: the error path keeps the guard.
FetchFailedKeepsGuard(t) ==
    /\ pc[t] = "fetch"
    /\ Return(t)
    /\ UNCHANGED <<backend, generation, populated, cache, writer, filled>>

\* `?` returns the error; dropping the guard leaves the old entry in place.
FetchFailed(t) ==
    /\ pc[t] = "fetch"
    /\ Return(t)
    /\ writer' = {}
    /\ UNCHANGED <<backend, generation, populated, cache, filled>>

\* Mutant: the entry is tagged with the generation of the store, not of the fetch.
StoreFetchedRetagged(t) ==
    /\ Goto(t, "store", "publish")
    /\ cache' = {[e EXCEPT !.generation = generation] : e \in held[t]}
    /\ filled' = filled \cup {seen[t]}
    /\ UNCHANGED <<backend, generation, populated, writer, seen, held, since>>

StoreFetched(t) ==
    /\ Goto(t, "store", "publish")
    /\ cache' = held[t]
    /\ filled' = filled \cup {seen[t]}
    /\ UNCHANGED <<backend, generation, populated, writer, seen, held, since>>

Publish(t) ==
    /\ Goto(t, "publish", "done")
    /\ populated' = TRUE
    /\ writer' = {}
    /\ UNCHANGED <<backend, generation, cache, seen, held, since, filled>>

\* The caller takes the answer.
GetAllReturns(t) ==
    /\ pc[t] = "done"
    /\ Return(t)
    /\ UNCHANGED <<backend, generation, populated, cache, writer, filled>>

----------------------------------------------------------------------------
(* refresh: the fetch runs without the lock, the generation is loaded after *)

RefreshBegins(t) ==
    /\ t \in Refreshers
    /\ Goto(t, "idle", "r_fetch")
    /\ since' = [since EXCEPT ![t] = generation]
    /\ UNCHANGED <<backend, generation, populated, cache, writer, seen, held, filled>>

RefreshAnswered(t) ==
    /\ Goto(t, "r_fetch", "r_load")
    /\ held' = [held EXCEPT ![t] = Answered(t, "refresh")]
    /\ UNCHANGED <<backend, generation, populated, cache, writer, seen, since, filled>>

RefreshFailed(t) ==
    /\ pc[t] = "r_fetch"
    /\ Return(t)
    /\ UNCHANGED <<backend, generation, populated, cache, writer, filled>>

RefreshLoads(t) ==
    /\ Goto(t, "r_load", "r_store")
    /\ seen' = [seen EXCEPT ![t] = generation]
    /\ UNCHANGED <<backend, generation, populated, cache, writer, held, since, filled>>

\* The guard is a temporary of the assignment: taken and dropped in one poll.
RefreshStores(t) ==
    /\ writer = {}
    /\ Goto(t, "r_store", "r_publish")
    /\ cache' = {[e EXCEPT !.generation = seen[t]] : e \in held[t]}
    /\ filled' = {}
    /\ UNCHANGED <<backend, generation, populated, writer, seen, held, since>>

RefreshPublishes(t) ==
    /\ pc[t] = "r_publish"
    /\ Return(t)
    /\ populated' = TRUE
    /\ UNCHANGED <<backend, generation, cache, writer, filled>>

----------------------------------------------------------------------------
(* invalidate: two atomic operations, no lock *)

InvalidateBumps(t) ==
    /\ t \in Invalidators
    /\ generation < MaxGeneration
    /\ Goto(t, "idle", "i_clear")
    /\ generation' = generation + 1
    /\ UNCHANGED <<backend, populated, cache, writer, seen, held, since, filled>>

InvalidateClears(t) ==
    /\ Goto(t, "i_clear", "idle")
    /\ populated' = FALSE
    /\ UNCHANGED <<backend, generation, cache, writer, seen, held, since, filled>>

----------------------------------------------------------------------------

\* The caller drops the future of a call that waits at an await: for the read
\* guard, the write guard or the backend.  A guard it held is released.
Cancel(t) ==
    /\ pc[t] \in {"read", "write", "fetch", "r_fetch", "r_store"}
    /\ Return(t)
    /\ writer' = writer \ {t}
    /\ UNCHANGED <<backend, generation, populated, cache, filled>>

\* The upstream server changes its tool list.
BackendChanges ==
    /\ backend < MaxVersion
    /\ backend' = backend + 1
    /\ UNCHANGED <<generation, populated, cache, writer, pc, seen, held, since, filled>>

Locks(t) == ReadCache(t) \/ AcquireWrite(t) \/ RefreshStores(t)

Runs(t) ==
    \/ Recheck(t) \/ FetchAnswered(t) \/ FetchFailed(t) \/ StoreFetched(t)
    \/ Publish(t) \/ GetAllReturns(t)
    \/ RefreshAnswered(t) \/ RefreshFailed(t) \/ RefreshLoads(t) \/ RefreshPublishes(t)
    \/ InvalidateClears(t)

Next ==
    \/ BackendChanges
    \/ \E t \in Tasks :
        \/ LoadGeneration(t) \/ RefreshBegins(t) \/ InvalidateBumps(t)
        \/ Locks(t) \/ Runs(t) \/ Cancel(t)

Spec == Init /\ [][Next]_vars

(***************************************************************************)
(* The runtime polls every task that can run and the backend answers or    *)
(* fails, so Runs is weakly fair.  tokio's RwLock queues its waiters in    *)
(* order, so a task that keeps finding the lock free now and then gets it: *)
(* Locks is strongly fair.  Nothing makes a caller begin or cancel a call. *)
(***************************************************************************)
Fairness == \A t \in Tasks : WF_vars(Runs(t)) /\ SF_vars(Locks(t))

FairSpec == Spec /\ Fairness

----------------------------------------------------------------------------
(* Properties *)

\* An answer of get_all is a list the backend gave at or after the generation
\* the call began in.  The one exception: the list of a refresh that was already
\* running when the cache was invalidated.  get_all itself never stores a list
\* under a newer tag than the fetch deserves, whatever runs beside it.
OnlyRacingRefreshIsStale ==
    /\ \A e \in cache : e.by = "get_all" => e.fetchedAt >= e.generation
    /\ \A t \in Tasks : pc[t] = "done" =>
         \A e \in held[t] :
            \/ e.fetchedAt >= since[t]
            \/ e.by = "refresh" /\ e.begun < since[t]

\* Double-checked locking: once a get_all has stored the list of a generation, no
\* other get_all reaches the backend for that generation, unless a refresh
\* replaced the entry in between.
OneFetchPerGeneration ==
    \A t \in Tasks : pc[t] = "fetch" => seen[t] \notin filled

\* is_populated never answers TRUE before there is an entry to read: the flag is
\* raised after the store, in get_all and in refresh, and entries are never taken
\* away (invalidate only retags).
PopulatedHasEntry == populated => cache # {}

\* A get_all never replaces the cached list by an older one, because it fetches
\* under the write guard; only a refresh, which fetches without it, can.
GetAllNeverRegresses ==
    [][\A old \in cache, new \in cache' :
          new.by = "get_all" => new.version >= old.version]_cache

\* Every call ends: the guard is released on the hit, error and cancelled paths
\* too, so nobody waits for it for ever.
CallsEnd == \A t \in Tasks : (pc[t] # "idle") ~> (pc[t] = "idle")

(***************************************************************************)
(* What get_all and invalidate promise together, when nobody refreshes.    *)
(***************************************************************************)
PromisedCall(t) ==
    IF pc[t] \in GetAllPcs
    THEN {[since  |-> since[t],
           answer |-> {e.fetchedAt : e \in {h \in held[t] : pc[t] = "done"}}]}
    ELSE {}

Promise == INSTANCE CachePromise WITH
    Callers <- Getters,
    epoch   <- generation,
    call    <- [t \in Getters |-> PromisedCall(t)]

\* Without refreshes every answer was read from the backend no earlier than the
\* call's own generation: the cache implements CachePromise.
ImplementsPromise == Promise!Spec
=============================================================================
