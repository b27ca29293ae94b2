-------------------------- MODULE ToolCacheProofs --------------------------
(***************************************************************************)
(* Proofs about ToolCache for every number of tasks and every bound.       *)
(***************************************************************************)
EXTENDS ToolCache, TLAPS

Single(S) == \A x, y \in S : x = y

\* The write guard has one holder, and holding it is what the locked control
\* points are.
LockInv ==
    /\ Single(writer)
    /\ \A t \in Tasks : t \in writer <=> pc[t] \in LockedPcs

\* No cached entry is newer than the generation, and a list a get_all stored was
\* fetched no earlier than its tag says.
Sound(e) ==
    /\ e.generation <= generation
    /\ e.fetchedAt <= generation
    /\ e.begun <= e.fetchedAt
    /\ e.by = "get_all" => e.fetchedAt >= e.generation
    /\ e.by = "refresh" => Refreshers # {}

CacheInv ==
    /\ Single(cache)
    /\ \A e \in cache : Sound(e)
    /\ populated => cache # {}

\* What a task's locals hold at each control point.
LocalsInv ==
    \A t \in Tasks :
        /\ seen[t] <= generation /\ since[t] <= generation
        /\ pc[t] \in GetAllPcs => since[t] <= seen[t]
        /\ pc[t] \in RefreshPcs => t \in Refreshers
        /\ pc[t] \in GetAllPcs => t \in Getters
        /\ Single(held[t])
        /\ pc[t] \in {"store", "publish", "done"} =>
             /\ held[t] # {}
             /\ \A e \in held[t] : Sound(e) /\ e.generation = seen[t]
        /\ pc[t] \in {"store", "publish"} => \A e \in held[t] : e.by = "get_all"
        /\ pc[t] \in {"r_load", "r_store"} =>
             /\ held[t] # {}
             /\ \A e \in held[t] :
                    e.by = "refresh" /\ e.begun <= e.fetchedAt /\ e.fetchedAt <= generation
        /\ pc[t] \in {"publish", "r_publish"} => cache # {}

\* While a get_all holds the guard the cached tag cannot pass the generation it
\* loaded, and past its second check the two differ.
FillInv ==
    /\ filled # {} => cache # {}
    /\ \A g \in filled, e \in cache : g <= e.generation
    /\ \A t \in Tasks : pc[t] \in {"recheck", "fetch", "store"} =>
         \A e \in cache : e.generation <= seen[t]
    /\ \A t \in Tasks : pc[t] = "fetch" => \A e \in cache : e.generation # seen[t]

IInv == TypeOK /\ LockInv /\ CacheInv /\ LocalsInv /\ FillInv

\* The initial values have the types of TypeOK.
LEMMA InitTypes == Init => TypeOK
<1> SUFFICES ASSUME Init PROVE TypeOK
  OBVIOUS
<1>1. 0 \in Generations /\ 0 \in Versions
  BY BoundsAssumption DEF BoundsAssumption, Generations, Versions
<1> QED
  BY <1>1 DEF Init, TypeOK, Pcs

\* Every step keeps the types.
LEMMA TypeStep == TypeOK /\ [Next]_vars => TypeOK'
<1> SUFFICES ASSUME TypeOK, [Next]_vars PROVE TypeOK'
  OBVIOUS
<1> USE BoundsAssumption DEF BoundsAssumption, TypeOK, Entry, Generations, Versions, Pcs, GetAllPcs, RefreshPcs
<1>1. ASSUME NEW t \in Tasks, LoadGeneration(t) PROVE TypeOK'
  BY <1>1 DEF LoadGeneration, Goto
<1>2. ASSUME NEW t \in Tasks, ReadCache(t) PROVE TypeOK'
  BY <1>2 DEF ReadCache, Current
<1>3. ASSUME NEW t \in Tasks, AcquireWrite(t) PROVE TypeOK'
  BY <1>3 DEF AcquireWrite, Goto
<1>4. ASSUME NEW t \in Tasks, Recheck(t) PROVE TypeOK'
  BY <1>4 DEF Recheck, Current
<1>5. ASSUME NEW t \in Tasks, FetchAnswered(t) PROVE TypeOK'
  BY <1>5 DEF FetchAnswered, Goto, Answered
<1>6. ASSUME NEW t \in Tasks, FetchFailed(t) PROVE TypeOK'
  BY <1>6 DEF FetchFailed, Return
<1>7. ASSUME NEW t \in Tasks, StoreFetched(t) PROVE TypeOK'
  BY <1>7 DEF StoreFetched, Goto
<1>8. ASSUME NEW t \in Tasks, Publish(t) PROVE TypeOK'
  BY <1>8 DEF Publish, Goto
<1>9. ASSUME NEW t \in Tasks, GetAllReturns(t) PROVE TypeOK'
  BY <1>9 DEF GetAllReturns, Return
<1>10. ASSUME NEW t \in Tasks, RefreshBegins(t) PROVE TypeOK'
  BY <1>10 DEF RefreshBegins, Goto
<1>11. ASSUME NEW t \in Tasks, RefreshAnswered(t) PROVE TypeOK'
  BY <1>11 DEF RefreshAnswered, Goto, Answered
<1>12. ASSUME NEW t \in Tasks, RefreshFailed(t) PROVE TypeOK'
  BY <1>12 DEF RefreshFailed, Return
<1>13. ASSUME NEW t \in Tasks, RefreshLoads(t) PROVE TypeOK'
  BY <1>13 DEF RefreshLoads, Goto
<1>14. ASSUME NEW t \in Tasks, RefreshStores(t) PROVE TypeOK'
  BY <1>14 DEF RefreshStores, Goto
<1>15. ASSUME NEW t \in Tasks, RefreshPublishes(t) PROVE TypeOK'
  BY <1>15 DEF RefreshPublishes, Return
<1>16. ASSUME NEW t \in Tasks, InvalidateBumps(t) PROVE TypeOK'
  BY <1>16 DEF InvalidateBumps, Goto
<1>17. ASSUME NEW t \in Tasks, InvalidateClears(t) PROVE TypeOK'
  BY <1>17 DEF InvalidateClears, Goto
<1>18. ASSUME NEW t \in Tasks, Cancel(t) PROVE TypeOK'
  BY <1>18 DEF Cancel, Return
<1>19. CASE BackendChanges
  BY <1>19 DEF BackendChanges
<1>20. CASE UNCHANGED vars
  BY <1>20 DEF vars
<1> QED
  BY <1>1, <1>2, <1>3, <1>4, <1>5, <1>6, <1>7, <1>8, <1>9, <1>10, <1>11, <1>12, <1>13, <1>14, <1>15, <1>16, <1>17, <1>18, <1>19, <1>20 DEF Next, Locks, Runs

\* The variables keep their types, whatever the tasks and the bounds are.
THEOREM TypeCorrect == Spec => []TypeOK
BY InitTypes, TypeStep, PTL DEF Spec

\* A step preserves the ownership of the write guard.
LEMMA LockStep == TypeOK /\ LockInv /\ [Next]_vars => LockInv'
<1> SUFFICES ASSUME TypeOK, LockInv, [Next]_vars PROVE LockInv'
    OBVIOUS
<1> USE DEF TypeOK, LockInv, Single, Pcs, GetAllPcs, RefreshPcs, LockedPcs
<1>1. ASSUME NEW t \in Tasks, LoadGeneration(t) PROVE LockInv'
  BY <1>1 DEF LoadGeneration, Goto
<1>2. ASSUME NEW t \in Tasks, ReadCache(t) PROVE LockInv'
  BY <1>2 DEF ReadCache, Current
<1>3. ASSUME NEW t \in Tasks, AcquireWrite(t) PROVE LockInv'
  BY <1>3 DEF AcquireWrite, Goto
<1>4. ASSUME NEW t \in Tasks, Recheck(t) PROVE LockInv'
  BY <1>4 DEF Recheck, Current
<1>5. ASSUME NEW t \in Tasks, FetchAnswered(t) PROVE LockInv'
  BY <1>5 DEF FetchAnswered, Goto, Answered
<1>6. ASSUME NEW t \in Tasks, FetchFailed(t) PROVE LockInv'
  BY <1>6 DEF FetchFailed, Return
<1>7. ASSUME NEW t \in Tasks, StoreFetched(t) PROVE LockInv'
  BY <1>7 DEF StoreFetched, Goto
<1>8. ASSUME NEW t \in Tasks, Publish(t) PROVE LockInv'
  BY <1>8 DEF Publish, Goto
<1>9. ASSUME NEW t \in Tasks, GetAllReturns(t) PROVE LockInv'
  BY <1>9 DEF GetAllReturns, Return
<1>10. ASSUME NEW t \in Tasks, RefreshBegins(t) PROVE LockInv'
  BY <1>10 DEF RefreshBegins, Goto
<1>11. ASSUME NEW t \in Tasks, RefreshAnswered(t) PROVE LockInv'
  BY <1>11 DEF RefreshAnswered, Goto, Answered
<1>12. ASSUME NEW t \in Tasks, RefreshFailed(t) PROVE LockInv'
  BY <1>12 DEF RefreshFailed, Return
<1>13. ASSUME NEW t \in Tasks, RefreshLoads(t) PROVE LockInv'
  BY <1>13 DEF RefreshLoads, Goto
<1>14. ASSUME NEW t \in Tasks, RefreshStores(t) PROVE LockInv'
  BY <1>14 DEF RefreshStores, Goto
<1>15. ASSUME NEW t \in Tasks, RefreshPublishes(t) PROVE LockInv'
  BY <1>15 DEF RefreshPublishes, Return
<1>16. ASSUME NEW t \in Tasks, InvalidateBumps(t) PROVE LockInv'
  BY <1>16 DEF InvalidateBumps, Goto
<1>17. ASSUME NEW t \in Tasks, InvalidateClears(t) PROVE LockInv'
  BY <1>17 DEF InvalidateClears, Goto
<1>18. ASSUME NEW t \in Tasks, Cancel(t) PROVE LockInv'
  BY <1>18 DEF Cancel, Return
<1>19. CASE BackendChanges
  BY <1>19 DEF BackendChanges
<1>20. CASE UNCHANGED vars
  BY <1>20 DEF vars
<1> QED
  BY <1>1, <1>2, <1>3, <1>4, <1>5, <1>6, <1>7, <1>8, <1>9, <1>10, <1>11, <1>12, <1>13, <1>14, <1>15, <1>16, <1>17, <1>18, <1>19, <1>20 DEF Next, Locks, Runs

\* A step preserves the soundness of the cached entry.
LEMMA CacheStep == TypeOK /\ CacheInv /\ LocalsInv /\ [Next]_vars => CacheInv'
<1> SUFFICES ASSUME TypeOK, CacheInv, LocalsInv, [Next]_vars PROVE CacheInv'
    OBVIOUS
<1> USE DEF TypeOK, CacheInv, LocalsInv, Sound, Single, Entry, Generations, Pcs, GetAllPcs, RefreshPcs
<1>1. ASSUME NEW t \in Tasks, LoadGeneration(t) PROVE CacheInv'
  BY <1>1 DEF LoadGeneration, Goto
<1>2. ASSUME NEW t \in Tasks, ReadCache(t) PROVE CacheInv'
  BY <1>2 DEF ReadCache, Current
<1>3. ASSUME NEW t \in Tasks, AcquireWrite(t) PROVE CacheInv'
  BY <1>3 DEF AcquireWrite, Goto
<1>4. ASSUME NEW t \in Tasks, Recheck(t) PROVE CacheInv'
  BY <1>4 DEF Recheck, Current
<1>5. ASSUME NEW t \in Tasks, FetchAnswered(t) PROVE CacheInv'
  BY <1>5 DEF FetchAnswered, Goto, Answered
<1>6. ASSUME NEW t \in Tasks, FetchFailed(t) PROVE CacheInv'
  BY <1>6 DEF FetchFailed, Return
<1>7. ASSUME NEW t \in Tasks, StoreFetched(t) PROVE CacheInv'
  BY <1>7 DEF StoreFetched, Goto
<1>8. ASSUME NEW t \in Tasks, Publish(t) PROVE CacheInv'
  BY <1>8 DEF Publish, Goto
<1>9. ASSUME NEW t \in Tasks, GetAllReturns(t) PROVE CacheInv'
  BY <1>9 DEF GetAllReturns, Return
<1>10. ASSUME NEW t \in Tasks, RefreshBegins(t) PROVE CacheInv'
  BY <1>10 DEF RefreshBegins, Goto
<1>11. ASSUME NEW t \in Tasks, RefreshAnswered(t) PROVE CacheInv'
  BY <1>11 DEF RefreshAnswered, Goto, Answered
<1>12. ASSUME NEW t \in Tasks, RefreshFailed(t) PROVE CacheInv'
  BY <1>12 DEF RefreshFailed, Return
<1>13. ASSUME NEW t \in Tasks, RefreshLoads(t) PROVE CacheInv'
  BY <1>13 DEF RefreshLoads, Goto
<1>14. ASSUME NEW t \in Tasks, RefreshStores(t) PROVE CacheInv'
  <2>1. PICK e \in Entry : held[t] = {e}
    BY <1>14 DEF RefreshStores, Goto
  <2>2. cache' = {[e EXCEPT !.generation = seen[t]]}
    BY <1>14, <2>1 DEF RefreshStores
  <2>3. /\ e.by = "refresh" /\ e.begun <= e.fetchedAt /\ e.fetchedAt <= generation
        /\ seen[t] <= generation /\ Refreshers # {}
    BY <1>14, <2>1 DEF RefreshStores, Goto
  <2>4. \A x \in cache' : Sound(x)'
    BY <1>14, <2>2, <2>3 DEF RefreshStores
  <2> QED
    BY <2>2, <2>4
<1>15. ASSUME NEW t \in Tasks, RefreshPublishes(t) PROVE CacheInv'
  BY <1>15 DEF RefreshPublishes, Return
<1>16. ASSUME NEW t \in Tasks, InvalidateBumps(t) PROVE CacheInv'
  BY <1>16 DEF InvalidateBumps, Goto
<1>17. ASSUME NEW t \in Tasks, InvalidateClears(t) PROVE CacheInv'
  BY <1>17 DEF InvalidateClears, Goto
<1>18. ASSUME NEW t \in Tasks, Cancel(t) PROVE CacheInv'
  BY <1>18 DEF Cancel, Return
<1>19. CASE BackendChanges
  BY <1>19 DEF BackendChanges
<1>20. CASE UNCHANGED vars
  BY <1>20 DEF vars
<1> QED
  BY <1>1, <1>2, <1>3, <1>4, <1>5, <1>6, <1>7, <1>8, <1>9, <1>10, <1>11, <1>12, <1>13, <1>14, <1>15, <1>16, <1>17, <1>18, <1>19, <1>20 DEF Next, Locks, Runs

\* A step preserves what the locals hold.
LEMMA LocalsStep == TypeOK /\ LockInv /\ CacheInv /\ LocalsInv /\ [Next]_vars => LocalsInv'
<1> SUFFICES ASSUME TypeOK, LockInv, CacheInv, LocalsInv, [Next]_vars PROVE LocalsInv'
    OBVIOUS
<1> USE DEF TypeOK, LockInv, CacheInv, LocalsInv, Sound, Single, Entry, Generations, Pcs, GetAllPcs, RefreshPcs, LockedPcs
<1>1. ASSUME NEW t \in Tasks, LoadGeneration(t) PROVE LocalsInv'
  BY <1>1 DEF LoadGeneration, Goto
<1>2. ASSUME NEW t \in Tasks, ReadCache(t) PROVE LocalsInv'
  BY <1>2 DEF ReadCache, Current
<1>3. ASSUME NEW t \in Tasks, AcquireWrite(t) PROVE LocalsInv'
  BY <1>3 DEF AcquireWrite, Goto
<1>4. ASSUME NEW t \in Tasks, Recheck(t) PROVE LocalsInv'
  BY <1>4 DEF Recheck, Current
<1>5. ASSUME NEW t \in Tasks, FetchAnswered(t) PROVE LocalsInv'
  <2>1. PICK e : e = [generation |-> seen[t], version |-> backend, by |-> "get_all",
                      begun |-> since[t], fetchedAt |-> generation]
    OBVIOUS
  <2>2. held' = [held EXCEPT ![t] = {e}]
    BY <1>5, <2>1, Zenon DEF FetchAnswered, Answered
  <2>3. /\ e.generation = seen[t] /\ e.by = "get_all"
        /\ e.begun = since[t] /\ e.fetchedAt = generation
    BY <2>1
  <2>4. held'[t] = {e}
    BY <2>2
  <2> QED
    BY <1>5, <2>2, <2>3, <2>4 DEF FetchAnswered, Goto
<1>6. ASSUME NEW t \in Tasks, FetchFailed(t) PROVE LocalsInv'
  BY <1>6 DEF FetchFailed, Return
<1>7. ASSUME NEW t \in Tasks, StoreFetched(t) PROVE LocalsInv'
  BY <1>7 DEF StoreFetched, Goto
<1>8. ASSUME NEW t \in Tasks, Publish(t) PROVE LocalsInv'
  BY <1>8 DEF Publish, Goto
<1>9. ASSUME NEW t \in Tasks, GetAllReturns(t) PROVE LocalsInv'
  BY <1>9 DEF GetAllReturns, Return
<1>10. ASSUME NEW t \in Tasks, RefreshBegins(t) PROVE LocalsInv'
  BY <1>10 DEF RefreshBegins, Goto
<1>11. ASSUME NEW t \in Tasks, RefreshAnswered(t) PROVE LocalsInv'
  <2>1. PICK e : e = [generation |-> seen[t], version |-> backend, by |-> "refresh",
                      begun |-> since[t], fetchedAt |-> generation]
    OBVIOUS
  <2>2. held' = [held EXCEPT ![t] = {e}]
    BY <1>11, <2>1, Zenon DEF RefreshAnswered, Answered
  <2>3. /\ e.generation = seen[t] /\ e.by = "refresh"
        /\ e.begun = since[t] /\ e.fetchedAt = generation
    BY <2>1
  <2>4. held'[t] = {e}
    BY <2>2
  <2> QED
    BY <1>11, <2>2, <2>3, <2>4 DEF RefreshAnswered, Goto
<1>12. ASSUME NEW t \in Tasks, RefreshFailed(t) PROVE LocalsInv'
  BY <1>12 DEF RefreshFailed, Return
<1>13. ASSUME NEW t \in Tasks, RefreshLoads(t) PROVE LocalsInv'
  BY <1>13 DEF RefreshLoads, Goto
<1>14. ASSUME NEW t \in Tasks, RefreshStores(t) PROVE LocalsInv'
  <2>1. cache' # {}
    <3>1. PICK e \in Entry : held[t] = {e}
      BY <1>14 DEF RefreshStores, Goto
    <3>2. [e EXCEPT !.generation = seen[t]] \in cache'
      BY <1>14, <3>1 DEF RefreshStores
    <3> QED
      BY <3>2
  <2>2. /\ \A u \in Tasks : pc'[u] = IF u = t THEN "r_publish" ELSE pc[u]
        /\ UNCHANGED <<generation, seen, since, held>>
    BY <1>14 DEF RefreshStores, Goto
  <2> QED
    BY <1>14, <2>1, <2>2 DEF RefreshStores, Goto
<1>15. ASSUME NEW t \in Tasks, RefreshPublishes(t) PROVE LocalsInv'
  BY <1>15 DEF RefreshPublishes, Return
<1>16. ASSUME NEW t \in Tasks, InvalidateBumps(t) PROVE LocalsInv'
  BY <1>16 DEF InvalidateBumps, Goto
<1>17. ASSUME NEW t \in Tasks, InvalidateClears(t) PROVE LocalsInv'
  BY <1>17 DEF InvalidateClears, Goto
<1>18. ASSUME NEW t \in Tasks, Cancel(t) PROVE LocalsInv'
  BY <1>18 DEF Cancel, Return
<1>19. CASE BackendChanges
  BY <1>19 DEF BackendChanges
<1>20. CASE UNCHANGED vars
  BY <1>20 DEF vars
<1> QED
  BY <1>1, <1>2, <1>3, <1>4, <1>5, <1>6, <1>7, <1>8, <1>9, <1>10, <1>11, <1>12, <1>13, <1>14, <1>15, <1>16, <1>17, <1>18, <1>19, <1>20 DEF Next, Locks, Runs

\* A step preserves the bound on the cached tag while the guard is held.
LEMMA FillStep == TypeOK /\ LockInv /\ CacheInv /\ LocalsInv /\ FillInv /\ [Next]_vars => FillInv'
<1> SUFFICES ASSUME TypeOK, LockInv, CacheInv, LocalsInv, FillInv, [Next]_vars PROVE FillInv'
    OBVIOUS
<1> USE DEF TypeOK, LockInv, CacheInv, LocalsInv, FillInv, Sound, Single, Entry, Generations, Pcs, GetAllPcs, RefreshPcs, LockedPcs
<1>1. ASSUME NEW t \in Tasks, LoadGeneration(t) PROVE FillInv'
  BY <1>1 DEF LoadGeneration, Goto
<1>2. ASSUME NEW t \in Tasks, ReadCache(t) PROVE FillInv'
  BY <1>2 DEF ReadCache, Current
<1>3. ASSUME NEW t \in Tasks, AcquireWrite(t) PROVE FillInv'
  BY <1>3 DEF AcquireWrite, Goto
<1>4. ASSUME NEW t \in Tasks, Recheck(t) PROVE FillInv'
  BY <1>4 DEF Recheck, Current
<1>5. ASSUME NEW t \in Tasks, FetchAnswered(t) PROVE FillInv'
  BY <1>5 DEF FetchAnswered, Goto, Answered
<1>6. ASSUME NEW t \in Tasks, FetchFailed(t) PROVE FillInv'
  BY <1>6 DEF FetchFailed, Return
<1>7. ASSUME NEW t \in Tasks, StoreFetched(t) PROVE FillInv'
  BY <1>7 DEF StoreFetched, Goto
<1>8. ASSUME NEW t \in Tasks, Publish(t) PROVE FillInv'
  BY <1>8 DEF Publish, Goto
<1>9. ASSUME NEW t \in Tasks, GetAllReturns(t) PROVE FillInv'
  BY <1>9 DEF GetAllReturns, Return
<1>10. ASSUME NEW t \in Tasks, RefreshBegins(t) PROVE FillInv'
  BY <1>10 DEF RefreshBegins, Goto
<1>11. ASSUME NEW t \in Tasks, RefreshAnswered(t) PROVE FillInv'
  BY <1>11 DEF RefreshAnswered, Goto, Answered
<1>12. ASSUME NEW t \in Tasks, RefreshFailed(t) PROVE FillInv'
  BY <1>12 DEF RefreshFailed, Return
<1>13. ASSUME NEW t \in Tasks, RefreshLoads(t) PROVE FillInv'
  BY <1>13 DEF RefreshLoads, Goto
<1>14. ASSUME NEW t \in Tasks, RefreshStores(t) PROVE FillInv'
  BY <1>14 DEF RefreshStores, Goto
<1>15. ASSUME NEW t \in Tasks, RefreshPublishes(t) PROVE FillInv'
  BY <1>15 DEF RefreshPublishes, Return
<1>16. ASSUME NEW t \in Tasks, InvalidateBumps(t) PROVE FillInv'
  BY <1>16 DEF InvalidateBumps, Goto
<1>17. ASSUME NEW t \in Tasks, InvalidateClears(t) PROVE FillInv'
  BY <1>17 DEF InvalidateClears, Goto
<1>18. ASSUME NEW t \in Tasks, Cancel(t) PROVE FillInv'
  BY <1>18 DEF Cancel, Return
<1>19. CASE BackendChanges
  BY <1>19 DEF BackendChanges
<1>20. CASE UNCHANGED vars
  BY <1>20 DEF vars
<1> QED
  BY <1>1, <1>2, <1>3, <1>4, <1>5, <1>6, <1>7, <1>8, <1>9, <1>10, <1>11, <1>12, <1>13, <1>14, <1>15, <1>16, <1>17, <1>18, <1>19, <1>20 DEF Next, Locks, Runs


\* The conjunction of the four invariants and the types is inductive.
THEOREM Inductive == Spec => []IInv
<1>1. Init => IInv
  <2>1. Init => TypeOK
    BY InitTypes
  <2>2. Init => LockInv /\ CacheInv /\ FillInv
    BY DEF Init, LockInv, CacheInv, FillInv, Single, LockedPcs
  <2>3. Init => LocalsInv
    BY DEF Init, LocalsInv, Single, GetAllPcs, RefreshPcs
  <2> QED
    BY <2>1, <2>2, <2>3 DEF IInv
<1>2. IInv /\ [Next]_vars => IInv'
  BY TypeStep, LockStep, CacheStep, LocalsStep, FillStep DEF IInv
<1> QED
  BY <1>1, <1>2, PTL DEF Spec

\* Only the list of a refresh that an invalidation overtook can be older than the
\* call it answers: the freshness property of the runs, for any number of tasks.
THEOREM Staleness == Spec => []OnlyRacingRefreshIsStale
<1>1. IInv => OnlyRacingRefreshIsStale
  <2> SUFFICES ASSUME IInv PROVE OnlyRacingRefreshIsStale
    OBVIOUS
  <2>1. \A e \in cache : e.by = "get_all" => e.fetchedAt >= e.generation
    BY DEF IInv, CacheInv, Sound
  <2>2. ASSUME NEW t \in Tasks, pc[t] = "done", NEW e \in held[t]
        PROVE  e.fetchedAt >= since[t] \/ (e.by = "refresh" /\ e.begun < since[t])
    <3>1. /\ e.generation \in Nat /\ e.fetchedAt \in Nat /\ e.begun \in Nat
          /\ e.by \in {"get_all", "refresh"}
          /\ seen[t] \in Nat /\ since[t] \in Nat
      <4>1. e \in Entry /\ seen[t] \in Generations /\ since[t] \in Generations
        BY <2>2 DEF IInv, TypeOK
      <4> QED
        BY <4>1, BoundsAssumption DEF BoundsAssumption, Entry, Generations
    <3>2. /\ Sound(e) /\ e.generation = seen[t] /\ since[t] <= seen[t]
      BY <2>2 DEF IInv, LocalsInv, GetAllPcs
    <3> QED
      BY <3>1, <3>2 DEF Sound
  <2> QED
    BY <2>1, <2>2 DEF OnlyRacingRefreshIsStale
<1> QED
  BY Inductive, <1>1, PTL

\* The double check works: at most one get_all fetches for a generation as long as
\* no refresh replaces the entry.
THEOREM SingleFetch == Spec => []OneFetchPerGeneration
<1>1. IInv => OneFetchPerGeneration
  <2> SUFFICES ASSUME IInv, NEW t \in Tasks, pc[t] = "fetch", seen[t] \in filled
               PROVE  FALSE
    BY DEF OneFetchPerGeneration
  <2>1. PICK e \in cache : seen[t] <= e.generation
    BY DEF IInv, FillInv
  <2>2. e.generation <= seen[t] /\ e.generation # seen[t]
    BY DEF IInv, FillInv
  <2>3. e.generation \in Nat /\ seen[t] \in Nat
    BY BoundsAssumption DEF BoundsAssumption, IInv, TypeOK, Entry, Generations
  <2> QED
    BY <2>1, <2>2, <2>3
<1> QED
  BY Inductive, <1>1, PTL

\* The flag that is_populated reads is never ahead of the entry it announces.
THEOREM PopulatedSafe == Spec => []PopulatedHasEntry
<1>1. IInv => PopulatedHasEntry
  BY DEF IInv, CacheInv, PopulatedHasEntry
<1> QED
  BY Inductive, <1>1, PTL


\* Nothing cached or held is newer than the backend, and what a get_all is about to
\* store is at least as new as what it replaces.
VersionInv ==
    /\ \A e \in cache : e.version <= backend
    /\ \A t \in Tasks : \A e \in held[t] : e.version <= backend
    /\ \A t \in Tasks : pc[t] = "store" =>
         \A old \in cache, new \in held[t] : old.version <= new.version

\* A step preserves the order of the versions.
LEMMA VersionStep == IInv /\ VersionInv /\ [Next]_vars => VersionInv'
<1> SUFFICES ASSUME IInv, VersionInv, [Next]_vars PROVE VersionInv'
  OBVIOUS
<1> USE BoundsAssumption DEF BoundsAssumption, IInv, VersionInv, TypeOK, LockInv, Single, Entry, Versions, LockedPcs
<1>1. ASSUME NEW t \in Tasks, LoadGeneration(t) PROVE VersionInv'
  BY <1>1 DEF LoadGeneration, Goto
<1>2. ASSUME NEW t \in Tasks, ReadCache(t) PROVE VersionInv'
  BY <1>2 DEF ReadCache, Current
<1>3. ASSUME NEW t \in Tasks, AcquireWrite(t) PROVE VersionInv'
  BY <1>3 DEF AcquireWrite, Goto
<1>4. ASSUME NEW t \in Tasks, Recheck(t) PROVE VersionInv'
  BY <1>4 DEF Recheck, Current
<1>5. ASSUME NEW t \in Tasks, FetchAnswered(t) PROVE VersionInv'
  BY <1>5 DEF FetchAnswered, Goto, Answered
<1>6. ASSUME NEW t \in Tasks, FetchFailed(t) PROVE VersionInv'
  BY <1>6 DEF FetchFailed, Return
<1>7. ASSUME NEW t \in Tasks, StoreFetched(t) PROVE VersionInv'
  BY <1>7 DEF StoreFetched, Goto
<1>8. ASSUME NEW t \in Tasks, Publish(t) PROVE VersionInv'
  BY <1>8 DEF Publish, Goto
<1>9. ASSUME NEW t \in Tasks, GetAllReturns(t) PROVE VersionInv'
  BY <1>9 DEF GetAllReturns, Return
<1>10. ASSUME NEW t \in Tasks, RefreshBegins(t) PROVE VersionInv'
  BY <1>10 DEF RefreshBegins, Goto
<1>11. ASSUME NEW t \in Tasks, RefreshAnswered(t) PROVE VersionInv'
  BY <1>11 DEF RefreshAnswered, Goto, Answered
<1>12. ASSUME NEW t \in Tasks, RefreshFailed(t) PROVE VersionInv'
  BY <1>12 DEF RefreshFailed, Return
<1>13. ASSUME NEW t \in Tasks, RefreshLoads(t) PROVE VersionInv'
  BY <1>13 DEF RefreshLoads, Goto
<1>14. ASSUME NEW t \in Tasks, RefreshStores(t) PROVE VersionInv'
  BY <1>14 DEF RefreshStores, Goto
<1>15. ASSUME NEW t \in Tasks, RefreshPublishes(t) PROVE VersionInv'
  BY <1>15 DEF RefreshPublishes, Return
<1>16. ASSUME NEW t \in Tasks, InvalidateBumps(t) PROVE VersionInv'
  BY <1>16 DEF InvalidateBumps, Goto
<1>17. ASSUME NEW t \in Tasks, InvalidateClears(t) PROVE VersionInv'
  BY <1>17 DEF InvalidateClears, Goto
<1>18. ASSUME NEW t \in Tasks, Cancel(t) PROVE VersionInv'
  BY <1>18 DEF Cancel, Return
<1>19. CASE BackendChanges
  BY <1>19 DEF BackendChanges
<1>20. CASE UNCHANGED vars
  BY <1>20 DEF vars
<1> QED
  BY <1>1, <1>2, <1>3, <1>4, <1>5, <1>6, <1>7, <1>8, <1>9, <1>10, <1>11, <1>12, <1>13, <1>14, <1>15, <1>16, <1>17, <1>18, <1>19, <1>20 DEF Next, Locks, Runs

\* A get_all never replaces the cached list by an older one.
THEOREM NoRegress == Spec => GetAllNeverRegresses
<1>1. Init => VersionInv
  BY DEF Init, VersionInv
<1> DEFINE Step == \A old \in cache, new \in cache' :
                     new.by = "get_all" => new.version >= old.version
<1>2. IInv /\ VersionInv /\ [Next]_vars => [Step]_cache
  <2> SUFFICES ASSUME IInv, VersionInv, Next, cache' # cache PROVE Step
    BY DEF vars
  <2>1. PICK t \in Tasks : StoreFetched(t) \/ RefreshStores(t)
    BY DEF Next, Locks, Runs, BackendChanges, LoadGeneration, ReadCache, AcquireWrite,
           Recheck, FetchAnswered, FetchFailed, Publish, GetAllReturns, RefreshBegins,
           RefreshAnswered, RefreshFailed, RefreshLoads, RefreshPublishes,
           InvalidateBumps, InvalidateClears, Cancel
  <2>2. CASE StoreFetched(t)
    BY <2>2, BoundsAssumption
       DEF BoundsAssumption, StoreFetched, Goto, VersionInv, IInv, TypeOK, Entry, Versions
  <2>3. CASE RefreshStores(t)
    <3>1. \A e \in held[t] : e.by = "refresh" /\ e \in Entry
      BY <2>3 DEF RefreshStores, Goto, IInv, LocalsInv, TypeOK
    <3>2. \A new \in cache' : new.by = "refresh"
      BY <2>3, <3>1 DEF RefreshStores, Entry
    <3> QED
      BY <3>2
  <2> QED
    BY <2>1, <2>2, <2>3
<1> QED
  BY Inductive, <1>1, <1>2, VersionStep, PTL DEF Spec, GetAllNeverRegresses


----------------------------------------------------------------------------
(* The refinement *)

\* The abstract calls, as the refinement mapping gives them.
Calls == [u \in Getters |-> PromisedCall(u)]

\* A task whose control point and locals do not change keeps its abstract call.
Kept(u) == UNCHANGED <<pc[u], since[u], held[u]>>

\* One task changes its abstract call, the others keep theirs.
LEMMA OneCallChanges ==
    ASSUME NEW t \in Getters, NEW v, \A u \in Getters \ {t} : Kept(u), PromisedCall(t)' = v
    PROVE  Calls' = [Calls EXCEPT ![t] = v]
<1>1. \A u \in Getters \ {t} : PromisedCall(u)' = PromisedCall(u)
  BY DEF Kept, PromisedCall
<1> QED
  BY <1>1 DEF Calls

\* A task that moves inside its call, before the answer, keeps its abstract call.
LEMMA NoCallChanges ==
    ASSUME NEW t \in Tasks, \A u \in Getters \ {t} : Kept(u),
           \/ pc[t] \in GetAllPcs \ {"done"} /\ pc'[t] \in GetAllPcs \ {"done"}
           \/ pc[t] \notin GetAllPcs /\ pc'[t] \notin GetAllPcs,
           since'[t] = since[t] \/ pc[t] \notin GetAllPcs
    PROVE  Calls' = Calls
<1>1. \A u \in Getters : PromisedCall(u)' = PromisedCall(u)
  <2> SUFFICES ASSUME NEW u \in Getters PROVE PromisedCall(u)' = PromisedCall(u)
    OBVIOUS
  <2>1. CASE u = t
    BY <2>1 DEF PromisedCall
  <2>2. CASE u # t
    BY <2>2 DEF Kept, PromisedCall
  <2> QED
    BY <2>1, <2>2
<1> QED
  BY <1>1 DEF Calls

\* A get_all that finishes answers with a list of an epoch its call has seen.
LEMMA DoneAnswers ==
    ASSUME IInv, IInv', Refreshers = {}, NEW t \in Getters,
           \A u \in Getters \ {t} : Kept(u),
           pc[t] \in GetAllPcs \ {"done"}, pc'[t] = "done",
           since'[t] = since[t], generation' = generation
    PROVE  Promise!Answer(t)
<1>1. PICK e \in Entry : held'[t] = {e}
  BY DEF IInv, TypeOK, LocalsInv, Single, Tasks
<1>2. /\ e.fetchedAt <= generation /\ e.fetchedAt >= e.generation
      /\ e.generation = seen'[t] /\ since[t] <= seen'[t]
  <2>1. Sound(e)' /\ e.generation = seen'[t] /\ since'[t] <= seen'[t]
    BY <1>1 DEF IInv, LocalsInv, GetAllPcs, Tasks
  <2> QED
    BY <2>1 DEF Sound, Entry
<1>3. e.fetchedAt \in since[t] .. generation
  <2>1. /\ e.fetchedAt \in Nat /\ e.generation \in Nat /\ since[t] \in Nat
        /\ seen'[t] \in Nat /\ generation \in Nat
    BY BoundsAssumption DEF BoundsAssumption, Entry, Generations, IInv, TypeOK, Tasks
  <2> QED
    BY <1>2, <2>1
<1>4. PromisedCall(t) = {[since |-> since[t], answer |-> {}]}
  BY DEF PromisedCall
<1>5. PromisedCall(t)' = {[since |-> since[t], answer |-> {e.fetchedAt}]}
  BY <1>1 DEF PromisedCall, GetAllPcs
<1>6. Calls' = [Calls EXCEPT ![t] = {[since |-> since[t], answer |-> {e.fetchedAt}]}]
  BY <1>5, OneCallChanges
<1>7. Calls[t] = {[since |-> since[t], answer |-> {}]}
  BY <1>4 DEF Calls
<1> QED
  BY <1>3, <1>6, <1>7 DEF Promise!Answer, Calls

\* A get_all that goes idle ends its abstract call.
LEMMA IdleEnds ==
    ASSUME NEW t \in Getters, \A u \in Getters \ {t} : Kept(u),
           pc[t] \in GetAllPcs, pc'[t] = "idle", generation' = generation
    PROVE  Promise!End(t)
<1>1. PromisedCall(t) # {} /\ PromisedCall(t)' = {}
  BY DEF PromisedCall, GetAllPcs
<1>2. Calls' = [Calls EXCEPT ![t] = {}] /\ Calls[t] # {}
  BY <1>1, OneCallChanges DEF Calls
<1> QED
  BY <1>2 DEF Promise!End, Calls

\* A step of ToolCache without refreshes is a step of CachePromise or a stutter.
LEMMA PromiseStep ==
    ASSUME Refreshers = {}, IInv, IInv', [Next]_vars
    PROVE  [Promise!Next]_(Promise!vars)
<1> DEFINE Goal == Promise!Next \/ (Calls' = Calls /\ generation' = generation)
<1> USE DEF GetAllPcs
<1>a. \A t \in Tasks : pc[t] \in GetAllPcs => t \in Getters
  BY DEF IInv, LocalsInv
<1>b. \A t \in Tasks : pc[t] \notin RefreshPcs
  BY DEF IInv, LocalsInv
<1>c. \A t \in Tasks : pc[t] \in Pcs
  BY DEF IInv, TypeOK
<1> USE DEF IInv, TypeOK
<1>1. ASSUME NEW t \in Tasks, LoadGeneration(t) PROVE Goal
  <2>1. t \in Getters /\ \A u \in Getters \ {t} : Kept(u)
    BY <1>1 DEF LoadGeneration, Goto, Kept, Tasks
  <2>2. PromisedCall(t) = {} /\ PromisedCall(t)' = {[since |-> generation, answer |-> {}]}
    BY <1>1 DEF LoadGeneration, Goto, PromisedCall
  <2>3. Calls' = [Calls EXCEPT ![t] = {[since |-> generation, answer |-> {}]}] /\ Calls[t] = {}
    BY <2>1, <2>2, OneCallChanges DEF Calls
  <2> QED
    BY <1>1, <2>1, <2>3 DEF LoadGeneration, Promise!Begin, Promise!Next, Calls
<1>2. ASSUME NEW t \in Tasks, ReadCache(t) \/ Recheck(t) \/ Publish(t) PROVE Goal
  <2>1. t \in Getters /\ pc[t] \in GetAllPcs \ {"done"}
    BY <1>2, <1>a DEF ReadCache, Recheck, Publish, Goto
  <2>2. /\ \A u \in Getters \ {t} : Kept(u)
        /\ since'[t] = since[t] /\ generation' = generation
        /\ pc'[t] \in {"done", "write", "fetch"}
    BY <1>2 DEF ReadCache, Recheck, Publish, Goto, Kept, Tasks
  <2>3. CASE pc'[t] = "done"
    BY <2>1, <2>2, <2>3, DoneAnswers DEF Promise!Next
  <2>4. CASE pc'[t] # "done"
    BY <2>1, <2>2, <2>4, NoCallChanges
  <2> QED
    BY <2>3, <2>4
<1>3. ASSUME NEW t \in Tasks, AcquireWrite(t) \/ FetchAnswered(t) \/ StoreFetched(t)
      PROVE  Goal
  <2>1. /\ \A u \in Getters \ {t} : Kept(u)
        /\ since'[t] = since[t] /\ generation' = generation
        /\ pc[t] \in GetAllPcs \ {"done"} /\ pc'[t] \in GetAllPcs \ {"done"}
    BY <1>3 DEF AcquireWrite, FetchAnswered, StoreFetched, Goto, Kept, Tasks
  <2> QED
    BY <2>1, NoCallChanges
<1>4. ASSUME NEW t \in Tasks, FetchFailed(t) \/ GetAllReturns(t) \/ Cancel(t) PROVE Goal
  <2>1. /\ \A u \in Getters \ {t} : Kept(u)
        /\ pc'[t] = "idle" /\ generation' = generation /\ pc[t] \in GetAllPcs
    BY <1>4, <1>b DEF FetchFailed, GetAllReturns, Cancel, Return, Kept, Tasks, RefreshPcs
  <2> QED
    BY <2>1, <1>a, IdleEnds DEF Promise!Next
<1>5. ASSUME NEW t \in Tasks, InvalidateBumps(t) \/ InvalidateClears(t) PROVE Goal
  <2>1. /\ \A u \in Getters \ {t} : Kept(u)
        /\ pc[t] \notin GetAllPcs /\ pc'[t] \notin GetAllPcs
        /\ generation' = generation \/ generation' = generation + 1
    BY <1>5 DEF InvalidateBumps, InvalidateClears, Goto, Kept, Tasks
  <2>2. Calls' = Calls
    BY <2>1, NoCallChanges
  <2> QED
    BY <2>1, <2>2 DEF Promise!Next, Promise!Invalidate, Calls
<1>6. ASSUME NEW t \in Tasks,
             \/ RefreshBegins(t) \/ RefreshAnswered(t) \/ RefreshFailed(t)
             \/ RefreshLoads(t) \/ RefreshStores(t) \/ RefreshPublishes(t)
      PROVE  FALSE
  BY <1>6, <1>b DEF RefreshBegins, RefreshAnswered, RefreshFailed, RefreshLoads,
                    RefreshStores, RefreshPublishes, Goto, RefreshPcs
<1>7. ASSUME BackendChanges \/ UNCHANGED vars PROVE Goal
  BY <1>7 DEF BackendChanges, vars, Calls, PromisedCall
<1>8. Goal
  BY <1>1, <1>2, <1>3, <1>4, <1>5, <1>6, <1>7 DEF Next, Locks, Runs
<1> QED
  BY <1>8 DEF Promise!vars, Calls

\* get_all and invalidate implement the promised cache, for any tasks and bounds.
THEOREM Refinement == ASSUME Refreshers = {} PROVE Spec => ImplementsPromise
<1>1. Init => Promise!Init
  BY DEF Init, Promise!Init, PromisedCall, GetAllPcs, Tasks
<1>2. IInv /\ IInv' /\ [Next]_vars => [Promise!Next]_(Promise!vars)
  BY PromiseStep
<1> QED
  BY Inductive, <1>1, <1>2, PTL DEF Spec, ImplementsPromise, Promise!Spec

=============================================================================
