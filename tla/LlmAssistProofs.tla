--------------------------- MODULE LlmAssistProofs ---------------------------
(***************************************************************************)
(* Proofs about the local LLM: its preparation (LlmPreparation) for every  *)
(* set of callers, any of whom may be cancelled; the downloads of models   *)
(* (ModelStore) for any number of processes and pieces; the installation   *)
(* of llama-server (RuntimeStore) for any number of processes and          *)
(* archives; and a request (EphemeralServer) for any number of requests,   *)
(* ports and attempts, whatever the timeouts are.                          *)
(***************************************************************************)
EXTENDS LlmPreparation, ModelStore, RuntimeStore, EphemeralServer, TLAPS

----------------------------------------------------------------------------
(* LlmPreparation *)

\* Work is under way only in the state "preparing", by one caller; the state leaves
\* "not_started" once; outcomes are handed out only when one is recorded.
WorkInv ==
    /\ \A c, d \in Preparers : c = d
    /\ Preparers # {} => state = "preparing"
    /\ dropped => state = "preparing" /\ Preparers = {}
    /\ started = IF state = "not_started" THEN 0 ELSE 1
    /\ \A c \in Callers : task[c] = "finish" => outcome[c] \in Outcomes
    /\ \A c \in Callers : task[c] = "woken" => state \in Outcomes
    /\ answers # {} => answers = {state} /\ state \in Outcomes

ManagerInv == ManagerTypeOK /\ WorkInv

\* The invariant holds when the manager is created.
LEMMA ManagerInitInv == ManagerInit => ManagerInv
<1> SUFFICES ASSUME ManagerInit PROVE ManagerInv
  OBVIOUS
<1>1. /\ state \in States /\ task \in [Callers -> Pcs] /\ answers \subseteq States
      /\ outcome \in [Callers -> Outcomes \cup {"none"}] /\ started \in 0 .. 2
  BY DEF ManagerInit, Pcs, States
<1>2. Preparers = {} /\ dropped = FALSE /\ dropped \in BOOLEAN
  BY DEF ManagerInit, Preparers, PreparerPcs
<1>3. WorkInv
  BY <1>2 DEF ManagerInit, WorkInv
<1> QED
  BY <1>1, <1>2, <1>3 DEF ManagerInv, ManagerTypeOK

\* Every step, a cancellation too, preserves it.
LEMMA ManagerStepInv == ManagerInv /\ [ManagerNext]_managerVars => ManagerInv'
<1> SUFFICES ASSUME ManagerInv, [ManagerNext]_managerVars PROVE ManagerInv'
  OBVIOUS
<1> USE DEF ManagerInv, ManagerTypeOK, WorkInv, Preparers, Pcs, PreparerPcs, WaiterPcs, States, Outcomes, Moves
<1>1. ASSUME NEW c \in Callers, Call(c) PROVE ManagerInv'
  BY <1>1 DEF Call
<1>2. ASSUME NEW c \in Callers, EnterDone(c) PROVE ManagerInv'
  BY <1>2 DEF EnterDone
<1>3. ASSUME NEW c \in Callers, EnterWhilePreparing(c) PROVE ManagerInv'
  BY <1>3 DEF EnterWhilePreparing
<1>4. ASSUME NEW c \in Callers, EnterFirst(c) PROVE ManagerInv'
  BY <1>4 DEF EnterFirst
<1>5. ASSUME NEW c \in Callers, InnerFails(c) PROVE ManagerInv'
  BY <1>5 DEF InnerFails
<1>6. ASSUME NEW c \in Callers, RuntimeEnsured(c) PROVE ManagerInv'
  BY <1>6 DEF RuntimeEnsured
<1>7. ASSUME NEW c \in Callers, ModelEnsured(c) PROVE ManagerInv'
  BY <1>7 DEF ModelEnsured
<1>8. ASSUME NEW c \in Callers, Finish(c) PROVE ManagerInv'
  BY <1>8 DEF Finish
<1>9. ASSUME NEW c \in Callers, Subscribe(c) PROVE ManagerInv'
  BY <1>9 DEF Subscribe
<1>10. ASSUME NEW c \in Callers, WokenChecks(c) PROVE ManagerInv'
  BY <1>10 DEF WokenChecks
<1>11. ASSUME NEW c \in Callers, Cancel(c) PROVE ManagerInv'
  BY <1>11 DEF Cancel
<1>12. CASE UNCHANGED managerVars
  BY <1>12 DEF managerVars
<1> QED
  BY <1>1, <1>2, <1>3, <1>4, <1>5, <1>6, <1>7, <1>8, <1>9, <1>10, <1>11, <1>12
     DEF ManagerNext, Proceeds

\* The types and the invariant hold in every behaviour.
THEOREM ManagerInductive == ManagerSpec => []ManagerInv
BY ManagerInitInv, ManagerStepInv, PTL DEF ManagerSpec

\* prepare_inner runs at most once, whoever calls and whoever is cancelled.
THEOREM OncePrepared == ManagerSpec => []PreparedOnce
<1>1. ManagerInv => PreparedOnce
  BY DEF ManagerInv, WorkInv, PreparedOnce
<1> QED
  BY ManagerInductive, <1>1, PTL

\* Every caller that is answered gets the one recorded outcome.
THEOREM AllAgree == ManagerSpec => []Agreement
<1>1. ManagerInv => Agreement
  BY DEF ManagerInv, WorkInv, Agreement
<1> QED
  BY ManagerInductive, <1>1, PTL

\* The waiters' loop is left at the first turn: its last arm is never taken.
THEOREM WokenOnce == ManagerSpec => []WokenFindsOutcome
<1>1. ManagerInv => WokenFindsOutcome
  BY DEF ManagerInv, WorkInv, WokenFindsOutcome
<1> QED
  BY ManagerInductive, <1>1, PTL

\* "preparing" means that somebody prepares or that the preparer was dropped.
THEOREM SomeonePrepares == ManagerSpec => []PreparingHasPreparer
<1>1. ManagerInit => PreparingHasPreparer
  BY DEF ManagerInit, PreparingHasPreparer, Preparers, PreparerPcs
<1>2. ManagerInv /\ PreparingHasPreparer /\ [ManagerNext]_managerVars => PreparingHasPreparer'
  <2> SUFFICES ASSUME ManagerInv, PreparingHasPreparer, [ManagerNext]_managerVars, state' = "preparing", ~dropped'
               PROVE  Preparers' # {}
    <3>1. ManagerInv /\ [ManagerNext]_managerVars => ManagerInv'
      BY ManagerStepInv
    <3>2. WorkInv' => (Preparers' # {} \/ dropped' => state' = "preparing")
      BY DEF WorkInv
    <3> QED
      BY <3>1, <3>2 DEF PreparingHasPreparer, ManagerInv
  <2> USE DEF ManagerInv, ManagerTypeOK, WorkInv, Preparers, PreparerPcs, Outcomes, Moves
  <2>1. ASSUME NEW c \in Callers, EnterFirst(c) PROVE Preparers' # {}
    BY <2>1 DEF EnterFirst
  <2>2. ASSUME NEW c \in Callers, Proceeds(c) \/ Call(c) \/ Cancel(c), ~EnterFirst(c)
        PROVE Preparers' # {}
    <3>1. PICK d \in Callers : task[d] \in PreparerPcs
      BY <2>2 DEF PreparingHasPreparer, Proceeds, Call, EnterDone, EnterWhilePreparing, Cancel,
                  InnerFails, RuntimeEnsured, ModelEnsured, Finish, Subscribe, WokenChecks
    <3>2. task'[d] \in PreparerPcs
      BY <2>2, <3>1 DEF Proceeds, Call, EnterDone, EnterWhilePreparing, InnerFails, Cancel,
                        RuntimeEnsured, ModelEnsured, Finish, Subscribe, WokenChecks
    <3> QED
      BY <3>2
  <2>3. CASE UNCHANGED managerVars
    BY <2>3 DEF managerVars, PreparingHasPreparer
  <2> QED
    BY <2>1, <2>2, <2>3 DEF ManagerNext
<1> QED
  BY ManagerInductive, <1>1, <1>2, PTL DEF ManagerSpec

----------------------------------------------------------------------------
(* ModelStore.  As long as no lock was severed, whoever waits for or holds   *)
(* the lock has opened the file that the lock path still names               *)
(* (LockIsNamed), so holders exclude each other (OneDownload); the one that  *)
(* is past the second look knows that there is no model (NothingCached), and *)
(* its partial file holds exactly the pieces it counted (PartialIsCounted).  *)

LockIsNamed ==
    \A p \in Downloaders : phase[p] \in {"lock"} \cup LockedPhases =>
        lockFd[p] = entry["lock"] /\ lockFd[p] # NoFile

NothingCached ==
    \A p \in Downloaders : phase[p] \in {"create", "stream", "check"} => entry["model"] = NoFile

NothingCounted ==
    \A p \in Downloaders : phase[p] \in {"idle", "open", "lock", "recheck", "create"} => written[p] = 0

PartialIsCounted ==
    \A p \in Downloaders :
        /\ phase[p] = "stream" =>
             /\ partFd[p] # NoFile
             /\ entry["part"] \in {partFd[p], NoFile}
             /\ data[partFd[p]] = 1 .. written[p]
        /\ phase[p] = "check" /\ entry["part"] # NoFile => data[entry["part"]] = 1 .. written[p]

ModelInv ==
    /\ ModelTypeOK
    /\ NothingCounted
    /\ OneDownload
    /\ CachedIsComplete
    /\ severed \/ (LockIsNamed /\ NothingCached /\ PartialIsCounted)

\* Opening a path with O_CREAT gives a file, if the bound leaves one.
LEMMA OpenedIsFile ==
    ASSUME NEW n \in Paths, CanOpen(n), ModelTypeOK
    PROVE  Opened(n) \in Inodes /\ Opened(n) # NoFile
<1>1. CASE entry[n] # NoFile
  BY <1>1, ModelAssumption DEF Opened, ModelTypeOK, Files, ModelAssumption
<1>2. CASE entry[n] = NoFile
  <2>1. \E i \in Inodes : i \notin InUse
    BY <1>2 DEF CanOpen
  <2>2. (CHOOSE i \in Inodes : i \notin InUse) \in Inodes
    BY <2>1
  <2> QED BY <1>2, <2>2, ModelAssumption DEF Opened, ModelAssumption
<1> QED BY <1>1, <1>2

\* A call that returns is idle, with nothing open and nothing counted.
LEMMA EndType ==
    ASSUME NEW p \in Downloaders, ModelTypeOK, End(p)
    PROVE  /\ phase' \in [Downloaders -> Phases]
           /\ lockFd' \in [Downloaders -> Files]
           /\ partFd' \in [Downloaders -> Files]
           /\ written' \in [Downloaders -> 0 .. Size]
BY ModelAssumption DEF End, ModelTypeOK, Phases, Files, ModelAssumption

\* The files that are in use keep what they hold, the others hold nothing.
LEMMA FreedType ==
    ASSUME ModelTypeOK, Freed
    PROVE  /\ data' \in [Inodes -> SUBSET Pieces]
           /\ \A i \in Inodes : i \in InUse' => data'[i] = data[i]
BY DEF Freed, ModelTypeOK

\* Every state has the types of the variables.
THEOREM TypeStep == ModelTypeOK /\ [ModelNext]_modelVars => ModelTypeOK'
<1> SUFFICES ASSUME ModelTypeOK, [ModelNext]_modelVars PROVE ModelTypeOK'
  OBVIOUS
<1> USE DEF Proceed, Files, Phases, LockedPhases, Paths
<1>1. ASSUME NEW p \in Downloaders, Ensure(p) PROVE ModelTypeOK'
  BY <1>1 DEF ModelTypeOK, Ensure
<1>2. ASSUME NEW p \in Downloaders, OpenLock(p) PROVE ModelTypeOK'
  BY <1>2, OpenedIsFile DEF ModelTypeOK, OpenLock
<1>3. ASSUME NEW p \in Downloaders, LockExclusive(p) PROVE ModelTypeOK'
  BY <1>3 DEF ModelTypeOK, LockExclusive
<1>4. ASSUME NEW p \in Downloaders, SecondLook(p) PROVE ModelTypeOK'
  <2>1. CASE entry["model"] # NoFile
    BY <1>4, <2>1, EndType, FreedType DEF ModelTypeOK, SecondLook
  <2>2. CASE entry["model"] = NoFile
    BY <1>4, <2>2 DEF ModelTypeOK, SecondLook
  <2> QED BY <2>1, <2>2
<1>5. ASSUME NEW p \in Downloaders, CreatePartial(p) PROVE ModelTypeOK'
  BY <1>5, OpenedIsFile DEF ModelTypeOK, CreatePartial
<1>6. ASSUME NEW p \in Downloaders, ReceivePiece(p) PROVE ModelTypeOK'
  <2>1. written[p] + 1 \in 0 .. Size /\ written[p] + 1 \in Pieces
    BY <1>6, ModelAssumption DEF ModelTypeOK, ReceivePiece, Pieces, ModelAssumption
  <2> QED BY <1>6, <2>1 DEF ModelTypeOK, ReceivePiece
<1>7. ASSUME NEW p \in Downloaders, StreamEnds(p) PROVE ModelTypeOK'
  BY <1>7, FreedType DEF ModelTypeOK, StreamEnds
<1>8. ASSUME NEW p \in Downloaders, RejectShort(p) \/ FailsMissing(p) PROVE ModelTypeOK'
  BY <1>8, EndType, FreedType DEF ModelTypeOK, RejectShort, FailsMissing
<1>9. ASSUME NEW p \in Downloaders, RenamePartial(p) PROVE ModelTypeOK'
  BY <1>9, FreedType DEF ModelTypeOK, RenamePartial
<1>10. ASSUME NEW p \in Downloaders, WriteModelManifest(p) PROVE ModelTypeOK'
  BY <1>10, EndType, FreedType DEF ModelTypeOK, WriteModelManifest
<1>11. ASSUME NEW p \in Downloaders, EnsureStops(p) PROVE ModelTypeOK'
  BY <1>11, EndType, FreedType DEF ModelTypeOK, EnsureStops
<1>12. CASE RemoveBegins
  BY <1>12 DEF ModelTypeOK, RemoveBegins
<1>13. ASSUME NEW n \in Paths, RemoveEntry(n) PROVE ModelTypeOK'
  BY <1>13, FreedType DEF ModelTypeOK, RemoveEntry
<1>14. CASE RemoveEnds
  BY <1>14 DEF ModelTypeOK, RemoveEnds
<1>15. CASE UNCHANGED modelVars
  BY <1>15 DEF ModelTypeOK, modelVars
<1> QED
  BY <1>1, <1>2, <1>3, <1>4, <1>5, <1>6, <1>7, <1>8, <1>9, <1>10, <1>11, <1>12, <1>13,
     <1>14, <1>15 DEF ModelNext, Ensures

\* The cache is empty at first, and nobody is in a call.
LEMMA ModelInitInv == ModelInit => ModelInv
<1> SUFFICES ASSUME ModelInit PROVE ModelInv
  OBVIOUS
<1>1. ModelTypeOK
  <2>1. 0 \in 0 .. Size
    BY ModelAssumption DEF ModelAssumption
  <2> QED BY <2>1 DEF ModelInit, ModelTypeOK, Files, Phases, Paths
<1>2. NothingCounted /\ OneDownload /\ CachedIsComplete
  BY DEF ModelInit, NothingCounted, OneDownload, CachedIsComplete, LockedPhases, Paths
<1>3. LockIsNamed /\ NothingCached /\ PartialIsCounted
  BY DEF ModelInit, LockIsNamed, NothingCached, PartialIsCounted, LockedPhases, Paths
<1> QED BY <1>1, <1>2, <1>3 DEF ModelInv

\* A severed lock stays severed.
LEMMA SeveredStays == ModelTypeOK /\ [ModelNext]_modelVars /\ severed => severed'
BY DEF ModelNext, Ensures, modelVars, Ensure, OpenLock, LockExclusive, SecondLook, CreatePartial, ReceivePiece,
       StreamEnds, RejectShort, RenamePartial, FailsMissing, WriteModelManifest, EnsureStops, RemoveBegins, RemoveEntry,
       RemoveEnds

\* A call that has not begun to receive has counted nothing.
LEMMA CountedStep == ModelTypeOK /\ NothingCounted /\ [ModelNext]_modelVars => NothingCounted'
<1> SUFFICES ASSUME ModelTypeOK, NothingCounted, [ModelNext]_modelVars PROVE NothingCounted'
  OBVIOUS
<1> USE DEF Proceed, NothingCounted, ModelTypeOK
<1>1. ASSUME NEW p \in Downloaders, Ensure(p) \/ LockExclusive(p) \/ OpenLock(p) PROVE NothingCounted'
  BY <1>1 DEF Ensure, LockExclusive, OpenLock
<1>2. ASSUME NEW p \in Downloaders, SecondLook(p) PROVE NothingCounted'
  BY <1>2 DEF SecondLook, End
<1>3. ASSUME NEW p \in Downloaders, CreatePartial(p) \/ StreamEnds(p) \/ RenamePartial(p)
      PROVE  NothingCounted'
  BY <1>3 DEF CreatePartial, StreamEnds, RenamePartial
<1>4. ASSUME NEW p \in Downloaders, ReceivePiece(p) PROVE NothingCounted'
  BY <1>4 DEF ReceivePiece
<1>5. ASSUME NEW p \in Downloaders, RejectShort(p) \/ FailsMissing(p) \/ WriteModelManifest(p) \/ EnsureStops(p)
      PROVE  NothingCounted'
  BY <1>5 DEF RejectShort, FailsMissing, WriteModelManifest, EnsureStops, End
<1>6. CASE RemoveBegins \/ (\E n \in Paths : RemoveEntry(n)) \/ RemoveEnds \/ UNCHANGED modelVars
  BY <1>6 DEF RemoveBegins, RemoveEntry, RemoveEnds, modelVars
<1> QED BY <1>1, <1>2, <1>3, <1>4, <1>5, <1>6 DEF ModelNext, Ensures

\* Whoever waits for the lock or holds it has the file open that the path names, unless
\* a removal severed it.
LEMMA NamedStep == ModelTypeOK /\ LockIsNamed /\ [ModelNext]_modelVars => severed' \/ LockIsNamed'
<1> SUFFICES ASSUME ModelTypeOK, LockIsNamed, [ModelNext]_modelVars, ~severed' PROVE LockIsNamed'
  OBVIOUS
<1> USE DEF Proceed, LockIsNamed, ModelTypeOK, LockedPhases, Paths
<1>1. ASSUME NEW p \in Downloaders, Ensure(p) \/ LockExclusive(p) PROVE LockIsNamed'
  BY <1>1 DEF Ensure, LockExclusive
<1>2. ASSUME NEW p \in Downloaders, OpenLock(p) PROVE LockIsNamed'
  <2>1. Opened("lock") # NoFile
    BY <1>2, OpenedIsFile DEF OpenLock
  <2>2. entry["lock"] # NoFile => Opened("lock") = entry["lock"]
    BY DEF Opened
  <2> QED BY <1>2, <2>1, <2>2 DEF OpenLock
<1>3. ASSUME NEW p \in Downloaders, SecondLook(p) PROVE LockIsNamed'
  BY <1>3 DEF SecondLook, End
<1>4. ASSUME NEW p \in Downloaders, CreatePartial(p) \/ ReceivePiece(p) \/ StreamEnds(p)
      PROVE  LockIsNamed'
  BY <1>4 DEF CreatePartial, ReceivePiece, StreamEnds
<1>5. ASSUME NEW p \in Downloaders, RenamePartial(p) PROVE LockIsNamed'
  BY <1>5 DEF RenamePartial
<1>6. ASSUME NEW p \in Downloaders, RejectShort(p) \/ FailsMissing(p) \/ WriteModelManifest(p) \/ EnsureStops(p)
      PROVE  LockIsNamed'
  BY <1>6 DEF RejectShort, FailsMissing, WriteModelManifest, EnsureStops, End
<1>7. ASSUME NEW n \in Paths, RemoveEntry(n) PROVE LockIsNamed'
  BY <1>7 DEF RemoveEntry
<1>8. CASE RemoveBegins \/ RemoveEnds \/ UNCHANGED modelVars
  BY <1>8 DEF RemoveBegins, RemoveEnds, modelVars
<1> QED BY <1>1, <1>2, <1>3, <1>4, <1>5, <1>6, <1>7, <1>8 DEF ModelNext, Ensures

\* A process takes the lock only when nobody has it: they would have the same file open.
LEMMA ExclusionStep == ModelInv /\ [ModelNext]_modelVars => OneDownload'
<1> SUFFICES ASSUME ModelInv, [ModelNext]_modelVars, ~severed' PROVE OneDownload'
  BY DEF OneDownload
<1>1. ModelTypeOK /\ OneDownload /\ LockIsNamed /\ ~severed
  BY SeveredStays DEF ModelInv
<1>2. ASSUME NEW p \in Downloaders, LockExclusive(p) PROVE OneDownload'
  <2>1. \A q \in Downloaders \ {p} : phase[q] \notin LockedPhases
    BY <1>1, <1>2 DEF LockExclusive, Proceed, LockIsNamed
  <2> QED BY <1>1, <1>2, <2>1 DEF LockExclusive, Proceed, OneDownload, ModelTypeOK
<1>3. ASSUME ~\E p \in Downloaders : LockExclusive(p)
      PROVE  \A q \in Downloaders : phase'[q] \in LockedPhases => phase[q] \in LockedPhases
  BY <1>1, <1>3
     DEF ModelNext, Ensures, modelVars, Ensure, OpenLock, SecondLook, CreatePartial, ReceivePiece, StreamEnds,
         RejectShort, RenamePartial, FailsMissing, WriteModelManifest, EnsureStops, End, RemoveBegins, RemoveEntry,
         RemoveEnds, Proceed, ModelTypeOK, LockedPhases
<1> QED BY <1>1, <1>2, <1>3 DEF OneDownload

\* Past the second look under the lock there is no model, until the rename.
LEMMA NothingCachedStep == ModelInv /\ [ModelNext]_modelVars => severed' \/ NothingCached'
<1> SUFFICES ASSUME ModelInv, [ModelNext]_modelVars, ~severed' PROVE NothingCached'
  OBVIOUS
<1>1. ModelTypeOK /\ OneDownload /\ NothingCached /\ ~severed
  BY SeveredStays DEF ModelInv
<1> USE <1>1 DEF Proceed, NothingCached, ModelTypeOK, Paths
<1>2. ASSUME NEW p \in Downloaders, Ensure(p) \/ LockExclusive(p) \/ OpenLock(p) PROVE NothingCached'
  BY <1>2 DEF Ensure, LockExclusive, OpenLock
<1>3. ASSUME NEW p \in Downloaders, SecondLook(p) PROVE NothingCached'
  BY <1>3 DEF SecondLook, End
<1>4. ASSUME NEW p \in Downloaders, CreatePartial(p) \/ ReceivePiece(p) \/ StreamEnds(p)
      PROVE  NothingCached'
  BY <1>4 DEF CreatePartial, ReceivePiece, StreamEnds
<1>5. ASSUME NEW p \in Downloaders, RenamePartial(p) PROVE NothingCached'
  BY <1>5 DEF RenamePartial, OneDownload, LockedPhases
<1>6. ASSUME NEW p \in Downloaders, RejectShort(p) \/ FailsMissing(p) \/ WriteModelManifest(p) \/ EnsureStops(p)
      PROVE  NothingCached'
  BY <1>6 DEF RejectShort, FailsMissing, WriteModelManifest, EnsureStops, End
<1>7. CASE RemoveBegins \/ (\E n \in Paths : RemoveEntry(n)) \/ RemoveEnds \/ UNCHANGED modelVars
  BY <1>7 DEF RemoveBegins, RemoveEntry, RemoveEnds, modelVars
<1> QED BY <1>2, <1>3, <1>4, <1>5, <1>6, <1>7 DEF ModelNext, Ensures

\* The partial file of the one download holds the pieces that it counted.
LEMMA PartialStep == ModelInv /\ [ModelNext]_modelVars => severed' \/ PartialIsCounted'
<1> SUFFICES ASSUME ModelInv, [ModelNext]_modelVars, ~severed' PROVE PartialIsCounted'
  OBVIOUS
<1>1. /\ ModelTypeOK /\ OneDownload /\ PartialIsCounted /\ NothingCounted /\ ~severed
  BY SeveredStays DEF ModelInv
<1>2. OneDownload' /\ ModelTypeOK'
  BY ExclusionStep, TypeStep, <1>1
<1> USE <1>1 DEF Proceed, PartialIsCounted, ModelTypeOK, Paths
<1>3. ASSUME NEW p \in Downloaders, Ensure(p) \/ LockExclusive(p) \/ OpenLock(p)
      PROVE  PartialIsCounted'
  BY <1>3 DEF Ensure, LockExclusive, OpenLock
<1>4. ASSUME NEW p \in Downloaders, SecondLook(p) PROVE PartialIsCounted'
  <2>1. CASE entry["model"] = NoFile
    BY <1>4, <2>1 DEF SecondLook
  <2>2. CASE entry["model"] # NoFile
    BY <1>4, <2>2 DEF SecondLook, End, OneDownload, LockedPhases
  <2> QED BY <2>1, <2>2
<1>5. ASSUME NEW p \in Downloaders, CreatePartial(p) PROVE PartialIsCounted'
  <2>1. Opened("part") \in Inodes /\ Opened("part") # NoFile
    BY <1>5, OpenedIsFile DEF CreatePartial
  <2>2. phase'[p] = "stream" /\ partFd'[p] = Opened("part") /\ entry'["part"] = Opened("part")
    BY <1>5 DEF CreatePartial
  <2>3. data'[Opened("part")] = {} /\ written'[p] = 0
    BY <1>5, <2>1 DEF CreatePartial, NothingCounted
  <2>4. \A q \in Downloaders \ {p} : phase'[q] \notin LockedPhases
    BY <1>2, <2>2 DEF OneDownload, LockedPhases
  <2>5. data'[partFd'[p]] = 1 .. written'[p] /\ phase'[p] # "check"
    BY <2>2, <2>3
  <2> QED BY <2>1, <2>2, <2>4, <2>5 DEF LockedPhases
<1>6. ASSUME NEW p \in Downloaders, ReceivePiece(p) PROVE PartialIsCounted'
  <2>1. \A q \in Downloaders \ {p} : phase'[q] \notin LockedPhases
    BY <1>6 DEF ReceivePiece, OneDownload, LockedPhases
  <2>2. data'[partFd[p]] = (1 .. written[p]) \cup {written[p] + 1} /\ written'[p] = written[p] + 1
    BY <1>6, ModelAssumption DEF ReceivePiece, ModelAssumption, Files
  <2>3. (1 .. written[p]) \cup {written[p] + 1} = 1 .. (written[p] + 1)
    OBVIOUS
  <2> QED BY <1>6, <2>1, <2>2, <2>3 DEF ReceivePiece, LockedPhases
<1>7. ASSUME NEW p \in Downloaders, StreamEnds(p) PROVE PartialIsCounted'
  <2>1. \A q \in Downloaders \ {p} : phase'[q] \notin LockedPhases
    BY <1>7 DEF StreamEnds, OneDownload, LockedPhases
  <2>2. phase'[p] = "check" /\ entry' = entry /\ written' = written
    BY <1>7 DEF StreamEnds
  <2>3. entry["part"] # NoFile => data[entry["part"]] = 1 .. written[p]
    BY <1>7 DEF StreamEnds
  <2>4. entry["part"] # NoFile => data'[entry["part"]] = data[entry["part"]]
    BY <1>7, <2>2, FreedType DEF StreamEnds, InUse, Files
  <2> QED BY <2>1, <2>2, <2>3, <2>4 DEF LockedPhases
<1>8. ASSUME NEW p \in Downloaders, RenamePartial(p) PROVE PartialIsCounted'
  <2>1. \A q \in Downloaders \ {p} : phase'[q] \notin LockedPhases
    BY <1>8 DEF RenamePartial, OneDownload, LockedPhases
  <2> QED BY <1>8, <2>1 DEF RenamePartial, LockedPhases
<1>9. ASSUME NEW p \in Downloaders, RejectShort(p) \/ FailsMissing(p) \/ WriteModelManifest(p) PROVE PartialIsCounted'
  <2>1. \A q \in Downloaders : phase'[q] \notin LockedPhases
    BY <1>9 DEF RejectShort, FailsMissing, WriteModelManifest, OneDownload, End, LockedPhases
  <2> QED BY <2>1 DEF LockedPhases
<1>10. ASSUME NEW p \in Downloaders, EnsureStops(p) PROVE PartialIsCounted'
  <2>1. \A q \in Downloaders : phase'[q] \in LockedPhases => q # p /\ phase'[q] = phase[q]
    BY <1>10 DEF EnsureStops, End, LockedPhases
  <2>2. \A q \in Downloaders \ {p} : partFd'[q] = partFd[q] /\ written'[q] = written[q]
    BY <1>10 DEF EnsureStops, End
  <2>3. entry' = entry /\ \A i \in InUse' : i \in Inodes => data'[i] = data[i]
    BY <1>10, FreedType DEF EnsureStops
  <2>4. \A q \in Downloaders \ {p} : partFd[q] # NoFile => data'[partFd[q]] = data[partFd[q]]
    BY <2>2, <2>3 DEF InUse, Files
  <2>5. entry["part"] # NoFile => data'[entry["part"]] = data[entry["part"]]
    BY <2>3 DEF InUse, Files
  <2> QED BY <2>1, <2>2, <2>3, <2>4, <2>5 DEF LockedPhases
<1>11. ASSUME NEW n \in Paths, RemoveEntry(n) PROVE PartialIsCounted'
  <2>1. phase' = phase /\ partFd' = partFd /\ written' = written
    BY <1>11 DEF RemoveEntry
  <2>2. entry'["part"] \in {entry["part"], NoFile}
    BY <1>11 DEF RemoveEntry
  <2>3. \A i \in InUse' : i \in Inodes => data'[i] = data[i]
    BY <1>11, FreedType DEF RemoveEntry
  <2>4. \A q \in Downloaders : partFd[q] # NoFile => data'[partFd[q]] = data[partFd[q]]
    BY <2>1, <2>3 DEF InUse, Files
  <2>5. entry'["part"] # NoFile => data'[entry'["part"]] = data[entry["part"]]
    BY <2>2, <2>3 DEF InUse, Files
  <2> QED BY <2>1, <2>2, <2>4, <2>5
<1>12. CASE RemoveBegins \/ RemoveEnds \/ UNCHANGED modelVars
  BY <1>12 DEF RemoveBegins, RemoveEnds, modelVars
<1> QED BY <1>3, <1>4, <1>5, <1>6, <1>7, <1>8, <1>9, <1>10, <1>11, <1>12 DEF ModelNext, Ensures

\* What is renamed is complete, and nothing else puts a model in place or writes to it.
LEMMA CompleteStep == ModelInv /\ [ModelNext]_modelVars => CachedIsComplete'
<1> SUFFICES ASSUME ModelInv, [ModelNext]_modelVars, Announces, ~severed', entry'["model"] # NoFile
             PROVE  data'[entry'["model"]] = Pieces
  BY DEF CachedIsComplete
<1>1. ModelTypeOK /\ NothingCached /\ PartialIsCounted /\ CachedIsComplete /\ ~severed
  BY SeveredStays DEF ModelInv
<1> USE <1>1 DEF Proceed, ModelTypeOK, Paths
<1>2. entry["model"] # NoFile => data[entry["model"]] = Pieces
  BY DEF CachedIsComplete
<1>3. Freed /\ entry'["model"] = entry["model"] => data'[entry'["model"]] = data[entry["model"]]
  BY FreedType DEF InUse, Files
<1>4. ASSUME NEW p \in Downloaders, Ensure(p) \/ LockExclusive(p) \/ OpenLock(p)
      PROVE  data'[entry'["model"]] = Pieces
  BY <1>2, <1>4 DEF Ensure, LockExclusive, OpenLock
<1>5. ASSUME NEW p \in Downloaders, SecondLook(p) PROVE data'[entry'["model"]] = Pieces
  BY <1>2, <1>3, <1>5 DEF SecondLook
<1>6. ASSUME NEW p \in Downloaders, CreatePartial(p) PROVE data'[entry'["model"]] = Pieces
  <2>1. entry["model"] = NoFile /\ entry'["model"] = entry["model"]
    BY <1>6, ModelAssumption DEF CreatePartial, NothingCached, ModelAssumption
  <2> QED BY <2>1
<1>7. ASSUME NEW p \in Downloaders, ReceivePiece(p) PROVE data'[entry'["model"]] = Pieces
  BY <1>7 DEF ReceivePiece, NothingCached
<1>8. ASSUME NEW p \in Downloaders, StreamEnds(p) \/ RejectShort(p) \/ FailsMissing(p)
             \/ WriteModelManifest(p) \/ EnsureStops(p)
      PROVE  data'[entry'["model"]] = Pieces
  BY <1>2, <1>3, <1>8 DEF StreamEnds, RejectShort, FailsMissing, WriteModelManifest, EnsureStops
<1>9. ASSUME NEW p \in Downloaders, RenamePartial(p) PROVE data'[entry'["model"]] = Pieces
  <2>1. data[entry["part"]] = Pieces
    BY <1>9 DEF RenamePartial, TooShort, PartialIsCounted, Pieces
  <2>2. entry'["model"] = entry["part"] /\ entry["part"] \in InUse'
    BY <1>9 DEF RenamePartial, InUse
  <2> QED BY <1>9, <2>1, <2>2, FreedType DEF RenamePartial, Files
<1>10. ASSUME NEW n \in Paths, RemoveEntry(n) PROVE data'[entry'["model"]] = Pieces
  <2>1. entry'["model"] = entry["model"]
    BY <1>10 DEF RemoveEntry
  <2> QED BY <1>2, <1>3, <1>10, <2>1 DEF RemoveEntry
<1>11. CASE RemoveBegins \/ RemoveEnds \/ UNCHANGED modelVars
  BY <1>2, <1>11 DEF RemoveBegins, RemoveEnds, modelVars
<1> QED BY <1>4, <1>5, <1>6, <1>7, <1>8, <1>9, <1>10, <1>11 DEF ModelNext, Ensures

\* The invariant is preserved by every step.
LEMMA InvStep == ModelInv /\ [ModelNext]_modelVars => ModelInv'
<1> SUFFICES ASSUME ModelInv, [ModelNext]_modelVars PROVE ModelInv'
  OBVIOUS
<1>1. ModelTypeOK /\ NothingCounted
  BY DEF ModelInv
<1>2. ModelTypeOK' /\ NothingCounted'
  BY <1>1, TypeStep, CountedStep
<1>3. OneDownload' /\ CachedIsComplete'
  BY ExclusionStep, CompleteStep
<1>4. ASSUME ~severed' PROVE LockIsNamed' /\ NothingCached' /\ PartialIsCounted'
  <2>1. LockIsNamed
    BY <1>1, <1>4, SeveredStays DEF ModelInv
  <2> QED BY <1>1, <1>4, <2>1, NamedStep, NothingCachedStep, PartialStep
<1> QED BY <1>2, <1>3, <1>4 DEF ModelInv

\* The inductive invariant holds in every state of the download protocol.
THEOREM ModelInductive == ModelSpec => []ModelInv
BY ModelInitInv, InvStep, PTL DEF ModelSpec

\* Every variable keeps its type (ensure_model, download_model and the removal).
THEOREM ModelTypeCorrect == ModelSpec => []ModelTypeOK
<1>1. ModelInv => ModelTypeOK
  BY DEF ModelInv
<1> QED BY <1>1, ModelInductive, PTL

\* At most one process downloads, whatever stops the others (mod.rs:248).
THEOREM DownloadsExclude == ModelSpec => []OneDownload
<1>1. ModelInv => OneDownload
  BY DEF ModelInv
<1> QED BY <1>1, ModelInductive, PTL

\* A model at its final path is complete (mod.rs:249-289).
THEOREM CacheComplete == ModelSpec => []CachedIsComplete
<1>1. ModelInv => CachedIsComplete
  BY DEF ModelInv
<1> QED BY <1>1, ModelInductive, PTL

\* No step writes to a cached model or puts another in its place.
LEMMA NotTouchedStep ==
    ASSUME ModelInv, [ModelNext]_modelVars, entry["model"] # NoFile, entry'["model"] # NoFile, ~severed
    PROVE  entry'["model"] = entry["model"] /\ data'[entry["model"]] = data[entry["model"]]
<1>1. ModelTypeOK /\ NothingCached /\ \A p \in Downloaders : phase[p] \notin {"create", "stream", "check"}
  BY DEF ModelInv, NothingCached
<1> USE <1>1 DEF Proceed, ModelTypeOK, Paths
<1>2. entry'["model"] = entry["model"]
  <2>1. ASSUME NEW p \in Downloaders, Ensure(p) \/ LockExclusive(p) \/ Ensures(p) \/ EnsureStops(p)
        PROVE  entry'["model"] = entry["model"]
    BY <2>1 DEF Ensures, Ensure, LockExclusive, OpenLock, SecondLook, CreatePartial, ReceivePiece,
         StreamEnds, RejectShort, RenamePartial, FailsMissing, WriteModelManifest, EnsureStops
  <2>2. ASSUME NEW n \in Paths, RemoveEntry(n) PROVE entry'["model"] = entry["model"]
    BY <2>2 DEF RemoveEntry
  <2>3. CASE RemoveBegins \/ RemoveEnds \/ UNCHANGED modelVars
    BY <2>3 DEF RemoveBegins, RemoveEnds, modelVars
  <2> QED BY <2>1, <2>2, <2>3 DEF ModelNext
<1>3. Freed \/ data' = data
  BY DEF ModelNext, Ensures, modelVars, Ensure, LockExclusive, OpenLock, SecondLook, CreatePartial, ReceivePiece,
         StreamEnds, RejectShort, RenamePartial, FailsMissing, WriteModelManifest, EnsureStops, RemoveBegins, RemoveEntry,
         RemoveEnds
<1> QED BY <1>2, <1>3, FreedType DEF InUse, Files

\* A cached model is only ever removed: a llama-server may have it mapped.
THEOREM CacheNotTouched == ModelSpec => CachedIsNotTouched
<1>1. ModelInv /\ [ModelNext]_modelVars =>
        ((entry["model"] # NoFile /\ entry'["model"] # NoFile /\ ~severed) =>
           /\ entry'["model"] = entry["model"]
           /\ data'[entry["model"]] = data[entry["model"]])
  BY NotTouchedStep
<1> QED BY <1>1, ModelInductive, PTL DEF ModelSpec, CachedIsNotTouched

----------------------------------------------------------------------------
(* RuntimeStore *)

\* Where an archive is being worked on, and where the binary is still missing.
AtArchive == {"clean", "extract", "search", "copy", "copying", "manifest"}
Missing   == {"archive", "clean", "extract", "search", "copy"}

\* Whoever is past the lock holds it.
LockInv == \A p \in Processes : stage[p] \in LockedPcs => lock = p

\* The archive that is extracted was downloaded.
ArchiveInv ==
    \A p \in Processes :
        /\ stage[p] \in AtArchive => cur[p] \in Names
        /\ stage[p] \in {"clean", "extract"} => archive[cur[p]] # "none"

\* What extract_dir holds is of the present archive, and all of it once that is read.
ExtractInv ==
    \A p \in Processes :
        /\ stage[p] = "extract" => \/ extracted = "none"
                                   \/ extracted = "part" /\ archive[cur[p]] # "empty"
        /\ stage[p] = "search" => extracted \in {"none", "whole"}
        /\ stage[p] \in {"copy", "copying"} => extracted = "whole"

\* A process that has looked under the lock works on a binary that is not there.
BinaryInv ==
    \A p \in Processes :
        /\ stage[p] \in Missing => binary = "none"
        /\ stage[p] = "copying" => binary = "part"

RuntimeInv == RuntimeTypeOK /\ LockInv /\ ArchiveInv /\ ExtractInv /\ BinaryInv /\ PartIsBeingCopied

\* Nothing is installed and nobody has called.
LEMMA RuntimeInitInv == RuntimeInit => RuntimeInv
<1> SUFFICES ASSUME RuntimeInit PROVE RuntimeInv
  OBVIOUS
<1>1. RuntimeTypeOK
  <2>1. 1 \in 1 .. Last + 1
    BY StoreAssumption DEF StoreAssumption
  <2> QED
    BY <2>1 DEF RuntimeInit, RuntimeTypeOK, Served, Contents
<1>2. LockInv /\ ArchiveInv /\ ExtractInv /\ BinaryInv /\ PartIsBeingCopied
  BY DEF RuntimeInit, LockInv, ArchiveInv, ExtractInv, BinaryInv, PartIsBeingCopied, LockedPcs, AtArchive, Missing
<1> QED
  BY <1>1, <1>2 DEF RuntimeInv

\* Only one process is past the lock, which is what keeps the others' parts of the
\* invariant when that one moves.
LEMMA Alone ==
    ASSUME LockInv, NEW p \in Processes, stage[p] \in LockedPcs
    PROVE  \A q \in Processes : q # p => stage[q] \notin LockedPcs
BY DEF LockInv

\* The lock changes hands, or is left.
LEMMA OutsideStep ==
    ASSUME RuntimeInv, NEW p \in Processes,
           EnsureFinds(p) \/ EnsureDownloads(p) \/ AcquireLock(p) \/ Recheck(p) \/ AllTried(p) \/ Stops(p)
    PROVE  RuntimeInv'
<1> USE StoreAssumption DEF StoreAssumption, RuntimeInv
<1> USE DEF EnsureFinds, EnsureDownloads, AcquireLock, Recheck, AllTried, Stops, Return, Goto
<1>1. UNCHANGED <<archive, extracted, binary>>
  OBVIOUS
<1>2. RuntimeTypeOK'
  <2>1. 1 \in 1 .. Last + 1
    OBVIOUS
  <2>2. /\ stage' \in [Processes -> {"idle", "lock"} \cup LockedPcs]
        /\ cur' \in [Processes -> 1 .. Last + 1]
    BY <2>1 DEF RuntimeTypeOK, LockedPcs
  <2>3. lock' \in Processes \cup {Nobody} /\ torn' \in BOOLEAN
    BY DEF RuntimeTypeOK
  <2> QED
    BY <1>1, <2>2, <2>3 DEF RuntimeTypeOK
<1>3. LockInv'
  BY DEF LockInv, RuntimeTypeOK, LockedPcs
<1>4. \A q \in Processes : /\ stage'[q] \in AtArchive => stage[q] = stage'[q] /\ cur'[q] = cur[q]
                           /\ stage'[q] \in Missing => stage[q] = stage'[q] \/ binary = "none"
  BY DEF RuntimeTypeOK, AtArchive, Missing
<1>5. ArchiveInv' /\ ExtractInv' /\ BinaryInv'
  <2> HIDE DEF EnsureFinds, EnsureDownloads, AcquireLock, Recheck, AllTried, Stops
  <2> QED
    BY <1>1, <1>4 DEF ArchiveInv, ExtractInv, BinaryInv, AtArchive, Missing
<1>6. PartIsBeingCopied'
  <2>1. ASSUME NEW q \in Processes, stage[q] = "copying" PROVE torn' \/ stage'[q] = "copying"
    BY <2>1 DEF RuntimeTypeOK
  <2>2. torn => torn'
    OBVIOUS
  <2> HIDE DEF EnsureFinds, EnsureDownloads, AcquireLock, Recheck, AllTried, Stops
  <2> QED
    BY <1>1, <2>1, <2>2 DEF PartIsBeingCopied
<1> QED
  BY <1>2, <1>3, <1>5, <1>6

\* Downloading, and going on to the next archive.
LEMMA FetchStep ==
    ASSUME RuntimeInv, NEW p \in Processes,
           FetchArchive(p) \/ FetchFails(p) \/ ReuseArchive(p) \/ ExtractFails(p) \/ SearchFails(p)
    PROVE  RuntimeInv'
<1> USE StoreAssumption DEF StoreAssumption, RuntimeInv
<1> USE DEF FetchArchive, FetchFails, ReuseArchive, ExtractFails, SearchFails, NextArchive, Goto
<1>1. stage[p] \in {"archive", "extract", "search"} /\ stage'[p] \in {"archive", "clean"} /\ UNCHANGED <<binary, lock, torn>>
  BY DEF RuntimeTypeOK
<1>2. \A q \in Processes : q # p => stage'[q] = stage[q] /\ cur'[q] = cur[q] /\ stage[q] \notin LockedPcs
  BY <1>1, Alone DEF RuntimeTypeOK, LockedPcs
<1>3. RuntimeTypeOK'
  <2>1. cur' \in [Processes -> 1 .. Last + 1]
    BY DEF RuntimeTypeOK, ArchiveInv, AtArchive, Names
  <2> QED
    BY <2>1 DEF RuntimeTypeOK, LockedPcs, Served, Contents
<1>4. LockInv' /\ BinaryInv' /\ PartIsBeingCopied'
  BY <1>1, <1>2 DEF LockInv, BinaryInv, PartIsBeingCopied, LockedPcs, Missing
<1>5. ArchiveInv'
  <2>1. stage'[p] = "clean" => cur'[p] \in Names /\ archive'[cur'[p]] # "none"
    BY DEF RuntimeTypeOK, Served
  <2> QED
    BY <1>1, <1>2, <2>1 DEF ArchiveInv, AtArchive, LockedPcs
<1>6. ExtractInv'
  BY <1>1, <1>2 DEF ExtractInv, LockedPcs
<1> QED
  BY <1>3, <1>4, <1>5, <1>6

\* extract_dir is emptied and filled, the binary is found in it and copied.
LEMMA InstallStep ==
    ASSUME RuntimeInv, NEW p \in Processes,
           \/ CleanExtractDir(p) \/ ExtractSome(p) \/ ExtractAll(p) \/ SearchFinds(p)
           \/ CopyBegins(p) \/ CopyEnds(p)
    PROVE  RuntimeInv'
<1> USE DEF RuntimeInv
<1>1. /\ \/ stage[p] = "clean" /\ stage'[p] = "extract" /\ extracted' = "none" /\ binary' = binary
         \/ /\ stage[p] = "extract" /\ stage'[p] = "extract"
            /\ archive[cur[p]] # "empty" /\ extracted' = "part" /\ binary' = binary
         \/ /\ stage[p] = "extract" /\ stage'[p] = "search" /\ archive[cur[p]] # "broken" /\ binary' = binary
            /\ extracted' = IF archive[cur[p]] = "good" THEN "whole" ELSE extracted
         \/ /\ stage[p] = "search" /\ stage'[p] = "copy" /\ extracted # "none"
            /\ extracted' = extracted /\ binary' = binary
         \/ stage[p] = "copy" /\ stage'[p] = "copying" /\ extracted' = extracted /\ binary' = "part"
         \/ stage[p] = "copying" /\ stage'[p] = "manifest" /\ extracted' = extracted /\ binary' = extracted
      /\ stage' = [stage EXCEPT ![p] = stage'[p]]
      /\ UNCHANGED <<archive, lock, cur, torn>>
  <2>1. CASE CleanExtractDir(p)
    BY <2>1 DEF CleanExtractDir, Goto, RuntimeTypeOK
  <2>2. CASE ExtractSome(p)
    BY <2>2 DEF ExtractSome, RuntimeTypeOK
  <2>3. CASE ExtractAll(p)
    BY <2>3 DEF ExtractAll, Goto, RuntimeTypeOK
  <2>4. CASE SearchFinds(p)
    BY <2>4 DEF SearchFinds, Goto, RuntimeTypeOK
  <2>5. CASE CopyBegins(p)
    BY <2>5 DEF CopyBegins, Goto, RuntimeTypeOK
  <2>6. CASE CopyEnds(p)
    BY <2>6 DEF CopyEnds, Goto, RuntimeTypeOK
  <2> QED
    BY <2>1, <2>2, <2>3, <2>4, <2>5, <2>6
<1>2. \A q \in Processes : q # p => stage'[q] = stage[q] /\ stage[q] \notin LockedPcs
  BY <1>1, Alone DEF RuntimeTypeOK, LockedPcs
<1>3. RuntimeTypeOK'
  BY <1>1 DEF RuntimeTypeOK, LockedPcs, Contents
<1>4. LockInv'
  BY <1>1, <1>2 DEF LockInv, LockedPcs
<1>5. ArchiveInv'
  <2>1. cur[p] \in Names
    BY <1>1 DEF ArchiveInv, AtArchive
  <2> QED
    BY <1>1, <1>2, <2>1 DEF ArchiveInv, AtArchive, LockedPcs
<1>6. ExtractInv'
  <2>1. stage[p] = "extract" => archive[cur[p]] \in {"good", "broken", "empty"}
    BY <1>1 DEF RuntimeTypeOK, ArchiveInv, AtArchive, Served
  <2>2. /\ stage'[p] = "extract" => extracted' = "none" \/ (extracted' = "part" /\ archive[cur[p]] # "empty")
        /\ stage'[p] \in {"copy", "copying"} => extracted' = "whole"
        /\ stage'[p] = "search" => extracted' \in {"none", "whole"}
    <3>1. /\ stage[p] = "extract" => extracted = "none" \/ (extracted = "part" /\ archive[cur[p]] # "empty")
          /\ stage[p] = "search" => extracted \in {"none", "whole"}
          /\ stage[p] \in {"copy", "copying"} => extracted = "whole"
      BY DEF ExtractInv
    <3> HIDE DEF RuntimeInv
    <3> QED
      BY <1>1, <2>1, <3>1
  <2> QED
    BY <1>1, <1>2, <2>2 DEF ExtractInv, LockedPcs
<1>7. BinaryInv' /\ PartIsBeingCopied'
  <2>1. /\ stage'[p] \in Missing => binary' = "none"
        /\ stage'[p] = "copying" => binary' = "part"
    BY <1>1 DEF BinaryInv, Missing
  <2>2. binary' = "part" => stage'[p] = "copying"
    <3>1. stage[p] \in Missing => binary = "none"
      BY DEF BinaryInv
    <3>2. stage[p] = "copying" => extracted = "whole"
      BY DEF ExtractInv
    <3> QED
      BY <1>1, <3>1, <3>2 DEF Missing
  <2> QED
    BY <1>1, <1>2, <2>1, <2>2 DEF BinaryInv, PartIsBeingCopied, Missing, LockedPcs
<1> QED
  BY <1>3, <1>4, <1>5, <1>6, <1>7

\* The call that installed returns.
LEMMA ManifestStep ==
    ASSUME RuntimeInv, NEW p \in Processes, WriteManifest(p)
    PROVE  RuntimeInv'
<1> USE StoreAssumption DEF StoreAssumption, RuntimeInv, WriteManifest, Return
<1>1. stage[p] = "manifest" /\ stage'[p] = "idle" /\ lock' = Nobody /\ UNCHANGED <<archive, binary, torn>>
  BY DEF RuntimeTypeOK, LockInv, LockedPcs
<1>2. \A q \in Processes : q # p => stage'[q] = stage[q] /\ cur'[q] = cur[q] /\ stage[q] \notin LockedPcs
  BY <1>1, Alone DEF RuntimeTypeOK, LockedPcs
<1>3. RuntimeTypeOK'
  BY DEF RuntimeTypeOK, LockedPcs, Contents, Names
<1>4. LockInv' /\ ArchiveInv' /\ ExtractInv' /\ BinaryInv' /\ PartIsBeingCopied'
  BY <1>1, <1>2 DEF LockInv, ArchiveInv, ExtractInv, BinaryInv, PartIsBeingCopied, LockedPcs, AtArchive, Missing
<1> QED
  BY <1>3, <1>4

\* Every step preserves the invariant.
LEMMA RuntimeStepInv == RuntimeInv /\ [RuntimeNext]_runtimeVars => RuntimeInv'
<1> SUFFICES ASSUME RuntimeInv, [RuntimeNext]_runtimeVars PROVE RuntimeInv'
  OBVIOUS
<1>1. CASE RuntimeNext
  <2>1. PICK p \in Processes :
          EnsureFinds(p) \/ EnsureDownloads(p) \/ AcquireLock(p) \/ Runs(p) \/ Stops(p)
    BY <1>1 DEF RuntimeNext
  <2> QED
    BY <2>1, OutsideStep, FetchStep, InstallStep, ManifestStep DEF Runs
<1>2. CASE UNCHANGED runtimeVars
  BY <1>2 DEF runtimeVars, RuntimeInv, RuntimeTypeOK, LockInv, ArchiveInv, ExtractInv, BinaryInv, PartIsBeingCopied
<1> QED
  BY <1>1, <1>2

\* The invariant holds in every reachable state.
THEOREM RuntimeInductive == RuntimeSpec => []RuntimeInv
BY RuntimeInitInv, RuntimeStepInv, PTL DEF RuntimeSpec

\* Every variable has its type, however many processes and archives there are.
THEOREM RuntimeTypeCorrect == RuntimeSpec => []RuntimeTypeOK
<1>1. RuntimeInv => RuntimeTypeOK
  BY DEF RuntimeInv
<1> QED
  BY RuntimeInductive, <1>1, PTL

\* A truncated binary is one that is being copied, or of a copy that was stopped.
THEOREM TruncatedIsInTheMaking == RuntimeSpec => []PartIsBeingCopied
<1>1. RuntimeInv => PartIsBeingCopied
  BY DEF RuntimeInv
<1> QED
  BY RuntimeInductive, <1>1, PTL

\* No step writes to a binary that is installed.
THEOREM InstalledStays == RuntimeSpec => InstalledIsNotTouched
<1>1. RuntimeInv /\ [RuntimeNext]_runtimeVars => [binary = "whole" => binary' = "whole"]_runtimeVars
  <2> SUFFICES ASSUME RuntimeInv, RuntimeNext, binary = "whole" PROVE binary' = "whole"
    BY DEF runtimeVars
  <2>1. PICK p \in Processes :
          EnsureFinds(p) \/ EnsureDownloads(p) \/ AcquireLock(p) \/ Runs(p) \/ Stops(p)
    BY DEF RuntimeNext
  <2>2. ~CopyBegins(p) /\ ~CopyEnds(p)
    BY DEF RuntimeInv, BinaryInv, Missing, CopyBegins, CopyEnds, Goto
  <2> QED
    BY <2>1, <2>2 DEF EnsureFinds, EnsureDownloads, AcquireLock, Runs, Stops, Recheck, FetchArchive,
         FetchFails, ReuseArchive, CleanExtractDir, ExtractSome, ExtractAll, ExtractFails, SearchFinds,
         SearchFails, WriteManifest, AllTried
<1> QED
  BY RuntimeInductive, <1>1, PTL DEF RuntimeSpec, InstalledIsNotTouched

----------------------------------------------------------------------------
(* EphemeralServer *)

\* A request has reserved a port for its present attempt.
Holding == {"spawn"} \cup Awaits

\* Two requests that hold the same port have raced for it.
PortInv ==
    \A r, q \in Requests :
        r # q /\ pc[r] \in Holding /\ pc[q] \in Holding /\ at[Own(r)] = at[Own(q)]
        => <<r, q>> \in raced \/ <<q, r>> \in raced

\* A request that has its answer has killed its server.
ReapInv == \A r \in Requests : pc[r] = "reap" => server[Own(r)] \notin Live

IInv == TypeOK /\ NoServerLeft /\ ReapInv /\ PortInv /\ StrayAnswerOnlyAfterPortRace

\* No request and no server yet.
LEMMA InitInv == Init => IInv
<1> SUFFICES ASSUME Init PROVE IInv
  OBVIOUS
<1> USE EphemeralAssumption DEF EphemeralAssumption, Init
<1>1. TypeOK
  BY DEF TypeOK, Attempts
<1>2. NoServerLeft /\ ReapInv
  BY DEF NoServerLeft, ReapInv, Live
<1>3. PortInv
  BY DEF PortInv, Holding, Awaits
<1>4. StrayAnswerOnlyAfterPortRace
  BY DEF StrayAnswerOnlyAfterPortRace
<1> QED
  BY <1>1, <1>2, <1>3, <1>4 DEF IInv

\* The server of the present attempt is one of the servers.
LEMMA OwnIsServer == TypeOK => \A r \in Requests : Own(r) \in Servers /\ Own(r)[1] = r
BY DEF TypeOK, Own, Servers

\* The clocks of a request that ends keep their types.
LEMMA EndsClocks ==
    ASSUME TypeOK, NEW r \in Requests,
           elapsed' = [elapsed EXCEPT ![r] = 0], began' = [began EXCEPT ![r] = 0]
    PROVE  /\ elapsed' \in [Requests -> Nat] /\ \A q \in Requests : elapsed'[q] <= TIMEOUT[q] + LATE
           /\ began' \in [Requests -> Nat]
<1> USE EphemeralAssumption DEF EphemeralAssumption, TypeOK
<1>1. elapsed' \in [Requests -> Nat] /\ began' \in [Requests -> Nat]
  OBVIOUS
<1>2. ASSUME NEW q \in Requests PROVE elapsed'[q] <= TIMEOUT[q] + LATE
  <2>1. TIMEOUT[q] \in Nat /\ LATE \in Nat /\ elapsed[q] <= TIMEOUT[q] + LATE
    OBVIOUS
  <2> QED
    BY <2>1
<1> QED
  BY <1>1, <1>2

\* A failed attempt, the last one or not.
LEMMA FailsStep ==
    ASSUME IInv, NEW r \in Requests, NEW other \in BOOLEAN, FailsAs(r, other, Killed(Own(r)))
    PROVE  IInv'
<1> USE EphemeralAssumption, OwnIsServer DEF EphemeralAssumption, IInv
<1> USE DEF FailsAs, NextAttempt, Ends, Killed
<1>1. TypeOK'
  <2>1. /\ server' \in [Servers -> {"none", "loading", "listening", "killed", "gone"}]
        /\ quick' \in [Requests -> BOOLEAN]
    BY DEF TypeOK, Live
  <2>2. CASE attempt[r] < RETRIES
    <3>1. attempt[r] + 1 \in Attempts
      BY <2>2 DEF TypeOK, Attempts
    <3> QED
      BY <2>1, <2>2, <3>1 DEF TypeOK, clock
  <2>3. CASE ~(attempt[r] < RETRIES)
    <3>1. /\ elapsed' = [elapsed EXCEPT ![r] = 0] /\ began' = [began EXCEPT ![r] = 0]
          /\ pc' = [pc EXCEPT ![r] = "error"] /\ attempt' = attempt
      BY <2>3
    <3>2. /\ elapsed' \in [Requests -> Nat] /\ \A q \in Requests : elapsed'[q] <= TIMEOUT[q] + LATE
          /\ began' \in [Requests -> Nat]
      BY <3>1, EndsClocks
    <3> QED
      BY <2>1, <3>1, <3>2 DEF TypeOK, Ended
  <2> QED
    BY <2>2, <2>3
<1>2. NoServerLeft'
  BY DEF NoServerLeft, TypeOK, Live, Own, Servers, Awaits
<1>3. ReapInv'
  BY DEF ReapInv, TypeOK, Live, Own, Servers, Awaits, Ended
<1>4. PortInv'
  BY DEF PortInv, TypeOK, Own, Holding, Awaits
<1>5. StrayAnswerOnlyAfterPortRace'
  BY DEF StrayAnswerOnlyAfterPortRace
<1> QED
  BY <1>1, <1>2, <1>3, <1>4, <1>5

\* A request that ends where it waits.
LEMMA DroppedStep ==
    ASSUME IInv, NEW r \in Requests, Dropped(r)
    PROVE  IInv'
<1> USE EphemeralAssumption, OwnIsServer DEF EphemeralAssumption, IInv
<1> USE DEF Dropped, Ends, Killed, history
<1>1. TypeOK'
  <2>1. /\ elapsed' \in [Requests -> Nat] /\ \A q \in Requests : elapsed'[q] <= TIMEOUT[q] + LATE
        /\ began' \in [Requests -> Nat]
    BY EndsClocks
  <2>2. server' \in [Servers -> {"none", "loading", "listening", "killed", "gone"}]
    BY DEF TypeOK
  <2> QED
    BY <2>1, <2>2 DEF TypeOK, Awaits, Ended
<1>2. NoServerLeft'
  BY DEF NoServerLeft, TypeOK, Live, Own, Servers, Awaits
<1>3. ReapInv'
  BY DEF ReapInv, TypeOK, Live, Own, Servers, Awaits, Ended
<1>4. PortInv'
  BY DEF PortInv, TypeOK, Own, Holding, Awaits
<1>5. StrayAnswerOnlyAfterPortRace'
  BY DEF StrayAnswerOnlyAfterPortRace
<1> QED
  BY <1>1, <1>2, <1>3, <1>4, <1>5

\* A port that was free of servers is reserved.
LEMMA ReserveStep ==
    ASSUME IInv, NEW r \in Requests, NEW p \in Ports, Reserve(r, p)
    PROVE  IInv'
<1> USE EphemeralAssumption, OwnIsServer DEF EphemeralAssumption, IInv
<1> USE DEF Reserve, ReserveAny, history, clock
<1>1. TypeOK'
  BY DEF TypeOK, Servers, Awaits
<1>2. NoServerLeft'
  BY DEF NoServerLeft, TypeOK, Live, Own, Servers, Awaits
<1>3. ReapInv'
  BY DEF ReapInv, TypeOK, Live, Own, Servers, Awaits, Ended
<1>4. PortInv'
  <2> SUFFICES ASSUME NEW x \in Requests, NEW y \in Requests, x # y,
                      pc'[x] \in Holding, pc'[y] \in Holding, at'[Own(x)'] = at'[Own(y)']
               PROVE  <<x, y>> \in raced' \/ <<y, x>> \in raced'
    BY DEF PortInv
  <2>1. Own(x)' = Own(x) /\ Own(y)' = Own(y)
    BY DEF Own
  <2>2. CASE x # r /\ y # r
    BY <2>1, <2>2 DEF PortInv, TypeOK, Own, Servers
  <2>3. ASSUME NEW q \in Requests, q # r, pc[q] \in Holding, at[Own(q)] = p PROVE <<r, q>> \in raced'
    <3>1. server[Own(q)] # "listening"
      BY <2>3 DEF Bound
    <3> QED
      BY <2>3, <3>1 DEF Holding, Awaits, Ended
  <2>4. CASE x = r
    <3>1. at'[Own(x)] = p /\ at'[Own(y)] = at[Own(y)] /\ pc[y] \in Holding
      BY <2>4 DEF TypeOK, Own, Servers
    <3> QED
      BY <2>1, <2>3, <2>4, <3>1
  <2>5. CASE y = r
    <3>1. at'[Own(y)] = p /\ at'[Own(x)] = at[Own(x)] /\ pc[x] \in Holding
      BY <2>5 DEF TypeOK, Own, Servers
    <3> QED
      BY <2>1, <2>3, <2>5, <3>1
  <2> QED
    BY <2>2, <2>4, <2>5
<1>5. StrayAnswerOnlyAfterPortRace'
  BY DEF StrayAnswerOnlyAfterPortRace
<1> QED
  BY <1>1, <1>2, <1>3, <1>4, <1>5

\* The answer comes from a server that listens, so from one whose request holds the port.
LEMMA AnsweredStep ==
    ASSUME IInv, NEW r \in Requests, Answered(r)
    PROVE  IInv'
<1> USE EphemeralAssumption, OwnIsServer DEF EphemeralAssumption, IInv
<1> USE DEF Answered, Killed, history, clock
<1>1. TypeOK'
  BY DEF TypeOK, Servers, Awaits, Live
<1>2. NoServerLeft'
  BY DEF NoServerLeft, TypeOK, Live, Own, Servers, Awaits
<1>3. ReapInv'
  BY DEF ReapInv, TypeOK, Live, Own, Servers, Awaits, Ended
<1>4. PortInv'
  BY DEF PortInv, TypeOK, Own, Holding, Awaits
<1>5. StrayAnswerOnlyAfterPortRace'
  <2>1. PICK s \in Servers : ListensAt(s, at[Own(r)]) /\ from' = [from EXCEPT ![r] = {s[1]}]
    OBVIOUS
  <2>2. s[1] \in Requests /\ s = Own(s[1]) /\ pc[s[1]] \in Holding
    BY <2>1 DEF NoServerLeft, ListensAt, Live, Servers, Holding
  <2>3. s[1] # r => <<r, s[1]>> \in raced \/ <<s[1], r>> \in raced
    BY <2>1, <2>2 DEF PortInv, ListensAt, Holding, Awaits
  <2> QED
    BY <2>1, <2>2, <2>3 DEF StrayAnswerOnlyAfterPortRace, TypeOK
<1> QED
  BY <1>1, <1>2, <1>3, <1>4, <1>5

\* What a server process does of itself.
LEMMA ServerStep ==
    ASSUME IInv, NEW s \in Servers, Listen(s) \/ Exit(s) \/ Gone(s)
    PROVE  IInv'
<1> USE DEF IInv, Listen, Exit, Gone, Becomes, history, clock
<1>1. TypeOK'
  BY DEF TypeOK
<1>2. NoServerLeft' /\ ReapInv'
  <2>1. \A u \in Servers : server'[u] \in Live => server[u] \in Live
    BY DEF TypeOK, Live
  <2>2. \A r \in Requests : Own(r)' = Own(r) /\ pc'[r] = pc[r]
    BY DEF Own
  <2>3. \A u \in Servers : u[1] \in Requests
    BY DEF Servers
  <2> QED
    BY <2>1, <2>2, <2>3, OwnIsServer DEF NoServerLeft, ReapInv
<1>3. PortInv' /\ StrayAnswerOnlyAfterPortRace'
  BY DEF PortInv, Own, StrayAnswerOnlyAfterPortRace
<1> QED
  BY <1>1, <1>2, <1>3

\* The steps that only move a request on: polling, spawning, and time.
LEMMA QuietStep ==
    ASSUME IInv, NEW r \in Requests,
           \/ Complete(r) \/ Spawn(r) \/ ChildLives(r) \/ HealthOk(r) \/ PollAgain(r)
           \/ Reaped(r) \/ Elapse(r)
    PROVE  IInv'
<1> USE EphemeralAssumption, OwnIsServer DEF EphemeralAssumption, IInv
<1> USE DEF Complete, Spawn, ChildLives, HealthOk, PollAgain, Reaped, Elapse, Ends, history, clock
<1>1. TypeOK'
  <2>1. ASSUME Complete(r) \/ ChildLives(r) \/ HealthOk(r) \/ PollAgain(r) PROVE TypeOK'
    BY <2>1 DEF TypeOK, Awaits
  <2>2. ASSUME Spawn(r) PROVE TypeOK'
    BY <2>2 DEF TypeOK, Awaits
  <2>3. ASSUME Reaped(r) PROVE TypeOK'
    <3>1. /\ elapsed' \in [Requests -> Nat] /\ \A q \in Requests : elapsed'[q] <= TIMEOUT[q] + LATE
          /\ began' \in [Requests -> Nat]
      BY <2>3, EndsClocks
    <3> QED
      BY <2>3, <3>1 DEF TypeOK, Ended
  <2>4. ASSUME Elapse(r) PROVE TypeOK'
    <3>1. /\ elapsed' \in [Requests -> Nat] /\ \A q \in Requests : elapsed'[q] <= TIMEOUT[q] + LATE
      BY <2>4 DEF TypeOK
    <3> QED
      BY <2>4, <3>1 DEF TypeOK
  <2> QED
    BY <2>1, <2>2, <2>3, <2>4
<1>2. NoServerLeft'
  <2>1. ASSUME Spawn(r) PROVE NoServerLeft'
    BY <2>1 DEF NoServerLeft, TypeOK, Live, Own, Servers, Awaits
  <2>2. ASSUME Reaped(r) PROVE NoServerLeft'
    BY <2>2 DEF NoServerLeft, ReapInv, TypeOK, Live, Own, Servers, Awaits
  <2>3. ASSUME \/ Complete(r) \/ ChildLives(r) \/ HealthOk(r) \/ PollAgain(r) \/ Elapse(r)
        PROVE  NoServerLeft'
    BY <2>3 DEF NoServerLeft, TypeOK, Live, Own, Servers, Awaits
  <2> QED
    BY <2>1, <2>2, <2>3
<1>3. ReapInv'
  BY DEF ReapInv, TypeOK, Live, Own, Servers, Awaits, Ended
<1>4. PortInv'
  <2>1. UNCHANGED <<at, attempt, raced>>
    OBVIOUS
  <2>2. ASSUME NEW q \in Requests, pc'[q] \in Holding PROVE pc[q] \in Holding
    BY <2>2 DEF TypeOK, Holding, Awaits, Ended
  <2>3. \A q \in Requests : Own(q)' = Own(q)
    BY <2>1 DEF Own
  <2> HIDE DEF Complete, Spawn, ChildLives, HealthOk, PollAgain, Reaped, Elapse
  <2> QED
    BY <2>1, <2>2, <2>3 DEF PortInv
<1>5. StrayAnswerOnlyAfterPortRace'
  BY DEF StrayAnswerOnlyAfterPortRace
<1> QED
  BY <1>1, <1>2, <1>3, <1>4, <1>5

\* Every step preserves the invariant.
LEMMA StepInv == IInv /\ [Next]_vars => IInv'
<1> SUFFICES ASSUME IInv, [Next]_vars PROVE IInv'
  OBVIOUS
<1>1. ASSUME NEW r \in Requests, Step(r) PROVE IInv'
  <2>1. CASE \E p \in Ports : Reserve(r, p)
    BY <2>1, ReserveStep
  <2>2. CASE ReserveFails(r) \/ SpawnFails(r) \/ ChildExited(r) \/ PostFails(r)
    BY <2>2, FailsStep DEF ReserveFails, SpawnFails, ChildExited, PostFails, AttemptFails
  <2>3. CASE NotReady(r)
    BY <2>3, FailsStep DEF NotReady
  <2>4. CASE Answered(r)
    BY <2>4, AnsweredStep
  <2>5. CASE TimedOut(r) \/ Cancelled(r)
    BY <2>5, DroppedStep DEF TimedOut, Cancelled
  <2>6. CASE \/ Complete(r) \/ Spawn(r) \/ ChildLives(r) \/ HealthOk(r) \/ PollAgain(r)
             \/ Reaped(r) \/ Elapse(r)
    BY <2>6, QuietStep
  <2> QED
    BY <1>1, <2>1, <2>2, <2>3, <2>4, <2>5, <2>6 DEF Step
<1>2. ASSUME NEW s \in Servers, Listen(s) \/ Exit(s) \/ Gone(s) PROVE IInv'
  BY <1>2, ServerStep
<1>3. CASE UNCHANGED vars
  BY <1>3 DEF vars, IInv, TypeOK, NoServerLeft, ReapInv, PortInv, StrayAnswerOnlyAfterPortRace, Own
<1> QED
  BY <1>1, <1>2, <1>3 DEF Next

\* The invariant holds in every reachable state.
THEOREM Inductive == Spec => []IInv
BY InitInv, StepInv, PTL DEF Spec

\* Every variable has its type, however many requests, ports and attempts there are.
THEOREM TypeCorrect == Spec => []TypeOK
<1>1. IInv => TypeOK
  BY DEF IInv
<1> QED
  BY Inductive, <1>1, PTL

\* No server outlives its attempt.
THEOREM ServersDie == Spec => []NoServerLeft
<1>1. IInv => NoServerLeft
  BY DEF IInv
<1> QED
  BY Inductive, <1>1, PTL

\* Only two requests that raced for a port can be answered by one another's server.
THEOREM AnswersStay == Spec => []StrayAnswerOnlyAfterPortRace
<1>1. IInv => StrayAnswerOnlyAfterPortRace
  BY DEF IInv
<1> QED
  BY Inductive, <1>1, PTL

----------------------------------------------------------------------------
(* Time *)

\* One more time than a - 1 times is a times.
LEMMA Distributes ==
    ASSUME NEW a \in Nat \ {0}, NEW n \in Nat
    PROVE  a * n = (a - 1) * n + n /\ (a - 1) * n \in Nat
<1>1. PICK b \in Nat : a = b + 1
  <2>1. a - 1 \in Nat /\ a = (a - 1) + 1
    OBVIOUS
  <2> QED
    BY <2>1
<1>2. (b + 1) * n = b * n + n /\ b * n \in Nat
  OBVIOUS
<1>3. a - 1 = b
  BY <1>1
<1> QED
  BY <1>1, <1>2, <1>3

\* While nothing but SERVER_READY_TIMEOUT has failed, every attempt before the
\* present one has taken its full time.
TimeInv ==
    \A r \in Requests :
        /\ began[r] <= elapsed[r]
        /\ quick[r] = FALSE =>
             /\ pc[r] \in {"idle", "attempt", "spawn"} => (attempt[r] - 1) * READY <= elapsed[r]
             /\ pc[r] \in Awaits => (attempt[r] - 1) * READY <= began[r]

\* The next attempt after one that used up its time.
LEMMA NotReadyKeepsTime ==
    ASSUME IInv, TimeInv, NEW r \in Requests, NotReady(r)
    PROVE  TimeInv'
<1> USE EphemeralAssumption DEF EphemeralAssumption, TypeOK, Attempts
<1> DEFINE a == attempt[r]
<1>1. a \in Nat \ {0} /\ elapsed[r] \in Nat /\ began[r] \in Nat /\ quick[r] \in BOOLEAN
  BY DEF IInv
<1>2. CASE a < RETRIES
  <2>1. pc' = [pc EXCEPT ![r] = "attempt"] /\ attempt' = [attempt EXCEPT ![r] = @ + 1]
        /\ UNCHANGED clock
    BY <1>2 DEF NotReady, FailsAs, NextAttempt
  <2>2. \A q \in Requests : quick'[q] = FALSE => quick[q] = FALSE
    BY DEF NotReady, FailsAs, IInv
  <2>3. ASSUME quick[r] = FALSE PROVE a * READY <= elapsed[r]
    <3>1. (a - 1) * READY <= began[r] /\ began[r] + READY <= elapsed[r]
      BY <2>3 DEF NotReady, TimeInv, Awaits
    <3>2. a * READY = (a - 1) * READY + READY /\ (a - 1) * READY \in Nat
      BY <1>1, Distributes
    <3> QED
      BY <1>1, <3>1, <3>2
  <2>4. \A q \in Requests : q # r => attempt'[q] = attempt[q] /\ pc'[q] = pc[q]
    BY <2>1 DEF IInv
  <2>5. attempt'[r] = a + 1 /\ pc'[r] = "attempt" /\ (a + 1) - 1 = a
    BY <1>1, <2>1 DEF IInv
  <2> QED
    BY <2>1, <2>2, <2>3, <2>4, <2>5 DEF TimeInv, clock, Awaits
<1>3. CASE ~(a < RETRIES)
  BY <1>1, <1>3 DEF NotReady, FailsAs, NextAttempt, Ends, TimeInv, IInv, Awaits
<1> QED
  BY <1>2, <1>3

\* Every other step keeps it, because it leaves the clocks, moves time on, or fails.
LEMMA StepTime ==
    ASSUME IInv, TimeInv, [Next]_vars
    PROVE  TimeInv'
<1> USE EphemeralAssumption DEF EphemeralAssumption, TypeOK, IInv
<1>1. \A r \in Requests : elapsed[r] \in Nat /\ began[r] \in Nat /\ quick[r] \in BOOLEAN /\ attempt[r] \in Nat
  BY DEF Attempts
<1>2. ASSUME NEW r \in Requests, FailsAs(r, TRUE, Killed(Own(r))) \/ FailsAs(r, TRUE, server) PROVE TimeInv'
  <2>1. quick'[r] = TRUE /\ \A q \in Requests : q # r => quick'[q] = quick[q]
    BY <1>2 DEF FailsAs
  <2>2. began'[r] <= elapsed'[r]
    BY <1>1, <1>2 DEF FailsAs, NextAttempt, Ends, TimeInv, clock
  <2>3. \A q \in Requests : q # r => pc'[q] = pc[q] /\ attempt'[q] = attempt[q]
                                      /\ elapsed'[q] = elapsed[q] /\ began'[q] = began[q]
    BY <1>2 DEF FailsAs, NextAttempt, Ends, clock
  <2> QED
    BY <2>1, <2>2, <2>3 DEF TimeInv
<1>3. ASSUME NEW r \in Requests, Step(r) PROVE TimeInv'
  <2>1. CASE Complete(r) \/ (\E p \in Ports : Reserve(r, p))
    BY <1>1, <2>1 DEF Complete, Reserve, ReserveAny, TimeInv, clock, history, Awaits
  <2>2. CASE ReserveFails(r) \/ SpawnFails(r) \/ ChildExited(r) \/ PostFails(r)
    BY <1>2, <2>2 DEF ReserveFails, SpawnFails, ChildExited, PostFails, AttemptFails
  <2>3. CASE NotReady(r)
    BY <2>3, NotReadyKeepsTime
  <2>4. CASE Spawn(r)
    BY <1>1, <2>4 DEF Spawn, TimeInv, history, Awaits
  <2>5. CASE ChildLives(r) \/ HealthOk(r) \/ PollAgain(r) \/ Answered(r)
    BY <1>1, <2>5 DEF ChildLives, HealthOk, PollAgain, Answered, TimeInv, clock, history, Awaits
  <2>6. CASE Reaped(r) \/ TimedOut(r) \/ Cancelled(r)
    BY <1>1, <2>6 DEF Reaped, TimedOut, Cancelled, Dropped, Ends, TimeInv, history, Awaits
  <2>7. CASE Elapse(r)
    BY <1>1, <2>7 DEF Elapse, TimeInv, history, Awaits
  <2> QED
    BY <1>3, <2>1, <2>2, <2>3, <2>4, <2>5, <2>6, <2>7 DEF Step
<1>4. ASSUME NEW s \in Servers, Listen(s) \/ Exit(s) \/ Gone(s) PROVE TimeInv'
  BY <1>4 DEF Listen, Exit, Gone, Becomes, TimeInv, clock, history
<1>5. CASE UNCHANGED vars
  BY <1>5 DEF vars, TimeInv
<1> QED
  BY <1>3, <1>4, <1>5 DEF Next

\* Servers that hang each use up SERVER_READY_TIMEOUT in full, whatever it, the
\* timeouts, SERVER_START_RETRIES and the delays of the executor are.
THEOREM HangingServersUseUpTheTime == Spec => []HungAttemptsTakeTheirTime
<1>1. Init => TimeInv
  <2> SUFFICES ASSUME Init PROVE TimeInv
    OBVIOUS
  <2>1. (1 - 1) * READY = 0 /\ 0 <= 0
    BY EphemeralAssumption DEF EphemeralAssumption
  <2> QED
    BY <2>1 DEF Init, TimeInv, Awaits
<1>2. IInv /\ TimeInv /\ [Next]_vars => TimeInv'
  BY StepTime
<1>3. IInv /\ TimeInv => HungAttemptsTakeTheirTime
  <2> SUFFICES ASSUME IInv, TimeInv, NEW r \in Requests, pc[r] \notin Ended, quick[r] = FALSE
               PROVE  (attempt[r] - 1) * READY <= elapsed[r]
    BY DEF HungAttemptsTakeTheirTime, IInv, TypeOK
  <2>1. attempt[r] \in Nat \ {0} /\ READY \in Nat /\ began[r] \in Nat /\ elapsed[r] \in Nat
    BY EphemeralAssumption DEF EphemeralAssumption, IInv, TypeOK, Attempts
  <2>2. (attempt[r] - 1) * READY \in Nat
    BY <2>1, Distributes
  <2>3. pc[r] \in {"idle", "attempt", "spawn"} \/ pc[r] \in Awaits
    BY DEF IInv, TypeOK
  <2> QED
    BY <2>1, <2>2, <2>3 DEF TimeInv
<1> QED
  BY Inductive, <1>1, <1>2, <1>3, PTL DEF Spec
=============================================================================
