--------------------------- MODULE OAuthStoreProofs ----------------------------
(***************************************************************************)
(* Proofs about OAuthStore for any number of backends, processes and       *)
(* targets, and for directories that two backends may share.               *)
(***************************************************************************)
EXTENDS OAuthStore, TLAPS

\* Connectors connect and cleaners clear.
RolesInv ==
    /\ \A p \in Connectors : pc[p] \in {"idle"} \cup ConnectPcs
    /\ \A q \in Cleaners : pc[q] \in {"idle", "removing", "all"}

\* As long as nobody who was overtaken has written: who is going to write the index has
\* read what is in it, who was not overtaken since it wrote its entry finds it there,
\* and whose credentials were not cleared since it connected may refresh them.
UpToDateInv ==
    raced = FALSE =>
      /\ \A p \in Processes : pc[p] \in {"remember", "removing"} /\ p \notin stale => seen[p] = index
      /\ \A p \in Connectors :
           pc[p] \in {"load", "authorize", "callback", "connected"} /\ p \notin stale => For[p] \in index
      /\ \A p \in Connectors :
           pc[p] = "connected" /\ p \notin stale => Dir[For[p]] \notin DirsOf(gone)

\* Nobody who was not noticed has filled a directory again that a clear has removed.
RemovedInv ==
    raced = FALSE =>
      \A q \in Cleaners :
        pc[q] = "removing" /\ q \notin stale =>
          \A b \in (seen[q] \cap target[q]) \ left[q] : Dir[b] \notin creds \cup states

\* What the two properties say of the directories.
DirsInv ==
    raced = FALSE =>
      /\ creds \cup states \subseteq DirsOf(index) \cup orphans
      /\ creds \cap DirsOf(gone) = {}

IInv == TypeOK /\ RolesInv /\ UpToDateInv /\ RemovedInv /\ DirsInv

\* Nothing is stored yet.
LEMMA InitInv == Init => IInv
<1> SUFFICES ASSUME Init PROVE IInv
  OBVIOUS
<1>1. TypeOK
  BY DEF Init, TypeOK, Processes
<1>2. RolesInv /\ UpToDateInv /\ RemovedInv /\ DirsInv
  BY StoreAssumption DEF StoreAssumption, Init, RolesInv, UpToDateInv, RemovedInv, DirsInv, DirsOf, Processes, ConnectPcs
<1> QED
  BY <1>1, <1>2 DEF IInv

\* What a write overtakes is typed, and a write by a process that was overtaken is remembered.
LEMMA OvertakesFacts ==
    ASSUME TypeOK, NEW p \in Processes, NEW others \in SUBSET Processes, Overtakes(p, others)
    PROVE  /\ stale' \subseteq Processes /\ raced' \in BOOLEAN
           /\ raced' = FALSE => raced = FALSE /\ p \notin stale
           /\ \A q \in Processes : q \notin stale' /\ q # p => q \notin stale /\ (q \notin others \/ pc[q] \in {"idle", "all"})
<1>1. raced \in BOOLEAN /\ stale \subseteq Processes
  BY DEF TypeOK
<1>2. raced' = (raced \/ p \in stale)
  BY DEF Overtakes
<1>3. stale' = (stale \cup {q \in others : pc[q] \notin {"idle", "all"}}) \ {p}
  BY DEF Overtakes
<1>4. raced' \in BOOLEAN /\ (raced' = FALSE => raced = FALSE /\ p \notin stale)
  BY <1>1, <1>2, Zenon
<1> QED
  BY <1>1, <1>3, <1>4

\* The steps of a process that connects.
LEMMA ConnectorStep ==
    ASSUME IInv, NEW p \in Connectors,
           \/ Remember(p) \/ WriteEntry(p) \/ LoadStored(p) \/ LoadNothing(p)
           \/ StartAuthorization(p) \/ CallbackSucceeds(p) \/ RefreshToken(p) \/ ConnectorStops(p)
    PROVE  IInv'
<1> USE StoreAssumption DEF StoreAssumption, IInv, Goto
<1>1. p \in Processes /\ For[p] \in Backends /\ Dir[For[p]] \in Dirs /\ p \notin Cleaners
  BY DEF Processes
<1> DEFINE d == Dir[For[p]]
<1>2. CASE Remember(p)
  <2>1. TypeOK' /\ RolesInv'
    BY <1>1, <1>2 DEF Remember, TypeOK, RolesInv, ConnectPcs
  <2>2. UpToDateInv' /\ RemovedInv' /\ DirsInv'
    BY <1>1, <1>2 DEF Remember, TypeOK, RolesInv, UpToDateInv, RemovedInv, DirsInv, Processes
  <2> QED
    BY <2>1, <2>2
<1>3. CASE WriteEntry(p)
  <2> DEFINE Others == {q \in Processes : pc[q] \in {"remember", "removing"}}
  <2>0. Overtakes(p, Others) /\ Others \in SUBSET Processes
    BY <1>3 DEF WriteEntry
  <2>1. TypeOK' /\ RolesInv'
    <3>1. stale' \subseteq Processes /\ raced' \in BOOLEAN
      BY <1>1, <2>0, OvertakesFacts
    <3>2. index' \subseteq Backends /\ orphans' \subseteq Dirs
      BY <1>1, <1>3 DEF WriteEntry, TypeOK
    <3> QED
      BY <1>1, <1>3, <3>1, <3>2 DEF WriteEntry, TypeOK, RolesInv, ConnectPcs
  <2>2. ASSUME raced' = FALSE PROVE raced = FALSE /\ index' = index \cup {For[p]}
    <3>1. raced = FALSE /\ p \notin stale
      BY <1>1, <1>3, <2>2, OvertakesFacts DEF WriteEntry
    <3> QED
      BY <1>1, <1>3, <3>1 DEF WriteEntry, UpToDateInv
  <2>3. \A q \in Processes : q # p /\ q \notin stale' => q \notin stale /\ pc[q] \notin {"remember", "removing"}
    <3>1. \A q \in Processes : q \notin stale' /\ q # p => q \notin stale /\ (q \notin Others \/ pc[q] \in {"idle", "all"})
      BY <1>1, <2>0, OvertakesFacts
    <3> QED
      BY <3>1
  <2>4. pc'[p] = "load" /\ \A q \in Processes : q # p => pc'[q] = pc[q]
    BY <1>1, <1>3 DEF WriteEntry, TypeOK
  <2>5. UpToDateInv'
    BY <1>1, <1>3, <2>2, <2>3, <2>4 DEF WriteEntry, UpToDateInv, DirsOf, Processes
  <2>6. DirsInv'
    BY <1>3, <2>2 DEF WriteEntry, DirsInv, DirsOf
  <2>7. RemovedInv'
    BY <1>1, <2>3, <2>4 DEF RemovedInv, Processes
  <2> QED
    BY <2>1, <2>5, <2>6, <2>7
<1>4. CASE LoadStored(p)
  <2>1. TypeOK' /\ RolesInv'
    BY <1>1, <1>4 DEF LoadStored, TypeOK, RolesInv, ConnectPcs
  <2>2. UpToDateInv' /\ RemovedInv' /\ DirsInv'
    BY <1>1, <1>4 DEF LoadStored, TypeOK, RolesInv, UpToDateInv, RemovedInv, DirsInv, Processes
  <2> QED
    BY <2>1, <2>2
<1>5. CASE LoadNothing(p)
  <2>1. TypeOK' /\ RolesInv'
    BY <1>1, <1>5 DEF LoadNothing, TypeOK, RolesInv, ConnectPcs
  <2>2. UpToDateInv' /\ RemovedInv' /\ DirsInv'
    BY <1>1, <1>5 DEF LoadNothing, TypeOK, RolesInv, UpToDateInv, RemovedInv, DirsInv, Processes
  <2> QED
    BY <2>1, <2>2
<1>6. CASE StartAuthorization(p)
  <2>1. TypeOK' /\ RolesInv'
    BY <1>1, <1>6, OvertakesFacts DEF StartAuthorization, TypeOK, RolesInv, ConnectPcs, Processes
  <2>2. raced' = FALSE => raced = FALSE /\ p \notin stale /\ For[p] \in index
    BY <1>1, <1>6, OvertakesFacts DEF StartAuthorization, UpToDateInv, Processes
  <2>3. \A q \in Processes : q # p /\ q \notin stale' => q \notin stale /\ (q \notin Cleaners \/ pc[q] \in {"idle", "all"})
    BY <1>1, <1>6, OvertakesFacts DEF StartAuthorization, Processes
  <2>4. UpToDateInv'
    BY <1>1, <1>6, <2>2, <2>3 DEF StartAuthorization, TypeOK, UpToDateInv, Processes
  <2>5. DirsInv'
    BY <1>6, <2>2 DEF StartAuthorization, DirsInv, DirsOf
  <2>9. RemovedInv'
    BY <1>1, <1>6, <2>3 DEF StartAuthorization, TypeOK, RemovedInv, Processes
  <2> QED
    BY <2>1, <2>4, <2>5, <2>9
<1>7. CASE CallbackSucceeds(p)
  <2>1. TypeOK' /\ RolesInv'
    BY <1>1, <1>7, OvertakesFacts DEF CallbackSucceeds, SaveCredentials, TypeOK, RolesInv, ConnectPcs, Processes
  <2>2. raced' = FALSE => raced = FALSE /\ p \notin stale /\ For[p] \in index
    BY <1>1, <1>7, OvertakesFacts DEF CallbackSucceeds, SaveCredentials, UpToDateInv, Processes
  <2>3. \A q \in Processes : q # p /\ q \notin stale' => q \notin stale /\ (q \notin Cleaners \/ pc[q] \in {"idle", "all"})
    BY <1>1, <1>7, OvertakesFacts DEF CallbackSucceeds, SaveCredentials, Processes
  <2>4. d \notin DirsOf(gone)' /\ DirsOf(gone)' \subseteq DirsOf(gone)
    BY <1>7 DEF CallbackSucceeds, DirsOf
  <2>5. UpToDateInv'
    BY <1>1, <1>7, <2>2, <2>3, <2>4 DEF CallbackSucceeds, SaveCredentials, TypeOK, UpToDateInv, Processes
  <2>6. DirsInv'
    BY <1>7, <2>2, <2>4 DEF CallbackSucceeds, SaveCredentials, DirsInv, DirsOf
  <2>9. RemovedInv'
    BY <1>1, <1>7, <2>3 DEF CallbackSucceeds, SaveCredentials, TypeOK, RemovedInv, Processes
  <2> QED
    BY <2>1, <2>5, <2>6, <2>9
<1>8. CASE RefreshToken(p)
  <2>1. TypeOK' /\ RolesInv'
    BY <1>1, <1>8, OvertakesFacts DEF RefreshToken, SaveCredentials, TypeOK, RolesInv, ConnectPcs, Processes
  <2>2. raced' = FALSE => raced = FALSE /\ p \notin stale /\ For[p] \in index /\ d \notin DirsOf(gone)
    BY <1>1, <1>8, OvertakesFacts DEF RefreshToken, SaveCredentials, UpToDateInv, Processes
  <2>3. \A q \in Processes : q # p /\ q \notin stale' => q \notin stale /\ (q \notin Cleaners \/ pc[q] \in {"idle", "all"})
    BY <1>1, <1>8, OvertakesFacts DEF RefreshToken, SaveCredentials, Processes
  <2>4. UpToDateInv'
    BY <1>1, <1>8, <2>2, <2>3 DEF RefreshToken, SaveCredentials, TypeOK, UpToDateInv, Processes, DirsOf
  <2>5. DirsInv'
    BY <1>8, <2>2 DEF RefreshToken, SaveCredentials, DirsInv, DirsOf
  <2>9. RemovedInv'
    BY <1>1, <1>8, <2>3 DEF RefreshToken, SaveCredentials, TypeOK, RemovedInv, Processes
  <2> QED
    BY <2>1, <2>4, <2>5, <2>9
<1>9. CASE ConnectorStops(p)
  <2>1. TypeOK' /\ RolesInv'
    BY <1>1, <1>9 DEF ConnectorStops, Ends, TypeOK, RolesInv
  <2>2. UpToDateInv' /\ RemovedInv' /\ DirsInv'
    BY <1>1, <1>9 DEF ConnectorStops, Ends, TypeOK, RolesInv, UpToDateInv, RemovedInv, DirsInv, Processes
  <2> QED
    BY <2>1, <2>2
<1> QED
  BY <1>2, <1>3, <1>4, <1>5, <1>6, <1>7, <1>8, <1>9

\* The steps of a process that clears by name.
LEMMA TargetStep ==
    ASSUME IInv, NEW q \in Cleaners, ClearTarget(q) \/ RemoveDir(q) \/ WriteRemaining(q)
    PROVE  IInv'
<1> USE StoreAssumption DEF StoreAssumption, IInv, Goto
<1>1. q \in Processes /\ q \notin Connectors /\ target[q] \subseteq Backends /\ target[q] \in Targets
  BY DEF Processes, TypeOK
<1>2. CASE ClearTarget(q)
  <2>1. TypeOK' /\ RolesInv'
    <3>1. target'[q] \subseteq Backends
      BY <1>2 DEF ClearTarget
    <3> QED
      BY <1>1, <1>2, <3>1 DEF ClearTarget, TypeOK, RolesInv
  <2>2. UpToDateInv' /\ DirsInv'
    BY <1>1, <1>2 DEF ClearTarget, TypeOK, UpToDateInv, DirsInv
  <2>3. RemovedInv'
    <3>1. (seen'[q] \cap target'[q]) \ left'[q] = {}
      BY <1>1, <1>2 DEF ClearTarget, TypeOK
    <3>2. \A r \in Cleaners : r # q =>
            pc'[r] = pc[r] /\ seen'[r] = seen[r] /\ target'[r] = target[r] /\ left'[r] = left[r]
      BY <1>1, <1>2 DEF ClearTarget, TypeOK, Processes
    <3> QED
      BY <1>2, <3>1, <3>2 DEF ClearTarget, RemovedInv
  <2> QED
    BY <2>1, <2>2, <2>3
<1>3. CASE RemoveDir(q)
  <2> PICK b \in left[q] : Dir[b] \notin creds \cup states /\ left' = [left EXCEPT ![q] = @ \ {b}]
    BY <1>3 DEF RemoveDir
  <2>1. TypeOK' /\ RolesInv' /\ UpToDateInv' /\ DirsInv'
    BY <1>1, <1>3 DEF RemoveDir, TypeOK, RolesInv, UpToDateInv, DirsInv
  <2>2. RemovedInv'
    BY <1>1, <1>3 DEF RemoveDir, TypeOK, RemovedInv
  <2> QED
    BY <2>1, <2>2
<1>4. CASE WriteRemaining(q)
  <2> DEFINE Others == {p \in Processes : pc[p] \in {"remember", "removing"}}
                       \cup {p \in Connectors : Dir[For[p]] \in DirsOf(target[q])}
  <2>1. Overtakes(q, Others) /\ Others \in SUBSET Processes
    BY <1>4 DEF WriteRemaining, WrittenBack, Processes
  <2>2. /\ index' = seen[q] \ target[q] /\ gone' = gone \cup (seen[q] \cap target[q])
        /\ pc' = [pc EXCEPT ![q] = "idle"] /\ seen' = [seen EXCEPT ![q] = {}]
        /\ UNCHANGED <<creds, states, target, left, orphans>>
        /\ pc[q] = "removing" /\ left[q] = {}
    BY <1>4 DEF WriteRemaining, WrittenBack, Ends
  <2>3. TypeOK' /\ RolesInv'
    <3>1. stale' \subseteq Processes /\ raced' \in BOOLEAN
      BY <1>1, <2>1, OvertakesFacts
    <3>2. index' \subseteq Backends /\ gone' \subseteq Backends /\ seen' \in [Processes -> SUBSET Backends]
      BY <1>1, <2>2 DEF TypeOK
    <3>3. pc' \in [Processes -> {"idle", "removing", "all"} \cup ConnectPcs] /\ RolesInv'
      BY <1>1, <2>2 DEF TypeOK, RolesInv
    <3> QED
      BY <2>2, <3>1, <3>2, <3>3 DEF TypeOK
  <2>4. raced' = FALSE => raced = FALSE /\ q \notin stale /\ seen[q] = index
    BY <1>1, <2>1, <2>2, OvertakesFacts DEF UpToDateInv
  <2>5. \A p \in Processes : p # q /\ p \notin stale' => p \notin stale /\ (p \notin Others \/ pc[p] \in {"idle", "all"})
    BY <1>1, <2>1, OvertakesFacts
  <2>6. \A p \in Connectors : p \notin stale' /\ Active(p) =>
            For[p] \notin target[q] /\ Dir[For[p]] \notin DirsOf(target[q])
    BY <1>1, <2>5 DEF Processes, DirsOf, Active, RolesInv, ConnectPcs
  <2>7. UpToDateInv'
    <3> SUFFICES ASSUME raced' = FALSE PROVE UpToDateInv'
      BY DEF UpToDateInv
    <3>1. \A p \in Processes : pc'[p] \in {"remember", "removing"} => p \in stale'
      BY <2>2, <2>5 DEF TypeOK, Active
    <3>2. ASSUME NEW p \in Connectors, pc'[p] \in {"load", "authorize", "callback", "connected"}, p \notin stale'
          PROVE  /\ For[p] \in index'
                 /\ pc'[p] = "connected" => Dir[For[p]] \notin DirsOf(gone')
      <4>1. p # q /\ p \in Processes /\ pc[p] = pc'[p] /\ Active(p) /\ p \notin stale
        BY <1>1, <2>2, <2>5, <3>2 DEF TypeOK, Active, Processes
      <4>2. For[p] \in index /\ (pc[p] = "connected" => Dir[For[p]] \notin DirsOf(gone))
        BY <2>4, <3>2, <4>1 DEF UpToDateInv
      <4>3. For[p] \notin target[q] /\ Dir[For[p]] \notin DirsOf(target[q])
        BY <2>6, <3>2, <4>1
      <4> QED
        BY <2>2, <2>4, <4>1, <4>2, <4>3 DEF DirsOf
    <3> QED
      BY <3>1, <3>2 DEF UpToDateInv, DirsOf
  <2>8. DirsInv'
    <3> SUFFICES ASSUME raced' = FALSE PROVE DirsInv'
      BY DEF DirsInv
    <3>1. creds \cup states \subseteq DirsOf(index) \cup orphans /\ creds \cap DirsOf(gone) = {}
      BY <2>4 DEF DirsInv
    <3>2. \A x \in creds \cup states : x \notin DirsOf(index \cap target[q])
      BY <2>2, <2>4 DEF RemovedInv, DirsOf
    <3>3. \A x \in creds \cup states : x \in DirsOf(index \ target[q]) \cup orphans
      BY <3>1, <3>2 DEF DirsOf
    <3>4. creds \cap DirsOf(gone \cup (index \cap target[q])) = {}
      BY <3>1, <3>2 DEF DirsOf
    <3> QED
      BY <2>2, <2>4, <3>3, <3>4 DEF DirsInv, DirsOf
  <2>9. RemovedInv'
    BY <2>2, <2>4, <2>5 DEF RemovedInv, TypeOK, Processes
  <2> QED
    BY <2>3, <2>7, <2>8, <2>9
<1> QED
  BY <1>2, <1>3, <1>4

\* The steps of a process that clears everything, of one that removes a file, and of
\* one that stops.
LEMMA RootStep ==
    ASSUME IInv, NEW q \in Cleaners,
           UnlinkFile(q) \/ ClearAll(q) \/ UnlinkIndex(q) \/ RemoveRoot(q) \/ CleanerStops(q)
    PROVE  IInv'
<1> USE StoreAssumption DEF StoreAssumption, IInv, Goto
<1>1. q \in Processes /\ q \notin Connectors
  BY DEF Processes
<1>2. CASE UnlinkFile(q)
  <2>1. creds' \subseteq creds /\ states' \subseteq states
        /\ UNCHANGED <<index, pc, seen, target, left, orphans, gone, stale, raced>>
    BY <1>2 DEF UnlinkFile
  <2>2. TypeOK' /\ RolesInv' /\ UpToDateInv'
    BY <2>1 DEF TypeOK, RolesInv, UpToDateInv, DirsOf
  <2>3. RemovedInv' /\ DirsInv'
    BY <2>1 DEF RemovedInv, DirsInv, DirsOf
  <2> QED
    BY <2>2, <2>3
<1>3. CASE ClearAll(q)
  <2>1. TypeOK' /\ RolesInv'
    BY <1>1, <1>3 DEF ClearAll, TypeOK, RolesInv
  <2>2. UpToDateInv' /\ RemovedInv' /\ DirsInv'
    BY <1>1, <1>3 DEF ClearAll, TypeOK, UpToDateInv, RemovedInv, DirsInv
  <2> QED
    BY <2>1, <2>2
<1>4. CASE UnlinkIndex(q)
  <2>1. TypeOK' /\ RolesInv' /\ (raced' = FALSE => raced = FALSE)
    BY <1>1, <1>4, OvertakesFacts DEF UnlinkIndex, TypeOK, RolesInv
  <2>2. \A p \in Processes : p \notin stale' => pc[p] \in {"idle", "all"}
    BY <1>1, <1>4, OvertakesFacts DEF UnlinkIndex
  <2>3. UpToDateInv' /\ RemovedInv'
    BY <1>4, <2>2 DEF UnlinkIndex, UpToDateInv, RemovedInv, Processes
  <2>4. DirsInv'
    BY <1>4, <2>1 DEF UnlinkIndex, DirsInv, DirsOf
  <2> QED
    BY <2>1, <2>3, <2>4
<1>5. CASE RemoveRoot(q)
  <2>1. TypeOK' /\ RolesInv'
    BY <1>1, <1>5 DEF RemoveRoot, RootGone, Ends, TypeOK, RolesInv
  <2>2. UpToDateInv' /\ RemovedInv' /\ DirsInv'
    BY <1>1, <1>5 DEF RemoveRoot, RootGone, Ends, TypeOK, UpToDateInv, RemovedInv, DirsInv, Processes
  <2> QED
    BY <2>1, <2>2
<1>6. CASE CleanerStops(q)
  <2>1. TypeOK' /\ RolesInv'
    BY <1>1, <1>6 DEF CleanerStops, Ends, TypeOK, RolesInv
  <2>2. UpToDateInv' /\ RemovedInv' /\ DirsInv'
    BY <1>1, <1>6 DEF CleanerStops, Ends, TypeOK, UpToDateInv, RemovedInv, DirsInv
  <2> QED
    BY <2>1, <2>2
<1> QED
  BY <1>2, <1>3, <1>4, <1>5, <1>6

\* Every step preserves the invariant.
LEMMA StepInv == IInv /\ [Next]_vars => IInv'
<1> SUFFICES ASSUME IInv, [Next]_vars PROVE IInv'
  OBVIOUS
<1>1. CASE Next
  BY <1>1, ConnectorStep, TargetStep, RootStep DEF Next
<1>2. CASE UNCHANGED vars
  BY <1>2 DEF vars, IInv, TypeOK, RolesInv, UpToDateInv, RemovedInv, DirsInv, DirsOf
<1> QED
  BY <1>1, <1>2

\* The invariant holds in every reachable state.
THEOREM Inductive == Spec => []IInv
BY InitInv, StepInv, PTL DEF Spec

\* Every variable has its type, for any backends and processes.
THEOREM TypeCorrect == Spec => []TypeOK
<1>1. IInv => TypeOK
  BY DEF IInv
<1> QED
  BY Inductive, <1>1, PTL

\* Until an overtaken process writes, every directory on disk has its entry, or had one
\* when a clear of everything unlinked the index, and was not connected since.
THEOREM CredentialsFound == Spec => []CredentialsAreListed
<1>1. IInv => CredentialsAreListed
  <2>1. IInv => raced \in BOOLEAN
    BY DEF IInv, TypeOK
  <2> QED
    BY <2>1 DEF IInv, DirsInv, CredentialsAreListed
<1> QED
  BY Inductive, <1>1, PTL

\* Until an overtaken process writes, what was cleared stays cleared.
THEOREM ClearedStays == Spec => []ClearedIsGone
<1>1. IInv => ClearedIsGone
  <2>1. IInv => raced \in BOOLEAN
    BY DEF IInv, TypeOK
  <2> QED
    BY <2>1 DEF IInv, DirsInv, ClearedIsGone
<1> QED
  BY Inductive, <1>1, PTL
================================================================================
