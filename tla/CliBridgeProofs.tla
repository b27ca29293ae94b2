-------------------------- MODULE CliBridgeProofs --------------------------
(* Theorems about CliBridge, for all sessions, process ids, ports and commands. *)
EXTENDS CliBridge, TLAPS, WellFoundedInduction

----------------------------------------------------------------------------
(* Sequences of entries *)

\* A set of numbers that is not empty has a least one.
LEMMA LeastExists ==
    ASSUME NEW S \in SUBSET Nat, S # {}
    PROVE  \E n \in S : \A m \in S : n <= m
<1>1. PICK n \in S : \A m \in S : ~(<<m, n>> \in OpToRel(<, Nat))
  BY NatLessThanWellFounded, WFMin
<1>2. OpToRel(<, Nat) = {p \in Nat \X Nat : p[1] < p[2]}
  BY Zenon DEF OpToRel
<1>3. \A m \in S : ~(m < n)
  BY <1>1, <1>2
<1> QED
  BY <1>3

\* The function that Only is written with, up to the n-th place of s.
UptoOn(s, T, n, f) ==
    f = [i \in 0 .. n |->
           IF i = 0 THEN <<>>
           ELSE IF s[i] \in T THEN Append(f[i - 1], s[i]) ELSE f[i - 1]]

\* There is such a function: the first place without one would have one.
LEMMA UptoExists ==
    ASSUME NEW s, NEW T, NEW n \in Nat
    PROVE  \E f : UptoOn(s, T, n, f)
<1> DEFINE bad == {m \in Nat : ~\E f : UptoOn(s, T, m, f)}
<1> SUFFICES ASSUME bad # {} PROVE FALSE
  OBVIOUS
<1>1. PICK m \in bad : \A k \in bad : m <= k
  <2> HIDE DEF bad
  <2>1. bad \in SUBSET Nat
    BY DEF bad
  <2> QED
    BY <2>1, LeastExists
<1>2. m # 0
  <2>1. UptoOn(s, T, 0, [i \in 0 .. 0 |-> <<>>])
    BY DEF UptoOn
  <2> QED
    BY <2>1
<1>3. PICK f : UptoOn(s, T, m - 1, f)
  BY <1>1, <1>2
<1> DEFINE g == [i \in 0 .. m |->
                   IF i = m THEN IF s[m] \in T THEN Append(f[m - 1], s[m]) ELSE f[m - 1]
                   ELSE f[i]]
<1>4. \A i \in 0 .. m : g[i] = IF i = 0 THEN <<>>
                               ELSE IF s[i] \in T THEN Append(g[i - 1], s[i]) ELSE g[i - 1]
  <2>1. CASE m \in Nat /\ m # 0
    <3>1. \A i \in 0 .. (m - 1) :
            f[i] = IF i = 0 THEN <<>> ELSE IF s[i] \in T THEN Append(f[i - 1], s[i]) ELSE f[i - 1]
      BY <1>3, <2>1 DEF UptoOn
    <3>2. \A i \in 0 .. (m - 1) : g[i] = f[i]
      BY <2>1
    <3>3. \A i \in 0 .. (m - 1) : i # 0 => g[i - 1] = f[i - 1]
      BY <2>1
    <3>4. ASSUME NEW i \in 0 .. m, i # m
          PROVE  g[i] = IF i = 0 THEN <<>>
                        ELSE IF s[i] \in T THEN Append(g[i - 1], s[i]) ELSE g[i - 1]
      <4>1. i \in 0 .. (m - 1)
        BY <2>1, <3>4
      <4> QED
        BY <4>1, <3>1, <3>2, <3>3
    <3>5. g[m] = IF s[m] \in T THEN Append(g[m - 1], s[m]) ELSE g[m - 1]
      BY <2>1
    <3> QED
      BY <2>1, <3>4, <3>5
  <2> QED
    BY <2>1, <1>2
<1>5. UptoOn(s, T, m, g)
  BY <1>4 DEF UptoOn
<1> QED
  BY <1>5

\* Only is that function at the end of s.
LEMMA OnlyUnfolds ==
    ASSUME NEW s \in Seq(Sessions), NEW T
    PROVE  \E f : UptoOn(s, T, Len(s), f) /\ Only(s, T) = f[Len(s)]
<1> DEFINE upto == CHOOSE f : UptoOn(s, T, Len(s), f)
<1>1. UptoOn(s, T, Len(s), upto)
  BY UptoExists
<1>2. Only(s, T) = upto[Len(s)]
  BY DEF Only, UptoOn
<1> QED
  BY <1>1, <1>2

\* No two entries with one process id.
Apart(s) == \A i, j \in DOMAIN s : Pid[s[i]] = Pid[s[j]] => i = j

\* What is left of a sequence of entries: those of T and no others, in the places of
\* a sequence, and apart where they were.
LEMMA OnlyKeeps ==
    ASSUME NEW s \in Seq(Sessions), NEW T
    PROVE  /\ Only(s, T) \in Seq(Sessions)
           /\ Range(Only(s, T)) = Range(s) \cap T
           /\ Apart(s) => Apart(Only(s, T))
<1>1. PICK f : UptoOn(s, T, Len(s), f) /\ Only(s, T) = f[Len(s)]
  BY OnlyUnfolds
<1> DEFINE Begin(n) == {s[k] : k \in 1 .. n}
           good(n) == /\ f[n] \in Seq(Sessions)
                      /\ Range(f[n]) = Begin(n) \cap T
                      /\ Apart(s) => Apart(f[n])
           bad == {n \in 0 .. Len(s) : ~good(n)}
<1>2. \A i \in 0 .. Len(s) : f[i] = IF i = 0 THEN <<>>
                                    ELSE IF s[i] \in T THEN Append(f[i - 1], s[i]) ELSE f[i - 1]
  BY <1>1 DEF UptoOn
<1>3. bad = {}
  <2> SUFFICES ASSUME bad # {} PROVE FALSE
    OBVIOUS
  <2>1. PICK n \in bad : \A m \in bad : n <= m
    <3> HIDE DEF bad
    <3>1. bad \in SUBSET Nat
      BY DEF bad
    <3> QED
      BY <3>1, LeastExists
  <2>2. n # 0
    <3>1. f[0] = <<>>
      BY <1>2
    <3>2. Begin(0) = {} /\ Range(<<>>) = {}
      BY DEF Range
    <3>3. Apart(<<>>)
      BY DEF Apart
    <3>4. good(0)
      BY <3>1, <3>2, <3>3
    <3> QED
      BY <2>1, <3>4
  <2> DEFINE m == n - 1
             e == s[n]
  <2>3. m \in 0 .. Len(s) /\ n \in 1 .. Len(s) /\ m = n - 1 /\ good(m)
    <3>1. n \in 0 .. Len(s) /\ m \in 0 .. Len(s) /\ ~(n <= m)
      BY <2>1, <2>2
    <3>2. m \notin bad
      BY <2>1, <3>1
    <3>3. good(m)
      <4> HIDE DEF good
      <4> QED
        BY <3>1, <3>2
    <3> HIDE DEF good
    <3> QED
      BY <2>2, <3>1, <3>3
  <2>4. e \in Sessions
    BY <2>3
  <2>5. Begin(n) = Begin(m) \cup {e}
    BY <2>3
  <2>6. f[n] = IF e \in T THEN Append(f[m], e) ELSE f[m]
    BY <1>2, <2>3
  <2>7. CASE e \notin T
    <3>1. f[n] = f[m] /\ Begin(n) \cap T = Begin(m) \cap T
      BY <2>5, <2>6, <2>7
    <3> HIDE DEF Begin
    <3> QED
      BY <2>1, <2>3, <3>1
  <2>8. CASE e \in T
    <3> DEFINE q == f[m]
    <3>1. f[n] = Append(q, e) /\ q \in Seq(Sessions)
      BY <2>3, <2>6, <2>8
    <3>2. Range(q) = Begin(m) \cap T
      BY <2>3
    <3> HIDE DEF q, e, m
    <3>3. /\ Append(q, e) \in Seq(Sessions) /\ Len(Append(q, e)) = Len(q) + 1
          /\ \A i \in 1 .. Len(q) : Append(q, e)[i] = q[i]
          /\ Append(q, e)[Len(q) + 1] = e
      BY <2>4, <3>1
    <3>4. DOMAIN Append(q, e) = (DOMAIN q) \cup {Len(q) + 1} /\ DOMAIN q = 1 .. Len(q)
      BY <2>4, <3>1, <3>3
    <3>5. Range(Append(q, e)) = Range(q) \cup {e}
      BY <3>3, <3>4 DEF Range
    <3>6. Range(f[n]) = Begin(n) \cap T
      <4> HIDE DEF Begin
      <4> QED
        BY <2>5, <2>8, <3>1, <3>2, <3>5
    <3>7. ASSUME Apart(s) PROVE Apart(Append(q, e))
      <4>1. Apart(q)
        BY <2>3, <3>7 DEF q
      <4>2. \A i \in DOMAIN q : Pid[q[i]] # Pid[e]
        <5> SUFFICES ASSUME NEW i \in DOMAIN q, Pid[q[i]] = Pid[e] PROVE FALSE
          OBVIOUS
        <5>1. q[i] \in Begin(m)
          BY <3>2 DEF Range
        <5>2. PICK k \in 1 .. m : q[i] = s[k]
          BY <5>1
        <5>3. k \in DOMAIN s /\ n \in DOMAIN s /\ k # n
          BY <2>3, <5>2
        <5> QED
          BY <3>7, <5>2, <5>3 DEF Apart, e
      <4>3. ASSUME NEW i \in DOMAIN Append(q, e), NEW j \in DOMAIN Append(q, e),
                   Pid[Append(q, e)[i]] = Pid[Append(q, e)[j]]
            PROVE  i = j
        BY <3>3, <3>4, <4>1, <4>2, <4>3 DEF Apart
      <4> QED
        BY <4>3 DEF Apart
    <3> QED
      BY <2>1, <3>1, <3>3, <3>6, <3>7
  <2> QED
    BY <2>7, <2>8
<1>4. good(Len(s))
  <2>1. Len(s) \in 0 .. Len(s)
    OBVIOUS
  <2> HIDE DEF good
  <2> QED
    BY <1>3, <2>1
<1>5. Begin(Len(s)) = Range(s)
  BY DEF Range
<1> QED
  BY <1>1, <1>4, <1>5

----------------------------------------------------------------------------
(* The inductive invariant *)

\* A session that runs has its own port in its entry, and its process id to itself.
Proxies ==
    /\ \A s \in Sessions :
         IF pc[s] \in Up THEN port[s] \in Ports /\ port[s] = bridge[s] ELSE port[s] = NoPort
    /\ \A s, t \in Sessions : pc[s] \in Up /\ pc[t] \in Up /\ Pid[s] = Pid[t] => s = t

\* An entry is only written when its session gets ready.
Entries ==
    /\ \A s \in Range(script) : pc[s] \in {"ready", "dead"}
    /\ \A t \in Sessions : \A s \in Range(loaded[t]) : pc[s] \in {"ready", "dead"}
    /\ \A t \in Sessions : Apart(loaded[t])

\* A session that will write the script, and did not miss a change of it, has read of
\* all that are ready.
Fresh ==
    lost \/ \A t \in Sessions :
              pc[t] \in {"render", "truncated"} /\ t \notin stale =>
                \A s \in Sessions : pc[s] = "ready" => s \in Range(loaded[t])

OneEntry == \A u \in Users : \A s, t \in entry[u] : s = t

IInv == TypeOK /\ Proxies /\ Entries /\ Fresh /\ ReadyIsListed /\ OneEntry

LEMMA InitInv == Init => IInv
<1> SUFFICES ASSUME Init PROVE IInv
  OBVIOUS
<1>1. TypeOK
  <2>1. <<>> \in Seq(Sessions) /\ DOMAIN <<>> = {}
    OBVIOUS
  <2>2. /\ loaded \in [Sessions -> Seq(Sessions)] /\ script \in Seq(Sessions)
        /\ \A i, j \in DOMAIN script : Pid[script[i]] = Pid[script[j]] => i = j
    BY <2>1 DEF Init
  <2>3. /\ pc \in [Sessions -> {"idle", "dead"} \cup Up]
        /\ port \in [Sessions -> Ports \cup {NoPort}] /\ bridge \in [Sessions -> Ports \cup {NoPort}]
    BY DEF Init
  <2>4. /\ user \in [Users -> {"idle", "exec", "done", "refused", "down"}]
        /\ entry \in [Users -> SUBSET Sessions]
        /\ stale \subseteq Sessions /\ lost \in BOOLEAN /\ astray \subseteq Users
    BY DEF Init
  <2> QED
    BY <2>2, <2>3, <2>4 DEF TypeOK
<1>2. Proxies /\ Entries /\ Fresh /\ ReadyIsListed /\ OneEntry
  BY DEF Init, Proxies, Entries, Fresh, ReadyIsListed, OneEntry, Up, Writing, Range, Apart
<1> QED
  BY <1>1, <1>2 DEF IInv

\* A new session has a free port and a free process id; no entry is written.
LEMMA StartInv ==
    ASSUME IInv, NEW s \in Sessions, Start(s)
    PROVE  IInv'
<1> USE DEF IInv
<1>1. PICK p \in Ports : port' = [port EXCEPT ![s] = p] /\ bridge' = [bridge EXCEPT ![s] = p]
  BY DEF Start
<1>2. /\ pc[s] = "idle" /\ pc' = [pc EXCEPT ![s] = "read"]
      /\ \A t \in Sessions : pc[t] \in Up => Pid[t] # Pid[s]
      /\ UNCHANGED <<script, loaded, stale, lost, users>>
  BY DEF Start
<1>3. TypeOK'
  BY <1>1, <1>2 DEF TypeOK, Up, Writing, users
<1>4. /\ pc \in [Sessions -> {"idle", "dead"} \cup Up] /\ pc'[s] = "read" /\ pc'[s] \in Up
      /\ \A t \in Sessions \ {s} : pc'[t] = pc[t]
  BY <1>2 DEF TypeOK, Up, Writing
<1>5. Proxies'
  BY <1>1, <1>2, <1>4 DEF Proxies, TypeOK, BridgeAssumption
<1>6. Entries'
  BY <1>2, <1>4 DEF Entries, TypeOK, Range
<1>7. Fresh' /\ ReadyIsListed'
  BY <1>2, <1>4 DEF Fresh, ReadyIsListed, InScript, users
<1>8. OneEntry'
  BY <1>2 DEF OneEntry, users
<1> QED
  BY <1>3, <1>5, <1>6, <1>7, <1>8

\* What is kept of a whole script has all that are ready: their proxies answer.
LEMMA ReadScriptInv ==
    ASSUME IInv, NEW s \in Sessions, ReadScript(s)
    PROVE  IInv'
<1> USE DEF IInv
<1>1. /\ pc[s] = "read" /\ pc' = [pc EXCEPT ![s] = "render"]
      /\ loaded' = [loaded EXCEPT ![s] = KeepLive(s)]
      /\ stale' = IF \E t \in Sessions : pc[t] = "truncated" THEN stale \cup {s} ELSE stale \ {s}
      /\ UNCHANGED <<port, bridge, script, lost, users>>
  BY DEF ReadScript
<1> DEFINE live == {t \in Sessions : Answers(t)}
<1>2. script \in Seq(Sessions) /\ Apart(script)
  BY DEF TypeOK, Apart
<1>3. /\ KeepLive(s) \in Seq(Sessions) /\ Apart(KeepLive(s))
      /\ Range(KeepLive(s)) = Range(script) \cap live
  BY <1>2, OnlyKeeps DEF KeepLive
<1>4. /\ pc \in [Sessions -> {"idle", "dead"} \cup Up] /\ pc'[s] = "render" /\ pc'[s] \in Up
      /\ \A t \in Sessions \ {s} : pc'[t] = pc[t]
      /\ pc[s] \in Up
      /\ \A t \in Sessions : pc'[t] = "ready" <=> pc[t] = "ready"
      /\ \A t \in Sessions : pc'[t] = "truncated" <=> pc[t] = "truncated"
  BY <1>1 DEF TypeOK, Up, Writing
<1>5. TypeOK'
  BY <1>1, <1>3, <1>4 DEF TypeOK, users
<1>6. Proxies'
  BY <1>1, <1>4 DEF Proxies
<1>7. loaded \in [Sessions -> Seq(Sessions)] /\ loaded'[s] = KeepLive(s)
      /\ \A t \in Sessions \ {s} : loaded'[t] = loaded[t]
  BY <1>1 DEF TypeOK
<1>8. Entries'
  <2>1. Range(script) \subseteq Sessions /\ \A t \in Sessions : Range(loaded[t]) \subseteq Sessions
    BY <1>2, <1>7 DEF Range
  <2> QED
    BY <1>1, <1>3, <1>4, <1>7, <2>1 DEF Entries
<1>9. Fresh'
  <2> SUFFICES ASSUME ~lost, NEW t \in Sessions, pc'[t] \in {"render", "truncated"}, t \notin stale',
                      NEW r \in Sessions, pc'[r] = "ready"
               PROVE  r \in Range(loaded'[t])
    BY <1>1 DEF Fresh
  <2>1. CASE t # s
    BY <1>1, <1>4, <1>7, <2>1 DEF Fresh
  <2>2. CASE t = s
    <3>1. \A q \in Sessions : pc[q] # "truncated"
      BY <1>1, <2>2
    <3>2. pc[r] = "ready"
      BY <1>4
    <3>3. InScript(r)
      BY <3>1, <3>2 DEF ReadyIsListed
    <3>4. Answers(r)
      BY <3>2, BridgeAssumption DEF Proxies, Answers, Up, BridgeAssumption
    <3>5. r \in Range(script)
      BY <3>3 DEF InScript, Range
    <3> QED
      BY <1>3, <1>7, <2>2, <3>4, <3>5
  <2> QED
    BY <2>1, <2>2
<1>10. ReadyIsListed'
  BY <1>1, <1>4 DEF ReadyIsListed, InScript
<1>11. OneEntry'
  BY <1>1 DEF OneEntry, users
<1> QED
  BY <1>5, <1>6, <1>8, <1>9, <1>10, <1>11

LEMMA RenderAloneInv ==
    ASSUME IInv, NEW s \in Sessions, RenderAlone(s)
    PROVE  IInv'
<1> USE DEF IInv
<1>1. /\ pc[s] = "read" /\ pc' = [pc EXCEPT ![s] = "render"]
      /\ stale' = stale \cup {s}
      /\ UNCHANGED <<port, bridge, script, loaded, lost, users>>
  BY DEF RenderAlone
<1>2. /\ pc \in [Sessions -> {"idle", "dead"} \cup Up] /\ pc'[s] = "render" /\ pc'[s] \in Up
      /\ \A t \in Sessions \ {s} : pc'[t] = pc[t]
      /\ pc[s] \in Up
  BY <1>1 DEF TypeOK, Up, Writing
<1>3. TypeOK'
  BY <1>1, <1>2 DEF TypeOK, users
<1>4. Proxies' /\ Entries'
  BY <1>1, <1>2 DEF Proxies, Entries
<1>5. Fresh' /\ ReadyIsListed' /\ OneEntry'
  BY <1>1, <1>2 DEF Fresh, ReadyIsListed, OneEntry, InScript, users
<1> QED
  BY <1>3, <1>4, <1>5

LEMMA TruncateInv ==
    ASSUME IInv, NEW s \in Sessions, Truncate(s)
    PROVE  IInv'
<1> USE DEF IInv
<1>1. /\ pc[s] = "render" /\ pc' = [pc EXCEPT ![s] = "truncated"]
      /\ script' = <<>>
      /\ UNCHANGED <<port, bridge, loaded, stale, lost, users>>
  BY DEF Truncate
<1>2. /\ pc \in [Sessions -> {"idle", "dead"} \cup Up] /\ pc'[s] = "truncated" /\ pc'[s] \in Up
      /\ \A t \in Sessions \ {s} : pc'[t] = pc[t]
      /\ pc[s] \in Up
  BY <1>1 DEF TypeOK, Up, Writing
<1>3. script' \in Seq(Sessions) /\ DOMAIN script' = {} /\ Range(script') = {}
  BY <1>1 DEF Range
<1>4. TypeOK'
  BY <1>1, <1>2, <1>3 DEF TypeOK, users
<1>5. Proxies' /\ Entries'
  BY <1>1, <1>2, <1>3 DEF Proxies, Entries
<1>6. Fresh' /\ ReadyIsListed' /\ OneEntry'
  BY <1>1, <1>2 DEF Fresh, ReadyIsListed, OneEntry, InScript, users
<1> QED
  BY <1>4, <1>5, <1>6

\* The script has what its writer read, but for an old entry of its process id, and
\* itself; the others that were about to write have missed it.
LEMMA FillInv ==
    ASSUME IInv, NEW s \in Sessions, Fill(s)
    PROVE  IInv'
<1> USE DEF IInv
<1>1. /\ pc[s] = "truncated" /\ pc' = [pc EXCEPT ![s] = "ready"]
      /\ script' = Merged(s)
      /\ loaded' = [loaded EXCEPT ![s] = <<>>]
      /\ lost' = (lost \/ s \in stale)
      /\ stale' = (stale \cup {t \in Sessions : pc[t] \in {"render", "truncated"}}) \ {s}
      /\ UNCHANGED <<port, bridge, users>>
  BY DEF Fill
<1> DEFINE others == {t \in Sessions : Pid[t] # Pid[s]}
           kept == Only(loaded[s], others)
<1>2. /\ loaded \in [Sessions -> Seq(Sessions)] /\ loaded[s] \in Seq(Sessions) /\ Apart(loaded[s])
      /\ lost \in BOOLEAN /\ stale \subseteq Sessions
  BY DEF TypeOK, Entries
<1>3. kept \in Seq(Sessions) /\ Apart(kept) /\ Range(kept) = Range(loaded[s]) \cap others
  BY <1>2, OnlyKeeps
<1>4. script' = Append(kept, s)
  BY <1>1 DEF Merged
<1> HIDE DEF kept
<1>5. /\ script' \in Seq(Sessions)
      /\ DOMAIN script' = (DOMAIN kept) \cup {Len(kept) + 1} /\ DOMAIN kept = 1 .. Len(kept)
      /\ \A i \in DOMAIN kept : script'[i] = kept[i]
      /\ script'[Len(kept) + 1] = s
  BY <1>3, <1>4
<1>6. Range(script') = Range(kept) \cup {s}
  BY <1>5 DEF Range
<1>7. Apart(script')
  <2>1. \A i \in DOMAIN kept : Pid[kept[i]] # Pid[s]
    BY <1>3 DEF Range
  <2> SUFFICES ASSUME NEW i \in DOMAIN script', NEW j \in DOMAIN script',
                      Pid[script'[i]] = Pid[script'[j]]
               PROVE  i = j
    BY DEF Apart
  <2> QED
    BY <1>3, <1>5, <2>1 DEF Apart
<1>8. /\ pc \in [Sessions -> {"idle", "dead"} \cup Up] /\ pc'[s] = "ready" /\ pc'[s] \in Up
      /\ \A t \in Sessions \ {s} : pc'[t] = pc[t]
      /\ pc[s] \in Up
  BY <1>1 DEF TypeOK, Up, Writing
<1>9. /\ loaded' \in [Sessions -> Seq(Sessions)]
      /\ Range(loaded'[s]) = {} /\ Apart(loaded'[s])
      /\ \A t \in Sessions \ {s} : loaded'[t] = loaded[t]
  <2>1. Range(<<>>) = {} /\ Apart(<<>>) /\ <<>> \in Seq(Sessions)
    BY DEF Range, Apart
  <2> QED
    BY <1>1, <1>2, <2>1
<1>10. TypeOK'
  <2>1. /\ lost' \in BOOLEAN /\ stale' \subseteq Sessions
    BY <1>1, <1>2
  <2> QED
    BY <1>1, <1>5, <1>7, <1>8, <1>9, <2>1 DEF TypeOK, Apart, users
<1>11. Proxies'
  BY <1>1, <1>8 DEF Proxies
<1>12. Entries'
  <2>1. Range(kept) \subseteq Range(loaded[s]) /\ Range(kept) \subseteq Sessions
    BY <1>3
  <2>2. \A t \in Sessions : Range(loaded[t]) \subseteq Sessions
    BY <1>2 DEF Range
  <2> QED
    BY <1>6, <1>8, <1>9, <2>1, <2>2 DEF Entries
<1>13. Fresh'
  <2> SUFFICES ASSUME NEW t \in Sessions, pc'[t] \in {"render", "truncated"}, t \notin stale'
               PROVE  FALSE
    BY DEF Fresh
  <2> QED
    BY <1>1, <1>8
<1>14. ReadyIsListed'
  <2> SUFFICES ASSUME ~lost', NEW r \in Sessions, pc'[r] = "ready"
               PROVE  r \in Range(script')
    BY DEF ReadyIsListed, InScript, Range
  <2>1. CASE r # s
    <3>1. pc[r] = "ready" /\ r \in Range(loaded[s])
      BY <1>1, <1>8, <2>1 DEF Fresh
    <3>2. Pid[r] # Pid[s]
      BY <1>8, <2>1, <3>1 DEF Proxies, Up
    <3> QED
      BY <1>3, <1>6, <3>1, <3>2
  <2> QED
    BY <1>6, <2>1
<1>15. OneEntry'
  BY <1>1 DEF OneEntry, users
<1> QED
  BY <1>10, <1>11, <1>12, <1>13, <1>14, <1>15

\* The script is what it was, or was being written.
LEMMA DieInv ==
    ASSUME IInv, NEW s \in Sessions, Die(s)
    PROVE  IInv'
<1> USE DEF IInv
<1>1. /\ pc[s] \in Up /\ pc' = [pc EXCEPT ![s] = "dead"]
      /\ port' = [port EXCEPT ![s] = NoPort]
      /\ loaded' = [loaded EXCEPT ![s] = <<>>]
      /\ stale' = stale \ {s}
      /\ lost' = (lost \/ pc[s] = "truncated")
      /\ UNCHANGED <<bridge, script, users>>
  BY DEF Die
<1>2. /\ pc \in [Sessions -> {"idle", "dead"} \cup Up] /\ pc'[s] = "dead" /\ pc'[s] \notin Up
      /\ \A t \in Sessions \ {s} : pc'[t] = pc[t]
      /\ port'[s] = NoPort /\ \A t \in Sessions \ {s} : port'[t] = port[t]
      /\ loaded \in [Sessions -> Seq(Sessions)] /\ lost \in BOOLEAN /\ stale \subseteq Sessions
      /\ script \in Seq(Sessions)
  BY <1>1 DEF TypeOK, Up, Writing
<1>3. /\ loaded' \in [Sessions -> Seq(Sessions)]
      /\ Range(loaded'[s]) = {} /\ Apart(loaded'[s])
      /\ \A t \in Sessions \ {s} : loaded'[t] = loaded[t]
  <2>1. Range(<<>>) = {} /\ Apart(<<>>) /\ <<>> \in Seq(Sessions)
    BY DEF Range, Apart
  <2> QED
    BY <1>1, <1>2, <2>1
<1>4. TypeOK'
  <2>1. /\ lost' \in BOOLEAN /\ stale' \subseteq Sessions
    BY <1>1, <1>2
  <2> QED
    BY <1>1, <1>2, <1>3, <2>1 DEF TypeOK, users
<1>5. Proxies'
  BY <1>1, <1>2 DEF Proxies
<1>6. Entries'
  <2>1. Range(script) \subseteq Sessions /\ \A t \in Sessions : Range(loaded[t]) \subseteq Sessions
    BY <1>2 DEF Range
  <2> QED
    BY <1>1, <1>2, <1>3, <2>1 DEF Entries
<1>7. Fresh'
  BY <1>1, <1>2, <1>3 DEF Fresh
<1>8. ReadyIsListed'
  BY <1>1, <1>2 DEF ReadyIsListed, InScript
<1>9. OneEntry'
  BY <1>1 DEF OneEntry, users
<1> QED
  BY <1>4, <1>5, <1>6, <1>7, <1>8, <1>9

----------------------------------------------------------------------------
(* What a command picks *)

\* One entry at most: those of one process id in the script are one.
LEMMA PicksOne ==
    ASSUME TypeOK, NEW u \in Users
    PROVE  /\ Picks(u) \subseteq Sessions
           /\ \A s, t \in Picks(u) : s = t
<1> DEFINE near == SelectInSeq(Home[u], LAMBDA pid : Under(u, pid) # {})
           live == SelectInSeq(script, Answers)
<1>1. Picks(u) = IF near # 0 THEN Under(u, Home[u][near])
                 ELSE IF live # 0 THEN {script[live]} ELSE {}
  BY DEF Picks
<1>2. \A pid : \A s, t \in Under(u, pid) : s = t
  BY DEF Under, InScript, TypeOK
<1>3. \A pid : Under(u, pid) \subseteq Sessions
  BY DEF Under
<1>4. live # 0 => script[live] \in Sessions
  <2> DEFINE I == {i \in 1 .. Len(script) : Answers(script[i])}
  <2>1. live = IF I # {} THEN Min(I) ELSE 0
    BY DEF SelectInSeq
  <2>2. ASSUME I # {} PROVE Min(I) \in I
    <3> HIDE DEF I
    <3>1. I \in SUBSET Nat
      BY DEF I
    <3>2. \E n \in I : \A m \in I : n <= m
      BY <2>2, <3>1, LeastExists
    <3> QED
      BY <3>2 DEF Min
  <2> QED
    BY <2>1, <2>2 DEF TypeOK
<1> HIDE DEF near, live
<1> QED
  BY <1>1, <1>2, <1>3, <1>4

\* A command under a session that is listed and answers takes an entry of one of the
\* process ids it runs under.
LEMMA PicksNear ==
    ASSUME NEW u \in Users, NEW r \in Sessions,
           InScript(r), Answers(r), Pid[r] \in Range(Home[u])
    PROVE  /\ Picks(u) # {}
           /\ \A t \in Picks(u) : InScript(t) /\ Pid[t] \in Range(Home[u])
<1> DEFINE I == {i \in 1 .. Len(Home[u]) : Under(u, Home[u][i]) # {}}
           near == SelectInSeq(Home[u], LAMBDA pid : Under(u, pid) # {})
<1>1. Home[u] \in Seq(Nat)
  BY BridgeAssumption DEF BridgeAssumption
<1>2. near = IF I # {} THEN Min(I) ELSE 0
  BY DEF SelectInSeq
<1>3. I # {}
  <2>1. PICK i \in 1 .. Len(Home[u]) : Home[u][i] = Pid[r]
    BY <1>1 DEF Range
  <2>2. r \in Under(u, Home[u][i])
    BY <2>1 DEF Under
  <2> QED
    BY <2>2
<1>4. Min(I) \in I
  <2> HIDE DEF I
  <2>1. I \in SUBSET Nat
    BY <1>1 DEF I
  <2>2. \E n \in I : \A m \in I : n <= m
    BY <1>3, <2>1, LeastExists
  <2> QED
    BY <2>2 DEF Min
<1>5. Picks(u) = IF near # 0 THEN Under(u, Home[u][near])
                 ELSE IF SelectInSeq(script, Answers) # 0
                      THEN {script[SelectInSeq(script, Answers)]} ELSE {}
  BY DEF Picks
<1> HIDE DEF near
<1>6. near \in 1 .. Len(Home[u]) /\ near # 0 /\ Under(u, Home[u][near]) # {}
  <2>1. near \in I
    <3> HIDE DEF I
    <3> QED
      BY <1>2, <1>3, <1>4
  <2> QED
    BY <1>1, <2>1
<1>7. Picks(u) = Under(u, Home[u][near]) /\ Home[u][near] \in Range(Home[u])
  BY <1>1, <1>5, <1>6 DEF Range
<1> QED
  BY <1>6, <1>7 DEF Under

\* A command leaves its sessions only for a dead one's entry, while nothing is lost.
LEMMA PicksInTree ==
    ASSUME IInv, ~lost, \A t \in Sessions : pc[t] # "truncated",
           NEW u \in Users, Above(u) # {}
    PROVE  /\ Picks(u) # {}
           /\ Picks(u) \cap Above(u) = {} => \E t \in Picks(u) : pc[t] = "dead"
<1>1. PICK r \in Sessions : pc[r] = "ready" /\ Pid[r] \in Range(Home[u])
  BY DEF Above
<1>2. InScript(r)
  BY <1>1 DEF IInv, ReadyIsListed
<1>3. Answers(r)
  BY <1>1, BridgeAssumption DEF IInv, Proxies, Answers, Up, BridgeAssumption
<1>4. /\ Picks(u) # {}
      /\ \A t \in Picks(u) : InScript(t) /\ Pid[t] \in Range(Home[u])
  BY <1>1, <1>2, <1>3, PicksNear
<1>5. \A t \in Picks(u) : t \in Sessions /\ pc[t] \in {"ready", "dead"}
  BY <1>4, PicksOne DEF IInv, Entries, InScript, Range
<1> QED
  BY <1>4, <1>5 DEF Above

\* The steps of commands keep all that is of the sessions.
LEMMA UserInv ==
    ASSUME IInv, NEW u \in Users,
           FindBridge(u) \/ FindsNone(u) \/ Exec(u) \/ Unreachable(u)
    PROVE  IInv'
<1> USE DEF IInv
<1>1. UNCHANGED <<pc, port, bridge, script, loaded, stale, lost>>
  BY DEF FindBridge, FindsNone, Exec, Unreachable
<1>2. /\ user' \in [Users -> {"idle", "exec", "done", "refused", "down"}]
      /\ entry' \in [Users -> SUBSET Sessions]
      /\ astray' \subseteq Users
      /\ OneEntry'
  <2>0. /\ user \in [Users -> {"idle", "exec", "done", "refused", "down"}]
        /\ entry \in [Users -> SUBSET Sessions]
        /\ astray \subseteq Users
    BY DEF TypeOK
  <2>1. CASE FindBridge(u)
    BY <2>0, <2>1, PicksOne DEF FindBridge, OneEntry
  <2>2. CASE FindsNone(u)
    BY <2>0, <2>2 DEF FindsNone, OneEntry
  <2>3. CASE Exec(u)
    BY <2>0, <2>3 DEF Exec, OneEntry
  <2>4. CASE Unreachable(u)
    BY <2>0, <2>4 DEF Unreachable, OneEntry
  <2> QED
    BY <2>1, <2>2, <2>3, <2>4
<1>3. TypeOK'
  BY <1>1, <1>2 DEF TypeOK
<1>4. Proxies' /\ Entries' /\ Fresh' /\ ReadyIsListed'
  BY <1>1 DEF Proxies, Entries, Fresh, ReadyIsListed, InScript
<1> QED
  BY <1>2, <1>3, <1>4

LEMMA StepInv == IInv /\ [Next]_vars => IInv'
<1> SUFFICES ASSUME IInv, [Next]_vars PROVE IInv'
  OBVIOUS
<1>1. CASE UNCHANGED vars
  <2>1. /\ UNCHANGED <<pc, port, bridge, script, loaded, stale, lost>>
        /\ UNCHANGED <<user, entry, astray>>
    BY <1>1 DEF vars
  <2> QED
    BY <2>1 DEF IInv, TypeOK, Proxies, Entries, Fresh, ReadyIsListed, InScript, OneEntry
<1> QED
  BY <1>1, StartInv, ReadScriptInv, RenderAloneInv, TruncateInv, FillInv, DieInv, UserInv DEF Next

----------------------------------------------------------------------------
(* Theorems *)

\* The types and the invariant hold in every behaviour.
THEOREM Inductive == Spec => []IInv
BY InitInv, StepInv, PTL DEF Spec

THEOREM TypeCorrect == Spec => []TypeOK
<1>1. IInv => TypeOK
  BY DEF IInv
<1> QED
  BY Inductive, <1>1, PTL

\* However many sessions read, merge and write one script: all that run and have
\* written can be found in it, unless an old script was written back or a writer died.
THEOREM SessionsListed == Spec => []ReadyIsListed
<1>1. IInv => ReadyIsListed
  BY DEF IInv
<1> QED
  BY Inductive, <1>1, PTL

\* A command under live sessions goes to one of them, or to the entry of a dead one.
THEOREM CommandsStay == Spec => RunsInItsTree
<1> DEFINE Stays == \A u \in Users : u \in astray' \ astray =>
                      \/ lost \/ \E t \in Sessions : pc[t] = "truncated"
                      \/ \E t \in entry'[u] : pc[t] = "dead"
<1>1. IInv /\ [Next]_vars => [Stays]_vars
  <2> SUFFICES ASSUME IInv, Next, NEW u \in Users, u \in astray' \ astray,
                      ~lost, \A t \in Sessions : pc[t] # "truncated"
               PROVE  \E t \in entry'[u] : pc[t] = "dead"
    OBVIOUS
  <2>1. PICK v \in Users : FindBridge(v) \/ FindsNone(v)
    BY DEF Next, Start, ReadScript, RenderAlone, Truncate, Fill, Die, Exec, Unreachable, users
  <2>2. v = u /\ Above(u) # {}
    BY <2>1 DEF FindBridge, FindsNone
  <2>3. Picks(u) # {}
    BY <2>2, PicksInTree
  <2>4. Picks(u) \cap Above(u) = {} /\ entry'[u] = Picks(u)
    BY <2>1, <2>2, <2>3 DEF FindBridge, FindsNone, IInv, TypeOK
  <2> QED
    BY <2>2, <2>4, PicksInTree
<1> QED
  BY Inductive, <1>1, PTL DEF Spec, RunsInItsTree

\* The token keeps a command from any session but the one whose entry it picked.
THEOREM ExecutesThere == Spec => ExecutesWherePicked
<1> DEFINE There == \A u \in Users : user[u] = "exec" /\ user'[u] = "done" => entry'[u] = entry[u]
<1>1. IInv /\ [Next]_vars => [There]_vars
  <2> SUFFICES ASSUME IInv, Next, NEW u \in Users, user[u] = "exec", user'[u] = "done"
               PROVE  entry'[u] = entry[u]
    OBVIOUS
  <2>1. user \in [Users -> {"idle", "exec", "done", "refused", "down"}]
        /\ entry \in [Users -> SUBSET Sessions]
    BY DEF IInv, TypeOK
  <2>2. Exec(u)
    BY <2>1 DEF Next, Start, ReadScript, RenderAlone, Truncate, Fill, Die, users,
                FindBridge, FindsNone, Exec, Unreachable
  <2>3. PICK t \in entry[u], s \in Sessions :
          /\ user' = [user EXCEPT ![u] = IF Authorized(s, t) THEN "done" ELSE "refused"]
          /\ entry' = [entry EXCEPT ![u] = {s}]
    BY <2>2 DEF Exec
  <2>4. s = t
    BY <2>1, <2>3 DEF Authorized
  <2>5. entry'[u] = {t} /\ entry[u] = {t}
    BY <2>1, <2>3, <2>4 DEF IInv, OneEntry
  <2> QED
    BY <2>5
<1> QED
  BY Inductive, <1>1, PTL DEF Spec, ExecutesWherePicked
=============================================================================
