----------------------------- MODULE SessionProofs -----------------------------
(***************************************************************************)
(* Proofs about Session for any number of calls and sessions, in each of   *)
(* the three hosts.                                                        *)
(***************************************************************************)
EXTENDS Session, TLAPS

\* A call that connects has no proxy yet, one that invokes does it on a proxy.
CallsInv ==
    /\ \A c \in Calls : pc[c] \in Connecting \cup {"idle"} => proxy[c] = None
    /\ \A c \in Calls : pc[c] \in Invoking => on[c] \in Calls /\ proxy[on[c]] # None

\* What somebody refers to is there.
ReferredInv == \A s \in Sessions : Referred(s) => session[s] = "up"

\* As long as the client was not closed and its connects did not overlap, the only
\* session is the client's, and a call connects only while there is none.
SingleInv ==
    (host # "rust" /\ parted = FALSE) =>
      /\ \A s \in Sessions : session[s] = "up" => client = s
      /\ \A c \in Calls : pc[c] \in Connecting => client = None
      /\ \A c, d \in Calls : pc[c] \in Connecting /\ pc[d] \in Connecting => c = d

\* The headers that a TypeScript session keeps are those of the last refresh, and
\* nobody is ahead of the provider.
FreshInv ==
    /\ \A c \in Calls : got[c] <= cred
    /\ host = "typescript" =>
         \A c \in Calls : pc[c] = "send" /\ c \notin crossed => got[c] <= store[proxy[on[c]]]

IInv == TypeOK /\ CallsInv /\ ReferredInv /\ SingleInv /\ FreshInv

\* A client without sessions.
LEMMA InitInv == Init => IInv
<1> SUFFICES ASSUME Init PROVE IInv
  OBVIOUS
<1> USE SessionAssumption DEF SessionAssumption, Init
<1>1. TypeOK
  <2>1. /\ host \in {"typescript", "python", "rust"} /\ cred \in 0..MAX_CRED /\ client \in Sessions \cup {None}
        /\ session \in [Sessions -> {"none", "up", "gone"}] /\ store \in [Sessions -> 0..MAX_CRED]
        /\ proxy \in [Calls -> Sessions \cup {None}] /\ closed \subseteq Calls
    OBVIOUS
  <2>2. /\ pc \in [Calls -> {"idle", "connected", "done", "failed"} \cup Connecting \cup Invoking]
        /\ on \in [Calls -> Calls \cup {None}] /\ got \in [Calls -> 0..MAX_CRED]
        /\ crossed \subseteq Calls
    OBVIOUS
  <2>3. parted \in BOOLEAN
    OBVIOUS
  <2> QED
    BY <2>1, <2>2, <2>3 DEF TypeOK
<1>2. CallsInv
  BY DEF CallsInv, Connecting, Invoking
<1>3. ReferredInv
  BY DEF ReferredInv, Referred, Invoking
<1>4. SingleInv
  BY DEF SingleInv, Connecting
<1>5. FreshInv
  BY DEF FreshInv
<1> QED
  BY <1>1, <1>2, <1>3, <1>4, <1>5 DEF IInv

\* Every step keeps the types.
LEMMA TypeStep == IInv /\ [Next]_vars => TypeOK'
<1> SUFFICES ASSUME IInv, [Next]_vars PROVE TypeOK'
  OBVIOUS
<1> USE SessionAssumption DEF SessionAssumption, IInv, TypeOK, CallsInv, Connecting, Invoking
<1>1. CASE Renew
  BY <1>1 DEF Renew
<1>2. CASE CloseClient
  BY <1>2 DEF CloseClient, NativeClose
<1>3. ASSUME NEW c \in Calls, ConnectAgain(c) PROVE TypeOK'
  BY <1>3 DEF ConnectAgain
<1>4. ASSUME NEW c \in Calls, Connect(c) PROVE TypeOK'
  BY <1>4 DEF Connect
<1>5. ASSUME NEW c \in Calls, Normalized(c) PROVE TypeOK'
  BY <1>5 DEF Normalized
<1>6. ASSUME NEW c \in Calls, Started(c) PROVE TypeOK'
  BY <1>6 DEF Started
<1>7. ASSUME NEW c \in Calls, ConnectFails(c) PROVE TypeOK'
  BY <1>7 DEF ConnectFails
<1>8. ASSUME NEW c \in Calls, ConnectInVain(c) PROVE TypeOK'
  BY <1>8 DEF ConnectInVain
<1>9. ASSUME NEW c \in Calls, UpdateHeaders(c) PROVE TypeOK'
  BY <1>9 DEF UpdateHeaders, Headers
<1>10. ASSUME NEW c \in Calls, RefreshFails(c) PROVE TypeOK'
  BY <1>10 DEF RefreshFails
<1>11. ASSUME NEW c \in Calls, Answer(c) PROVE TypeOK'
  BY <1>11 DEF Answer
<1>12. ASSUME NEW c \in Calls, InvokeFails(c) PROVE TypeOK'
  BY <1>12 DEF InvokeFails
<1>13. ASSUME NEW c \in Calls, CloseProxy(c) PROVE TypeOK'
  BY <1>13 DEF CloseProxy, NativeClose
<1>14. ASSUME NEW c \in Calls, NEW p \in Calls, Invoke(c, p) PROVE TypeOK'
  BY <1>14 DEF Invoke
<1>15. ASSUME NEW s \in Sessions, Collect(s) PROVE TypeOK'
  BY <1>15 DEF Collect
<1>16. CASE UNCHANGED vars
  BY <1>16 DEF vars
<1> QED
  BY <1>1, <1>2, <1>3, <1>4, <1>5, <1>6, <1>7, <1>8, <1>9, <1>10, <1>11, <1>12, <1>13, <1>14, <1>15, <1>16
     DEF Next

\* Every step keeps the rest of the invariant.
LEMMA StepInv == IInv /\ [Next]_vars => IInv'
<1> SUFFICES ASSUME IInv, [Next]_vars PROVE IInv'
  OBVIOUS
<1> USE SessionAssumption DEF SessionAssumption, TypeOK, Connecting, Invoking
<1>0. TypeOK /\ TypeOK' /\ CallsInv /\ ReferredInv /\ SingleInv /\ FreshInv
  BY TypeStep DEF IInv
<1> DEFINE Rest == CallsInv /\ ReferredInv /\ SingleInv /\ FreshInv
<1>1. ASSUME Renew PROVE Rest'
  BY <1>0, <1>1 DEF Renew, CallsInv, ReferredInv, Referred, SingleInv, FreshInv
<1>2. ASSUME CloseClient PROVE Rest'
  BY <1>0, <1>2 DEF CloseClient, NativeClose, CallsInv, ReferredInv, Referred, SingleInv, FreshInv
<1>3. ASSUME NEW c \in Calls, ConnectAgain(c) PROVE Rest'
  BY <1>0, <1>3 DEF ConnectAgain, HasSession, CallsInv, ReferredInv, Referred, SingleInv, FreshInv
<1>4. ASSUME NEW c \in Calls, Connect(c) PROVE Rest'
  <2>1. CallsInv' /\ ReferredInv' /\ FreshInv'
    BY <1>0, <1>4 DEF Connect, CallsInv, ReferredInv, Referred, FreshInv
  <2>2. (parted' = FALSE) => parted = FALSE /\ \A d \in Calls : pc[d] \notin Connecting
    BY <1>0, <1>4, Zenon DEF Connect, TypeOK
  <2>3. SingleInv'
    BY <1>0, <1>4, <2>2 DEF Connect, HasSession, SingleInv
  <2> QED
    BY <2>1, <2>3
<1>5. ASSUME NEW c \in Calls, Normalized(c) PROVE Rest'
  BY <1>0, <1>5 DEF Normalized, CallsInv, ReferredInv, Referred, SingleInv, FreshInv
<1>6. ASSUME NEW c \in Calls, Started(c) PROVE Rest'
  BY <1>0, <1>6 DEF Started, CallsInv, ReferredInv, Referred, SingleInv, FreshInv
<1>7. ASSUME NEW c \in Calls, ConnectFails(c) PROVE Rest'
  BY <1>0, <1>7 DEF ConnectFails, CallsInv, ReferredInv, Referred, SingleInv, FreshInv
<1>8. ASSUME NEW c \in Calls, ConnectInVain(c) PROVE Rest'
  BY <1>0, <1>8 DEF ConnectInVain, CallsInv, ReferredInv, Referred, SingleInv, FreshInv
<1>9. ASSUME NEW c \in Calls, UpdateHeaders(c) PROVE Rest'
  BY <1>0, <1>9 DEF UpdateHeaders, Headers, CallsInv, ReferredInv, Referred, SingleInv, FreshInv
<1>10. ASSUME NEW c \in Calls, RefreshFails(c) PROVE Rest'
  BY <1>0, <1>10 DEF RefreshFails, CallsInv, ReferredInv, Referred, SingleInv, FreshInv
<1>11. ASSUME NEW c \in Calls, Answer(c) PROVE Rest'
  BY <1>0, <1>11 DEF Answer, CallsInv, ReferredInv, Referred, SingleInv, FreshInv
<1>12. ASSUME NEW c \in Calls, InvokeFails(c) PROVE Rest'
  BY <1>0, <1>12 DEF InvokeFails, CallsInv, ReferredInv, Referred, SingleInv, FreshInv
<1>13. ASSUME NEW c \in Calls, CloseProxy(c) PROVE Rest'
  BY <1>0, <1>13 DEF CloseProxy, NativeClose, CallsInv, ReferredInv, Referred, SingleInv, FreshInv
<1>14. ASSUME NEW c \in Calls, NEW p \in Calls, Invoke(c, p) PROVE Rest'
  BY <1>0, <1>14 DEF Invoke, CallsInv, ReferredInv, Referred, SingleInv, FreshInv
<1>15. ASSUME NEW s \in Sessions, Collect(s) PROVE Rest'
  BY <1>0, <1>15 DEF Collect, CallsInv, ReferredInv, Referred, SingleInv, FreshInv
<1>16. ASSUME UNCHANGED vars PROVE Rest'
  BY <1>0, <1>16 DEF vars, CallsInv, ReferredInv, Referred, SingleInv, FreshInv
<1> QED
  BY <1>0, <1>1, <1>2, <1>3, <1>4, <1>5, <1>6, <1>7, <1>8, <1>9, <1>10, <1>11, <1>12, <1>13, <1>14, <1>15, <1>16
     DEF Next, IInv

\* The invariant holds in every reachable state.
THEOREM Inductive == Spec => []IInv
BY InitInv, StepInv, PTL DEF Spec

\* Every variable has its type, however many calls and sessions there are.
THEOREM TypeCorrect == Spec => []TypeOK
<1>1. IInv => TypeOK
  BY DEF IInv
<1> QED
  BY Inductive, <1>1, PTL

\* A proxy that is open, and one that is closed under an invocation, has its session.
THEOREM ProxyIsServed == Spec => []OpenProxyHasSession
<1>1. IInv => OpenProxyHasSession
  <2> SUFFICES ASSUME IInv, NEW p \in Calls, proxy[p] # None,
                      p \notin closed \/ \E c \in Calls : on[c] = p /\ pc[c] \in Invoking
               PROVE  session[proxy[p]] = "up"
    BY DEF OpenProxyHasSession
  <2>1. proxy[p] \in Sessions
    BY DEF IInv, TypeOK
  <2>2. Referred(proxy[p])
    BY DEF Referred
  <2> QED
    BY <2>1, <2>2 DEF IInv, ReferredInv
<1> QED
  BY Inductive, <1>1, PTL

\* A client that was not closed, and whose connects did not overlap, has one session.
THEOREM SingleSession == Spec => []OneSession
<1>1. IInv => OneSession
  <2> SUFFICES ASSUME IInv, host # "rust", ~parted, NEW s \in Sessions, NEW t \in Sessions,
                      session[s] = "up", session[t] = "up"
               PROVE  s = t
    BY DEF OneSession
  <2>1. parted = FALSE
    OBVIOUS
  <2> QED
    BY <2>1 DEF IInv, SingleInv
<1> QED
  BY Inductive, <1>1, PTL

\* No request carries headers older than its own refresh, unless another invocation
\* put its older ones in between.
THEOREM FreshHeaders == Spec => CarriesFresh
<1> DEFINE Step == \A c \in Calls : pc[c] = "send" /\ pc'[c] = "done" =>
                      Carried(c) >= got[c] \/ (host = "typescript" /\ c \in crossed)
<1>1. IInv => [Step]_vars
  <2> SUFFICES ASSUME IInv, NEW c \in Calls, pc[c] = "send", ~(host = "typescript" /\ c \in crossed)
               PROVE  Carried(c) >= got[c]
    OBVIOUS
  <2>1. on[c] \in Calls /\ proxy[on[c]] \in Sessions
    BY DEF IInv, TypeOK, CallsInv, Invoking
  <2>2. got[c] \in Nat /\ cred \in Nat /\ store[proxy[on[c]]] \in Nat /\ got[c] <= cred
    BY <2>1, SessionAssumption DEF IInv, TypeOK, FreshInv, SessionAssumption
  <2>3. CASE host = "typescript"
    BY <2>2, <2>3 DEF IInv, FreshInv, Carried
  <2>4. CASE host # "typescript"
    BY <2>2, <2>4 DEF Carried
  <2> QED
    BY <2>3, <2>4
<1> QED
  BY Inductive, <1>1, PTL DEF CarriesFresh
================================================================================
