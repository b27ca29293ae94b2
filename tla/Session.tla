------------------------------- MODULE Session -------------------------------
(***************************************************************************)
(* One CompressorClient, the sessions it starts and the proxies it hands   *)
(* out, in the three hosts: TypeScript (native_client.ts over the Node     *)
(* addon), Python (client.py over the Python extension; its calls are      *)
(* threads) and Rust (sdk.rs).  Calls overlap at each await, and a session *)
(* ends when nothing refers to it any more: the bindings' close() does     *)
(* nothing.                                                                *)
(*                                                                         *)
(* A provider of authentication headers is a counter: each credential is   *)
(* newer than the one before it.  There is one: of several, which          *)
(* TypeScript refreshes side by side and stores one by one, each has       *)
(* headers of its own.                                                     *)
(***************************************************************************)
EXTENDS Naturals

CONSTANTS
    Calls,      \* connects and invocations; the proxy a connect returns has its name
    Sessions,   \* the sessions that can be started
    None,       \* the proxy of no call, the session of no proxy
    MAX_CRED    \* bound: how often the credential is renewed

ASSUME SessionAssumption == None \notin Calls \cup Sessions /\ MAX_CRED \in Nat

VARIABLES
    host,     \* which of the three programs this is
    cred,     \* the newest credential of the provider
    client,   \* CompressorClient.session
    session,  \* "none", "up" and "gone"
    store,    \* the headers the Node addon keeps for the session's backend
    proxy,    \* the session of the proxy that a connect has returned
    closed,   \* the proxies that were closed
    pc,       \* what each call is at
    on,       \* the proxy an invocation is made on
    got,      \* the credential an invocation has obtained, or could have
    parted,   \* history: the client was closed, or two of its connects overlapped
    crossed   \* history: invocations whose headers another one replaced in between

vars == <<host, cred, client, session, store, proxy, closed, pc, on, got, parted, crossed>>

Connecting == {"normalize", "start"}
Invoking   == {"update", "send"}

TypeOK ==
    /\ host \in {"typescript", "python", "rust"}
    /\ cred \in 0..MAX_CRED
    /\ client \in Sessions \cup {None}
    /\ session \in [Sessions -> {"none", "up", "gone"}]
    /\ store \in [Sessions -> 0..MAX_CRED]
    /\ proxy \in [Calls -> Sessions \cup {None}]
    /\ closed \subseteq Calls
    /\ pc \in [Calls -> {"idle", "connected", "done", "failed"} \cup Connecting \cup Invoking]
    /\ on \in [Calls -> Calls \cup {None}]
    /\ got \in [Calls -> 0..MAX_CRED]
    /\ parted \in BOOLEAN /\ crossed \subseteq Calls

Init ==
    /\ host \in {"typescript", "python", "rust"}
    /\ cred = 0 /\ client = None
    /\ session = [s \in Sessions |-> "none"]
    /\ store = [s \in Sessions |-> 0]
    /\ proxy = [c \in Calls |-> None]
    /\ closed = {}
    /\ pc = [c \in Calls |-> "idle"]
    /\ on = [c \in Calls |-> None]
    /\ got = [c \in Calls |-> 0]
    /\ parted = FALSE /\ crossed = {}

\* The provider of the application has a newer credential.
Renew ==
    /\ cred < MAX_CRED
    /\ cred' = cred + 1
    /\ UNCHANGED <<host, client, session, store, proxy, closed, pc, on, got, parted, crossed>>

----------------------------------------------------------------------------
(* CompressorClient.connect *)

\* Mutant: the session the client has is not looked at.
HasSessionNever == FALSE

\* The Rust client keeps no session: each connect starts one of its own.
HasSession == host # "rust" /\ client # None

ConnectAgain(c) ==
    /\ pc[c] = "idle" /\ HasSession
    /\ proxy' = [proxy EXCEPT ![c] = client]
    /\ pc' = [pc EXCEPT ![c] = "connected"]
    /\ UNCHANGED <<host, cred, client, session, store, closed, on, got, parted, crossed>>

\* A provider is called once here, to see whether it answers with headers.
Connect(c) ==
    /\ pc[c] = "idle" /\ ~HasSession
    /\ pc' = [pc EXCEPT ![c] = "normalize"]
    /\ parted' = (parted \/ \E d \in Calls : pc[d] \in Connecting)
    /\ UNCHANGED <<host, cred, client, session, store, proxy, closed, on, got, crossed>>

\* ... and once more for the headers that the session starts with.
Normalized(c) ==
    /\ pc[c] = "normalize"
    /\ pc' = [pc EXCEPT ![c] = "start"]
    /\ got' = [got EXCEPT ![c] = cred]
    /\ UNCHANGED <<host, cred, client, session, store, proxy, closed, on, parted, crossed>>

\* start_compressed_session..., with its backends and its bridge; the last
\* of the connects that overlap decides which session the client keeps.
Started(c) ==
    /\ pc[c] = "start"
    /\ \E s \in Sessions :
         /\ session[s] = "none"
         /\ session' = [session EXCEPT ![s] = "up"]
         /\ store' = [store EXCEPT ![s] = IF host = "typescript" THEN got[c] ELSE 0]
         /\ proxy' = [proxy EXCEPT ![c] = s]
         /\ client' = IF host = "rust" THEN None ELSE s
    /\ pc' = [pc EXCEPT ![c] = "connected"]
    /\ got' = [got EXCEPT ![c] = 0]
    /\ UNCHANGED <<host, cred, closed, on, parted, crossed>>

\* A provider throws, a configuration is not valid, a backend does not answer.
ConnectFails(c) ==
    /\ pc[c] \in Connecting
    /\ pc' = [pc EXCEPT ![c] = "failed"]
    /\ got' = [got EXCEPT ![c] = 0]
    /\ UNCHANGED <<host, cred, client, session, store, proxy, closed, on, parted, crossed>>

\* Python asks the providers once more for the name of the proxy, when the client
\* has its session already.  One throws: there is a session, and no proxy.
ConnectInVain(c) ==
    /\ host = "python"
    /\ \/ pc[c] = "idle" /\ HasSession /\ UNCHANGED <<client, session>>
       \/ /\ pc[c] = "start"
          /\ \E s \in Sessions :
               /\ session[s] = "none"
               /\ session' = [session EXCEPT ![s] = "up"]
               /\ client' = s
    /\ pc' = [pc EXCEPT ![c] = "failed"]
    /\ got' = [got EXCEPT ![c] = 0]
    /\ UNCHANGED <<host, cred, store, proxy, closed, on, parted, crossed>>

----------------------------------------------------------------------------
(* Closing *)

\* Mutant: the addon ends the session, whoever else has a proxy on it.
EndsSession(s) == [session EXCEPT ![s] = "gone"]

\* NativeCompressedSession.close, PyCompressedSession.close: nothing.
NativeClose(s) == session

\* There is no close in the Rust SDK: the proxy is dropped.
CloseProxy(p) ==
    /\ proxy[p] # None /\ p \notin closed
    /\ host = "rust" => \A c \in Calls : on[c] = p => pc[c] \notin Invoking
    /\ closed' = closed \cup {p}
    /\ session' = NativeClose(proxy[p])
    /\ UNCHANGED <<host, cred, client, store, proxy, pc, on, got, parted, crossed>>

\* The proxies of the client are not closed with it.
CloseClient ==
    /\ host # "rust" /\ client # None
    /\ client' = None
    /\ session' = NativeClose(client)
    /\ parted' = TRUE
    /\ UNCHANGED <<host, cred, store, proxy, closed, pc, on, got, crossed>>

\* A proxy of a host with a collector is referred to until the host is done with
\* it, which may be long after its close; a dropped one never is.
Referred(s) ==
    \/ client = s
    \/ \E p \in Calls : proxy[p] = s /\ p \notin closed
    \/ \E c \in Calls : pc[c] \in Invoking /\ proxy[on[c]] = s

\* The garbage collector, or the end of a scope: RunningToolProxy's drop aborts
\* the task of the bridge.
Collect(s) ==
    /\ session[s] = "up" /\ ~Referred(s)
    /\ session' = [session EXCEPT ![s] = "gone"]
    /\ UNCHANGED <<host, cred, client, store, proxy, closed, pc, on, got, parted, crossed>>

----------------------------------------------------------------------------
(* CompressorProxy.invoke *)

\* The check for a closed proxy comes before the first await; then, in TypeScript,
\* every provider is asked.
Invoke(c, p) ==
    /\ pc[c] = "idle" /\ proxy[p] # None /\ p \notin closed
    /\ on' = [on EXCEPT ![c] = p]
    /\ got' = [got EXCEPT ![c] = cred]
    /\ pc' = [pc EXCEPT ![c] = IF host = "typescript" THEN "update" ELSE "send"]
    /\ UNCHANGED <<host, cred, client, session, store, proxy, closed, parted, crossed>>

\* Mutant: the headers of the refresh are not stored.
Refreshed(c) == store[proxy[on[c]]]

\* update_auth_provider_headers_json replaces what is there.
Headers(c) == got[c]

UpdateHeaders(c) ==
    /\ pc[c] = "update"
    /\ store' = [store EXCEPT ![proxy[on[c]]] = Headers(c)]
    /\ pc' = [pc EXCEPT ![c] = "send"]
    /\ crossed' = crossed \cup
         {d \in Calls \ {c} : pc[d] = "send" /\ proxy[on[d]] = proxy[on[c]]}
    /\ UNCHANGED <<host, cred, client, session, proxy, closed, on, got, parted>>

\* A provider throws: the invocation fails before it sends anything.
RefreshFails(c) ==
    /\ pc[c] = "update"
    /\ pc' = [pc EXCEPT ![c] = "failed"]
    /\ UNCHANGED <<host, cred, client, session, store, proxy, closed, on, got, parted, crossed>>

\* What the request to the backend carries: the Python and the Rust provider
\* are called for each request.
Carried(c) == IF host = "typescript" THEN store[proxy[on[c]]] ELSE cred

Answer(c) ==
    /\ pc[c] = "send" /\ session[proxy[on[c]]] = "up"
    /\ pc' = [pc EXCEPT ![c] = "done"]
    /\ UNCHANGED <<host, cred, client, session, store, proxy, closed, on, got, parted, crossed>>

\* The bridge is gone, or the backend, or the answer is an error.
InvokeFails(c) ==
    /\ pc[c] = "send"
    /\ pc' = [pc EXCEPT ![c] = "failed"]
    /\ UNCHANGED <<host, cred, client, session, store, proxy, closed, on, got, parted, crossed>>

----------------------------------------------------------------------------
Next ==
    \/ Renew \/ CloseClient
    \/ \E c \in Calls :
         \/ ConnectAgain(c) \/ Connect(c) \/ Normalized(c) \/ Started(c) \/ ConnectFails(c)
         \/ ConnectInVain(c)
         \/ UpdateHeaders(c) \/ RefreshFails(c) \/ Answer(c) \/ InvokeFails(c) \/ CloseProxy(c)
         \/ \E p \in Calls : Invoke(c, p)
    \/ \E s \in Sessions : Collect(s)

Spec == Init /\ [][Next]_vars

----------------------------------------------------------------------------
(* Properties *)

\* A proxy that nobody closed has its session, whatever becomes of the client and
\* of the other proxies on the session; so has an invocation until it ends, also
\* when its proxy is closed meanwhile.
OpenProxyHasSession ==
    \A p \in Calls :
      proxy[p] # None /\ (p \notin closed \/ \E c \in Calls : on[c] = p /\ pc[c] \in Invoking)
        => session[proxy[p]] = "up"

\* However often it is connected, a client has one session, unless it was closed or
\* two connects overlapped: both then start a session.
OneSession ==
    host # "rust" /\ ~parted =>
      \A s, t \in Sessions : session[s] = "up" /\ session[t] = "up" => s = t

\* A request carries headers no older than those its own invocation could obtain,
\* unless another invocation stored the ones it had obtained before, in between.
CarriesFresh ==
    [][\A c \in Calls : pc[c] = "send" /\ pc'[c] = "done" =>
         Carried(c) >= got[c] \/ (host = "typescript" /\ c \in crossed)]_vars
=============================================================================
