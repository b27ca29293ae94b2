----------------------------- MODULE OAuthStore -----------------------------
(***************************************************************************)
(* The stored OAuth credentials of remote backends, oauth.rs, as connect   *)
(* (server/connect.rs) and clear-oauth (app/entrypoint.rs, ffi/oauth.rs)   *)
(* of several processes use them.  Every backend has a directory with its  *)
(* credentials and the states of authorizations under way; index.json      *)
(* lists the backends that have one.  No file is locked: the index is      *)
(* read, changed and written back.  A write goes to a new file that is     *)
(* renamed, so it is one step that succeeds or changes nothing.            *)
(***************************************************************************)
EXTENDS Naturals

CONSTANTS
    Backends,    \* <<name, uri>> of the remote backends
    Dirs,
    Dir,         \* oauth_store_dir: the sanitised name and uri, seldom the same for two
    Connectors,  \* processes that connect a backend
    For,         \* the backend of each
    Cleaners,    \* processes that run clear-oauth
    Targets      \* the backends that a name, a uri or no target stands for

ASSUME StoreAssumption ==
    /\ Dir \in [Backends -> Dirs]
    /\ For \in [Connectors -> Backends]
    /\ Connectors \cap Cleaners = {}
    /\ Targets \subseteq SUBSET Backends

Processes == Connectors \cup Cleaners

VARIABLES
    index,   \* the entries of index.json, {} when there is none
    creds,   \* the directories with credentials.json
    states,  \* the directories with the state of an authorization
    pc,
    seen,    \* what a process read in the index
    target,  \* of a cleaner
    left,    \* the entries whose directory a cleaner has not removed yet
    orphans, \* history: directories that an unlinked index listed, not connected since
    gone,    \* history: backends whose last clear succeeded, not authorized since
    stale,   \* history: what a process has read or remembered was overtaken
    raced    \* history: a process that was overtaken has written

vars == <<index, creds, states, pc, seen, target, left, orphans, gone, stale, raced>>

ConnectPcs == {"remember", "load", "authorize", "callback", "connected"}
Active(p)  == pc[p] # "idle"
DirsOf(bs) == {Dir[b] : b \in bs}

TypeOK ==
    /\ index \subseteq Backends
    /\ creds \subseteq Dirs
    /\ states \subseteq Dirs
    /\ pc \in [Processes -> {"idle", "removing", "all"} \cup ConnectPcs]
    /\ seen \in [Processes -> SUBSET Backends]
    /\ target \in [Cleaners -> Targets]
    /\ left \in [Cleaners -> SUBSET Backends]
    /\ orphans \subseteq Dirs
    /\ gone \subseteq Backends
    /\ stale \subseteq Processes
    /\ raced \in BOOLEAN

Init ==
    /\ index = {} /\ creds = {} /\ states = {}
    /\ pc = [p \in Processes |-> "idle"]
    /\ seen = [p \in Processes |-> {}]
    /\ target \in [Cleaners -> Targets]
    /\ left = [q \in Cleaners |-> {}]
    /\ orphans = {} /\ gone = {} /\ stale = {} /\ raced = FALSE

\* Process p writes, which overtakes the processes in others.  Nothing overtakes a
\* clear of everything, which reads nothing before it writes.
Overtakes(p, others) ==
    /\ stale' = (stale \cup {q \in others : pc[q] \notin {"idle", "all"}}) \ {p}
    /\ raced' = (raced \/ p \in stale)

Ends(p) ==
    /\ pc' = [pc EXCEPT ![p] = "idle"]
    /\ seen' = [seen EXCEPT ![p] = {}]

Goto(p, from, to) == pc[p] = from /\ pc' = [pc EXCEPT ![p] = to]

----------------------------------------------------------------------------
(* connect_oauth_streamable_http_backend *)

\* remember_oauth_store reads the index ...
Remember(p) ==
    /\ Goto(p, "idle", "remember")
    /\ seen' = [seen EXCEPT ![p] = index]
    /\ UNCHANGED <<index, creds, states, target, left, orphans, gone, stale, raced>>

\* ... and writes it with the entry of this backend in it.
WriteEntry(p) ==
    /\ Goto(p, "remember", "load")
    /\ index' = seen[p] \cup {For[p]}
    /\ Overtakes(p, {q \in Processes : pc[q] \in {"remember", "removing"}})
    /\ orphans' = orphans \ {Dir[For[p]]}
    /\ UNCHANGED <<creds, states, seen, target, left, gone>>

\* initialize_from_store: there are credentials, no authorization is needed.
LoadStored(p) ==
    /\ Dir[For[p]] \in creds
    /\ Goto(p, "load", "connected")
    /\ UNCHANGED <<index, creds, states, seen, target, left, orphans, gone, stale, raced>>

LoadNothing(p) ==
    /\ Dir[For[p]] \notin creds
    /\ Goto(p, "load", "authorize")
    /\ UNCHANGED <<index, creds, states, seen, target, left, orphans, gone, stale, raced>>

\* start_authorization saves the state of the authorization; the directory is
\* made again when it has gone.  This thread now blocks in accept.
StartAuthorization(p) ==
    /\ Goto(p, "authorize", "callback")
    /\ states' = states \cup {Dir[For[p]]}
    /\ Overtakes(p, Cleaners)
    /\ UNCHANGED <<index, creds, seen, target, left, orphans, gone>>

SaveCredentials(p) ==
    /\ creds' = creds \cup {Dir[For[p]]}
    /\ Overtakes(p, Cleaners)
    /\ UNCHANGED <<index, seen, target, left, orphans>>

\* The first connection is the callback with its code; handle_callback finds
\* the state, exchanges the code, saves the credentials and deletes the state.
CallbackSucceeds(p) ==
    /\ Dir[For[p]] \in states
    /\ Goto(p, "callback", "connected")
    /\ SaveCredentials(p)
    /\ gone' = {b \in gone : Dir[b] # Dir[For[p]]}
    /\ states' \in {states, states \ {Dir[For[p]]}}

\* The AuthClient refreshes an expired token and saves what it got.
RefreshToken(p) ==
    /\ Goto(p, "connected", "connected")
    /\ SaveCredentials(p)
    /\ UNCHANGED <<states, gone>>

\* The session ends; any step fails (the provider, another connection than the
\* callback, which is the only one accepted, a file); or the process is killed.
ConnectorStops(p) ==
    /\ Active(p)
    /\ Ends(p)
    /\ stale' = stale \ {p}
    /\ UNCHANGED <<index, creds, states, target, left, orphans, gone, raced>>

----------------------------------------------------------------------------
(* clear_oauth_store *)

\* With a target the index is read; its matching entries are visited, each once ...
ClearTarget(q) ==
    /\ Goto(q, "idle", "removing")
    /\ seen' = [seen EXCEPT ![q] = index]
    /\ target' \in [Cleaners -> Targets]
    /\ \A r \in Cleaners \ {q} : target'[r] = target[r]
    /\ left' = [left EXCEPT ![q] = index \cap target'[q]]
    /\ UNCHANGED <<index, creds, states, orphans, gone, stale, raced>>

\* remove_dir_all unlinks one file after the other, in no order that is promised:
\* of a directory that is left, or of the whole root.
InWork(q) == IF pc[q] = "all" THEN Dirs ELSE DirsOf(left[q])

UnlinkFile(q) ==
    /\ pc[q] \in {"removing", "all"}
    /\ \E d \in InWork(q) :
         \/ d \in creds /\ creds' = creds \ {d} /\ UNCHANGED states
         \/ d \in states /\ states' = states \ {d} /\ UNCHANGED creds
    /\ UNCHANGED <<index, pc, seen, target, left, orphans, gone, stale, raced>>

\* Only a directory that is empty goes, or is not there.  A connector may make it
\* again, and the entry is not visited a second time.
RemoveDir(q) ==
    /\ pc[q] = "removing"
    /\ \E b \in left[q] :
         /\ Dir[b] \notin creds \cup states
         /\ left' = [left EXCEPT ![q] = @ \ {b}]
    /\ UNCHANGED <<index, creds, states, pc, seen, target, orphans, gone, stale, raced>>

WrittenBack(q) ==
    /\ pc[q] = "removing"
    /\ index' = seen[q] \ target[q]
    /\ gone' = gone \cup (seen[q] \cap target[q])
    /\ Overtakes(q, {p \in Processes : pc[p] \in {"remember", "removing"}}
                    \cup {p \in Connectors : Dir[For[p]] \in DirsOf(target[q])})
    /\ Ends(q)
    /\ UNCHANGED <<creds, states, target, orphans>>

\* Mutant: an error while removing does not stop the loop.
WriteRemainingAnyway(q) == WrittenBack(q) /\ left' = [left EXCEPT ![q] = {}]

\* ... and the other entries are written back.
WriteRemaining(q) == left[q] = {} /\ WrittenBack(q) /\ UNCHANGED left

\* Without a target the root goes, with the index in it.
ClearAll(q) ==
    /\ Goto(q, "idle", "all")
    /\ UNCHANGED <<index, creds, states, seen, target, left, orphans, gone, stale, raced>>

\* The index may be unlinked before the directories that it lists.
UnlinkIndex(q) ==
    /\ pc[q] = "all" /\ index # {}
    /\ index' = {}
    /\ orphans' = creds \cup states
    /\ Overtakes(q, Processes)
    /\ UNCHANGED <<creds, states, pc, seen, target, left, gone>>

RootGone(q) ==
    /\ Ends(q)
    /\ gone' = Backends
    /\ UNCHANGED <<index, creds, states, target, left, orphans, stale, raced>>

\* Mutant: the root counts as removed without its index.
RootIsForgotten(q) == pc[q] = "all" /\ index = {} /\ RootGone(q)

\* Only an empty root goes; another process that writes in it makes the call fail.
RemoveRoot(q) == pc[q] = "all" /\ index = {} /\ creds \cup states = {} /\ RootGone(q)

\* An error in a removal or in the write ends the call, or the process is killed:
\* what is removed is gone, the rest stays.
CleanerStops(q) ==
    /\ Active(q)
    /\ Ends(q)
    /\ left' = [left EXCEPT ![q] = {}]
    /\ stale' = stale \ {q}
    /\ UNCHANGED <<index, creds, states, target, orphans, gone, raced>>

----------------------------------------------------------------------------
Next ==
    \/ \E p \in Connectors :
         \/ Remember(p) \/ WriteEntry(p) \/ LoadStored(p) \/ LoadNothing(p)
         \/ StartAuthorization(p) \/ CallbackSucceeds(p) \/ RefreshToken(p) \/ ConnectorStops(p)
    \/ \E q \in Cleaners :
         \/ ClearTarget(q) \/ UnlinkFile(q) \/ RemoveDir(q) \/ WriteRemaining(q)
         \/ ClearAll(q) \/ UnlinkIndex(q) \/ RemoveRoot(q) \/ CleanerStops(q)

Spec == Init /\ [][Next]_vars

----------------------------------------------------------------------------
(* Properties *)

\* Credentials on disk can be found again through the index, and so be cleared by
\* name, through every error and kill between two files of a clear: one by name
\* leaves all of its entries.  A clear of everything that stops halfway may leave
\* what the index listed when it was unlinked, but nothing of a backend connected
\* since.  The way out is a process that was overtaken: its write of the index
\* loses an entry, or it authorizes or refreshes a token after a clear.
CredentialsAreListed == raced \/ creds \cup states \subseteq DirsOf(index) \cup orphans

\* When a clear has returned and no process was overtaken, the backends that it
\* names have no credentials until one of them is authorized again, whatever was
\* connected while its files went one by one.
ClearedIsGone == raced \/ creds \cap DirsOf(gone) = {}
=============================================================================
