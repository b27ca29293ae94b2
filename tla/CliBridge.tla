----------------------------- MODULE CliBridge -----------------------------
(***************************************************************************)
(* One generated script that several CLI-mode processes share, when they   *)
(* have the same CLI name: generate_or_update_cli_script (app/runtime.rs)  *)
(* reads the bridges of the script that is there, keeps those that are     *)
(* live and writes the script with its own added; the script's find_bridge *)
(* (client_gen/cli.rs) picks the bridge of the process tree it runs in, or *)
(* else the first live one; the proxy (proxy/server.rs) checks the token.  *)
(*                                                                         *)
(* Process ids and ports are used again, a token never is: the entry of a  *)
(* session stands for its process id, its bridge and its token.            *)
(***************************************************************************)
EXTENDS Naturals, Sequences, SequencesExt

CONSTANTS
    Sessions,  \* CLI-mode processes, one after the other or at the same time
    Pid,       \* the process id of each
    Ports,     \* the ports of the loopback interface
    NoPort,
    Alone,     \* sessions that write a CLI client as generated code, not merged
    Users,     \* commands that are run
    Home       \* the process ids above each, the nearest first

ASSUME BridgeAssumption ==
    /\ NoPort \notin Ports /\ Alone \subseteq Sessions
    /\ Pid \in [Sessions -> Nat] /\ Home \in [Users -> Seq(Nat)]

VARIABLES
    pc,
    port,     \* of the session's proxy while it runs
    bridge,   \* the port in its entry, for good
    script,   \* BRIDGES of the script, in order; empty while it is written
    loaded,   \* the bridges a session has read and will keep
    user,     \* what each command is at
    entry,    \* the entry it has picked: {} or one session
    stale,    \* history: sessions that have read a script which changed since
    lost,     \* history: a script was written from an old one or cut off
    astray    \* history: a command left the live session it was run under

vars == <<pc, port, bridge, script, loaded, user, entry, stale, lost, astray>>
users == <<user, entry, astray>>

Writing == {"read", "render", "truncated"}
Up      == Writing \cup {"ready"}

TypeOK ==
    /\ pc \in [Sessions -> {"idle", "dead"} \cup Up]
    /\ port \in [Sessions -> Ports \cup {NoPort}]
    /\ bridge \in [Sessions -> Ports \cup {NoPort}]
    /\ script \in Seq(Sessions)
    /\ \A i, j \in DOMAIN script : Pid[script[i]] = Pid[script[j]] => i = j
    /\ loaded \in [Sessions -> Seq(Sessions)]
    /\ user \in [Users -> {"idle", "exec", "done", "refused", "down"}]
    /\ entry \in [Users -> SUBSET Sessions]
    /\ stale \subseteq Sessions
    /\ lost \in BOOLEAN /\ astray \subseteq Users

Init ==
    /\ pc = [s \in Sessions |-> "idle"]
    /\ port = [s \in Sessions |-> NoPort]
    /\ bridge = [s \in Sessions |-> NoPort]
    /\ script = <<>>
    /\ loaded = [s \in Sessions |-> <<>>]
    /\ user = [u \in Users |-> "idle"]
    /\ entry = [u \in Users |-> {}]
    /\ stale = {} /\ lost = FALSE /\ astray = {}

\* A proxy answers at the bridge of the entry, be it the session's own or not.
Answers(s) == \E t \in Sessions : port[t] # NoPort /\ port[t] = bridge[s]

InScript(s) == \E i \in DOMAIN script : script[i] = s

\* The entries of s that are in T, in their order.
Only(s, T) ==
    LET upto[i \in 0 .. Len(s)] ==
          IF i = 0 THEN <<>>
          ELSE IF s[i] \in T THEN Append(upto[i - 1], s[i]) ELSE upto[i - 1]
    IN  upto[Len(s)]

----------------------------------------------------------------------------
(* run_cli_mode *)

\* ToolProxyServer::start binds a free port; the kernel gives a free process id.
Start(s) ==
    /\ pc[s] = "idle"
    /\ \A t \in Sessions : pc[t] \in Up => Pid[t] # Pid[s]
    /\ \E p \in Ports :
         /\ \A t \in Sessions : port[t] # p
         /\ port' = [port EXCEPT ![s] = p]
         /\ bridge' = [bridge EXCEPT ![s] = p]
    /\ pc' = [pc EXCEPT ![s] = "read"]
    /\ UNCHANGED <<script, loaded, stale, lost, users>>

\* Mutant: the entries that are live are dropped.
KeepDead(s) == Only(script, {t \in Sessions : ~Answers(t)})

\* read_live_bridge_entries: a TCP connect to each.
KeepLive(s) == Only(script, {t \in Sessions : Answers(t)})

\* A script that is being written is read without its bridges.
ReadScript(s) ==
    /\ pc[s] = "read" /\ s \notin Alone
    /\ pc' = [pc EXCEPT ![s] = "render"]
    /\ loaded' = [loaded EXCEPT ![s] = KeepLive(s)]
    /\ stale' = IF \E t \in Sessions : pc[t] = "truncated" THEN stale \cup {s} ELSE stale \ {s}
    /\ UNCHANGED <<port, bridge, script, lost, users>>

\* generate_client_artifacts reads nothing.
RenderAlone(s) ==
    /\ pc[s] = "read" /\ s \in Alone
    /\ pc' = [pc EXCEPT ![s] = "render"]
    /\ stale' = stale \cup {s}
    /\ UNCHANGED <<port, bridge, script, loaded, lost, users>>

\* write_artifacts, fs::write: the file is cut to nothing ...
Truncate(s) ==
    /\ pc[s] = "render"
    /\ pc' = [pc EXCEPT ![s] = "truncated"]
    /\ script' = <<>>
    /\ UNCHANGED <<port, bridge, loaded, stale, lost, users>>

\* bridge_map_literal: an old entry of this process id gives way.
Merged(s) == Append(Only(loaded[s], {t \in Sessions : Pid[t] # Pid[s]}), s)

\* ... and filled.
Fill(s) ==
    /\ pc[s] = "truncated"
    /\ pc' = [pc EXCEPT ![s] = "ready"]
    /\ script' = Merged(s)
    /\ loaded' = [loaded EXCEPT ![s] = <<>>]
    /\ lost' = (lost \/ s \in stale)
    /\ stale' = (stale \cup {t \in Sessions : pc[t] \in {"render", "truncated"}}) \ {s}
    /\ UNCHANGED <<port, bridge, users>>

\* Ctrl-C, a kill, or an error of the file system; the proxy dies with the process,
\* the script stays.
Die(s) ==
    /\ pc[s] \in Up
    /\ pc' = [pc EXCEPT ![s] = "dead"]
    /\ port' = [port EXCEPT ![s] = NoPort]
    /\ loaded' = [loaded EXCEPT ![s] = <<>>]
    /\ stale' = stale \ {s}
    /\ lost' = (lost \/ pc[s] = "truncated")
    /\ UNCHANGED <<bridge, script, users>>

----------------------------------------------------------------------------
(* The generated script *)

\* Mutant: the first live bridge, wherever the command runs.
PicksFirst(u) ==
    LET live == SelectInSeq(script, Answers)
    IN  IF live # 0 THEN {script[live]} ELSE {}

\* The entries that find_bridge would take, first of the ancestors, then of all.
Under(u, pid) == {s \in Sessions : InScript(s) /\ Pid[s] = pid /\ Answers(s)}

Picks(u) ==
    LET near == SelectInSeq(Home[u], LAMBDA pid : Under(u, pid) # {})
        live == SelectInSeq(script, Answers)
    IN  IF near # 0 THEN Under(u, Home[u][near])
        ELSE IF live # 0 THEN {script[live]} ELSE {}

\* The live sessions the command runs under, which have written their script.
Above(u) == {s \in Sessions : pc[s] = "ready" /\ Pid[s] \in Range(Home[u])}

FindBridge(u) ==
    /\ user[u] = "idle"
    /\ Picks(u) # {}
    /\ user' = [user EXCEPT ![u] = "exec"]
    /\ entry' = [entry EXCEPT ![u] = Picks(u)]
    /\ astray' = IF Above(u) # {} /\ Picks(u) \cap Above(u) = {} THEN astray \cup {u} ELSE astray
    /\ UNCHANGED <<pc, port, bridge, script, loaded, stale, lost>>

FindsNone(u) ==
    /\ user[u] = "idle"
    /\ Picks(u) = {}
    /\ user' = [user EXCEPT ![u] = "down"]
    /\ astray' = IF Above(u) # {} THEN astray \cup {u} ELSE astray
    /\ UNCHANGED <<pc, port, bridge, script, loaded, entry, stale, lost>>

----------------------------------------------------------------------------
(* POST /exec *)

\* Mutant: the token is not looked at.
AuthorizedAny(s, t) == TRUE

\* authorized: the proxy of s, the token of t.
Authorized(s, t) == s = t

\* Whose proxy has the port now decides.
Exec(u) ==
    /\ user[u] = "exec"
    /\ \E t \in entry[u], s \in Sessions :
         /\ port[s] # NoPort /\ port[s] = bridge[t]
         /\ user' = [user EXCEPT ![u] = IF Authorized(s, t) THEN "done" ELSE "refused"]
         /\ entry' = [entry EXCEPT ![u] = {s}]
    /\ UNCHANGED <<pc, port, bridge, script, loaded, stale, lost, astray>>

Unreachable(u) ==
    /\ user[u] = "exec"
    /\ \A t \in entry[u] : ~Answers(t)
    /\ user' = [user EXCEPT ![u] = "down"]
    /\ entry' = [entry EXCEPT ![u] = {}]
    /\ UNCHANGED <<pc, port, bridge, script, loaded, stale, lost, astray>>

----------------------------------------------------------------------------
Next ==
    \/ \E s \in Sessions :
         Start(s) \/ ReadScript(s) \/ RenderAlone(s) \/ Truncate(s) \/ Fill(s) \/ Die(s)
    \/ \E u \in Users : FindBridge(u) \/ FindsNone(u) \/ Exec(u) \/ Unreachable(u)

Spec == Init /\ [][Next]_vars

----------------------------------------------------------------------------
(* Properties *)

\* Every session that runs and has written its script can be found in it, whoever
\* has come, gone or died since.  The ways out: a script was written from one that
\* had changed in between, without reading it, or its writer died while writing.
ReadyIsListed ==
    lost \/ \A s \in Sessions :
              pc[s] = "ready" => InScript(s) \/ \E t \in Sessions : pc[t] = "truncated"

\* A command that is run under a live session is sent to that session.  The ways
\* out: a script was lost, is being written just then, or still has the entry of a
\* dead session whose port another proxy has got, which answers the health check.
RunsInItsTree ==
    [][\A u \in Users : u \in astray' \ astray =>
         \/ lost \/ \E t \in Sessions : pc[t] = "truncated"
         \/ \E t \in entry'[u] : pc[t] = "dead"]_vars

\* A command executes only in the session whose entry it picked, although ports and
\* process ids are used again between its lookup and the request.
ExecutesWherePicked ==
    [][\A u \in Users : user[u] = "exec" /\ user'[u] = "done" => entry'[u] = entry[u]]_vars
=============================================================================
