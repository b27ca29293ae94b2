------------------------------ MODULE Routing ------------------------------
(***************************************************************************)
(* CompressedServer: connecting the backends, the frontend names they are  *)
(* given, and how a call finds its backend (server/compressed.rs,          *)
(* server/registration.rs, proxy/server.rs, sdk.rs).                       *)
(*                                                                         *)
(* A string is the sequence of its parts between underscores, so "a_b" is  *)
(* <<"a", "b">> and the empty string is <<"">>.  "{p}_{n}" is then p \o n, *)
(* and a string starts with "{p}_" exactly when p is a strict prefix of    *)
(* its sequence.  "Ends with invoke_tool" compares whole parts: a part     *)
(* like "reinvoke" is left out.                                            *)
(***************************************************************************)
EXTENDS Naturals, SequencesExt

CONSTANTS
    Parts,    \* what stands between the underscores of a string
    Configs,  \* the configurations to start from
    Clients   \* concurrent callers

None  == <<>>
Empty == <<"">>
Name  == Seq(Parts) \ {None}

ASSUME PartsAssumption ==
    {"", "get", "tool", "schema", "invoke", "list", "tools", "help"} \subseteq Parts

Server == [name : Name, tools : SUBSET Name, resources : SUBSET Name, prompts : SUBSET Name]

(***************************************************************************)
(* entry is the constructor: connect_stdio (one command), connect_multi_   *)
(* stdio (a list, also what every SDK uses) or connect_mcp_config_json,    *)
(* whose servers come sorted by name.                                      *)
(***************************************************************************)
ConfigType ==
    [entry : {"stdio", "multi", "json"}, serverName : Name \cup {None},
     mode : {"CompressedTools", "Cli", "JustBash"}, max : BOOLEAN,
     include : SUBSET Name, exclude : SUBSET Name, servers : Seq(Server)]

ASSUME ConfigsAssumption ==
    /\ Configs \subseteq ConfigType
    /\ \A c \in Configs : c.entry = "stdio" => Len(c.servers) = 1

VARIABLES
    config,    \* CompressedServerConfig and the backends it is given
    phase,     \* "connecting", "running" or "failed"
    backends,  \* Vec<ConnectedBackend>, in the order they were connected
    offers,    \* per server: the tools the upstream process offers now
    call       \* per client: {} or the one call under way

vars == <<config, phase, backends, offers, call>>

Backend == [public : Name, tools : SUBSET Name, resources : SUBSET Name, prompts : SUBSET Name]

Servers == 1 .. Len(config.servers)
Backends == 1 .. Len(backends)

Init ==
    /\ config \in Configs
    /\ phase = "connecting"
    /\ backends = <<>>
    /\ offers = [i \in Servers |-> config.servers[i].tools]
    /\ call = [c \in Clients |-> {}]

----------------------------------------------------------------------------
(* Connecting *)

\* One backend is given the server name itself, several are prefixed with it.
PublicName(name) ==
    IF config.entry = "stdio" \/ (config.entry = "json" /\ Len(config.servers) = 1)
    THEN IF config.serverName # None THEN config.serverName
         ELSE IF config.entry = "json" THEN Empty ELSE name
    ELSE config.serverName \o name

Visible(tools) ==
    {t \in tools : /\ config.include = {} \/ t \in config.include
                   /\ t \notin config.exclude}

\* The tools are listed and filtered once, here; an upstream that cannot list its
\* resources or prompts counts as having none.
ConnectNext ==
    /\ phase = "connecting"
    /\ Len(backends) < Len(config.servers)
    /\ LET i == Len(backends) + 1
           s == config.servers[i]
       IN  \E resources \in {s.resources, {}}, prompts \in {s.prompts, {}} :
             backends' = Append(backends,
               [public |-> PublicName(s.name), tools |-> Visible(offers[i]),
                resources |-> resources, prompts |-> prompts])
    /\ UNCHANGED <<config, phase, offers, call>>

\* The first backend that does not connect or list its tools fails the whole
\* constructor, and the ones connected before are dropped.
ConnectFails ==
    /\ phase = "connecting"
    /\ Len(backends) < Len(config.servers)
    /\ phase' = "failed"
    /\ backends' = <<>>
    /\ UNCHANGED <<config, offers, call>>

Start ==
    /\ phase = "connecting"
    /\ Len(backends) = Len(config.servers)
    /\ phase' = "running"
    /\ UNCHANGED <<config, backends, offers, call>>

\* An upstream server withdraws a tool, or offers it again.
UpstreamChanges(i) ==
    /\ \E t \in config.servers[i].tools :
         offers' = [offers EXCEPT ![i] = IF t \in @ THEN @ \ {t} ELSE @ \cup {t}]
    /\ UNCHANGED <<config, phase, backends, call>>

----------------------------------------------------------------------------
(* Names of the frontend tools *)

Schema == <<"get", "tool", "schema">>
Invoke == <<"invoke", "tool">>
List   == <<"list", "tools">>

Wrapper(public, op) == IF public = Empty THEN op ELSE public \o op

Wrappers == {Schema, Invoke} \cup (IF config.max THEN {List} ELSE {})

HelpTools == {[owner |-> i, name |-> backends[i].public \o <<"help">>] : i \in Backends}

\* owner is the backend a tool stands for; bash_tool stands for none.
FrontendTools ==
    CASE config.mode = "CompressedTools" ->
           {[owner |-> i, name |-> Wrapper(backends[i].public, op)] : i \in Backends, op \in Wrappers}
      [] config.mode = "Cli" -> HelpTools
      [] config.mode = "JustBash" ->
           HelpTools \cup {[owner |-> 0, name |-> <<"bash", "tool">>]}

\* default_server_name, read by the Rust SDK when a call names no server.
DefaultServer ==
    IF config.serverName # None THEN config.serverName
    ELSE IF Len(backends) = 1 THEN backends[1].public ELSE None

----------------------------------------------------------------------------
(* Dispatch: the set of the one target of a call, empty for "not found" *)

First(hits) == {i \in hits : \A j \in hits : i <= j}

StartsWithPrefix(name, public) == public = Empty \/ IsStrictPrefix(public, name)

\* Mutant: the search runs from the end of the list.
LastBackendForWrapper(name) ==
    LET hits == {i \in Backends : StartsWithPrefix(name, backends[i].public)}
    IN  {i \in hits : \A j \in hits : j <= i}

\* Mutant: the prefix of a wrapper is expected to be there even when it is empty.
BackendForPrefixedWrapper(name) ==
    First({i \in Backends : IsStrictPrefix(backends[i].public, name)})

BackendForWrapper(name) ==
    IF Len(backends) = 1 /\ backends[1].public = Empty THEN {1}
    ELSE First({i \in Backends : StartsWithPrefix(name, backends[i].public)})

To(op, i, item) == [op |-> op, backend |-> i, item |-> item]

\* get_tool_schema and list_backend_tools answer from the list of the connection.
SchemaTarget(name, tool) ==
    {To("schema", i, tool) : i \in {b \in BackendForWrapper(name) : tool \in backends[b].tools}}

ListTarget(name) == {To("list", i, name) : i \in BackendForWrapper(name)}

\* Mutant: a tool goes to its backend without a look at the filtered list.
InvokeUnlisted(hits, tool) == {To("invoke", i, tool) : i \in hits}

\* invoke_backend, for the backend of a wrapper or for the only one.
InvokeBackend(hits, tool) ==
    {To("invoke", i, tool) : i \in {b \in hits : tool \in backends[b].tools}}

\* FrontendServer::call_tool.
CallTool(name, tool) ==
    IF IsSuffix(Schema, name) THEN SchemaTarget(name, tool)
    ELSE IF IsSuffix(Invoke, name) THEN InvokeBackend(BackendForWrapper(name), tool)
    ELSE IF IsSuffix(List, name) THEN ListTarget(name)
    ELSE {}

\* dispatch_exec: wrapped says whether the input is an object with a tool_name.
Exec(name, wrapped, tool) ==
    IF name = Invoke \/ IsStrictSuffix(Invoke, name)
    THEN IF wrapped THEN InvokeBackend(BackendForWrapper(name), tool) ELSE {}
    ELSE InvokeBackend(IF Len(backends) = 1 THEN {1} ELSE {}, name)

\* invoke_wrapper of the Rust SDK: the one frontend tool for a server, or an error.
InvokeWrapper(server) ==
    LET matches == {f \in FrontendTools :
                      /\ IsStrictSuffix(Invoke, f.name)
                      /\ server # None => f.name = server \o Invoke}
    IN  {f.name : f \in {m \in matches : matches = {m}}}

OwnResource(i) == <<"compressor">> \o backends[i].public

\* Mutant: an upstream resource wins over the compressor's own.
ReadUpstreamFirst(uri) ==
    LET own == First({i \in Backends : uri = OwnResource(i)})
        up  == First({i \in Backends : uri \in backends[i].resources})
    IN  IF up # {} THEN {To("read", i, uri) : i \in up} ELSE {To("own", i, uri) : i \in own}

ReadResource(uri) ==
    LET own == First({i \in Backends : uri = OwnResource(i)})
        up  == First({i \in Backends : uri \in backends[i].resources})
    IN  IF own # {} THEN {To("own", i, uri) : i \in own} ELSE {To("read", i, uri) : i \in up}

GetPrompt(name) ==
    {To("prompt", i, name) : i \in First({i \in Backends : name \in backends[i].prompts})}

----------------------------------------------------------------------------
(* Calls *)

(***************************************************************************)
(* The paths a call takes: an MCP client calls a listed frontend tool;     *)
(* "executable" is execute on a frontend tool of an SDK session;           *)
(* "invoke_on" and "invoke" are the SDK's, with and without a server;      *)
(* "function" is a function of a generated client; "bash" a just-bash      *)
(* command; "resource" and "prompt" are MCP reads.  owner is the backend   *)
(* the caller means: the one that listed what it names.                    *)
(***************************************************************************)
Target(r) ==
    CASE r.path = "mcp"        -> CallTool(r.name, r.item)
      [] r.path = "executable" -> Exec(r.name, TRUE, r.item)
      [] r.path = "invoke_on"  -> UNION {Exec(w, TRUE, r.item) : w \in InvokeWrapper(r.name)}
      [] r.path = "invoke"     -> UNION {Exec(w, TRUE, r.item) : w \in InvokeWrapper(DefaultServer)}
      [] r.path = "function"   -> Exec(r.name, FALSE, r.item)
      [] r.path = "bash"       -> Exec(r.name, TRUE, r.item)
      [] r.path = "resource"   -> ReadResource(r.name)
      [] r.path = "prompt"     -> GetPrompt(r.name)

Request(path, owner, name, item) ==
    [path |-> path, owner |-> owner, name |-> name, item |-> item]

\* Every tool an upstream has ever offered, the filtered ones included.
ToolNames == UNION {config.servers[i].tools : i \in Servers}

ToolRequests ==
    {Request(path, f.owner, f.name, t) :
       path \in {"executable"} \cup (IF config.mode = "CompressedTools" THEN {"mcp"} ELSE {}),
       f \in FrontendTools, t \in ToolNames}
    \cup {Request(path, i, backends[i].public, t) :
            path \in {"invoke_on", "invoke"}, i \in Backends, t \in ToolNames}

ListedRequests(i) ==
    {Request("function", i, t, t) : t \in backends[i].tools}
    \cup {Request("bash", i, Wrapper(backends[i].public, Invoke), t) : t \in backends[i].tools}
    \cup {Request("resource", i, u, u) : u \in backends[i].resources \cup {OwnResource(i)}}
    \cup {Request("prompt", i, p, p) : p \in backends[i].prompts}

Requests == ToolRequests \cup UNION {ListedRequests(i) : i \in Backends}

Call(c) ==
    /\ phase = "running"
    /\ call[c] = {}
    /\ \E r \in Requests :
         call' = [call EXCEPT ![c] =
           {[request |-> r, target |-> Target(r),
             state |-> IF Target(r) = {} THEN "unknown"
                       ELSE IF \E t \in Target(r) : t.op \in {"invoke", "read", "prompt"}
                            THEN "sent" ELSE "served"]}]
    /\ UNCHANGED <<config, phase, backends, offers>>

\* The upstream answers; a tool it has withdrawn, or a broken connection, is an error.
UpstreamAnswers(c) ==
    \E k \in call[c] :
        /\ k.state = "sent"
        /\ \E state \in {"served", "refused"} :
             /\ state = "served" =>
                  \A t \in k.target : t.op = "invoke" => t.item \in offers[t.backend]
             /\ call' = [call EXCEPT ![c] = {[k EXCEPT !.state = state]}]
        /\ UNCHANGED <<config, phase, backends, offers>>

CallReturns(c) ==
    /\ \E k \in call[c] : k.state # "sent"
    /\ call' = [call EXCEPT ![c] = {}]
    /\ UNCHANGED <<config, phase, backends, offers>>

Next ==
    \/ ConnectNext \/ ConnectFails \/ Start
    \/ \E i \in Servers : UpstreamChanges(i)
    \/ \E c \in Clients : Call(c) \/ UpstreamAnswers(c) \/ CallReturns(c)

Spec == Init /\ [][Next]_vars

----------------------------------------------------------------------------
(* Properties *)

TypeOK ==
    /\ config \in Configs
    /\ phase \in {"connecting", "running", "failed"}
    /\ backends \in Seq(Backend)
    /\ Len(backends) <= Len(config.servers)
    /\ offers \in [Servers -> SUBSET Name]
    /\ DOMAIN call = Clients

Calls == UNION {call[c] : c \in Clients}

\* One public name is a prefix of the other, part by part, or one of them is empty.
Nested(p, q) == p = Empty \/ q = Empty \/ IsPrefix(p, q) \/ IsPrefix(q, p)

\* No other public name is nested with the one of backend i.
Distinct(i) == \A j \in Backends \ {i} : ~Nested(backends[i].public, backends[j].public)

\* A call of a frontend tool ends at another backend than the one that lists the
\* tool only if that one was connected earlier and the two public names are nested:
\* the prefix search never confuses unrelated servers, on any of its paths.
StrayOnlyWhenNested ==
    \A k \in Calls : \A t \in k.target :
        (/\ k.request.path \in {"mcp", "executable", "bash", "invoke_on"}
         /\ k.request.owner # 0
         /\ t.backend # k.request.owner)
        => /\ t.backend < k.request.owner
           /\ Nested(backends[t.backend].public, backends[k.request.owner].public)

\* Whatever path a call takes, an upstream is only ever asked for a tool that the
\* include and exclude lists let through.
HiddenNeverReached ==
    \A k \in Calls : \A t \in k.target :
        t.op = "invoke" => t.item \in Visible(config.servers[t.backend].tools)

\* A listed wrapper works: an MCP client that calls it with a listed tool, and an SDK
\* call that names the server, reach that server, unless its name is nested with
\* another one.
ListedCallServed ==
    \A k \in Calls :
        LET r == k.request
        IN  (/\ config.mode = "CompressedTools"
             /\ r.path = "mcp" \/ (r.path = "invoke_on" /\ r.name # Empty)
             /\ r.item \in backends[r.owner].tools
             /\ Distinct(r.owner))
            => \E t \in k.target : t.backend = r.owner

\* A listed resource can be read, the compressor's own ones from the compressor:
\* an upstream that lists the same URI (another compressor, say) never answers for
\* them, and the other ones come from an upstream that lists them.
ReadsReachTheirSource ==
    \A k \in Calls :
        k.request.path = "resource" =>
          \E t \in k.target :
            IF \E i \in Backends : t.item = OwnResource(i)
            THEN t.op = "own" /\ t.item = OwnResource(t.backend)
            ELSE t.op = "read" /\ t.item \in backends[t.backend].resources
=============================================================================
