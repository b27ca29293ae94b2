----------------------------- MODULE MCRouting -----------------------------
(* Small configurations of Routing for TLC. *)
EXTENDS Routing

AllParts == {"", "get", "tool", "schema", "invoke", "list", "tools", "help", "compressor",
             "bash", "add", "echo", "web", "a", "b", "suite", "atlassian", "ask", "file", "r"}

add  == <<"add">>
echo == <<"echo">>
hook == <<"web", "invoke", "tool">>  \* an upstream tool named like a wrapper

S(name, tools) == [name |-> name, tools |-> tools, resources |-> {}, prompts |-> {}]

\* The second one is itself a compressor in front of a server called a.
Alpha     == [S(<<"a">>, {add, echo}) EXCEPT !.resources = {<<"file", "r">>}, !.prompts = {<<"ask">>}]
Upstream  == [S(<<"b">>, {add}) EXCEPT !.resources = {<<"file", "r">>, <<"compressor", "a">>},
                                       !.prompts = {<<"ask">>}]

C(entry, servers) ==
    [entry |-> entry, serverName |-> None, mode |-> "CompressedTools", max |-> TRUE,
     include |-> {}, exclude |-> {}, servers |-> servers]

Nesting == {<<S(<<"a">>, {add}), S(<<"a", "b">>, {add})>>,
            <<S(<<"a", "b">>, {add}), S(<<"a">>, {add})>>,
            <<S(<<"a">>, {add}), S(<<"a", "invoke">>, {echo})>>,
            <<S(<<"get">>, {add}), S(Empty, {add})>>,
            <<S(Empty, {add}), S(<<"a">>, {add})>>,
            <<S(<<"a">>, {add}), S(<<"a">>, {echo})>>}

One(entry) == C(entry, <<S(<<"a">>, {add, hook})>>)

Singles == {One("stdio"), One("json"), One("multi")}

Filtered(c) == [c EXCEPT !.include = {add, hook}, !.exclude = {add}]
Named(c) == [c EXCEPT !.serverName = <<"suite">>]
Mode(c, m) == [c EXCEPT !.mode = m, !.max = FALSE]

Pairs == {C("multi", s) : s \in Nesting} \cup {C("multi", <<Alpha, Upstream>>)}
AllConfigs ==
    UNION {{c, Filtered(c), Named(c), Mode(c, "Cli"), Mode(c, "JustBash"), Mode(c, "CompressedTools")} :
             c \in Singles \cup Pairs}
    \cup {C("json", <<Alpha, S(<<"a", "b">>, {add}), Upstream>>)}
=============================================================================
