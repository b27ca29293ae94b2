------------------------------ MODULE MCInputs ------------------------------
(***************************************************************************)
(* The pure parts over bounded inputs: each step picks one input of one    *)
(* kind, and an invariant holds for it.  Seven of the kinds are picked;    *)
(* what holds of the others is proved in InputProofs and CommandProofs.    *)
(***************************************************************************)
EXTENDS Inputs, FiniteSetsExt

\* The kind of input that a behaviour is about, chosen first.
VARIABLE todo

vars == <<todo, kind, input>>

Picks(k) == todo = k /\ todo' = "none" /\ kind' = k

Upto(S, n)   == UNION {[1 .. k -> S] : k \in 0 .. n}
Option(S)    == Upto(S, 1)
Partial(D, S) == UNION {[E -> S] : E \in SUBSET D}

----------------------------------------------------------------------------
(* Arguments of a tool with a Boolean, an integer, an array of integers and *)
(* a string and an array with an enum.                                     *)

b  == <<"b">>
h  == <<"h">>
ab == <<"a", "_", "b">>
e  == <<"e">>

ToolWith(required) ==
    [params |-> <<b, ab, e, h>>, required |-> required, items |-> "integer",
     type |-> [p \in {b, ab, e, h} |->
                 CASE p = b -> "boolean" [] p = ab -> "array" [] p = e -> "string" [] OTHER -> "integer"],
     enum |-> [p \in {b, ab, e, h} |->
                 CASE p = e -> {"plain", "5"} [] p = ab -> {"5", "10"} [] OTHER -> {}]]

Flags == {<<"b">>, <<"n", "o", "-", "b">>, <<"h">>, <<"a", "-", "b">>, <<"a", "B">>, <<"e">>,
          <<"-", "-", "e">>, <<"-", "-", "n", "o", "-", "b">>, <<"p">>, <<"j", "s", "o", "n">>, <<>>}
Arguments == {[flag |-> f] : f \in Flags}
             \cup {[word |-> w] : w \in {"true", "five", "half", "loose", "plain", "nan", "list"}}

PickArgv ==
    Picks("argv") /\ \E r \in {{}, {h}}, argv \in Upto(Arguments, 4) : input' = <<ToolWith(r), argv>>

----------------------------------------------------------------------------
(* Tools and functions *)

NameChars == {"a", "A", "b", "1", "_", "-"}
NamesTo(n) == (Upto(NameChars, n) \ {<<>>})
              \cup {<<"n", "o", "_", "a">>, <<"n", "o", "B">>, <<"h", "e", "l", "p">>}

PickHelp ==
    LET x == <<"a", "_", "b">>
        y == <<"b", "A">>
        types == {"boolean", "integer", "number", "string", "array", "object", "oneOf"}
        enums == {{}, {"plain"}, {"5", "plain"}, {"5"}, {"true"}, {"0.5"}}
    IN  Picks("help") /\
          \E s, t \in types, i \in {"string", "integer", "boolean", "number", "object", "untold"},
             c, d \in enums, r \in SUBSET {x, y} :
            input' = [params |-> <<x, y>>, type |-> (x :> s @@ y :> t), items |-> i,
                      enum |-> (x :> c @@ y :> d), required |-> r]

PickFunction ==
    Picks("function") /\
      \E x, y \in NamesTo(2) : \E r \in SUBSET {x, y} :
        x # y /\ input' = [name |-> x, params |-> <<x, y>>, required |-> r]

----------------------------------------------------------------------------
(* Servers and their answers *)

BackendWords ==
    {<<"-H">>, <<"X", "=", "1">>, <<"-H", "=", "X", "=", "1">>, <<"x", ":", "${T}">>, <<"-e">>, <<"-t">>, <<"5">>,
     <<"1e30">>, <<"--auth">>, <<"--auth", "=", "oauth">>, <<"none">>, <<"--cwd", "=", "d">>, <<"serve">>}
Urls     == {"https://server"}
Commands == {"npx"}

SdkWords == BackendWords \ {<<"-e">>, <<"-t">>, <<"5">>, <<"1e30">>, <<"--cwd", "=", "d">>}

PickSdk ==
    Picks("sdk") /\
      \E u \in Option(Urls), c \in Option(Commands), args \in Upto(SdkWords, 2),
         provider \in Option(Partial({<<"X">>, <<"Authorization">>}, {<<"2">>}) \cup {<<"X">> :> <<"LF">>}),
         headers \in Partial({<<"X">>, <<"x">>, <<"Authorization">>, <<"bad", " ", "name">>}, {<<"1">>, <<"${T}">>, <<>>})
                      \cup {<<"X">> :> <<"1", "LF">>} :
        /\ u \o c # <<>> /\ Cardinality(DOMAIN headers) <= 2
        /\ input' = [url |-> u, command |-> c, args |-> args, provider |-> provider, headers |-> headers]

PickBackend ==
    Picks("backend") /\
      \E c \in Urls \cup Commands, via \in {"command", "multi", "file"}, args \in Upto(BackendWords, 4) :
        (via = "command" \/ Len(args) <= 3) /\ input' = <<via, c, args>>

PickAnswer ==
    Picks("answer") /\
      \E s \in {200, 202, 204, 301, 400, 401, 403, 404, 405, 422, 500, 503}, t \in {"json", "events", "other", "none"},
         c, m, a \in BOOLEAN :
        input' = [status |-> s, content |-> t, challenge |-> c, message |-> m, attached |-> a]

----------------------------------------------------------------------------
(* Machines *)

PickMachine ==
    Picks("machine") /\
      \E d \in {<<>>, <<"given">>}, s \in {"none", "present", "absent"}, v, u, w, t \in BOOLEAN,
         f \in SUBSET ({<<"given", x>> : x \in {"models", "llama.cpp"}}
                       \cup {<<"variable", x>> : x \in {"models", "llama.cpp"}}
                       \cup {<<"home", "mcp-compressor", x>> : x \in {"models", "llama.cpp"}}) :
        input' = [config  |-> [cacheDir |-> d, server |-> s],
                  machine |-> [variable |-> v, home |-> u, supported |-> w, path |-> t, files |-> f]]

----------------------------------------------------------------------------
Picked == {"argv", "help", "function", "sdk", "backend", "answer", "machine"}

MCInit == todo \in Picked /\ Init

MCNext ==
    \/ PickArgv \/ PickHelp \/ PickFunction \/ PickSdk \/ PickBackend \/ PickAnswer \/ PickMachine

MCSpec == MCInit /\ [][MCNext]_vars
=============================================================================
