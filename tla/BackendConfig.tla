---------------------------- MODULE BackendConfig ----------------------------
(***************************************************************************)
(* What a server is configured with, and what is made of it: the arguments *)
(* after the command or URL (server/backend.rs), the servers of an SDK     *)
(* (sdk.rs, ffi/session.rs) and of an MCP file (config/topology.rs), the   *)
(* headers every request carries and whether OAuth is started              *)
(* (server/connect.rs, server/dynamic_http_client.rs).                     *)
(* An argument is the sequence of its parts, "=" and ":" among them:       *)
(* <<"-H">>, <<"-H", "=", "X", "=", "1">>.  A name or a value is one too.  *)
(***************************************************************************)
EXTENDS Naturals, Sequences, FiniteSets, SequencesExt

Http  == "StreamableHttp"
Stdio == "Stdio"

\* The names of headers are not told apart by case.  HeaderName and HeaderValue refuse
\* an empty name, some characters in a name, and a line break ("LF") in either.
Lowered       == [X |-> "x", Authorization |-> "authorization"]
HeaderName(n) == [i \in DOMAIN n |-> IF n[i] \in DOMAIN Lowered THEN Lowered[n[i]] ELSE n[i]]
IsHeaderName(n)  == n # <<>> /\ \A i \in DOMAIN n : n[i] \notin {" ", ":", "=", "LF"}
IsHeaderValue(v) == \A i \in DOMAIN v : v[i] # "LF"
AreHeaders(h)    == \A n \in DOMAIN h : IsHeaderName(n) /\ IsHeaderValue(h[n])

IsHttpUrl(command) == command = "https://server"

\* One variable is set, ${U} is not.
InterpolateEnv(v) == [i \in DOMAIN v |-> IF v[i] = "${T}" THEN "secret" ELSE v[i]]

\* Before and after the first of the separators; <<>> without one.
SplitOnce(w, sep) ==
    LET cut(at) == IF at = 0 THEN <<>> ELSE <<SubSeq(w, 1, at - 1), SubSeq(w, at + 1, Len(w))>>
    IN  cut(SelectInSeq(w, LAMBDA c : c = sep))

\* parse_header_arg: a name and a value, neither empty; <<>> for no header.
ParseHeaderArg(w) ==
    LET header(pair) == IF pair = <<>> \/ <<>> \in ToSet(pair) THEN <<>>
                        ELSE <<pair[1], InterpolateEnv(pair[2])>>
    IN  header(SplitOnce(w, IF Contains(w, "=") THEN "=" ELSE ":"))

\* parse_key_value_arg: here the value may be empty.
ParseKeyValueArg(w) ==
    LET assigned(pair) == IF pair = <<>> THEN <<>>
                          ELSE IF pair[1] = <<>> THEN <<>> ELSE <<pair[1], InterpolateEnv(pair[2])>>
    IN  assigned(SplitOnce(w, "="))

\* parse::<f64>, finite and above zero; a Duration holds less than that.
IsTimeout(w)    == w \in {<<"5">>, <<"1e30">>}
FitsDuration(w) == w # <<"1e30">>

AuthModes == [oauth |-> "OAuth", none |-> "ExplicitHeaders"]
IsAuthMode(w) == Len(w) = 1 /\ w[1] \in DOMAIN AuthModes

Put(f, pair) == [x \in DOMAIN f \cup {pair[1]} |-> IF x = pair[1] THEN pair[2] ELSE f[x]]
Nothing      == [x \in {} |-> <<>>]

----------------------------------------------------------------------------
(* parse_backend_args *)

\* The options, by the one spelling the model has of each.
Options == [header |-> "-H", cwd |-> "--cwd", env |-> "-e", timeout |-> "-t", auth |-> "--auth"]
OptionOf(w) == {o \in DOMAIN Options : w # <<>> /\ w[1] = Options[o]}
IsBare(w)     == Len(w) = 1 /\ OptionOf(w) # {}
IsAssigned(w) == Len(w) > 1 /\ OptionOf(w) # {} /\ w[2] = "="

Unparsed == [args |-> <<>>, env |-> Nothing, cwd |-> <<>>, timeout |-> <<>>,
             headers |-> Nothing, auth |-> "Auto", panics |-> FALSE]

\* Whether option o takes the value, for a server of that transport.
Accepts(o, value, transport) ==
    CASE o = "header"  -> transport = Http /\ ParseHeaderArg(value) # <<>>
      [] o = "cwd"     -> TRUE
      [] o = "env"     -> ParseKeyValueArg(value) # <<>>
      [] o = "timeout" -> IsTimeout(value)
      [] o = "auth"    -> IsAuthMode(value)

\* from_secs_f64 panics: what is read after it is never used.
Setting(parsed, o, value) ==
    CASE o = "header"  -> [parsed EXCEPT !.headers = Put(@, ParseHeaderArg(value))]
      [] o = "cwd"     -> [parsed EXCEPT !.cwd = value]
      [] o = "env"     -> [parsed EXCEPT !.env = Put(@, ParseKeyValueArg(value))]
      [] o = "timeout" -> [parsed EXCEPT !.timeout = value, !.panics = @ \/ ~FitsDuration(value)]
      [] o = "auth"    -> [parsed EXCEPT !.auth = AuthModes[value[1]]]

\* Mutant: a pair that is not taken leaves its first half only.
KeptHalf(parsed, words) == [parsed EXCEPT !.args = Append(@, words[1])]

\* What is not taken stays an argument.
Kept(parsed, words) == [parsed EXCEPT !.args = @ \o words]

\* The option of the word with the value, in words that are taken together.
Take(acc, w, value, words, transport) ==
    LET o == CHOOSE x \in OptionOf(w) : TRUE
    IN  [next   |-> acc.next + Len(words),
         parsed |-> IF Accepts(o, value, transport) THEN Setting(acc.parsed, o, value)
                    ELSE Kept(acc.parsed, words)]

BackendStep(args, transport, acc, i) ==
    LET w == args[i]
    IN  CASE i < acc.next -> acc
          [] i >= acc.next /\ IsBare(w) /\ i < Len(args) ->
               Take(acc, w, args[i + 1], <<w, args[i + 1]>>, transport)
          [] i >= acc.next /\ IsAssigned(w) -> Take(acc, w, SubSeq(w, 3, Len(w)), <<w>>, transport)
          [] OTHER -> [next |-> i + 1, parsed |-> Kept(acc.parsed, <<w>>)]

ParseBackendArgs(args, transport) ==
    LET read[i \in 0 .. Len(args)] ==
          IF i = 0 THEN [next |-> 1, parsed |-> Unparsed] ELSE BackendStep(args, transport, read[i - 1], i)
    IN  read[Len(args)].parsed

----------------------------------------------------------------------------
(* BackendServerConfig; a provider is <<>> or the headers it answers *)

NewBackend(command, args) ==
    LET transport == IF IsHttpUrl(command) THEN Http ELSE Stdio
    IN  [command |-> command, transport |-> transport, provider |-> <<>>,
         set |-> ParseBackendArgs(args, transport)]

\* The environment of a server of an MCP file replaces the one of its arguments.
JsonBackend(server) ==
    [NewBackend(server.command, server.args) EXCEPT !.set.env = server.env]

\* MultiServerArg: <<name, "=", command>> and the arguments; <<>> is refused.
MultiBackend(spec, args) ==
    LET named(pair) == IF pair = <<>> \/ <<>> \in ToSet(pair) THEN <<>> ELSE <<NewBackend(pair[2][1], args)>>
    IN  named(SplitOnce(spec, "="))

HasAuthorizationHeader(b) == \E n \in DOMAIN b.set.headers : HeaderName(n) = <<"authorization">>

ShouldUseOauth(b) ==
    /\ b.transport = Http
    /\ \/ b.set.auth = "OAuth"
       \/ b.set.auth = "Auto" /\ ~HasAuthorizationHeader(b) /\ b.provider = <<>>

Names(headers) == {HeaderName(n) : n \in DOMAIN headers}
Spelled(headers, n) == {k \in DOMAIN headers : HeaderName(k) = n}

\* What the headers can become: of two spellings the order of a HashMap decides.
BackendHttpHeaders(b) ==
    LET h == b.set.headers
        values == {h[k] : k \in DOMAIN h}
    IN  {r \in [Names(h) -> values] : \A n \in Names(h) : \E k \in Spelled(h, n) : r[n] = h[k]}

\* merged_headers: the provider's come last, its small letters after its capitals.
MergedHeaders(static, dynamic) ==
    [n \in DOMAIN static \cup Names(dynamic) |->
       CASE n \in DOMAIN dynamic        -> dynamic[n]
         [] n \in Names(dynamic) \ DOMAIN dynamic -> dynamic[CHOOSE k \in Spelled(dynamic, n) : TRUE]
         [] OTHER                       -> static[n]]

\* connect_streamable_http_backend: refused, left to OAuth, or the headers of requests.
Connection(b) ==
    CASE b.set.args # <<>> -> "refused"
      [] b.set.args = <<>> /\ ShouldUseOauth(b) -> "oauth"
      [] OTHER -> IF AreHeaders(b.set.headers) THEN "headers" ELSE "refused"

\* No request goes out when the provider fails or answers what is no header; one that
\* fails is one of those.
Requests(b) ==
    CASE b.provider = <<>> -> BackendHttpHeaders(b)
      [] b.provider # <<>> /\ AreHeaders(b.provider[1]) ->
           {MergedHeaders(h, b.provider[1]) : h \in BackendHttpHeaders(b)}
      [] OTHER -> {}

\* What a process is started with.
Process(b) == [args |-> b.set.args, env |-> b.set.env, cwd |-> b.set.cwd]

----------------------------------------------------------------------------
(* The servers of an SDK: [command, url, args, headers, provider], the first *)
(* two and the last in a sequence of none or one                             *)

\* The words of a header, and those of all of them one after the other.
HeaderWord(headers, n) == n \o <<"=">> \o headers[n]
HeaderArgs(headers) ==
    LET names == SetToSeq(DOMAIN headers)
    IN  [i \in 1 .. (2 * Len(names)) |->
           IF i % 2 = 1 THEN <<"-H">> ELSE HeaderWord(headers, names[i \div 2])]

\* Mutant: headers leave the choice between them and OAuth to their names.
HeadersOnly(server) == HeaderArgs(server.headers) \o server.args

\* normalize_sdk_server: headers become arguments before the others, and turn OAuth
\* off unless an argument is --auth itself.
NormalizedArgs(server) ==
    IF DOMAIN server.headers = {} THEN server.args
    ELSE HeaderArgs(server.headers)
         \o (IF Contains(server.args, <<"--auth">>) THEN <<>> ELSE <<<<"--auth">>, <<"none">>>>)
         \o server.args

\* url wins over command; <<>> when there is neither.
NormalizeSdkServer(server) ==
    LET target == server.url \o server.command
    IN  IF target = <<>> THEN <<>> ELSE <<[command |-> target[1], args |-> NormalizedArgs(server)]>>

\* CompressorClient::connect: a provider turns OAuth off, whatever the arguments.
SdkBackend(server) ==
    LET new(n)      == NewBackend(n.command, n.args)
        provided(b) == IF server.provider = <<>> THEN b
                       ELSE [b EXCEPT !.provider = server.provider, !.set.auth = "ExplicitHeaders"]
    IN  provided(new(NormalizeSdkServer(server)[1]))

----------------------------------------------------------------------------
(* What an answer to a request becomes: a response is [status, content,      *)
(* challenge, message, session]                                              *)

Success(status) == status \in 200 .. 299

\* Mutant: any status of failure is an error, whatever the body says.
PostOutcomeByStatus(r, attached) ==
    CASE r.status \in {202, 204}                  -> "accepted"
      [] r.status = 404 /\ attached               -> "expired"
      [] ~Success(r.status) /\ ~(r.status = 404 /\ attached) -> "error"
      [] OTHER -> CASE r.content = "events" -> "stream"
                    [] r.content = "json"   -> IF r.message THEN "message" ELSE "accepted"
                    [] OTHER                -> "error"

\* post_message; a JSON body that cannot be read counts as accepted.
PostOutcome(r, attached) ==
    CASE r.status \in {401, 403} /\ r.challenge   -> "error"
      [] r.status \in {202, 204}                  -> "accepted"
      [] r.status = 404 /\ attached               -> "expired"
      [] ~Success(r.status) /\ ~(r.status \in {401, 403} /\ r.challenge) /\ ~(r.status = 404 /\ attached) ->
           IF r.content = "json" /\ r.message THEN "message" ELSE "error"
      [] OTHER -> CASE r.content = "events" -> "stream"
                    [] r.content = "json"   -> IF r.message THEN "message" ELSE "accepted"
                    [] OTHER                -> "error"

\* get_stream
GetOutcome(r) ==
    CASE r.status = 405                       -> "no events"
      [] r.status # 405 /\ ~Success(r.status) -> "error"
      [] OTHER -> IF r.content \in {"events", "json"} THEN "stream" ELSE "error"

\* delete_session
DeleteOutcome(r) == IF r.status = 405 \/ Success(r.status) THEN "deleted" ELSE "error"

----------------------------------------------------------------------------
(* Properties *)

\* What the arguments can give an option: a word whole, after an option, or its rest,
\* after the option in it; and the values that they give the header of the name.
GivenWords(args) ==
    {args[i] : i \in DOMAIN args} \cup {SubSeq(args[i], 3, Len(args[i])) : i \in {j \in DOMAIN args : IsAssigned(args[j])}}
ArgValues(args, n) ==
    {ParseHeaderArg(w)[2] : w \in {v \in GivenWords(args) :
                                     ParseHeaderArg(v) # <<>> /\ HeaderName(ParseHeaderArg(v)[1]) = n}}

\* A header given to an SDK for a URL goes out with every request, unless another of
\* its name is given; the provider's come before all of those.  It is never dropped in
\* silence: a server that cannot have its headers is refused, only a provider that fails
\* stops a request, and OAuth, which sends none of them, is not started unless an
\* argument is --auth or --auth=oauth.  Which of two headers wins that differ in case
\* alone is left open, as it is in the code.
SdkHeadersReach(server) ==
    LET given(n) == {InterpolateEnv(server.headers[k]) : k \in Spelled(server.headers, n)}
                      \cup ArgValues(server.args, n)
        asks == {<<"--auth">>, <<"--auth", "=", "oauth">>} \cap ToSet(server.args) # {}
        carries(r) ==
          /\ \A n \in Names(server.headers) :
               n \in DOMAIN r /\ (server.provider = <<>> => r[n] \in given(n))
          /\ server.provider # <<>> =>
               \A k \in DOMAIN server.provider[1] :
                 r[HeaderName(k)] \in {server.provider[1][j] : j \in Spelled(server.provider[1], HeaderName(k))}
        reach(b, connection) ==
          CASE connection = "oauth"   -> server.provider = <<>> /\ (Names(server.headers) = {} \/ asks)
            [] connection = "refused" -> b.set.args # <<>> \/ ~AreHeaders(b.set.headers)
            [] connection = "headers" ->
                 /\ \A r \in Requests(b) : carries(r)
                 /\ Requests(b) = {} => server.provider # <<>> /\ ~AreHeaders(server.provider[1])
        kept(b) == b.transport = Http /\ ~b.set.panics => reach(b, Connection(b))
    IN  kept(SdkBackend(server))

\* The words at the places of I.
Picked(args, I) ==
    LET out[i \in 0 .. Len(args)] ==
          IF i = 0 THEN <<>> ELSE IF i \in I THEN Append(out[i - 1], args[i]) ELSE out[i - 1]
    IN  out[Len(args)]

FileEnv == Put(Nothing, <<<<"T">>, <<"file">>>>)

MadeBy(via, command, args) ==
    CASE via = "command" -> NewBackend(command, args)
      [] via = "multi"   -> MultiBackend(<<"srv", "=", command>>, args)[1]
      [] via = "file"    -> JsonBackend([command |-> command, args |-> args, env |-> FileEnv])

\* However a server is configured no argument is lost or moved, unless a timeout too
\* long for a Duration makes the reading panic: they fall in two parts, each in its
\* order, one that is read as options to the last word and alone says all that is set,
\* but for the environment that a file gives, and one that the process gets and in
\* which nothing more would be read.
ArgumentsAreKept(via, command, args) ==
    LET told(set) == IF via = "file" THEN [set EXCEPT !.env = FileEnv] ELSE set
        kept(b) ==
          /\ ParseBackendArgs(b.set.args, b.transport) = [Unparsed EXCEPT !.args = b.set.args]
          /\ \E I \in SUBSET DOMAIN args :
               /\ Process(b).args = Picked(args, I)
               /\ told(ParseBackendArgs(Picked(args, DOMAIN args \ I), b.transport))
                    = [b.set EXCEPT !.args = <<>>]
    IN  MadeBy(via, command, args).set.panics \/ kept(MadeBy(via, command, args))

\* A message that the server answered reaches the caller, whatever the status, unless
\* the server asks to authorize, accepts alone, or forgot the session.  The caller
\* takes a request for accepted, and goes on waiting, only when the server says so or
\* answers a JSON body that is no message; and for expired only what had a session.
\* A server without streams or sessions to delete is not an error.
AnswerIsNotLost(r, attached) ==
    /\ r.message /\ r.content = "json" =>
         \/ PostOutcome(r, attached) = "message"
         \/ r.challenge /\ r.status \in {401, 403}
         \/ r.status \in {202, 204} \/ (r.status = 404 /\ attached)
    /\ PostOutcome(r, attached) = "accepted" =>
         r.status \in {202, 204} \/ (Success(r.status) /\ r.content = "json" /\ ~r.message)
    /\ PostOutcome(r, attached) = "expired" => attached
    /\ r.status = 405 => GetOutcome(r) # "error" /\ DeleteOutcome(r) # "error"
=============================================================================
