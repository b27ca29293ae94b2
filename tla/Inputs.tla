------------------------------- MODULE Inputs -------------------------------
(***************************************************************************)
(* The pure parts put together: a behaviour picks inputs of any kind, and  *)
(* what the functions make of them is stated as invariants.  An input is   *)
(* whatever a user, a server or a schema can say of its kind, of any       *)
(* length; MCInputs picks from small sets of most kinds instead.           *)
(***************************************************************************)
EXTENDS CliHelp, HostPlan

B == INSTANCE BackendConfig
L == INSTANCE Launch
M == INSTANCE LlmAssets
O == INSTANCE OAuthCallback

VARIABLES kind, input

Kinds == {"argv", "names", "help", "function", "plan", "sdk", "backend", "answer", "models", "machine",
          "callback", "launch"}

----------------------------------------------------------------------------
(* What an input of each kind is *)

\* A name is made of the letters that the model has and of separators; any string
\* stands for a character of other texts (of which those are some, but not to a prover).
NameChar == DOMAIN Letters \cup Small \cup Digits \cup {"_", "-"}
Char     == STRING \cup NameChar
Texts    == Seq(Char)

IsName(n) == n \in Seq(NameChar) /\ n # <<>>

Optional(S) == {o \in Seq(S) : Len(o) <= 1}

\* A tool by its schema: each property has a type and the values it allows.
IsTool(t) ==
    /\ t = [params |-> t.params, type |-> t.type, items |-> t.items, enum |-> t.enum, required |-> t.required]
    /\ t.params \in Seq(Texts) /\ t.required \subseteq ToSet(t.params) /\ t.items \in STRING
    /\ t.type \in [ToSet(t.params) -> STRING]
    /\ t.enum \in [ToSet(t.params) -> SUBSET STRING]

Argument == [flag : Texts] \cup [word : STRING]

IsFunction(f) ==
    /\ IsName(f.name) /\ f.params \in Seq(Seq(NameChar)) /\ f.required \subseteq ToSet(f.params)
    /\ \A i, j \in DOMAIN f.params : f.params[i] = f.params[j] => i = j

IsPlan(c) ==
    /\ c.kind \in {"cli", "just-bash", "python", "typescript"}
    /\ c.server \in STRING /\ c.dir \in Optional(STRING) /\ c.bridge \in Optional(STRING) /\ c.command \in Optional(STRING)
    /\ DOMAIN c.tools = 1 .. Len(c.tools) /\ \A i \in DOMAIN c.tools : IsFunction(c.tools[i])

Machines(dirs) == [variable : BOOLEAN, home : BOOLEAN, supported : BOOLEAN, path : BOOLEAN,
                   files : SUBSET dirs]

CommandLines ==
    [sub : {"none", "clear-oauth", "llm"}, config : BOOLEAN, name : STRING, cli : BOOLEAN, bash : BOOLEAN,
     code : {"none", "python", "typescript"}, python : BOOLEAN, typescript : BOOLEAN,
     mode : {"compressed-tools", "cli", "just-bash"}, multi : Nat, backend : BOOLEAN, dir : STRING]

Hosts == [servers : Nat, path : SUBSET STRING, there : SUBSET STRING, variable : STRING]

\* What a server and a provider can be given: a name has no "=" in it, as none has in
\* HTTP; it would be taken apart there.
IsHeaders(h) ==
    /\ IsFiniteSet(DOMAIN h) /\ h \in [DOMAIN h -> Texts]
    /\ \A n \in DOMAIN h : n \in Texts /\ \A i \in DOMAIN n : n[i] # "="

IsServer(s) ==
    /\ s.url \in Optional(STRING) /\ s.command \in Optional(STRING) /\ s.url \o s.command # <<>>
    /\ s.args \in Seq(Texts) /\ IsHeaders(s.headers)
    /\ Len(s.provider) \in {0, 1} /\ s.provider = [i \in 1 .. Len(s.provider) |-> s.provider[i]]
    /\ \A i \in DOMAIN s.provider : IsHeaders(s.provider[i])

IsInput(k, x) ==
    CASE k = "argv"     -> IsTool(x[1]) /\ x[2] \in Seq(Argument)
      [] k = "names"    -> IsName(x[1]) /\ IsName(x[2]) /\ x = <<x[1], x[2]>>
      [] k = "help"     -> IsTool(x)
      [] k = "function" -> IsFunction(x)
      [] k = "plan"     -> IsPlan(x)
      [] k = "sdk"      -> IsServer(x)
      [] k = "backend"  -> x \in {"command", "multi", "file"} \X STRING \X Seq(Texts)
      [] k = "answer"   -> x \in [status : Nat, content : STRING, challenge : BOOLEAN, message : BOOLEAN,
                                  attached : BOOLEAN]
      [] k = "models"   -> x \in Texts \X Texts
      [] k = "machine"  -> /\ x.config \in [cacheDir : Texts, server : {"none", "present", "absent"}]
                           /\ x.machine \in Machines(Texts)
      [] k = "callback" -> x \in [code : Texts, state : Texts, plus : BOOLEAN]
      [] k = "launch"   -> x \in [c : CommandLines, machine : Hosts]

Init == kind = "none" /\ input = <<>>

Next == \E k \in Kinds : kind' = k /\ IsInput(k, input')

Spec == Init /\ [][Next]_<<kind, input>>

Typed == kind = "none" \/ (kind \in Kinds /\ IsInput(kind, input))

----------------------------------------------------------------------------
(* Properties *)

\* The parser inside the generated script reads a command line as parse_argv does, to
\* the same input or to an error, but for words that Python itself reads otherwise.
ParsersAgree == kind = "argv" => ScriptReadsAsNative(input[1], input[2])

\* What parse_argv makes of flags fits the schema: the required properties are there,
\* the values are allowed, a repeated array flag loses none.
ParsedIsValid == kind = "argv" => NativeInputIsValid(input[1], input[2])

\* The names that the help of a command gives its flags and subcommands find their
\* properties and tools in both parsers, or clash.
HelpNamesAreFound == kind = "names" => HelpReaches(input)

\* A command that is written from the types, requirements, values and hints of its help
\* is read as the help says.
HelpIsTrue == kind = "help" => HelpSuffices(input)

\* The functions that a host is told of can be called as they are told.
FunctionsAreAsTold ==
    kind = "function" => \A k \in {"python", "typescript"} : AdvertisedIsCallable(k, input)

\* The files, directories, commands and subcommands that the description of a toolset
\* speaks of are those of its plan.
PlanIsAsTold == kind = "plan" => PlanKeepsItsWord(input)

\* A header that an SDK configures goes out with every request, whatever its spelling,
\* the provider and the arguments, or the server is refused; never is it dropped
\* because OAuth starts in its place.
HeadersReach == kind = "sdk" => B!SdkHeadersReach(input)

\* Every backend argument is read as an option to the last word of it, or reaches the
\* process or the URL's refusal in its place.  It says nothing of what an option that
\* was read is used for.
NoArgumentIsLost == kind = "backend" => B!ArgumentsAreKept(input[1], input[2], input[3])

\* A message that a server answered with reaches the caller, whatever the status around
\* it, and a caller is left waiting only where the server accepted or its JSON cannot
\* be read.
NoAnswerIsLost == kind = "answer" => B!AnswerIsNotLost(input, input.attached)

\* Two models share a file only where replaced characters make their repositories the
\* same, and no path leads out of the store.
ModelsAreApart == kind = "models" => M!KeysAreApart(input)

\* A preparation finds without a download what the status calls ready, and fails on what
\* it does not; nothing is called ready that a removal took, one that failed halfway
\* included.
StatusIsTrue == kind = "machine" => M!StatusIsTrue(input.config, input.machine)

\* A code and a state survive the query of the callback, which is split and decoded by
\* hand, and an error is never a success.
CallbackIsRead == kind = "callback" => O!CallbackIsRead(input.code, input.state, input.plus)

\* A command line starts the one mode and generates the one client that its flags ask
\* for, or nothing; a file without servers starts an empty one.
StartIsAsAsked == kind = "launch" => L!LaunchedAsAsked(input.c, input.machine)
=============================================================================
