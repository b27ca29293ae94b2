----------------------------- MODULE ArgvParser -----------------------------
(***************************************************************************)
(* The arguments of a subcommand, read twice: by parse_argv (cli/parser.rs,*)
(* for just-bash and the FFI) and by the parser in the generated script    *)
(* (client_gen/cli.rs).  An argument is [flag |-> name], what follows its  *)
(* first "--", or [word |-> w], a word of the tables that say how JSON and *)
(* the two languages read it.  A tool is [params, type, items, enum,       *)
(* required]: its properties in the order of the schema, the type of each, *)
(* the type of the items of its arrays, the values allowed ({}: any).      *)
(* A reading ends in [error |-> what] or in [input |-> what is sent].      *)
(***************************************************************************)
EXTENDS CliNames, FiniteSets

V(t, v)  == [t |-> t, v |-> v]
List(vs) == [list |-> vs]
Text(w)  == V("str", w)

\* The words that are JSON.
Json == [true |-> V("bool", "true"), five |-> V("num", "5"), half |-> V("num", "0.5"),
         list |-> List(<<V("num", "5"), Text("plain")>>), object |-> V("object", "{}")]

\* json.loads takes NaN too.
PyJson == [w \in DOMAIN Json \cup {"nan"} |-> IF w = "nan" THEN V("num", "NaN") ELSE Json[w]]

\* What an i64 and an int() can be: "1_0" is ten to Python.
NativeInteger == [five |-> V("num", "5")]
PyInteger     == [five |-> V("num", "5"), loose |-> V("num", "10")]

\* What an f64 and a float() can be; a NaN is no number of serde_json's.
NativeNumber == [five |-> V("num", "5.0"), half |-> V("num", "0.5")]
PyNumber     == [five |-> V("num", "5.0"), half |-> V("num", "0.5"), loose |-> V("num", "10.0"),
                 nan |-> V("num", "NaN")]

Failure(what) == [error |-> what]
Failed(x)     == "error" \in DOMAIN x
Read(table, w, what) == IF w \in DOMAIN table THEN table[w] ELSE Failure(what)

IsFlag(arg)    == "flag" \in DOMAIN arg
IsList(v)      == "list" \in DOMAIN v
Candidates(v)  == IF IsList(v) THEN v.list ELSE <<v>>
\* The next argument, when it is not a flag.
Value(argv, i) == IF i + 1 \in DOMAIN argv /\ ~IsFlag(argv[i + 1]) THEN <<argv[i + 1].word>> ELSE <<>>

----------------------------------------------------------------------------
(* parse_argv *)

NativeScalar(type, w) ==
    CASE type = "boolean" -> Read([true |-> V("bool", "true")], w, "boolean")
      [] type = "integer" -> Read(NativeInteger, w, "integer")
      [] type = "number"  -> Read(NativeNumber, w, "number")
      [] OTHER            -> IF w \in DOMAIN Json THEN Json[w] ELSE Text(w)

NativeCoerce(type, items, w) ==
    CASE type # "array"                -> NativeScalar(type, w)
      [] type = "array" /\ w = "list" -> Json[w]
      [] OTHER                         -> NativeScalar(items, w)

\* json_scalar_label: a string without its quotes, the rest as JSON.
NativeAllows(enum, v) == enum = {} \/ \A i \in DOMAIN Candidates(v) : Candidates(v)[i].v \in enum

\* Mutant: a repeated array flag keeps its last value only.
InsertLast(out, p, type, v) ==
    LET new == IF type = "array" THEN List(Candidates(v)) ELSE v
    IN  [q \in DOMAIN out \cup {p} |-> IF q = p THEN new ELSE out[q]]

\* insert_value: an array grows, anything else is replaced.
InsertValue(out, p, type, v) ==
    LET old == IF p \in DOMAIN out THEN out[p].list ELSE <<>>
        new == IF type = "array" THEN List(old \o Candidates(v)) ELSE v
    IN  [q \in DOMAIN out \cup {p} |-> IF q = p THEN new ELSE out[q]]

\* What a flag without a value stands for.
Unvalued(no) == V("bool", IF no THEN "false" ELSE "true")

\* One flag with what it takes: its property is p, raw is what follows it, value
\* what is made of that, allowed whether the enum has it.
Taken(tool, p, i, no, raw, value, allowed) ==
    LET bare == no \/ raw = <<>>
    IN  CASE no /\ tool.type[p] # "boolean"                -> Failure("only boolean")
          [] ~no /\ bare /\ tool.type[p] # "boolean"       -> Failure("requires a value")
          [] OTHER -> CASE Failed(value)                   -> value
                        [] ~Failed(value) /\ ~allowed      -> Failure("not allowed")
                        [] OTHER -> [property |-> p, value |-> value,
                                     next |-> i + IF bare THEN 1 ELSE 2]

NativeFlag(tool, argv, i) ==
    LET f     == ParseFlagName(argv[i].flag)
        found == ResolvePropertyName(tool.params, f.name)
        p     == found[1]
        raw   == Value(argv, i)
        value == IF f.no \/ raw = <<>> THEN Unvalued(f.no)
                 ELSE NativeCoerce(tool.type[p], tool.items, raw[1])
    IN  IF found = <<>> THEN Failure("unknown flag")
        ELSE Taken(tool, p, i, f.no, raw, value, NativeAllows(tool.enum[p], value))

Positional(arg) == ~IsFlag(arg) \/ arg.flag = <<>>

NoInput == [q \in {} |-> {}]

\* The loop over the arguments, before the first: which is the next to look at, and
\* what was read.
Begun == [next |-> 1, reading |-> [input |-> NoInput]]

\* The i-th argument is not looked at: one before it failed, or took it as its value.
PassesOver(acc, i) == Failed(acc.reading) \/ i < acc.next

\* A turn of the loop, at an argument from which flag was made.
Turn(tool, arg, acc, flag) ==
    CASE Positional(arg)                   -> [acc EXCEPT !.reading = Failure("positional")]
      [] ~Positional(arg) /\ Failed(flag)  -> [acc EXCEPT !.reading = flag]
      [] OTHER -> [next    |-> flag.next,
                   reading |-> [input |-> InsertValue(acc.reading.input, flag.property,
                                                      tool.type[flag.property], flag.value)]]

NativeStep(tool, argv, acc, i) ==
    IF PassesOver(acc, i) THEN acc ELSE Turn(tool, argv[i], acc, NativeFlag(tool, argv, i))

NativeFrom(tool, argv) ==
    LET read[i \in 0 .. Len(argv)] == IF i = 0 THEN Begun ELSE NativeStep(tool, argv, read[i - 1], i)
    IN  read[Len(argv)].reading

JsonFlag       == <<"j", "s", "o", "n">>
AsksJson(argv) == argv # <<>> /\ argv[1] = [flag |-> JsonFlag]

\* The whole input as JSON, whatever JSON it is.
JsonInput(argv, table) ==
    CASE Len(argv) = 1 -> Failure("requires a value")
      [] Len(argv) > 2 -> Failure("cannot be combined")
      [] OTHER         -> IF IsFlag(argv[2]) \/ argv[2].word \notin DOMAIN table THEN Failure("no JSON")
                          ELSE [input |-> table[argv[2].word]]

ParseArgv(tool, argv) ==
    LET complete(out) ==
          IF ~Failed(out) /\ ~(tool.required \subseteq DOMAIN out.input)
          THEN Failure("missing required") ELSE out
    IN  IF AsksJson(argv) THEN JsonInput(argv, Json) ELSE complete(NativeFrom(tool, argv))

----------------------------------------------------------------------------
(* The parser of the script *)

PyScalar(type, w) ==
    CASE type = "boolean" -> Read([true |-> V("bool", "true")], w, "boolean")
      [] type = "integer" -> Read(PyInteger, w, "integer")
      [] type = "number"  -> Read(PyNumber, w, "number")
      [] OTHER            -> IF w \in DOMAIN PyJson THEN PyJson[w] ELSE Text(w)

PyCoerce(type, items, w) ==
    CASE type # "array"                -> PyScalar(type, w)
      [] type = "array" /\ w = "list" -> PyJson[w]
      [] OTHER                         -> PyScalar(items, w)

\* str() gives a Boolean a capital.
PyLabel(v) == IF v.t = "bool" THEN (IF v.v = "true" THEN "True" ELSE "False") ELSE v.v

\* Mutant: only the first of several values is looked at.
PyAllowsFirst(enum, v) == enum = {} \/ PyLabel(Candidates(v)[1]) \in enum

PyAllows(enum, v) == enum = {} \/ \A i \in DOMAIN Candidates(v) : PyLabel(Candidates(v)[i]) \in enum

PyFlag(tool, argv, i) ==
    LET f     == argv[i].flag
        found == FlagToProperty(tool.params, f)
        p     == found[1]
        raw   == Value(argv, i)
        value == IF ScriptNegates(f) \/ raw = <<>> THEN Unvalued(ScriptNegates(f))
                 ELSE PyCoerce(tool.type[p], tool.items, raw[1])
    IN  IF found = <<>> THEN Failure("unknown flag")
        ELSE Taken(tool, p, i, ScriptNegates(f), raw, value, PyAllows(tool.enum[p], value))

ScriptStep(tool, argv, acc, i) ==
    IF PassesOver(acc, i) THEN acc ELSE Turn(tool, argv[i], acc, PyFlag(tool, argv, i))

ScriptFrom(tool, argv) ==
    LET read[i \in 0 .. Len(argv)] == IF i = 0 THEN Begun ELSE ScriptStep(tool, argv, read[i - 1], i)
    IN  read[Len(argv)].reading

\* The required arguments are left to the backend.
ScriptArgs(tool, argv) ==
    IF AsksJson(argv) THEN JsonInput(argv, PyJson) ELSE ScriptFrom(tool, argv)

----------------------------------------------------------------------------
(* Properties *)

Words(argv) == {argv[i].word : i \in {j \in DOMAIN argv : ~IsFlag(argv[j])}}

\* Python reads the word as another value, or writes the value as another word; the
\* names of two properties differ in case and separators only; or there is a flag with
\* more hyphens, of which only the native parser sees that it is negated.
ReadOtherwise(tool, argv) ==
    \/ "nan" \in Words(argv)
    \/ "true" \in Words(argv) /\ \E p \in ToSet(tool.params) : tool.enum[p] # {}
    \/ \E p \in ToSet(tool.params) :
         Clash(tool.params, p) \/ (tool.type[p] = "boolean" /\ tool.enum[p] # {})
    \/ \E i \in DOMAIN argv : IsFlag(argv[i]) /\ NativeNegates(argv[i].flag) # ScriptNegates(argv[i].flag)

\* The script reads what the native parser reads, as the same input, so that a
\* command of just-bash works in a shell; words that Python reads otherwise are
\* left out.  What the native parser refuses the script refuses too, but for the
\* wider numbers of Python and the required arguments, which it does not look at.
ScriptReadsAsNative(tool, argv) ==
    LET agree(native, script) ==
          IF Failed(native)
          THEN Failed(script) \/ native.error \in {"missing required", "integer", "number"}
          ELSE script = native
    IN  ReadOtherwise(tool, argv) \/ agree(ParseArgv(tool, argv), ScriptArgs(tool, argv))

\* An input that was read from flags holds each required property, properties of the
\* tool alone, and allowed values; no value of the command line is lost: an array
\* has an item for each time its flag was given.
NativeInputIsValid(tool, argv) ==
    LET times(p) == Cardinality({i \in DOMAIN argv : IsFlag(argv[i])
                      /\ ResolvePropertyName(tool.params, ParseFlagName(argv[i].flag).name) = <<p>>})
        fits(out) ==
          ~Failed(out) =>
            /\ tool.required \subseteq DOMAIN out.input /\ DOMAIN out.input \subseteq ToSet(tool.params)
            /\ \A p \in DOMAIN out.input :
                 /\ NativeAllows(tool.enum[p], out.input[p])
                 /\ tool.type[p] = "array" => Len(out.input[p].list) >= times(p)
    IN  AsksJson(argv) \/ fits(ParseArgv(tool, argv))
=============================================================================
