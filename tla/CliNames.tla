------------------------------ MODULE CliNames ------------------------------
(***************************************************************************)
(* How the names of tools and of their properties become subcommands,      *)
(* flags, functions and files, and how a flag finds its property again:    *)
(* cli/mapping.rs, the name parts of cli/parser.rs and cli/help.rs, of the *)
(* generated script (client_gen/cli.rs) and of the Python and TypeScript   *)
(* modules, with what host_transform.rs tells of them.  A name is a        *)
(* sequence of characters over a few letters, a digit and the separators.  *)
(***************************************************************************)
EXTENDS Naturals, Sequences, SequencesExt

Letters == [A |-> "a", B |-> "b"]
Small   == {"a", "b", "n", "o", "h", "e", "l", "p", "m", "c"}
Digits  == {"1"}

IsUpper(c) == c \in DOMAIN Letters
Lower(c)   == IF IsUpper(c) THEN Letters[c] ELSE c
IsAlnum(c) == IsUpper(c) \/ c \in Small \cup Digits

MapSeq(Op(_), s) == [i \in DOMAIN s |-> Op(s[i])]
LowerCase(n)     == MapSeq(Lower, n)

\* The first element of s that passes; s has one.
FirstOf(s, Test(_)) == s[SelectInSeq(s, Test)]
SomeOf(s, Test(_))  == \E i \in DOMAIN s : Test(s[i])

----------------------------------------------------------------------------
(* Names as they are written *)

\* A hyphen goes before a capital that follows a small letter or a digit.
Hump(n, i) == IsUpper(n[i]) /\ i > 1 /\ n[i - 1] \in Small \cup Digits
Dashed(n, out, i) ==
    Append(IF Hump(n, i) THEN Append(out, "-") ELSE out, IF n[i] = "_" THEN "-" ELSE Lower(n[i]))
Subcommand(n) ==
    LET out[i \in 0 .. Len(n)] == IF i = 0 THEN <<>> ELSE Dashed(n, out[i - 1], i)
    IN  out[Len(n)]

\* Runs of what is no letter or digit become one separator; none at the ends.
Cleaned(acc, c) ==
    IF IsAlnum(c) THEN [out |-> Append(IF acc.out = <<>> THEN <<>> ELSE acc.out \o acc.sep, Lower(c)), sep |-> <<>>]
    ELSE [acc EXCEPT !.sep = IF acc.sep = <<>> /\ c \in {"_", "-"} THEN <<c>> ELSE <<"-">>]
CleanedAll(n) ==
    LET read[i \in 0 .. Len(n)] == IF i = 0 THEN [out |-> <<>>, sep |-> <<>>] ELSE Cleaned(read[i - 1], n[i])
    IN  read[Len(n)].out

Mcp == <<"m", "c", "p">>
SanitizedCliName(n) ==
    LET out == CleanedAll(n)
    IN  CASE out = <<>>                          -> Mcp
          [] out # <<>> /\ out[1] \in Digits     -> Mcp \o (<<"-">> \o out)
          [] out # <<>> /\ out[1] \notin Digits  -> out

\* Words of a Python name are joined by one underscore.
Snaked(n, acc, i) ==
    LET c   == n[i]
        gap == acc.out # <<>> /\ ~acc.sep
    IN  CASE c \in {"-", " "} -> [out |-> IF gap THEN Append(acc.out, "_") ELSE acc.out, sep |-> TRUE]
          [] IsUpper(c) -> [out |-> Append(IF i > 1 /\ ~acc.sep THEN Append(acc.out, "_") ELSE acc.out, Lower(c)),
                            sep |-> FALSE]
          [] OTHER      -> [out |-> Append(acc.out, c), sep |-> c = "_"]
SnakeCase(n) ==
    LET read[i \in 0 .. Len(n)] ==
          IF i = 0 THEN [out |-> <<>>, sep |-> FALSE] ELSE Snaked(n, read[i - 1], i)
    IN  read[Len(n)].out

\* What follows a separator is a capital.
CamelCase(n) ==
    LET upper(c) == IF \E u \in DOMAIN Letters : Letters[u] = c
                    THEN CHOOSE u \in DOMAIN Letters : Letters[u] = c ELSE c
        step(acc, c) == CASE c \in {"_", "-"} -> [acc EXCEPT !.up = TRUE]
                          [] OTHER -> [out |-> Append(acc.out, IF acc.up THEN upper(c) ELSE c), up |-> FALSE]
    IN  FoldLeft(step, [out |-> <<>>, up |-> FALSE], n).out

----------------------------------------------------------------------------
(* From a flag to its property: a flag is what follows its first "--" *)

Starts(n, prefix) == IsPrefix(prefix, n)
Without(n, prefix) == SubSeq(n, Len(prefix) + 1, Len(n))
No == <<"n", "o", "-">>

\* All the leading "--" go, not only the first; of an odd number of hyphens one stays.
TrimHyphens(f) ==
    LET other   == SelectInSeq(f, LAMBDA c : c # "-")
        leading == IF other = 0 THEN Len(f) ELSE other - 1
    IN  SubSeq(f, (leading - (leading % 2)) + 1, Len(f))

SnakeOf(n)   == MapSeq(LAMBDA c : IF c = "-" THEN "_" ELSE c, n)

\* The letters and digits of a name alone, without their case.
Adds(out, c) == IF c \in {"-", "_"} THEN out ELSE Append(out, Lower(c))
Canonical(n) ==
    LET out[i \in 0 .. Len(n)] == IF i = 0 THEN <<>> ELSE Adds(out[i - 1], n[i])
    IN  out[Len(n)]

\* parse_flag_name: the name, and whether it is negated.
ParseFlagName(f) ==
    LET n == TrimHyphens(f)
    IN  IF Starts(n, No) THEN [name |-> SnakeOf(Without(n, No)), no |-> TRUE]
        ELSE [name |-> SnakeOf(n), no |-> FALSE]

\* The property of that name, or the first whose letters are the same: <<>> if none.
ResolvePropertyName(P, n) ==
    LET alike(p) == Canonical(p) = Canonical(n)
    IN  CASE Contains(P, n)   -> <<n>>
          [] SomeOf(P, alike) /\ ~Contains(P, n) -> <<FirstOf(P, alike)>>
          [] OTHER            -> <<>>

\* flag_to_property of the script: the hyphens of the name are tried first.
FlagToProperty(P, f) ==
    LET raw == IF Starts(f, No) THEN Without(f, No) ELSE f
        alike(p) == Canonical(p) = Canonical(raw)
    IN  CASE Contains(P, raw)          -> <<raw>>
          [] Contains(P, SnakeOf(raw)) /\ ~Contains(P, raw) -> <<SnakeOf(raw)>>
          [] ~Contains(P, raw) /\ ~Contains(P, SnakeOf(raw)) /\ SomeOf(P, alike) -> <<FirstOf(P, alike)>>
          [] OTHER                     -> <<>>

\* Whether the two take the flag for a negation.
NativeNegates(f) == ParseFlagName(f).no
ScriptNegates(f) == Starts(f, No)

\* The flag of an option in the help of a subcommand.
OptionFlag(p) == Subcommand(p)

\* The branch of the script's case: the one of its own for help comes first.
CaseBranch(tools, word) ==
    LET mine(t) == Subcommand(t) = word
        asks == {<<>>, <<"h", "e", "l", "p">>, <<"-", "h">>, <<"-", "-", "h", "e", "l", "p">>}
    IN  IF word \in asks THEN <<"help">>
        ELSE IF SomeOf(tools, mine) THEN FirstOf(tools, mine) ELSE <<"usage">>

----------------------------------------------------------------------------
(* Functions: a tool is its name, its parameters and which are required *)

Required(tool, p)  == p \in tool.required

\* The elements of s that are in S, in their order.
Those(s, S) ==
    LET out[i \in 0 .. Len(s)] ==
          IF i = 0 THEN <<>> ELSE IF s[i] \in S THEN Append(out[i - 1], s[i]) ELSE out[i - 1]
    IN  out[Len(s)]

OrderedParams(tool) ==
    Those(tool.params, tool.required) \o Those(tool.params, ToSet(tool.params) \ tool.required)

ParamOf(kind, tool, p) ==
    [name |-> IF kind = "python" THEN SnakeCase(p) ELSE p, optional |-> ~Required(tool, p)]

FunctionName(kind, tool) == IF kind = "python" THEN SnakeCase(tool.name) ELSE CamelCase(tool.name)

\* Mutant: the function takes its parameters in the order of the schema.
DefinedUnordered(kind, tool) ==
    [name |-> FunctionName(kind, tool), params |-> MapSeq(LAMBDA p : ParamOf(kind, tool, p), tool.params)]

\* The function in the generated module.
Defined(kind, tool) ==
    [name |-> FunctionName(kind, tool), params |-> MapSeq(LAMBDA p : ParamOf(kind, tool, p), OrderedParams(tool))]

\* code_function_signature: what the help of the toolset says of it.
Advertised(kind, tool) ==
    [name |-> FunctionName(kind, tool), params |-> MapSeq(LAMBDA p : ParamOf(kind, tool, p), tool.params)]

\* The input the function sends: every parameter of the schema by its own name,
\* with the value of the variable that has its name in the language.
SentInput(kind, tool) ==
    {<<p, ParamOf(kind, tool, p).name>> : p \in ToSet(tool.params)}

----------------------------------------------------------------------------
(* Properties *)

Clash(P, p) == \E q \in ToSet(P) : q # p /\ Canonical(q) = Canonical(p)
Twin(tools, t) == \E u \in ToSet(tools) : u # t /\ Subcommand(u) = Subcommand(t)

\* What the help names can be reached by the name it is given there: a flag finds
\* its property in the native parser and in the script, not negated, and a
\* subcommand its tool.  Names that differ in case and separators only clash, and
\* a property no_x or noX, or a tool called help, cannot be reached.  A name that was
\* made a command's is one already when it is sanitized again.
HelpReaches(P) ==
    \A p \in ToSet(P) :
      /\ Clash(P, p) \/ Starts(TrimHyphens(OptionFlag(p)), No) \/
           /\ ResolvePropertyName(P, ParseFlagName(OptionFlag(p)).name) = <<p>>
           /\ FlagToProperty(P, OptionFlag(p)) = <<p>>
           /\ ~NativeNegates(OptionFlag(p)) /\ ~ScriptNegates(OptionFlag(p))
      /\ Twin(P, p) \/ CaseBranch(P, Subcommand(p)) \in {p, <<"help">>}
      /\ SanitizedCliName(SanitizedCliName(p)) = SanitizedCliName(p)

Inverted(tool) ==
    \E i, j \in DOMAIN tool.params :
      i < j /\ ~Required(tool, tool.params[i]) /\ Required(tool, tool.params[j])

\* A function can be called as it is advertised, unless the schema has an optional
\* parameter before a required one; no required parameter follows an optional one,
\* and two parameters of one name in the language have names that clash.
AdvertisedIsCallable(kind, tool) ==
    LET d == Defined(kind, tool)
    IN  /\ Inverted(tool) \/ Advertised(kind, tool) = d
        /\ \A i, j \in DOMAIN d.params : i < j /\ d.params[i].optional => d.params[j].optional
        /\ \A x, y \in SentInput(kind, tool) :
             x # y /\ x[2] = y[2] => Canonical(x[1]) = Canonical(y[1])
=============================================================================
