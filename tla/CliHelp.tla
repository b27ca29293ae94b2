------------------------------- MODULE CliHelp -------------------------------
(***************************************************************************)
(* What the help of a subcommand promises (cli/help.rs), for a tool of     *)
(* ArgvParser: the options in their sections, and of each its type, the    *)
(* values it allows, whether it is required and how it is passed.          *)
(***************************************************************************)
EXTENDS ArgvParser

\* schema_type_details: an enum hides the type; an array of anything that is no
\* scalar, or of what is not told, is JSON.
TypeDetails(type, items, enum) ==
    CASE enum # {} -> [ty |-> "enum", complex |-> FALSE, hint |-> "none"]
      [] enum = {} /\ type = "oneOf"  -> [ty |-> "json", complex |-> TRUE, hint |-> "whole input"]
      [] enum = {} /\ type = "object" -> [ty |-> "json object", complex |-> TRUE, hint |-> "object"]
      [] enum = {} /\ type = "array"  ->
           IF items \in {"object", "array", "oneOf", "untold"}
           THEN [ty |-> "json array", complex |-> TRUE, hint |-> "array"]
           ELSE [ty |-> "list", complex |-> FALSE, hint |-> "repeat or array"]
      [] OTHER -> [ty |-> type, complex |-> FALSE, hint |-> "none"]

\* The sections, in the order of the text; an option is in one of them.
SectionOf(tool, p) ==
    IF TypeDetails(tool.type[p], tool.items, tool.enum[p]).complex THEN "COMPLEX"
    ELSE IF p \in tool.required THEN "REQUIRED" ELSE "OPTIONAL"

\* Mutant: only the options of the section REQUIRED are said to be required.
ToldBySection(tool, p) ==
    LET d == TypeDetails(tool.type[p], tool.items, tool.enum[p])
    IN  [flag |-> OptionFlag(p), ty |-> d.ty, hint |-> d.hint, allowed |-> tool.enum[p],
         required |-> SectionOf(tool, p) = "REQUIRED", negation |-> d.ty = "boolean"]

\* format_tool_option_help: what is told of one option.
Told(tool, p) ==
    LET d == TypeDetails(tool.type[p], tool.items, tool.enum[p])
    IN  [flag |-> OptionFlag(p), ty |-> d.ty, hint |-> d.hint, allowed |-> tool.enum[p],
         required |-> p \in tool.required, negation |-> d.ty = "boolean"]

\* render_subcommand_help: the options as they are listed.
Listed(tool) ==
    LET of(section) == MapSeq(LAMBDA p : Told(tool, p),
                              Those(tool.params, {p \in ToSet(tool.params) : SectionOf(tool, p) = section}))
    IN  of("REQUIRED") \o of("OPTIONAL") \o of("COMPLEX")

----------------------------------------------------------------------------
(* Properties *)

\* The word a user types for a value that is allowed.
WordOf(label) == CASE label = "5" -> "five" [] label = "0.5" -> "half" [] OTHER -> label

\* Words of a type as it is told; any of an item's type for a list.
Sample(tool, o) ==
    LET scalar(t) == CASE t = "boolean" -> "true" [] t = "integer" -> "five"
                       [] t = "number" -> "half" [] OTHER -> "plain"
    IN  CASE o.ty = "enum"              -> WordOf(CHOOSE l \in o.allowed : TRUE)
          [] o.ty = "list"              -> scalar(tool.items)
          [] o.ty = "json array"        -> "list"
          [] o.ty \in {"json object", "json"} -> "object"
          [] OTHER                      -> scalar(o.ty)

Given(flag, w) == <<[flag |-> flag], [word |-> w]>>

\* The command with the options, each with a word of its type.
Command(tool, opts) ==
    [i \in 1 .. 2 * Len(opts) |->
       LET o == opts[(i + 1) \div 2]
       IN  IF i % 2 = 1 THEN [flag |-> o.flag] ELSE [word |-> Sample(tool, o)]]

\* A label that the type of the property can be.  A number that is written without
\* a fraction is none, it becomes one with it; a word that stands for JSON is none.
Possible(tool, p, label) ==
    LET t == IF tool.type[p] = "array" THEN tool.items ELSE tool.type[p]
    IN  CASE t = "integer" -> label = "5" [] t = "number" -> label = "0.5"
          [] t = "boolean" -> label = "true" [] OTHER -> label \notin DOMAIN Json \ {"true"}

\* The flag is the property's alone: the name does not clash with another, and the
\* flag is neither empty nor that of a negation or of --json.
HasOwnFlag(P, p) ==
    /\ ~Clash(P, p) /\ ~Starts(TrimHyphens(OptionFlag(p)), No)
    /\ OptionFlag(p) # <<>> /\ OptionFlag(p) # JsonFlag

\* The options that are said to be required.
Asked(opts) == Those(opts, {o \in ToSet(opts) : o.required})

\* What a command line alone gives, whatever else is required.
ReadAlone(tool, argv) == ParseArgv([tool EXCEPT !.required = {}], argv)

\* Command lines that the help of an option tells of, with the value that each is to
\* give: alone and negated, as JSON, and with the flag repeated.
BareLines(o) ==
    IF o.negation THEN {<<<<[flag |-> o.flag]>>, V("bool", "true")>>, <<<<[flag |-> No \o o.flag]>>, V("bool", "false")>>}
    ELSE {}
JsonLines(o) ==
    CASE o.hint \in {"array", "repeat or array"} -> {<<Given(o.flag, "list"), Json["list"]>>}
      [] o.hint = "object" -> {<<Given(o.flag, "object"), Json["object"]>>}
      [] OTHER             -> {}
RepeatedLines(tool, o) ==
    IF o.hint = "repeat or array" /\ tool.items = "string"
    THEN {<<Given(o.flag, "five") \o Given(o.flag, "plain"), Json["list"]>>} ELSE {}

\* What is told of an option is true of the property p.
OptionHolds(tool, o, p) ==
    /\ o.flag = OptionFlag(p)
    /\ \A l \in o.allowed : ~Failed(ReadAlone(tool, Given(o.flag, WordOf(l))))
    /\ \A told \in BareLines(o) \cup JsonLines(o) \cup RepeatedLines(tool, o) :
         ReadAlone(tool, told[1]) = [input |-> [q \in {p} |-> told[2]]]

\* A command written from the help works.  With every option that is said to be
\* required, each with a word of its type, nothing is missing and nothing is refused;
\* any value said to be allowed is taken; a Boolean can be given alone and negated; a
\* flag that may be repeated gives what the JSON array of its words gives; and
\* arrays and objects said to be JSON arrive as the JSON they are.
HelpSuffices(tool) ==
    (\A p \in ToSet(tool.params) :
       HasOwnFlag(tool.params, p) /\ \A l \in tool.enum[p] : Possible(tool, p, l)) =>
      /\ ~Failed(ParseArgv(tool, Command(tool, Asked(Listed(tool)))))
      /\ Len(Listed(tool)) = Len(tool.params)
      /\ \A p \in ToSet(tool.params) : \E i \in DOMAIN Listed(tool) : OptionHolds(tool, Listed(tool)[i], p)
=============================================================================
