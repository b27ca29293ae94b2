-------------------------------- MODULE Launch --------------------------------
(***************************************************************************)
(* What a command line of mcp-compressor starts: app/options.rs decides    *)
(* the mode, app/entrypoint.rs the backends, app/runtime.rs and            *)
(* app/paths.rs where generated files go and how they are announced.       *)
(* A command line is [sub, config, name, cli, bash, code, python,          *)
(* typescript, mode, multi, backend, dir]: the subcommand or "none",       *)
(* whether there is --config, the name or "none", the flags that stand for *)
(* a mode, code a language or "none", --transform-mode, how many           *)
(* --multi-server, whether there is a backend command, and --output-dir or *)
(* "none".  A machine is [servers, path, there, variable]: the servers of  *)
(* the configuration file, the directories on the PATH, those that exist,  *)
(* and the one of MCP_COMPRESSOR_CLI_OUTPUT_DIR or "none".                 *)
(***************************************************************************)
EXTENDS Naturals, Sequences, SequencesExt

AtMostOne(flags) == \A i, j \in DOMAIN flags : flags[i] /\ flags[j] => i = j

Validate(c) ==
    /\ ~(c.config /\ c.name # "none")
    /\ AtMostOne(<<c.cli, c.bash, c.code # "none" \/ c.python \/ c.typescript>>)
    /\ AtMostOne(<<c.code # "none", c.python, c.typescript>>)

\* transform_mode: a flag comes before --transform-mode; a code client is CLI mode.
TransformMode(c) ==
    CASE c.bash -> "just-bash"
      [] ~c.bash /\ (c.cli \/ c.python \/ c.typescript \/ c.code # "none") -> "cli"
      [] OTHER  -> c.mode

ClientArtifactKind(c) ==
    CASE c.code # "none"                     -> c.code
      [] c.code = "none" /\ c.python         -> "python"
      [] c.code = "none" /\ c.typescript /\ ~c.python -> "typescript"
      [] OTHER                               -> "script"

\* build_server: the servers of the file, which may be none, else --multi-server, else
\* the command, without which nothing is built.
NothingToRun(c) == ~c.config /\ c.multi = 0 /\ ~c.backend

Backends(c, machine) ==
    CASE c.config                    -> machine.servers
      [] ~c.config /\ c.multi > 0    -> c.multi
      [] OTHER                       -> 1

\* cli_output_dir: the first candidate that is there and on the PATH.
Candidates == <<"~/.local/bin", "~/bin", "/usr/local/bin", "/opt/homebrew/bin">>
CliOutputDir(machine) ==
    LET usable(d) == d \in machine.there /\ d \in machine.path
        at == SelectInSeq(Candidates, usable)
    IN  CASE machine.variable # "none" -> [dir |-> machine.variable, onPath |-> TRUE]
          [] machine.variable = "none" /\ at > 0 -> [dir |-> Candidates[at], onPath |-> TRUE]
          [] OTHER -> [dir |-> "here", onPath |-> FALSE]

\* run_cli_mode: a code client is written to dist and is never on the PATH.
OutputDir(c, machine) ==
    CASE c.dir # "none" -> [dir |-> c.dir, onPath |-> c.dir \in machine.path]
      [] c.dir = "none" /\ ClientArtifactKind(c) # "script" -> [dir |-> "here/dist", onPath |-> FALSE]
      [] OTHER -> CliOutputDir(machine)

CliName(c) == IF c.name = "none" THEN "mcp" ELSE c.name

Written(c) ==
    LET file(ext) == [stem |-> CliName(c), ext |-> ext]
    IN  CASE ClientArtifactKind(c) = "python"     -> <<file(".py")>>
          [] ClientArtifactKind(c) = "typescript" -> <<file(".ts"), file(".d.ts")>>
          [] OTHER                                -> <<file("none")>>

RunCliMode(c, machine) ==
    LET out   == OutputDir(c, machine)
        named == SelectInSeq(Written(c), LAMBDA f : f = [stem |-> CliName(c), ext |-> "none"])
    IN  [mode |-> "cli", kind |-> ClientArtifactKind(c), dir |-> out.dir, files |-> Written(c),
         script |-> Written(c)[IF named = 0 THEN 1 ELSE named],
         invoke |-> CASE ClientArtifactKind(c) # "script" -> "import"
                      [] out.onPath /\ ClientArtifactKind(c) = "script" -> "name"
                      [] OTHER -> "path"]

\* run_async; CLI mode needs exactly one backend, the others start with none.
Launched(c, machine) ==
    CASE ~Validate(c) -> [mode |-> "usage"]
      [] Validate(c) /\ c.sub # "none" -> [mode |-> c.sub]
      [] Validate(c) /\ c.sub = "none" /\ NothingToRun(c) -> [mode |-> "usage"]
      [] OTHER -> CASE TransformMode(c) # "cli" -> [mode |-> TransformMode(c)]
                    [] TransformMode(c) = "cli" /\ Backends(c, machine) # 1 -> [mode |-> "refused"]
                    [] OTHER -> RunCliMode(c, machine)

----------------------------------------------------------------------------
(* Properties *)

\* What the flags ask for: the mode and what is generated.
Asked(c) ==
    (IF c.bash THEN {<<"just-bash", "none">>} ELSE {})
      \cup (IF c.cli THEN {<<"cli", "script">>} ELSE {})
      \cup (IF c.python \/ c.code = "python" THEN {<<"cli", "python">>} ELSE {})
      \cup (IF c.typescript \/ c.code = "typescript" THEN {<<"cli", "typescript">>} ELSE {})

\* What starts is what was asked for: of two modes that differ none starts, one that a
\* flag names starts whatever --transform-mode says, and generates what it names; a
\* server without backends starts only where a file lists none and never in CLI mode,
\* and a file is never a reason to ask for a command; the script that is announced is
\* a file that was written, and it is announced by its name alone only where a shell
\* finds it, or the variable says so.
LaunchedAsAsked(c, machine) ==
    LET r == Launched(c, machine)
    IN  /\ (\E x, y \in Asked(c) : x # y) => r.mode = "usage"
        /\ r.mode \in {"cli", "just-bash", "compressed-tools"} =>
             \/ Asked(c) = {} /\ r.mode = c.mode
             \/ Asked(c) = {<<r.mode, IF r.mode = "cli" THEN r.kind ELSE "none">>}
        /\ r.mode \in {"cli", "just-bash", "compressed-tools"} /\ Backends(c, machine) = 0 =>
             c.config /\ r.mode # "cli"
        /\ r.mode = "usage" => ~Validate(c) \/ ~c.config
        /\ r.mode = "cli" =>
             /\ \E i \in DOMAIN r.files : r.script = r.files[i]
             /\ r.invoke = "name" => \/ r.dir \in machine.path /\ r.script.ext = "none"
                                     \/ r.dir = machine.variable
=============================================================================
