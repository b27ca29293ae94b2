------------------------------- MODULE HostPlan -------------------------------
(***************************************************************************)
(* The plan a host is given to offer a server's tools as a CLI, as Just    *)
(* Bash commands or as a module (ffi/host_transform.rs): the files, where  *)
(* they go, the environment, and what the description of the help tool     *)
(* says of them.  A configuration is [kind, server, tools, dir, command,   *)
(* bridge]: dir, command and bridge are sequences of none or one.          *)
(***************************************************************************)
EXTENDS CliNames

OrElse(option, default) == IF option = <<>> THEN default ELSE option[1]

\* Where each kind of plan puts its files when the host names no directory.
Dir(c) == OrElse(c.dir, "./dist")

File(stem, ext) == [stem |-> stem, ext |-> ext]

\* The artifacts of the generators are named after the server.
Rendered(c) ==
    CASE c.kind = "cli"        -> <<File(c.server, "none")>>
      [] c.kind = "python"     -> <<File(c.server, ".py")>>
      [] c.kind = "typescript" -> <<File(c.server, ".ts"), File(c.server, ".d.ts")>>
      [] OTHER                 -> <<>>

\* The bridge that the files call; without one a port nobody listens on.
GeneratorBridge(c) == OrElse(c.bridge, "http://127.0.0.1:0")

ArtifactPaths(c) == MapSeq(LAMBDA f : [dir |-> Dir(c), file |-> f], Rendered(c))

Environment(c) ==
    CASE c.kind = "cli"    -> [PATH |-> Dir(c)]
      [] c.kind = "python" -> [PYTHONPATH |-> Dir(c)]
      [] OTHER             -> [v \in {} |-> "none"]

\* What the help says: the command and its subcommands, or the module, its
\* declarations and its functions.
ShellHelp(command, c) ==
    [command |-> command, entries |-> MapSeq(LAMBDA t : Subcommand(t.name), c.tools)]

CodeHelp(c) ==
    [source   |-> [dir |-> Dir(c), file |-> File(c.server, IF c.kind = "python" THEN ".py" ELSE ".ts")],
     entries  |-> MapSeq(LAMBDA t : Advertised(c.kind, t), c.tools),
     details  |-> IF c.kind = "python" THEN [dir |-> Dir(c), file |-> File(c.server, ".py")]
                  ELSE [dir |-> Dir(c), file |-> File(c.server, ".d.ts")]]

HelpOf(c) ==
    CASE c.kind = "just-bash" -> ShellHelp(c.server, c)
      [] c.kind = "cli"       -> ShellHelp(OrElse(c.command, c.server), c)
      [] OTHER                -> CodeHelp(c)

JustBash(c) ==
    [command |-> c.server,
     commands |-> MapSeq(LAMBDA t : [name |-> Subcommand(t.name), tool |-> t.name], c.tools)]

\* build_host_transform_plan
Plan(c) ==
    [files |-> ToSet(Rendered(c)), paths |-> ToSet(ArtifactPaths(c)), help |-> HelpOf(c),
     environment |-> Environment(c), bridge |-> GeneratorBridge(c),
     bash |-> IF c.kind = "just-bash" THEN <<JustBash(c)>> ELSE <<>>]

----------------------------------------------------------------------------
(* Properties *)

SameSubcommand(c) ==
    \E i, j \in DOMAIN c.tools : i # j /\ Subcommand(c.tools[i].name) = Subcommand(c.tools[j].name)

\* A host that carries out the plan has what the help speaks of: every path is a file
\* of the plan, the command is a file in a directory that is put on the PATH (unless
\* the host named the command otherwise) and each subcommand reaches its tool; the
\* module and its declarations are among the paths, the one of Python on its path,
\* with the functions as they are told; and the commands of Just Bash are those of the
\* help, each the tool's own.
PlanKeepsItsWord(c) ==
    LET p == Plan(c)
        names == MapSeq(LAMBDA t : t.name, c.tools)
    IN  /\ {x.file : x \in p.paths} = p.files
        /\ c.kind = "cli" /\ c.command \in {<<>>, <<c.server>>} =>
             /\ [dir |-> p.environment.PATH, file |-> File(p.help.command, "none")] \in p.paths
             /\ ~SameSubcommand(c) => \A i \in DOMAIN names :
                  CaseBranch(names, p.help.entries[i]) \in {names[i], <<"help">>}
        /\ c.kind = "python" => p.help.source = [dir |-> p.environment.PYTHONPATH, file |-> File(c.server, ".py")]
        /\ c.kind \in {"python", "typescript"} =>
             /\ {p.help.source, p.help.details} \subseteq p.paths
             /\ \A i \in DOMAIN c.tools : Inverted(c.tools[i]) \/ p.help.entries[i] = Defined(c.kind, c.tools[i])
        /\ c.kind = "just-bash" =>
             /\ p.bash[1].command = p.help.command /\ p.files = {}
             /\ MapSeq(LAMBDA x : x.name, p.bash[1].commands) = p.help.entries
             /\ MapSeq(LAMBDA x : x.tool, p.bash[1].commands) = names
=============================================================================
