------------------------------ MODULE LlmAssets ------------------------------
(***************************************************************************)
(* Which model a reference names, where its file is kept, and where the    *)
(* assets are looked for: llm_assist/mod.rs reads the same directories in  *)
(* four places (the two stores, install_status and prepare through them,   *)
(* and remove).  A reference is what trim leaves of it, a sequence of      *)
(* characters, of which "GGUF" and "gguf" count as one; what may be        *)
(* missing or fail is a sequence of none or one.                           *)
(***************************************************************************)
EXTENDS Naturals, Sequences, FiniteSets, SequencesExt

----------------------------------------------------------------------------
(* ModelRef: [repo, quant, filename], quant <<>> when there is none *)

FirstAt(s, c) == SelectInSeq(s, LAMBDA x : x = c)
LastAt(s, c)  == SelectLastInSeq(s, LAMBDA x : x = c)
Before(s, i)  == SubSeq(s, 1, i - 1)
After(s, i)   == SubSeq(s, i + 1, Len(s))

HasUp(s) == \E i \in DOMAIN s : i < Len(s) /\ s[i] = "." /\ s[i + 1] = "."

\* ":" splits at its last place, when what is before it has a "/".
RepoAndQuant(part) ==
    LET at == LastAt(part, ":")
    IN  IF at > 0 /\ at < Len(part) /\ Contains(Before(part, at), "/")
        THEN [repo |-> Before(part, at), quant |-> After(part, at)]
        ELSE [repo |-> part, quant |-> <<>>]

\* Two segments, the second after the one "/".
IsRepoId(repo) ==
    (\E i \in DOMAIN repo : {j \in DOMAIN repo : repo[j] = "/"} = {i}) /\ ~HasUp(repo)

\* The name after the owner, without -GGUF at its end, and the quantization; <<>>
\* without one.
DeriveFilename(repo, quant) ==
    LET name == After(repo, LastAt(repo, "/"))
        base == IF IsSuffix(<<"-", "GGUF">>, name) THEN Before(name, Len(name) - 1) ELSE name
    IN  IF quant = <<>> THEN <<>> ELSE base \o <<"-">> \o quant \o <<".", "gguf">>

\* A file name is kept as it is: it has no "/", no backslash and no way up.
IsSafeFilename(f) ==
    {"/", "backslash"} \cap ToSet(f) = {} /\ ~HasUp(f) /\ IsSuffix(<<".", "gguf">>, f)

\* ModelRef::parse
ParseModelRef(raw) ==
    LET at    == FirstAt(raw, "#")
        part  == IF at = 0 THEN raw ELSE Before(raw, at)
        named == RepoAndQuant(part)
        file  == IF at = 0 THEN DeriveFilename(named.repo, named.quant) ELSE After(raw, at)
        split == raw # <<>> /\ (at = 0 \/ (at > 1 /\ at < Len(raw)))
    IN  IF split /\ IsRepoId(named.repo) /\ file # <<>> /\ IsSafeFilename(file)
        THEN <<[repo |-> named.repo, quant |-> named.quant, filename |-> file]>>
        ELSE <<>>

DownloadUrl(m) == m.repo \o <<"/", "resolve", "/", "main", "/">> \o m.filename

\* The letters and digits that the model has, and the signs; sanitize_path_segment
\* replaces every other character.
Kept == {"a", "b", "A", "1", "GGUF", "gguf", "-", "_", "."}
Sanitized(segment) == [i \in DOMAIN segment |-> IF segment[i] \in Kept THEN segment[i] ELSE "_"]

Owner(m) == Before(m.repo, FirstAt(m.repo, "/"))
Name(m)  == After(m.repo, FirstAt(m.repo, "/"))

\* The path below the store: a segment that is empty or "." leaves no trace in it.
CacheKey(m) ==
    LET joined(s) == IF s \in {<<>>, <<".">>} THEN <<>> ELSE <<s>>
    IN  joined(Sanitized(Owner(m))) \o joined(Sanitized(Name(m))) \o <<<<"main">>, m.filename>>

----------------------------------------------------------------------------
(* Where the assets are.  A machine is [variable, home, supported, path,     *)
(* files]: whether MCP_COMPRESSOR_CACHE_DIR is set and a cache directory and *)
(* a build for the platform are known, whether llama-server is on the PATH,  *)
(* and the directories that hold the managed files.  A configuration is      *)
(* [cacheDir, server]: a directory or <<>>, and an explicit server that is   *)
(* there or not, or none.  A directory is the sequence of its parts.         *)

\* ModelStore::default_cache_dir and RuntimeStore::default_cache_dir; <<>> for none.
DefaultModels(machine) ==
    CASE machine.variable -> <<"variable", "models">>
      [] ~machine.variable /\ machine.home -> <<"home", "mcp-compressor", "models">>
      [] OTHER -> <<>>

DefaultRuntime(machine) ==
    LET base == CASE machine.variable -> <<"variable">>
                  [] ~machine.variable /\ machine.home -> <<"home", "mcp-compressor">>
                  [] OTHER -> <<>>
    IN  IF base = <<>> THEN <<>> ELSE base \o <<"llama.cpp">>

\* The stores that install_status and prepare_inner open.
ModelStoreRoot(config, machine) ==
    IF config.cacheDir # <<>> THEN config.cacheDir \o <<"models">> ELSE DefaultModels(machine)
RuntimeStoreRoot(config, machine) ==
    IF config.cacheDir # <<>> THEN config.cacheDir \o <<"llama.cpp">> ELSE DefaultRuntime(machine)

NoStore(config, machine) == <<>> \in {ModelStoreRoot(config, machine), RuntimeStoreRoot(config, machine)}

\* runtime_path answers a file only where there is a build for the platform.
RuntimeInstalled(config, machine) ==
    machine.supported /\ RuntimeStoreRoot(config, machine) \in machine.files

\* install_status: the server of the configuration, else the managed one, else one on
\* the PATH; <<>> for none.
StatusServer(config, machine) ==
    CASE config.server # "none" -> <<config.server>>
      [] config.server = "none" /\ RuntimeInstalled(config, machine) -> <<"managed">>
      [] OTHER -> IF machine.path THEN <<"path">> ELSE <<>>

InstallStatus(config, machine) ==
    IF NoStore(config, machine) THEN <<>>
    ELSE <<[server |-> StatusServer(config, machine),
            serverReady |-> StatusServer(config, machine) \notin {<<>>, <<"absent">>},
            modelReady  |-> ModelStoreRoot(config, machine) \in machine.files]>>

\* Mutant: a server that is not there is passed over for the managed one.
EnsureAnyServer(config, machine) ==
    CASE config.server = "present" -> <<config.server>>
      [] config.server # "present" /\ RuntimeInstalled(config, machine) -> <<"managed">>
      [] OTHER -> IF machine.path THEN <<"path">> ELSE <<>>

\* ensure_llama_server without a download.
EnsureServer(config, machine) ==
    CASE config.server # "none" -> IF config.server = "present" THEN <<config.server>> ELSE <<>>
      [] config.server = "none" /\ RuntimeInstalled(config, machine) -> <<"managed">>
      [] OTHER -> IF machine.path THEN <<"path">> ELSE <<>>

\* prepare_inner without a download: <<>> when it fails, else the server it takes.
PrepareOffline(config, machine) ==
    IF NoStore(config, machine) \/ ModelStoreRoot(config, machine) \notin machine.files
    THEN <<>> ELSE EnsureServer(config, machine)

RemoveBase(cacheDir, machine) ==
    CASE cacheDir # <<>> -> cacheDir
      [] cacheDir = <<>> /\ machine.variable -> <<"variable">>
      [] OTHER -> IF machine.home THEN <<"home", "mcp-compressor">> ELSE <<>>

\* remove_managed_llm_assets, each way it can end and the files it leaves: without a
\* directory it does nothing; it fails at the models or, after them, at the runtime, and
\* what it fails at may have lost its files already.
RemoveManaged(cacheDir, machine) ==
    LET models  == RemoveBase(cacheDir, machine) \o <<"models">>
        runtime == RemoveBase(cacheDir, machine) \o <<"llama.cpp">>
    IN  IF RemoveBase(cacheDir, machine) = <<>> THEN {[ok |-> FALSE, files |-> machine.files]}
        ELSE {[ok |-> TRUE, files |-> machine.files \ {models, runtime}]}
             \cup {[ok |-> FALSE, files |-> machine.files \ gone] : gone \in {{}, {models}, {models, runtime}}}

----------------------------------------------------------------------------
(* Properties *)

\* References share a file only when their file names are the same and their
\* repositories are the same once characters are replaced, an owner or a name that is
\* empty or "." aside; so those of different URLs have different files where nothing
\* is replaced.  And no part of the path leads up or holds another one.
KeysAreApart(raws) ==
    LET m == ParseModelRef(raws[1])[1]
        n == ParseModelRef(raws[2])[1]
        whole(x) == {Sanitized(Owner(x)), Sanitized(Name(x))} \cap {<<>>, <<".">>} = {}
        exact(x) == ToSet(x.repo) \subseteq Kept \cup {"/"}
    IN  <<>> \notin {ParseModelRef(raws[1]), ParseModelRef(raws[2])} =>
          /\ CacheKey(m) = CacheKey(n) =>
               /\ m.filename = n.filename
               /\ whole(m) /\ whole(n) =>
                    /\ Sanitized(Owner(m)) = Sanitized(Owner(n)) /\ Sanitized(Name(m)) = Sanitized(Name(n))
                    /\ exact(m) /\ exact(n) => DownloadUrl(m) = DownloadUrl(n)
          /\ \A i \in DOMAIN CacheKey(m) :
               ~HasUp(CacheKey(m)[i]) /\ {"/", "backslash"} \cap ToSet(CacheKey(m)[i]) = {}

\* What the status says is what a preparation without download does: it takes the
\* server the status names when both are ready, and fails otherwise.  After a removal
\* that is told the same directory nothing managed is ready any more, and after one
\* that failed either the status is the same or the model is not ready.
StatusIsTrue(config, machine) ==
    LET s == InstallStatus(config, machine)
        after(files) == [machine EXCEPT !.files = files]
    IN  /\ PrepareOffline(config, machine) =
             IF s = <<>> THEN <<>> ELSE IF s[1].serverReady /\ s[1].modelReady THEN s[1].server ELSE <<>>
        /\ \A out \in RemoveManaged(config.cacheDir, machine) :
             LET t == InstallStatus(config, after(out.files))
             IN  t # <<>> =>
                   /\ out.ok => ~t[1].modelReady /\ t[1].server # <<"managed">>
                   /\ ~out.ok => t = s \/ ~t[1].modelReady
=============================================================================
