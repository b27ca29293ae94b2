# Formal model of mcp-compressor

mcp-compressor is a proxy for the Model Context Protocol. It connects to one or
more upstream MCP servers ("backends"), hides their tools behind two or three
wrapper tools per server (`get_tool_schema`, `invoke_tool`, `list_tools`), and
offers the same tools to command lines, generated clients, a just-bash sandbox
and SDKs in Rust, Python and TypeScript. This directory holds TLA+ modules for
the parts of it that carry state, that decide where a call goes or that read what
a user or a server wrote, the TLC configurations that check them on small
instances, and TLAPS proofs of the most important results for every instance.

Paths below are relative to `src/crates/mcp-compressor-core/src/` unless they
begin with `src/`. `PROJECT.json` maps every definition to the lines it models.

    tlc -workers 2 -config MCToolCache_all.cfg MCToolCache
    tlapm ToolCacheProofs.tla

## 1. Inventory

### Compressed server routing (`server/compressed.rs`, `server/registration.rs`, `server/connect.rs`, `proxy/server.rs`, `sdk.rs`)

State: the configuration (server name, mode, include and exclude lists) and the
vector of connected backends, each with a public name and the tools, resources
and prompts it listed when it was connected. The vector does not change once
the server runs; the upstreams may.

Operations: the three constructors; `list_tools` and `call_tool` of the MCP
server; resources and prompts; `/exec` of the HTTP proxy; `invoke`,
`invoke_on`, `invoke_wrapper` and the executable tools of the SDK.

Interactions: every SDK, generated client and shell command ends in one of
these entry points, which find the backend by a string prefix
(`backend_for_wrapper`, compressed.rs:519) and forward the call.

What is hard: names. Public names, wrapper names and tool names share one name
space, are joined by underscores and taken apart by prefix and suffix tests; a
default server name is computed from another source than the wrapper names;
lists are taken once and upstreams change.

Correct when a listed tool reaches the server that listed it, no hidden tool is
reachable on any path, and a resource is read where it was listed.

### Tool cache (`server/tool_cache.rs`)

State: a generation counter and a "populated" flag (two atomics) and an
optional entry (generation tag, list) under a read-write lock.

Operations: `get_all`, `get`, `refresh`, `invalidate`, `is_populated`.

What is hard: lock-free loads before an awaited lock; a fetch under the write
guard in `get_all` and a fetch without it in `refresh`; a two-step
`invalidate`; calls dropped at an await.

Correct when an answer is no older than the caller may expect, a generation is
fetched once, the flag does not lie, and an error never keeps the guard.

### LLM preparation (`llm_assist/mod.rs` 566-681)

State: `NotStarted`, `Preparing`, `Ready` or `Failed` under a mutex, and a
`Notify`. Operations: `start_background`, `prepare`, `status`. It calls the two
asset stores.

What is hard: the first caller prepares, the others wait; the notification is
not kept for those who come late; the preparer may be dropped.

Correct when one preparation runs, all callers agree, and every call returns.

### Asset stores (`llm_assist/mod.rs` 168-318, 334-555, 723-747, 1113-1189)

State: a cache directory shared by all processes of a user, with a lock file,
partial downloads, archives, an extraction directory, a model and a
llama-server binary. Operations: `ensure_model`, `ensure_llama_server`,
`remove_managed_llm_assets`; `install_status` reads.

What is hard: several processes, crashes at any point, truncated bodies,
readers that look without the lock, a removal that takes no lock.

Correct when what can be found at a final path is complete and is not changed
under a reader, one process downloads at a time and nobody waits for ever.

### Ephemeral llama-server (`llm_assist/mod.rs` 870-1111, 1223)

State: a child process per request, its port, the attempts left, the time used.
Operations: reserve a port, spawn, poll until ready, post, shut down or kill on
drop, retry within one request timeout.

What is hard: the port is released before the child binds it, so two requests may
reserve the same one; the timeout of the request races the readiness timeout and
the answer, and is looked at last (`tokio::time::timeout` polls the request before
its own timer); the child must die on every path, a dropped future included.

Correct when no server outlives its attempt, an answer comes from the request's
own server unless two requests raced for a port, and every request ends.

### OAuth store and callback (`oauth.rs`, `ffi/oauth.rs`, `server/connect.rs`)

State: one directory of credentials and pending states per backend, an index
shared by all processes, a listener that takes one callback. Operations: connect
with stored credentials or authorize, save and refresh tokens, list and clear by
name, by URI or everything.

What is hard: the index is read, changed and written without a lock; clearing
removes several directories and stops at the first error; a token that is
refreshed is written back by whoever still holds it; the query of the callback is
parsed by hand.

Correct when credentials on disk can be found through the index, also when a clear
stopped halfway, what was cleared stays cleared, and a code and a state arrive as the provider wrote them.

### CLI script and bridge map (`client_gen/cli.rs`, `client_gen/generator.rs`, `app/runtime.rs`, `proxy/server.rs`, `proxy/auth.rs`)

State: a script per CLI name on disk with a map of live bridges (process, port,
token), shared by every CLI-mode process of that name. Operations: read the
script, drop the dead, merge the own entry, write; look a bridge up from a
command's process tree; call it; check the token.

What is hard: read, merge and write without a lock; process ids and ports are
used again; the script falls back to any live bridge.

Correct when a running session is listed, a command runs in the session of its own
process tree, and a call is executed by the session that was picked or by none.

### Sessions (`ffi/session.rs`, `sdk.rs`, the Node and Python crates, `src/python/mcp-compressor/mcp_compressor/client.py`, `src/typescript/src/native_client.ts`)

State: a client with at most one session it remembers, the proxies it hands out,
the headers each call stores for the session. Operations: connect, invoke with a
provider of headers, close a proxy or the client.

What is hard: connects that overlap; a close that races a call; who keeps a
session alive, differently in each of the three hosts; headers obtained by one
call and stored by another.

Correct when an open proxy has its session, a client has one session, and a
request carries headers no older than its own.

### HTTP client (`server/dynamic_http_client.rs`)

State: none of its own besides rmcp's session id. Operations: post a message, get
the stream, delete the session; merge static and provided headers. Hard: which
answers are a message, which an error, which mean that the session has expired.
Correct when no message of the server is lost and the right header wins.

### Backend configuration (`server/backend.rs`, `config/topology.rs`, `app/options.rs`, `app/entrypoint.rs`, `app/paths.rs`, `sdk.rs`, `ffi/session.rs`)

Functions: what arguments, `--multi-server`, an MCP file and an SDK server become;
whether OAuth is started; the mode and the place of generated files that a
command line stands for. Hard: options after a URL, which are options for one
transport and arguments for the other; flags that exclude each other. Correct when
no argument disappears, a configured header is sent or refused, and the command
line starts what it asks for.

### CLI names and arguments (`cli/mapping.rs`, `cli/parser.rs`, `cli/help.rs`, `client_gen/cli.rs`)

Functions: tool and property names to subcommands and flags and back; two parsers
of the same command line, one in Rust and one in the generated Python script; the
help. Hard: the two parsers are kept alike by hand ("Mirrors the validation
performed by the generated CLI script", parser.rs:203). Correct when they agree
and the help is true.

### Code generators and plans for hosts (`client_gen/python.rs`, `client_gen/typescript.rs`, `ffi/client_gen.rs`, `ffi/host_transform.rs`)

Functions: function names and parameters of the generated modules, the files and
commands a host is told of. Correct when a function can be called as it is told.

### Parts without a model

The compression engine (text by level), the hosts' local bridge and Just Bash
plugin, the banner, the entry points and the one-to-one conversions of the FFI: see
section 6.

### How the parts interact

A command line (Launch) becomes backends (BackendConfig), which are connected,
with OAuth when they ask for it (OAuthStore), and put behind one server (Routing),
which lists the tools once. `ToolCache` is exported from the crate and stands alone:
`CompressedServer` does not use it. The server is offered over MCP, or
over a local HTTP proxy to scripts (CliBridge, ArgvParser), generated modules
(CliNames, HostPlan) and SDK proxies (Session). Independently of all that the LLM
assistant prepares its assets (LlmPreparation calls ModelStore and RuntimeStore)
and starts a server for each request (EphemeralServer). Between processes, the
only interaction is through files: the asset stores, the OAuth store, the script.

## 2. Modules

| module | models | proofs |
|---|---|---|
| `ToolCache` (implements `CachePromise`) | `ToolCache` | `ToolCacheProofs` |
| `LlmPreparation` | `LlmPreparationManager::prepare` | `LlmAssistProofs` |
| `Routing` | `CompressedServer`, the MCP handlers, `/exec`, the Rust SDK | `RoutingProofs` |
| `ModelStore` | `ensure_model`, `download_model`, the removal | `LlmAssistProofs` |
| `RuntimeStore` | `ensure_llama_server` and the installation | `LlmAssistProofs` |
| `EphemeralServer` | `EphemeralLlamaServerRuntime` | `LlmAssistProofs` |
| `OAuthStore` | the credential directories and the index | `OAuthStoreProofs` |
| `CliBridge` | the shared script, its bridges, the token check | `CliBridgeProofs` |
| `Session` | one client of each host and its sessions | `SessionProofs` |
| `CliNames`, `ArgvParser`, `CliHelp` | names, both parsers, the help | `CommandProofs` |
| `HostPlan` | the plan and files of a host (extends `CliNames`) | `CommandProofs` |
| `BackendConfig` | backend arguments, headers, answers of HTTP | `InputProofs` |
| `Launch` | modes, backends, places of files | `InputProofs` |
| `LlmAssets` | references, paths, status and preparation | `InputProofs` |
| `OAuthCallback` | the callback's query | `InputProofs` |
| `Inputs` | the functions together: a step picks an input of a kind | `InputProofs` |

A stateful module has a module `MC...` with the definitions that only TLC needs and
one `.cfg` per run. The functions are put together in `Inputs`: its step picks an
input of one kind, of any length and over any characters, and its invariants are
the properties of the functions. The theorems are about `Inputs`; `MCInputs` picks
from small sets for TLC, inputs of seven of the twelve kinds. The other five (names,
plans of hosts, references to models, callbacks, command lines) are proved only.

**ToolCache.** One step per atomic access and per await. `generation`,
`populated`, `cache` and `writer` (the holder of the write guard) are the shared
fields; `seen` and `held` are the locals of a task. A tool list is the backend
version it was read from: the filters never change, so the filtered list is a
function of it. `since`, `filled` and three fields of an entry (`by`, `begun`,
`fetchedAt`) are history. `get_all` is LoadGeneration, ReadCache (the whole read
section 97-101), AcquireWrite, Recheck, FetchAnswered or FetchFailed,
StoreFetched, Publish, GetAllReturns; `refresh` and `invalidate` are the actions
with their names. `Cancel` drops a call at an await, which releases the guard.
`CachePromise` says what a caller may expect without any of this: an answer was
read in an epoch between the beginning of the call and now.

**LlmPreparation.** A section under the state mutex has no await in it and is one
action. A waiter goes through "gap" (guard dropped, not yet subscribed),
"waiting" and "woken". `Finish` records the outcome and notifies, in one hold of
the lock, and wakes exactly the callers in "waiting": `notify_waiters` keeps no
permit. `dropped` remembers that a preparer's future was dropped.

**Routing.** A string is the sequence of its parts between underscores, so
joining is concatenation and a prefix test is a strict-prefix test. `config` is
one of a set of configurations; ConnectNext connects and filters one backend,
ConnectFails ends the constructor; `Target` gives the set of requests a call
leads to, by its path: an MCP call, an executable tool, `invoke`, `invoke_on`, a
just-bash command, a generated function, a resource or a prompt. A call has a
beginning and an end, and upstreams withdraw tools in between.

**ModelStore.** A path names a file (inode) and an open descriptor keeps naming
that file after the path is unlinked. `entry` is the directory, `data` what each
file holds, `lockFd` and `partFd` the descriptors. `flock` excludes descriptors
of the same file, not of the same path. `EnsureStops` is an error returned by `?` or
the death of the process, at any point: both close the descriptors and clean
nothing up. The removal unlinks one entry at a time and takes no lock;
`severed` remembers that it unlinked a lock file that a process had open.

**RuntimeStore.** An archive holds a good runtime, cannot be extracted, or has no
binary in it. Extraction and copy take two steps each, so that a crash or a
reader may come between. The lock is a variable; what happens when its file is
removed is ModelStore's subject. `torn` remembers that a copy was stopped.

**EphemeralServer.** One process per attempt; a server is loading, listening,
killed (the kill was sent, the port is still bound) or gone. `Reserve` takes a port
that nobody has bound and binds nothing, so a port can be reserved twice; `raced`
remembers that. Time is counted in units per request: `READY` units are
`SERVER_READY_TIMEOUT`, `TIMEOUT[r]` the request's own timeout. A timer that is due
need not be the first to be seen: up to `LATE` units later the attempt may still fail
and another one begin. `Dropped` is what dropping the future does, for the timeout and
for a caller who cancels.

**OAuthStore.** `index`, `creds` and `states` are the disk: the entries of
index.json, the directories with credentials and those with the state of an
authorization. A process reads the index (`seen`) and writes it back, each a step;
a clear by target visits each matching entry once (`left`), removes the files of its
directory one by one, and then writes the index; a clear of everything unlinks the
files below the root and the index in any order. `ConnectorStops` and `CleanerStops`
are an error or the death of the process anywhere. History: `orphans` are directories
whose entries went with an unlinked index, not connected since; `gone` are the backends
cleared and not authorized since, `stale` the processes whose knowledge another
write has overtaken, `raced` that such a process has written.

**CliBridge.** A session binds a port, reads the script and keeps the entries at
whose bridge something answers, then truncates and fills the file with its own
entry merged in; `Alone` sessions write without reading, as a CLI client generated
as code does. A command picks the entry of the nearest process above it, or the
first live one, and posts with its token to whoever has the port then. An entry
stands for process id, bridge and token; ids and ports are used again, tokens are
not. History: `stale` sessions have read a script that changed since, `lost` says
that a script was written from such a reading or was cut off, `astray` names the
commands that did not go to a live session above them.

**Session.** A call is a connect or an invocation on one client; `host` says which
of the three programs it is, and the steps are the awaits of that program. A
session is referred to by the client, by a proxy that was not closed and by an
invocation that runs (`Referred`), and is collected when nothing refers to it.
`NativeClose` does nothing, as in both bindings. `got` is the credential that a
call has obtained, `store` the headers the Node addon keeps for the session. There is
one provider; it may fail whenever it is asked, also after a Python client has stored
its session, when `connect` asks it again for the name of the proxy (`ConnectInVain`).
History: `parted` (the client was closed or two connects overlapped), `crossed`
(another invocation stored its headers in between).

**The functions.** Each module is a set of operators over sequences of characters
or words (a value that is not looked into is one character). Conversions do what
the code does: camel case, separators, casing, splitting at the first `=`,
percent decoding, `int()` of Python against `i64` of Rust. A loop of the code is a
function on the numbers of its turns, defined from its value at the turn before,
wherever something is proved of it, and a fold elsewhere. The reference
definitions are the properties themselves: the other parser, the way a value was
encoded, the partition of arguments into taken and kept, what the help told.

## 3. Runs

| run | question | bounds | result |
|---|---|---|---|
| `cache_all` | which answers can be stale, is a generation fetched once, does `get_all` go back | 2 tasks read and refresh, 1 invalidates; 2 invalidations, 2 changes of the backend | holds |
| `cache_promise` | does the cache implement `CachePromise`, does every call end | 3 readers of which 2 invalidate, no refresh | holds |
| `prepare` | one preparation, one outcome, everybody registered is woken | 4 callers, 2 of which may be dropped | holds |
| `prepare_return` | does every call return | 2 callers, nobody is dropped | violated |
| `routing` | strays, hidden tools, listed tools, resources | about 60 configurations | holds |
| `models` | one download, complete models, untouched models, no waiter stuck | 2 processes, 2 pieces, 7 files, removal at any time | holds |
| `runtime` | no truncated binary, installed binary untouched, no waiter stuck | 2 processes, 3 archives | holds |
| `request` | does a server survive, whose answer is it, what do servers that hang cost, does it end | 2 requests with timeouts of 1 and 2 units, polled up to 1 unit late, 2 attempts, 1 port | holds |
| `oauth` | is what is on disk listed, does what was cleared come back | 2 backends with a connecting process each, 1 process that clears file by file (3.3 million states) | holds |
| `cli` | is a session listed, which session runs a command | 4 sessions, one pid used twice, 2 ports, 2 commands | holds |
| `session` | which sessions live, how old are the headers | 4 calls, 2 sessions, 2 renewals, each host | holds |
| `inputs` | parsers, help, functions, headers, arguments, answers, status | 7 kinds of input, about 440,000 | holds |

Why the bounds are enough.

- `cache_*`: two invalidations and two backend versions let a list be two
  generations late, the longest chain the tag comparison can meet, and `cache_all`
  has every pair of operations overlap.
- `prepare`: four callers give a preparer, a waiter in the gap, a registered one
  and a late one at once.
- `routing`: the configurations contain every relation two names can have: equal,
  nested in either order, unrelated, empty, and one that ends like a wrapper.
- `models`, `runtime`: two processes are what a lock is between; two pieces make a
  body short, empty or whole; seven files are the two paths and the descriptors
  that can be live at a time, and the guard `CanOpen` keeps a process from a file
  it could not get; the three archive names are those of `archive_names`.
- `request`: a race for a port is between two requests and one port. With one unit
  of readiness, timeouts of one and two units leave no room and room for one more
  attempt, and with one unit of lateness the second attempt also fails after the
  timer of the request was due; a second port only makes the race rarer.
- `oauth`: an entry is lost between two writers of the index; a clear by name and
  one of everything go through one and through two directories, with the index before,
  between and after them.
- `cli`: two sessions race for the script, one starts with the process id of a dead
  one, one does not merge; one command is below one process id, one below two. Two
  ports for three sessions are used again.
- `session`: two overlapping connects and two calls on their proxies; two
  renewals make a header one or two credentials old. Calls and sessions are
  interchangeable, hence the symmetry.
- `inputs`: up to four arguments meet every pair of options and a value that is
  taken as an option; names up to three characters contain every pair of
  separator, capital and digit that the splitting rules look at, and the words
  `no`, `help` and `json` that have a meaning; four backend arguments meet each
  option with and without its value, before and after a word that is none; the answers
  have a status on either side of each test of the client.

The proofs below remove these bounds for the safety properties they cover.

### What the properties except

Several properties hold only outside a race that the code really has. They carry a
history flag for it, so that they say: this race is the only way to lose what is
promised. The race itself they do not catch; that it does harm is how the code is.

| flag | what it excepts | properties |
|---|---|---|
| nested names | the order of the servers decides (compressed.rs:525) | `StrayOnlyWhenNested`, `ListedCallServed` |
| `severed` | a removal unlinks a lock file that is in use (llm_assist/mod.rs:738) | `OneDownload`, `CachedIsComplete`, `CachedIsNotTouched` |
| `torn` | a copy of llama-server in place was stopped (llm_assist/mod.rs:473) | `PartIsBeingCopied` |
| `raced` (EphemeralServer) | two requests reserved one port before either server was bound (llm_assist/mod.rs:1226) | `StrayAnswerOnlyAfterPortRace` |
| `raced` (OAuthStore) | an index is written from an old reading, or a token is refreshed after a clear (oauth.rs:496, 56) | `CredentialsAreListed`, `ClearedIsGone` |
| `orphans` | a clear of everything stops after the index went (oauth.rs:537) | `CredentialsAreListed` |
| `lost`, a writer at work | a script is written from an old reading, or cut off (app/runtime.rs:226) | `ReadyIsListed`, `RunsInItsTree` |
| `parted` | two connects of a client overlap (native_client.ts:431) | `OneSession` |
| `crossed` | two invocations refresh the headers at once (native_client.ts:266) | `CarriesFresh` |

### The disagreement that a run shows

- `prepare_return`: a caller that sees `Preparing` drops the guard (llm_assist/mod.rs
  622) and subscribes afterwards (625). If the preparer finishes in between, nobody
  wakes it, although the design says "on first LLM use, wait for preparation if it
  is still running" (src/docs/llm-assist-design.md:120). `RegisteredIsWoken` shows
  that the callers past this gap are safe.

### Disagreements seen while modelling

These have no run; the models follow the code, and properties state the exception.

- "Commands are prefixed with the server name so multiple servers can expose tools
  with the same backend name without shadowing each other"
  (src/docs/usage/just-bash.md:76): `backend_for_wrapper` takes the first backend
  whose prefix fits (compressed.rs:525), so with servers `a` and `a_b`, in this
  order, `a_b_invoke_tool` goes to `a`. `StrayOnlyWhenNested`, proved, says that
  nested names in this order are the only way.
- `default_server_name` returns the configured suite name (compressed.rs:247),
  although the only backend's public name is the suite's and the server's joined;
  the Rust example of `invoke` relies on it.
- "Those functions call a local Rust proxy, which routes the request to the backend
  MCP server" (src/docs/usage/generated-clients.md:5): a generated function posts
  the bare tool name, which `/exec` accepts only when there is exactly one backend
  (compressed.rs:426).
- "The next call to `get_all` or `get` will re-fetch from the backend"
  (tool_cache.rs:136): `refresh` loads the generation after its fetch (128), so a
  list fetched before an invalidation is stored as current.
  `OnlyRacingRefreshIsStale`, proved, says that this is the only way.
- "Download fails | Keep cache unchanged" (src/docs/llm-assist-design.md:495):
  `fs::copy` writes at the final path (llm_assist/mod.rs:473), and a copy that is
  stopped leaves a truncated binary that `is_file` takes for an installed one.
  `PartIsBeingCopied`, proved, says that nothing else produces one.
- "Backend connect/request timeout in seconds." (src/docs/reference/cli.md:44): `-t` is
  read into the backend (server/backend.rs:257) and used nowhere.
- "`--auth <auto|oauth|explicit-headers>`" (src/docs/reference/cli.md:45) has a mode that
  is not recognised (server/backend.rs:285-314): the two words stay arguments, which a
  URL refuses. `NoArgumentIsLost` has the case.
- A timeout that is finite and too large for a Duration makes `Duration::from_secs_f64`
  panic (server/backend.rs:257); `NoArgumentIsLost` leaves it out.
- Characters outside letters, digits, `-`, `_` and `.` become `_` in the path of a model
  (llm_assist/mod.rs:1257), so that `o:x/m` and `o_x/m` share a directory, and files of
  one name in it. `ModelsAreApart` says when.
- An MCP file with `url` and `headers` (src/docs/concepts/configuration.md:51-66)
  does not load: `ServerConfig` of config/topology.rs has a required `command` and
  no headers.
- A header other than `Authorization` after a URL on the command line leaves the
  mode at Auto, so OAuth is started and the header is not sent
  (server/connect.rs:103, server/backend.rs:139). `HeadersReach` is therefore about
  the SDKs, which turn OAuth off.
- The environment of an MCP file, also an empty one, replaces what `-e` in the
  arguments set (compressed.rs:156); `NoArgumentIsLost` says so.
- `--page-id 123` gives `"123"` in the table of cli/parser.rs:19; an untyped
  property gives the number.
- A number-typed property with integers in its enum is refused from a flag: the
  flag reads "5.0", the enum has "5". Both parsers do this; `HelpSuffices` leaves
  such labels out (`Possible`), and those of a string's enum that are JSON words.
- A property named `json` cannot be given by its flag, which is `--json`; nor can
  one whose name begins with `no_`, which is read as a negation, nor an empty one,
  nor always one whose name differs from another in separators and case only. The
  help lists them all the same; `HasOwnFlag`, on which `HelpSuffices` depends, leaves them out.
- A header whose name has a `=` in it is taken apart at that one when the arguments
  are read (ffi/session.rs:46, server/backend.rs), and arrives under a shorter name;
  `HeadersReach` is about the names HTTP allows.
- An enum of the items of an array is in the help and not enforced.
- The two parsers differ where the native one is alone: it trims every leading pair
  of hyphens, so `----no-b` is a negation for it only; a Boolean whose schema has an
  enum is compared as `true` by the one and as `True`, Python's spelling, by the
  other; and of two properties whose names differ in case and separators only, each
  may pick another. `ReadOtherwise` states these exceptions, and the proof of
  `ParsedAlike` uses each of them.
- A JSON body that cannot be read counts as accepted
  (dynamic_http_client.rs:282), and the caller goes on waiting; `NoAnswerIsLost` says
  that this is the only such case.
- `--config` with a file that has no servers starts a server without backends, except in
  CLI mode, which wants exactly one (app/entrypoint.rs:80, app/runtime.rs);
  `StartIsAsAsked` has the case.
- In generated TypeScript a parameter with a hyphen is not quoted; a Python module
  of a server with a hyphen cannot be imported as its description says.
- For a CLI plan the description names `command_name` when it is given, the file is
  named after the server (ffi/host_transform.rs).
- `--config` wins over `--multi-server` and over a backend command without a
  word, and makes the CLI script's name "mcp"; `MCP_COMPRESSOR_CLI_OUTPUT_DIR` is
  announced as on the PATH whether it is or not (app/paths.rs:8).
- `is_populated` may answer true for the old entry between the two steps of
  `invalidate` (tool_cache.rs:138-139); `/exec` dispatches only names that end in
  `_invoke_tool` to a wrapper although the comment above it (proxy/server.rs:121)
  speaks of wrappers in general, and takes a backend tool whose own name ends so
  for one.

## 4. Fairness

- ToolCache: weak fairness of every task's own steps: the tokio runtime polls
  runnable tasks and a backend answers or fails in the end. Nobody has to call,
  to cancel, to change the backend. The write guard is granted fairly (tokio's
  lock queues), which is strong fairness of the step that takes it.
- LlmPreparation: weak fairness of each caller's steps. Calls and drops have none.
- ModelStore, RuntimeStore: weak fairness of a process that is in a call, strong
  fairness of taking the lock: the kernel wakes the waiters of a `flock` when it
  is released. The HTTP client has no timeout, so the model assumes that the
  server does not stay silent for ever with the connection open; if it does, the
  lock stays taken. Errors and kills (`EnsureStops`, `Stops`) have no fairness: a call must end
  although nothing goes wrong, and also although something did.
- EphemeralServer: weak fairness of the synchronous part of an attempt (reserve and
  spawn, or their failure), of the passing of time and of the timer of
  `tokio::time::timeout`. The server, the network, polling, the kill and the
  readiness check have none: `RequestEnds` holds because the timer drops whatever
  the request waits for.
- OAuthStore, CliBridge, Session, MCInputs state safety only and have no fairness.

## 5. Proofs

All theorems hold for any number of tasks, callers, processes, servers, sessions and
names, and for arguments, names and tools of any length. The proof about a module with
state has an inductive invariant; the property alone does not survive a step. `TypeOK`
is proved in each module (`TypeCorrect`, `ModelTypeCorrect`, `RuntimeTypeCorrect`) and
is a conjunct of the invariant.

- `ToolCacheProofs` (from `BoundsAssumption`): `Staleness`, `SingleFetch`,
  `PopulatedSafe`, `NoRegress`, and `Refinement`. The invariant ties the control
  points to the guard (LockInv), the tag of the entry to the generation in which it
  was fetched (CacheInv), and the locals to both (LocalsInv); the order of versions
  needs a second one, because the fetch under the guard is later than every stored
  one.
- `RoutingProofs` (from `PartsAssumption` and `ConfigsAssumption`): `NoStray`,
  `FiltersHold`, `WrappersWork`, `ReadsFindSource`, for any configurations and any
  strings. The vector of backends does not change once the server runs, so what was
  true of a call's target when it was dispatched stays true; the invariant is that,
  for each call, of its target. The lemma behind `NoStray` and `WrappersWork` is
  about sequences: when a name that begins with the prefix of p also begins with the
  one of q, one of p and q is a prefix of the other.
- `LlmAssistProofs` for LlmPreparation (from `CallersAssumption`): `OncePrepared`,
  `AllAgree`, `WokenOnce`, `SomeonePrepares`. The invariant (ManagerInductive) says
  that the state leaves "not started" once, that work goes on only while it is
  "preparing" and by one caller, and that outcomes are handed out only when one is
  recorded.
- `LlmAssistProofs` for ModelStore (from `ModelAssumption`): `DownloadsExclude`,
  `CacheComplete`, `CacheNotTouched`. Exclusion needs that everybody who waits for
  the lock has opened the file that the lock path still names (LockIsNamed);
  completeness needs that the partial file holds the pieces that were counted
  (PartialIsCounted) and that nobody who downloads has a model in place
  (NothingCached).
- `LlmAssistProofs` for RuntimeStore (from `StoreAssumption`):
  `TruncatedIsInTheMaking`, `InstalledStays`. Whoever is past the lock holds it
  (LockInv) and finds no binary there until it has copied one (BinaryInv); what is in
  the extraction directory belongs to the archive of the loop, and is whole once the
  binary is found in it (ExtractInv), which needs that the directory was cleaned.
- `LlmAssistProofs` for EphemeralServer (from `EphemeralAssumption`): `ServersDie`,
  `AnswersStay`, `HangingServersUseUpTheTime`. Two requests that hold one port have
  raced for it (PortInv); while only readiness timeouts have happened, the attempts so
  far have used their full time (TimeInv), for any timeouts, however late the request
  is polled.
- `OAuthStoreProofs` (from `StoreAssumption`): `CredentialsFound`, `ClearedStays`.
  Both hold for directories that two backends share. The invariant says that,
  unless somebody who was overtaken has written, whoever is going to write the
  index has read what is in it, and whoever wrote its entry finds it there
  (UpToDateInv); that a clear by name has emptied every directory whose entry it no
  longer has to visit, if nobody has authorized or refreshed since (RemovedInv).
- `CliBridgeProofs` (from `BridgeAssumption`): `SessionsListed`, `CommandsStay`,
  `ExecutesThere`. A session that will write the script, and missed no change of it,
  has read all that are ready (Fresh); entries are only those of sessions that got
  ready, one for each process id, which the merge keeps because it takes out its own
  id before it appends (Entries); a session that runs has the port of its entry and
  its process id to itself (Proxies). Dropping the dead is a function on the places
  of the script, of which the lemmas say what it keeps, and in which order.
- `SessionProofs` (from `SessionAssumption`): `ProxyIsServed`, `SingleSession`,
  `FreshHeaders`. What somebody refers to is there (ReferredInv); a client that was
  not parted has the only session, and connects only while it has none (SingleInv);
  the store is at least as new as what each sender obtained (FreshInv).
- `InputProofs` (from `Typed`, the kinds of inputs): `CallbackReadBack`, `StartsAsAsked`,
  `ModelsApart`, `StatusTrue`, `AnswersKept`, `ArgumentsKept`, `HeadersGoOut`. Encoded
  values are decoded to themselves character by character, and the `&` and `=` between
  them are found where they were written, for codes and states of any length. Two
  references give one path only if their file names and their replaced owners and names
  are equal: the parts can be read back from the key (KeyParts, KeysApart), and where
  nothing was replaced so can the URL. Backend arguments fall into
  those that are read and those that the process gets: the reading of the read ones
  alone follows the reading of all, turn by turn (ReadsOn, PicksOn, ApartOn). The
  headers of a server become arguments in the order of a set that has none; in any
  order each is taken off again whole, because a name without `=` ends at the first
  one, and what the headers gave is there whatever the other arguments add.
- `CommandProofs` (from the same): `ParsedValid`, `ParsedAlike`, `NamesFound`,
  `HelpTrue`, `FunctionsTrue`, `PlanTrue`. The
  loop of `parse_argv` keeps ReadWell: it has read to where it says, what it has fits
  the schema, and an array has an item for each flag that named it. The two parsers'
  loops are in step (InStep): they have made the same of every argument so far, or
  the native one has stopped for one of the reasons that are excepted (`Wider`),
  because a flag finds the same property in both (SameProperty: names with the same
  letters clash or are equal) and a word is coerced alike (CoercionsAgree). For
  `FunctionsTrue`: parameters keep their order when no optional one comes before a
  required one (ThoseInOrder), and a name in Python keeps the letters of the name it
  comes from (SnakeCaseLetters), so that two that meet differed in separators and
  case only. For `NamesFound`: a flag and a subcommand keep the letters of their name
  (SubcommandLetters), so that the parsers find it again when no other name has
  them, and a name that was sanitized stays as it is (SanitizedOnce), on which `PlanTrue`
  rests too. For `HelpTrue`: the command written from the help is read two arguments at a time (PairRead), each
  option puts its property into the input (CommandLoops), the word of its type is
  taken (SampleTaken, LabelTaken), and the three sections list each option once
  (ListedAre).

**Induction over data.** The library's induction theorems take a predicate as a
parameter, which cannot be instantiated here. `InputProofs` states induction for a set
of numbers instead (`Induction`, from the well-foundedness of `<`, `LeastExists`): a
claim about the turns of a loop is the set of turns for which it holds. A loop is a
`CHOOSE` of a function that satisfies its equation; that there is one is `Recursion`
(or a proof of the same form, for accumulators without a type), and then it unfolds.

**Only model-checked.**

- Liveness (`CallsEnd` of ToolCache and RuntimeStore, `EnsuresEnd`,
  `RegisteredIsWoken`, `RequestEnds`): fairness is out of the prover's reach.

Every safety property that a passing run checks is stated by a theorem.

`PopulatedSafe`, `SomeonePrepares`, `HelpNamesAreFound`, `PlanIsAsTold`,
`ModelsAreApart`, `CallbackIsRead` and `StartIsAsAsked` are proved and are in no run. The
assumptions on the constants are evaluated by TLC in every run of their module.

## 6. What the models leave out

- The compression engine, the banner, descriptions, schemas and error messages:
  text without state. Where wording is read again (flags in the help, the
  description of a plan) the model has the part that is read.
- The local bridge of the TypeScript and Python hosts, which repeats `/exec` over
  tools of the host's own process, and the Just Bash plugin, which walks the syntax
  tree of another package; neither keeps state between calls.
- The bodies of generated functions beyond the request they post.
- Decoding of event streams, the authorization protocol and the life of an MCP
  session, which are rmcp's; the provider and the backends are external.
- Time, except in EphemeralServer: elsewhere no timeout exists in the code, or it is
  a failure that can come at any point.
- Power loss: a crash is the death of a process; what it wrote is on disk. A
  process that is killed leaves its llama-server behind: no destructor runs.
- Windows: a file that is open can be unlinked and its lock outlives its path, as
  on Unix.
- ModelStore: one model. Two models share the lock, and each other's final path only as
  `ModelsAreApart` says, so a second one adds waiting. Manifests, which
  nothing reads. A runtime of one worker thread, which `flock` would block.
- RuntimeStore: the removal of its directory, and what a later call should do about
  an archive that was served broken: it is used again.
- ToolCache: the filters, constant per cache; the `get` lookup after `get_all`.

## 7. Order of work and what is left

The modules were written in the order of section 2: first what decides where a call
goes and what several tasks or processes change together, then the files that
processes share, the sessions, and at last the functions. Left, in this order:

1. One abstract shared map that OAuthStore and CliBridge both implement when nobody
   is overtaken.
2. Several providers of headers in one session, which TypeScript refreshes side by
   side.
