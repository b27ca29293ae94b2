---------------------------- MODULE RuntimeStore ----------------------------
(***************************************************************************)
(* The installation of llama-server: RuntimeStore::ensure_llama_server and *)
(* download_llama_server_locked, llm_assist/mod.rs.                        *)
(*                                                                         *)
(* Under a lock, the archives that a release may have are tried in turn:   *)
(* downloaded unless there already, extracted, searched for the binary,    *)
(* which is then copied to its place.  Readers look there without the      *)
(* lock.  A downloaded archive appears by a rename, so a download is one   *)
(* step.  The lock is a variable here: ModelStore has the lock file and    *)
(* its removal.                                                            *)
(***************************************************************************)
EXTENDS Naturals

CONSTANTS
    Processes,  \* processes that call ensure_llama_server, with allow_download
    Nobody,
    Last        \* the archive names are tried in the order 1 .. Last

ASSUME StoreAssumption == Nobody \notin Processes /\ Last \in Nat \ {0}

VARIABLES
    archive,    \* what each archive file holds
    extracted,  \* the llama-server that extract_dir holds
    binary,     \* the llama-server at runtime_path
    lock,       \* who holds the lock
    stage,
    cur,        \* archive_name of the loop
    torn        \* history: a call stopped while it copied

runtimeVars == <<archive, extracted, binary, lock, stage, cur, torn>>

Names    == 1 .. Last
Served   == {"good", "broken", "empty"}   \* cannot be extracted; has no llama-server in it
Contents == {"none", "part", "whole"}
LockedPcs == {"recheck", "archive", "clean", "extract", "search", "copy", "copying", "manifest"}

RuntimeTypeOK ==
    /\ archive \in [Names -> Served \cup {"none"}]
    /\ extracted \in Contents
    /\ binary \in Contents
    /\ lock \in Processes \cup {Nobody}
    /\ stage \in [Processes -> {"idle", "lock"} \cup LockedPcs]
    /\ cur \in [Processes -> 1 .. Last + 1]
    /\ torn \in BOOLEAN

RuntimeInit ==
    /\ archive = [n \in Names |-> "none"]
    /\ extracted = "none"
    /\ binary = "none"
    /\ lock = Nobody
    /\ stage = [p \in Processes |-> "idle"]
    /\ cur = [p \in Processes |-> 1]
    /\ torn = FALSE

Goto(p, from, to) == stage[p] = from /\ stage' = [stage EXCEPT ![p] = to]

Return(p) ==
    /\ stage' = [stage EXCEPT ![p] = "idle"]
    /\ cur' = [cur EXCEPT ![p] = 1]
    /\ lock' = IF lock = p THEN Nobody ELSE lock

\* `continue`, at `from`, with the next archive name.
NextArchive(p, from) ==
    /\ Goto(p, from, "archive")
    /\ cur' = [cur EXCEPT ![p] = @ + 1]
    /\ UNCHANGED lock

----------------------------------------------------------------------------
\* A file at runtime_path is returned as it is, without the lock.
EnsureFinds(p) ==
    /\ stage[p] = "idle"
    /\ binary # "none"
    /\ Return(p)
    /\ UNCHANGED <<archive, extracted, binary, torn>>

EnsureDownloads(p) ==
    /\ binary = "none"
    /\ Goto(p, "idle", "lock")
    /\ UNCHANGED <<archive, extracted, binary, lock, cur, torn>>

AcquireLock(p) ==
    /\ lock = Nobody
    /\ lock' = p
    /\ Goto(p, "lock", "recheck")
    /\ UNCHANGED <<archive, extracted, binary, cur, torn>>

\* Mutant: no second look under the lock.
RecheckNothing(p) ==
    /\ Goto(p, "recheck", "archive")
    /\ UNCHANGED <<archive, extracted, binary, lock, cur, torn>>

Recheck(p) ==
    /\ stage[p] = "recheck"
    /\ IF binary # "none"
       THEN Return(p)
       ELSE Goto(p, "recheck", "archive") /\ UNCHANGED <<lock, cur>>
    /\ UNCHANGED <<archive, extracted, binary, torn>>

\* download_file, unless there is such a file, whatever it holds.
FetchArchive(p) ==
    /\ cur[p] \in Names
    /\ archive[cur[p]] = "none"
    /\ Goto(p, "archive", "clean")
    /\ \E kind \in Served : archive' = [archive EXCEPT ![cur[p]] = kind]
    /\ UNCHANGED <<extracted, binary, lock, cur, torn>>

\* The server has no such archive, or the download fails or is cut short.
FetchFails(p) ==
    /\ cur[p] \in Names
    /\ archive[cur[p]] = "none"
    /\ NextArchive(p, "archive")
    /\ UNCHANGED <<archive, extracted, binary, torn>>

ReuseArchive(p) ==
    /\ cur[p] \in Names
    /\ archive[cur[p]] # "none"
    /\ Goto(p, "archive", "clean")
    /\ UNCHANGED <<archive, extracted, binary, lock, cur, torn>>

\* Mutant: an extract_dir that is there is used.
KeepExtractDir(p) ==
    /\ Goto(p, "clean", "extract")
    /\ UNCHANGED <<archive, extracted, binary, lock, cur, torn>>

\* What an earlier archive or call left is removed.
CleanExtractDir(p) ==
    /\ Goto(p, "clean", "extract")
    /\ extracted' = "none"
    /\ UNCHANGED <<archive, binary, lock, cur, torn>>

ExtractSome(p) ==
    /\ stage[p] = "extract"
    /\ archive[cur[p]] # "empty" /\ extracted = "none"
    /\ extracted' = "part"
    /\ UNCHANGED <<archive, binary, lock, stage, cur, torn>>

ExtractAll(p) ==
    /\ Goto(p, "extract", "search")
    /\ archive[cur[p]] # "broken"
    /\ extracted' = IF archive[cur[p]] = "good" THEN "whole" ELSE extracted
    /\ UNCHANGED <<archive, binary, lock, cur, torn>>

\* A broken archive, or an I/O error.  The removal of extract_dir is not checked.
ExtractFails(p) ==
    /\ NextArchive(p, "extract")
    /\ extracted' \in {"none", extracted}
    /\ UNCHANGED <<archive, binary, torn>>

\* find_file_named
SearchFinds(p) ==
    /\ extracted # "none"
    /\ Goto(p, "search", "copy")
    /\ UNCHANGED <<archive, extracted, binary, lock, cur, torn>>

SearchFails(p) ==
    /\ extracted = "none"
    /\ NextArchive(p, "search")
    /\ UNCHANGED <<archive, extracted, binary, torn>>

\* fs::copy creates or truncates the file at runtime_path and then fills it.
CopyBegins(p) ==
    /\ Goto(p, "copy", "copying")
    /\ binary' = "part"
    /\ UNCHANGED <<archive, extracted, lock, cur, torn>>

CopyEnds(p) ==
    /\ Goto(p, "copying", "manifest")
    /\ binary' = extracted
    /\ UNCHANGED <<archive, extracted, lock, cur, torn>>

\* extract_dir is removed if possible, the manifest is written.
WriteManifest(p) ==
    /\ stage[p] = "manifest"
    /\ extracted' \in {"none", extracted}
    /\ Return(p)
    /\ UNCHANGED <<archive, binary, torn>>

AllTried(p) ==
    /\ stage[p] = "archive"
    /\ cur[p] = Last + 1
    /\ Return(p)
    /\ UNCHANGED <<archive, extracted, binary, torn>>

\* Mutant: an error leaves the function before the unlock, and the descriptor open.
StopsLocked(p) ==
    /\ stage[p] # "idle"
    /\ Goto(p, stage[p], "idle")
    /\ cur' = [cur EXCEPT ![p] = 1]
    /\ torn' = (torn \/ stage[p] = "copying")
    /\ UNCHANGED <<archive, extracted, binary, lock>>

\* `?` on an I/O error, or the process is killed: the lock goes, the files stay.
Stops(p) ==
    /\ stage[p] # "idle"
    /\ Return(p)
    /\ torn' = (torn \/ stage[p] = "copying")
    /\ UNCHANGED <<archive, extracted, binary>>

Runs(p) ==
    \/ Recheck(p) \/ FetchArchive(p) \/ FetchFails(p) \/ ReuseArchive(p) \/ CleanExtractDir(p)
    \/ ExtractSome(p) \/ ExtractAll(p) \/ ExtractFails(p) \/ SearchFinds(p) \/ SearchFails(p)
    \/ CopyBegins(p) \/ CopyEnds(p) \/ WriteManifest(p) \/ AllTried(p)

RuntimeNext == \E p \in Processes : EnsureFinds(p) \/ EnsureDownloads(p) \/ AcquireLock(p) \/ Runs(p) \/ Stops(p)

RuntimeSpec == RuntimeInit /\ [][RuntimeNext]_runtimeVars

(***************************************************************************)
(* A process runs until its call returns, the kernel gives a lock that is  *)
(* free again and again to everyone who waits for it.  Nothing has to fail *)
(* or to be killed.                                                        *)
(***************************************************************************)
RuntimeFairness == \A p \in Processes : WF_runtimeVars(Runs(p)) /\ SF_runtimeVars(AcquireLock(p))

RuntimeFairSpec == RuntimeSpec /\ RuntimeFairness

----------------------------------------------------------------------------
(* Properties *)

\* A truncated binary is there only while it is being copied or because a copy was
\* stopped: what broken archives and earlier calls left in extract_dir never gets there.
PartIsBeingCopied ==
    binary = "part" => torn \/ \E p \in Processes : stage[p] = "copying"

\* An installed binary is not written to again: a server may be running from it.
InstalledIsNotTouched == [][binary = "whole" => binary' = "whole"]_runtimeVars

\* Every call ends, also when the one before it stopped at any point with the lock held.
CallsEnd == \A p \in Processes : (stage[p] # "idle") ~> (stage[p] = "idle")
=============================================================================
