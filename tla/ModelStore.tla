----------------------------- MODULE ModelStore -----------------------------
(***************************************************************************)
(* The cache of downloaded models: ModelStore::ensure_model and            *)
(* download_model, and remove_managed_llm_assets, llm_assist/mod.rs.       *)
(*                                                                         *)
(* Several mcp-compressor processes share one directory.  A lock file with *)
(* an flock serialises the downloads; the model is written to a partial    *)
(* file that is renamed when it is complete.  A path names a file (inode)  *)
(* and an open descriptor keeps naming it after the path is unlinked, so   *)
(* both are modelled.  Nothing reads the manifest, it is left out.         *)
(***************************************************************************)
EXTENDS Naturals

CONSTANTS
    Downloaders, \* processes that call ensure_model, with allow_download
    Inodes,      \* files; bound: at least the ones in use at a time
    NoFile,
    Size,        \* pieces the model is received in
    Announces    \* the server sends the size of the model with it

ASSUME ModelAssumption ==
    /\ NoFile \notin Inodes
    /\ Size \in Nat \ {0}
    /\ Announces \in BOOLEAN

VARIABLES
    dirs,       \* the directories of the store exist
    entry,      \* the file each path names
    data,       \* the pieces that each file holds
    phase,
    lockFd,     \* descriptor of the lock file
    partFd,     \* descriptor of the partial file
    written,    \* bytes_written, in pieces
    removing,   \* remove_managed_llm_assets is running
    severed     \* history: the lock file was unlinked while a process had it open

modelVars == <<dirs, entry, data, phase, lockFd, partFd, written, removing, severed>>

Paths  == {"lock", "part", "model"}
Pieces == 1 .. Size
Files  == Inodes \cup {NoFile}
LockedPhases == {"recheck", "create", "stream", "check", "manifest"}
Phases == {"idle", "open", "lock"} \cup LockedPhases

ModelTypeOK ==
    /\ dirs \in BOOLEAN
    /\ entry \in [Paths -> Files]
    /\ data \in [Inodes -> SUBSET Pieces]
    /\ phase \in [Downloaders -> Phases]
    /\ lockFd \in [Downloaders -> Files]
    /\ partFd \in [Downloaders -> Files]
    /\ written \in [Downloaders -> 0 .. Size]
    /\ removing \in BOOLEAN /\ severed \in BOOLEAN

ModelInit ==
    /\ dirs = FALSE
    /\ entry = [n \in Paths |-> NoFile]
    /\ data = [i \in Inodes |-> {}]
    /\ phase = [p \in Downloaders |-> "idle"]
    /\ lockFd = [p \in Downloaders |-> NoFile]
    /\ partFd = [p \in Downloaders |-> NoFile]
    /\ written = [p \in Downloaders |-> 0]
    /\ removing = FALSE
    /\ severed = FALSE

InUse == {entry[n] : n \in Paths} \cup {lockFd[p] : p \in Downloaders} \cup {partFd[p] : p \in Downloaders}

\* Bound: a new file needs one of Inodes that is not in use.
CanOpen(n) == entry[n] # NoFile \/ \E i \in Inodes : i \notin InUse

\* The file that opening path n with O_CREAT gives.
Opened(n) == IF entry[n] # NoFile THEN entry[n] ELSE CHOOSE i \in Inodes : i \notin InUse

\* A file that no path and no descriptor names is gone.
Freed == data' = [i \in Inodes |-> IF i \in InUse' THEN data[i] ELSE {}]

Proceed(p, from, to) == phase[p] = from /\ phase' = [phase EXCEPT ![p] = to]

\* The call returns: its descriptors are closed, which releases the lock.
End(p) ==
    /\ phase' = [phase EXCEPT ![p] = "idle"]
    /\ lockFd' = [lockFd EXCEPT ![p] = NoFile]
    /\ partFd' = [partFd EXCEPT ![p] = NoFile]
    /\ written' = [written EXCEPT ![p] = 0]

----------------------------------------------------------------------------
(* ensure_model and download_model *)

\* A model that is there is returned at once, without the lock.
Ensure(p) ==
    /\ entry["model"] = NoFile
    /\ Proceed(p, "idle", "open")
    /\ UNCHANGED <<dirs, entry, data, lockFd, partFd, written, removing, severed>>

\* create_dir_all, then the lock file is opened or created.
OpenLock(p) ==
    /\ CanOpen("lock")
    /\ Proceed(p, "open", "lock")
    /\ dirs' = TRUE
    /\ entry' = [entry EXCEPT !["lock"] = Opened("lock")]
    /\ lockFd' = [lockFd EXCEPT ![p] = Opened("lock")]
    /\ UNCHANGED <<data, partFd, written, removing, severed>>

\* Mutant: lock_shared.
LockShared(p) ==
    /\ Proceed(p, "lock", "recheck")
    /\ UNCHANGED <<dirs, entry, data, lockFd, partFd, written, removing, severed>>

\* lock_exclusive blocks while another descriptor of the same file is locked.
LockExclusive(p) ==
    /\ \A q \in Downloaders \ {p} : phase[q] \in LockedPhases => lockFd[q] # lockFd[p]
    /\ Proceed(p, "lock", "recheck")
    /\ UNCHANGED <<dirs, entry, data, lockFd, partFd, written, removing, severed>>

\* Mutant: no second look under the lock.
NoSecondLook(p) ==
    /\ Proceed(p, "recheck", "create")
    /\ UNCHANGED <<dirs, entry, data, lockFd, partFd, written, removing, severed>>

SecondLook(p) ==
    /\ phase[p] = "recheck"
    /\ IF entry["model"] # NoFile
       THEN End(p) /\ UNCHANGED entry /\ Freed
       ELSE Proceed(p, "recheck", "create") /\ UNCHANGED <<entry, data, lockFd, partFd, written>>
    /\ UNCHANGED <<dirs, removing, severed>>

\* File::create truncates the partial file that an earlier call left.
CreatePartial(p) ==
    /\ dirs /\ CanOpen("part")
    /\ Proceed(p, "create", "stream")
    /\ entry' = [entry EXCEPT !["part"] = Opened("part")]
    /\ data' = [data EXCEPT ![Opened("part")] = {}]
    /\ partFd' = [partFd EXCEPT ![p] = Opened("part")]
    /\ UNCHANGED <<dirs, lockFd, written, removing, severed>>

\* The body is the model, or a part of it.
ReceivePiece(p) ==
    /\ phase[p] = "stream"
    /\ written[p] < Size
    /\ written' = [written EXCEPT ![p] = @ + 1]
    /\ data' = [data EXCEPT ![partFd[p]] = @ \cup {written[p] + 1}]
    /\ UNCHANGED <<dirs, entry, phase, lockFd, partFd, removing, severed>>

\* The body ends, complete or not, and the partial file is closed.
StreamEnds(p) ==
    /\ Proceed(p, "stream", "check")
    /\ partFd' = [partFd EXCEPT ![p] = NoFile]
    /\ UNCHANGED <<dirs, entry, lockFd, written, removing, severed>>
    /\ Freed

\* Mutant: only an empty body is rejected.
TooShortWhenEmpty(p) == written[p] = 0

TooShort(p) == written[p] = 0 \/ (Announces /\ written[p] # Size)

RejectShort(p) ==
    /\ phase[p] = "check"
    /\ TooShort(p)
    /\ entry' = [entry EXCEPT !["part"] = NoFile]
    /\ End(p)
    /\ Freed
    /\ UNCHANGED <<dirs, removing, severed>>

\* The path is renamed, whatever file it names by now.
RenamePartial(p) ==
    /\ ~TooShort(p)
    /\ entry["part"] # NoFile
    /\ Proceed(p, "check", "manifest")
    /\ entry' = [entry EXCEPT !["model"] = entry["part"], !["part"] = NoFile]
    /\ UNCHANGED <<dirs, lockFd, partFd, written, removing, severed>>
    /\ Freed

\* The removal took the directory or the partial file away: File::create and rename
\* return an error.
FailsMissing(p) ==
    /\ \/ phase[p] = "create" /\ ~dirs
       \/ phase[p] = "check" /\ ~TooShort(p) /\ entry["part"] = NoFile
    /\ End(p)
    /\ UNCHANGED <<dirs, entry, removing, severed>>
    /\ Freed

\* The lock is released whether the manifest could be written or not.
WriteModelManifest(p) ==
    /\ phase[p] = "manifest"
    /\ End(p)
    /\ UNCHANGED <<dirs, entry, removing, severed>>
    /\ Freed

\* Mutant: an error is retried under the lock, without a limit.
EnsureRetries(p) ==
    /\ phase[p] # "idle"
    /\ Proceed(p, phase[p], IF phase[p] \in LockedPhases THEN "recheck" ELSE "idle")
    /\ UNCHANGED <<dirs, entry, data, lockFd, partFd, written, removing, severed>>

\* `?` on an I/O or network error, or the process is killed: in any case the
\* descriptors are closed and the partial file stays.
EnsureStops(p) ==
    /\ phase[p] # "idle"
    /\ End(p)
    /\ UNCHANGED <<dirs, entry, removing, severed>>
    /\ Freed

----------------------------------------------------------------------------
(* remove_managed_llm_assets, for the models: no lock is taken *)

RemoveBegins ==
    /\ dirs /\ ~removing
    /\ removing' = TRUE
    /\ UNCHANGED <<dirs, entry, data, phase, lockFd, partFd, written, severed>>

\* remove_dir_all unlinks what it finds, in the order of the directory.
RemoveEntry(n) ==
    /\ removing
    /\ entry[n] # NoFile
    /\ entry' = [entry EXCEPT ![n] = NoFile]
    /\ severed' = (severed \/ (n = "lock" /\ \E p \in Downloaders : lockFd[p] = entry[n]))
    /\ UNCHANGED <<dirs, phase, lockFd, partFd, written, removing>>
    /\ Freed

\* The empty directories go, or the call fails or is killed before.
RemoveEnds ==
    /\ removing
    /\ removing' = FALSE
    /\ dirs' \in {TRUE, \E n \in Paths : entry[n] # NoFile}
    /\ UNCHANGED <<entry, data, phase, lockFd, partFd, written, severed>>

Ensures(p) ==
    \/ OpenLock(p) \/ SecondLook(p) \/ CreatePartial(p) \/ ReceivePiece(p) \/ StreamEnds(p)
    \/ RejectShort(p) \/ RenamePartial(p) \/ FailsMissing(p) \/ WriteModelManifest(p)

ModelNext ==
    \/ \E p \in Downloaders : Ensure(p) \/ LockExclusive(p) \/ Ensures(p) \/ EnsureStops(p)
    \/ RemoveBegins \/ (\E n \in Paths : RemoveEntry(n)) \/ RemoveEnds

ModelSpec == ModelInit /\ [][ModelNext]_modelVars

(***************************************************************************)
(* A process runs until its call returns; the server answers, fails or     *)
(* closes the connection in the end (the client has no timeout of its      *)
(* own); the kernel gives a lock that is free again and again to everyone  *)
(* who waits for it.  Nothing has to fail or to be killed.                 *)
(***************************************************************************)
ModelFairness == \A p \in Downloaders : WF_modelVars(Ensures(p)) /\ SF_modelVars(LockExclusive(p))

ModelFairSpec == ModelSpec /\ ModelFairness

----------------------------------------------------------------------------
(* Properties *)

\* Downloads exclude each other, through errors and crashes.  The one way out is a
\* removal that unlinks the lock file under a process that has it open: the next
\* process then locks a new file.
OneDownload ==
    severed \/ \A p, q \in Downloaders : phase[p] \in LockedPhases /\ phase[q] \in LockedPhases => p = q

\* A model that can be found in the cache is complete, although every process may be
\* killed, fail, or be cut off by the server at any point and nothing is cleaned up
\* after it; provided that the server announces the size and no lock was severed.
CachedIsComplete ==
    (Announces /\ ~severed /\ entry["model"] # NoFile) => data[entry["model"]] = Pieces

\* A cached model is not written to and not replaced, only removed: a llama-server
\* may have it mapped.
CachedIsNotTouched ==
    [][(entry["model"] # NoFile /\ entry'["model"] # NoFile /\ ~severed) =>
         /\ entry'["model"] = entry["model"]
         /\ data'[entry["model"]] = data[entry["model"]]]_modelVars

\* A call never waits for ever for the lock: it is released on every path.
EnsuresEnd == \A p \in Downloaders : (phase[p] # "idle") ~> (phase[p] = "idle")
=============================================================================
