------------------------------ MODULE StoreFile -----------------------------
(***************************************************************************)
(* How NvmeBackend obtains, validates and deletes the file of a store      *)
(* (open, close and destroy_file in nvme_backend.cpp), with the processes  *)
(* that use the same path, a crash of a process between two system calls,  *)
(* and a loss of power.                                                    *)
(*                                                                         *)
(* One action is one system call.  An inode keeps its number while the     *)
(* path or a descriptor refers to it; flock locks belong to inodes, so a   *)
(* process can lock a file that the path no longer names.  On Windows the  *)
(* share mode of CreateFile is the lock.  `auto` is the store the runtime  *)
(* names after its process id: only one process uses that path at a time.  *)
(***************************************************************************)
EXTENDS Naturals, FiniteSets

CONSTANTS
    Processes,
    Geometries,   \* (capacity, page size) pairs a process may ask for
    NoProcess

\* The path and one descriptor per process refer to an inode.
Inodes == 1 .. Cardinality(Processes) + 1
NoInode == 0

ASSUME FileAssumption ==
    /\ IsFiniteSet(Processes) /\ NoProcess \notin Processes
    /\ Geometries \cap {"none", "torn"} = {}

VARIABLES
    host, auto, retain,  \* the build, an automatic path, cfg_.retain_store
    path,                \* the inode the path names
    header, sized,       \* of an inode: its header page; whether it has its full size
    synced,              \* inodes that reached the medium as they are
    lockedBy,            \* of an inode: the process that holds its lock
    fpc, fd, geom,       \* processes: label, descriptor, configured geometry
    after                \* processes: the label after destroy_file

fileVars == <<path, header, sized, synced>>
procVars == <<fpc, fd, geom, after>>
configVars == <<host, auto, retain>>
fvars == <<fileVars, lockedBy, procVars, configVars>>

FInit ==
    /\ host \in {"posix", "windows"} /\ auto \in BOOLEAN /\ retain \in BOOLEAN
    /\ path = NoInode
    /\ header = [i \in Inodes |-> "none"] /\ sized = [i \in Inodes |-> FALSE]
    /\ synced = {} /\ lockedBy = [i \in Inodes |-> NoProcess]
    /\ fpc = [p \in Processes |-> "idle"] /\ fd = [p \in Processes |-> NoInode]
    /\ geom \in [Processes -> Geometries] /\ after = [p \in Processes |-> "idle"]

FGoto(p, label) == fpc' = [fpc EXCEPT ![p] = label]

\* header_mismatch_reason and the comparison of the file size.
HeaderValid(i, g) == header[i] = g
FileValid(i, g) == HeaderValid(i, g) /\ sized[i]

LockedFiles == {i \in Inodes : lockedBy[i] # NoProcess}
Referenced == {path} \cup {fd[p] : p \in Processes}

\* The kernel drops the files that nothing refers to any more.
Reclaim ==
    /\ header' = [i \in Inodes |-> IF i \in Referenced' THEN header[i] ELSE "none"]
    /\ sized' = [i \in Inodes |-> i \in Referenced' /\ sized[i]]
    /\ synced' = synced \cap Referenced'

\* Closing a descriptor also gives the lock back.  newPath is what the path
\* names afterwards.
CloseFd(p, newPath) ==
    /\ path' = newPath /\ fd' = [fd EXCEPT ![p] = NoInode]
    /\ lockedBy' = [i \in Inodes |-> IF lockedBy[i] = p THEN NoProcess ELSE lockedBy[i]]
    /\ Reclaim

-----------------------------------------------------------------------------
(* destroy_file.                                                           *)

DestroyOpen(p) ==
    /\ fpc[p] = "destroy" /\ host = "posix"
    /\ IF path = NoInode
       THEN FGoto(p, after[p]) /\ UNCHANGED fd
       ELSE FGoto(p, "dlock") /\ fd' = [fd EXCEPT ![p] = path]
    /\ UNCHANGED <<fileVars, lockedBy, geom, after, configVars>>

\* "cannot delete an open store"
DestroyLock(p) ==
    /\ fpc[p] = "dlock"
    /\ IF lockedBy[fd[p]] = NoProcess
       THEN /\ lockedBy' = [lockedBy EXCEPT ![fd[p]] = p] /\ FGoto(p, "unlink")
            /\ UNCHANGED <<fd, fileVars>>
       ELSE FGoto(p, "idle") /\ CloseFd(p, path)
    /\ UNCHANGED <<geom, after, configVars>>

\* unlink removes whatever file the path names by now, or fails.
DestroyUnlink(p) ==
    /\ fpc[p] = "unlink"
    /\ \/ path # NoInode /\ CloseFd(p, NoInode) /\ FGoto(p, after[p])
       \/ CloseFd(p, path) /\ FGoto(p, "idle")
    /\ UNCHANGED <<geom, after, configVars>>

\* Defect: the file is deleted under the process that has it open.
DestroyWindowsShared(p) ==
    /\ fpc[p] = "destroy" /\ host = "windows"
    /\ FGoto(p, after[p]) /\ path' = NoInode /\ UNCHANGED fd /\ Reclaim
    /\ UNCHANGED <<lockedBy, geom, after, configVars>>

\* DeleteFileW refuses a file that some process has open, and may fail three
\* times for another reason.
DestroyWindows(p) ==
    /\ fpc[p] = "destroy" /\ host = "windows" /\ UNCHANGED fd
    /\ \/ /\ path \notin LockedFiles
          /\ FGoto(p, after[p]) /\ path' = NoInode /\ Reclaim
       \/ path # NoInode /\ FGoto(p, "idle") /\ UNCHANGED fileVars
    /\ UNCHANGED <<lockedBy, geom, after, configVars>>

-----------------------------------------------------------------------------
(* open.                                                                   *)

\* Defect: the size of a leftover file is not looked at.
StoreHeaderValidUnsized(i, g) == HeaderValid(i, g)

\* store_header_valid: read without a lock.
StoreHeaderValid(i, g) == FileValid(i, g)

\* Runtime::start: an invalid leftover under an automatic path is deleted.
Begin(p) ==
    /\ fpc[p] = "idle" /\ (auto => \A q \in Processes : fpc[q] = "idle")
    /\ IF auto /\ ~retain /\ path # NoInode /\ ~StoreHeaderValid(path, geom[p])
       THEN FGoto(p, "destroy") /\ after' = [after EXCEPT ![p] = "create"]
       ELSE FGoto(p, "create") /\ UNCHANGED after
    /\ UNCHANGED <<fileVars, lockedBy, fd, geom, configVars>>

\* O_CREAT | O_EXCL, CREATE_NEW: the file is new, the path is taken,
\* or another error ends open().
CreateFile(p, made) ==
    /\ fpc[p] = "create"
    /\ \/ path # NoInode /\ FGoto(p, "reopen") /\ UNCHANGED <<path, fd, lockedBy>>
       \/ FGoto(p, "idle") /\ UNCHANGED <<path, fd, lockedBy>>
       \/ /\ path = NoInode /\ FGoto(p, made)
          /\ \E i \in Inodes \ Referenced :
                 /\ \A j \in Inodes \ Referenced : i <= j   \* numbers mean nothing
                 /\ path' = i /\ fd' = [fd EXCEPT ![p] = i]
                 /\ lockedBy' = IF made = "truncate" THEN [lockedBy EXCEPT ![i] = p] ELSE lockedBy
    /\ UNCHANGED <<header, sized, synced, geom, after, configVars>>

Create(p) == host = "posix" /\ CreateFile(p, "locknew")
CreateWindows(p) == host = "windows" /\ CreateFile(p, "truncate")

\* The existing file is opened; by now it may be gone.
Reopen(p) ==
    /\ fpc[p] = "reopen" /\ host = "posix"
    /\ \/ path # NoInode /\ fd' = [fd EXCEPT ![p] = path] /\ FGoto(p, "lockold")
       \/ path = NoInode /\ FGoto(p, "idle") /\ UNCHANGED fd
    /\ UNCHANGED <<fileVars, lockedBy, geom, after, configVars>>

\* On Windows this also fails while another process has it open.
ReopenWindows(p) ==
    /\ fpc[p] = "reopen" /\ host = "windows"
    /\ \/ /\ path \notin {NoInode} \cup LockedFiles
          /\ fd' = [fd EXCEPT ![p] = path] /\ lockedBy' = [lockedBy EXCEPT ![path] = p]
          /\ FGoto(p, "check")
       \/ /\ path \in {NoInode} \cup LockedFiles
          /\ FGoto(p, "idle") /\ UNCHANGED <<fd, lockedBy>>
    /\ UNCHANGED <<fileVars, geom, after, configVars>>

\* Defect: flock is asked for and its failure is ignored.
LockIgnored(p) ==
    /\ fpc[p] \in {"locknew", "lockold"}
    /\ lockedBy' = [lockedBy EXCEPT ![fd[p]] = p]
    /\ FGoto(p, IF fpc[p] = "locknew" THEN "truncate" ELSE "check")
    /\ UNCHANGED <<fileVars, fd, geom, after, configVars>>

\* flock LOCK_EX | LOCK_NB; a file just created stays behind on failure.
Lock(p) ==
    /\ fpc[p] \in {"locknew", "lockold"}
    /\ IF lockedBy[fd[p]] = NoProcess
       THEN /\ lockedBy' = [lockedBy EXCEPT ![fd[p]] = p]
            /\ FGoto(p, IF fpc[p] = "locknew" THEN "truncate" ELSE "check")
            /\ UNCHANGED <<fd, fileVars>>
       ELSE FGoto(p, "idle") /\ CloseFd(p, path)
    /\ UNCHANGED <<geom, after, configVars>>

\* Defect: only the header decides, a file that lost its tail is accepted.
CheckUnsized(p) ==
    /\ fpc[p] = "check"
    /\ \/ HeaderValid(fd[p], geom[p]) /\ FGoto(p, "open") /\ UNCHANGED <<fd, lockedBy, fileVars>>
       \/ FGoto(p, "idle") /\ CloseFd(p, path)
    /\ UNCHANGED <<geom, after, configVars>>

\* An existing store is accepted, or it is rejected with StoreCorrupt or cannot
\* be read.
Check(p) ==
    /\ fpc[p] = "check"
    /\ \/ FileValid(fd[p], geom[p]) /\ FGoto(p, "open") /\ UNCHANGED <<fd, lockedBy, fileVars>>
       \/ FGoto(p, "idle") /\ CloseFd(p, path)
    /\ UNCHANGED <<geom, after, configVars>>

CheckPosix(p) == host = "posix" /\ Check(p)
CheckWindows(p) == host = "windows" /\ Check(p)

\* A step of the creation failed: close() and destroy_file.
CreateFails(p) ==
    /\ fpc[p] \in {"truncate", "header", "fsync"}
    /\ CloseFd(p, path) /\ FGoto(p, "destroy") /\ after' = [after EXCEPT ![p] = "idle"]
    /\ UNCHANGED <<geom, configVars>>

Truncate(p) ==
    /\ fpc[p] = "truncate"
    /\ sized' = [sized EXCEPT ![fd[p]] = TRUE] /\ FGoto(p, "header")
    /\ UNCHANGED <<path, header, synced, lockedBy, fd, geom, after, configVars>>

TruncatePosix(p) == host = "posix" /\ Truncate(p)
TruncateWindows(p) == host = "windows" /\ Truncate(p)

\* The header is written by one or several calls of pwrite, or by one
\* WriteFile that does not reach the medium as a whole.
WriteHeader(p) ==
    /\ fpc[p] = "header"
    /\ \/ header' = [header EXCEPT ![fd[p]] = "torn"] /\ UNCHANGED fpc
       \/ header' = [header EXCEPT ![fd[p]] = geom[p]] /\ FGoto(p, "fsync")
    /\ UNCHANGED <<path, sized, synced, lockedBy, fd, geom, after, configVars>>

WriteHeaderPosix(p) == host = "posix" /\ WriteHeader(p)
WriteHeaderWindows(p) == host = "windows" /\ WriteHeader(p)

\* fsync or FlushFileBuffers, and the workers are started.
Sync(p) ==
    /\ fpc[p] = "fsync"
    /\ synced' = synced \cup {fd[p]} /\ FGoto(p, "open")
    /\ UNCHANGED <<path, header, sized, lockedBy, fd, geom, after, configVars>>

SyncPosix(p) == host = "posix" /\ Sync(p)
SyncWindows(p) == host = "windows" /\ Sync(p)

\* The workers cannot be started: an accepted or a new store is closed again.
WorkersFail(p) ==
    /\ fpc[p] = "open" /\ CloseFd(p, path) /\ FGoto(p, "idle")
    /\ UNCHANGED <<geom, after, configVars>>

\* shutdown_locked: close() and, unless the store is kept, destroy_file.
CloseStore(p) ==
    /\ fpc[p] = "open" /\ CloseFd(p, path)
    /\ FGoto(p, IF retain THEN "idle" ELSE "destroy")
    /\ after' = [after EXCEPT ![p] = "idle"]
    /\ UNCHANGED <<geom, configVars>>

-----------------------------------------------------------------------------
(* Faults.                                                                 *)

\* The kernel closes the descriptors of a process that dies.
Crash(p) ==
    /\ fpc[p] # "idle" /\ CloseFd(p, path) /\ FGoto(p, "idle")
    /\ UNCHANGED <<geom, after, configVars>>

\* What was not synced may be lost in part or in whole.
PowerLoss ==
    /\ fd' = [p \in Processes |-> NoInode] /\ lockedBy' = [i \in Inodes |-> NoProcess]
    /\ fpc' = [p \in Processes |-> "idle"]
    /\ IF path \in synced \cup {NoInode} THEN UNCHANGED path /\ Reclaim
       ELSE \/ path' = NoInode /\ Reclaim
            \/ \E h \in {"none", "torn", header[path]}, z \in {FALSE, sized[path]} :
                   /\ UNCHANGED path /\ synced' = {}
                   /\ header' = [i \in Inodes |-> IF i = path THEN h ELSE "none"]
                   /\ sized' = [i \in Inodes |-> i = path /\ z]
    /\ UNCHANGED <<geom, after, configVars>>

FNext ==
    \/ \E p \in Processes :
           \/ Begin(p) \/ CreateFails(p) \/ WorkersFail(p) \/ CloseStore(p)
           \/ Create(p) \/ Reopen(p) \/ Lock(p) \/ CheckPosix(p)
           \/ TruncatePosix(p) \/ WriteHeaderPosix(p) \/ SyncPosix(p)
           \/ CreateWindows(p) \/ ReopenWindows(p) \/ CheckWindows(p)
           \/ TruncateWindows(p) \/ WriteHeaderWindows(p) \/ SyncWindows(p)
           \/ DestroyOpen(p) \/ DestroyLock(p) \/ DestroyUnlink(p) \/ DestroyWindows(p)
           \/ Crash(p)
    \/ PowerLoss

FSpec == FInit /\ [][FNext]_fvars

-----------------------------------------------------------------------------
\* Path, locks and descriptors name files and processes, and a header is absent,
\* torn or of a geometry.
FileTypeOK ==
    /\ path \in {NoInode} \cup Inodes /\ synced \subseteq Inodes
    /\ header \in [Inodes -> {"none", "torn"} \cup Geometries] /\ sized \in [Inodes -> BOOLEAN]
    /\ lockedBy \in [Inodes -> {NoProcess} \cup Processes]
    /\ fd \in [Processes -> {NoInode} \cup Inodes] /\ geom \in [Processes -> Geometries]
    /\ fpc \in [Processes -> {"idle", "create", "reopen", "locknew", "lockold", "check",
                              "truncate", "header", "fsync", "open", "destroy", "dlock",
                              "unlink"}]

\* An open store has a complete header of the geometry asked for and its full
\* size, whatever crashed before and however the header was torn: open() of an
\* existing file accepts nothing else, and nobody spoils the file afterwards.
OpenIsValid == \A p \in Processes : fpc[p] = "open" => FileValid(fd[p], geom[p])

\* Two processes never use, or initialise, the same file (flock, share mode).
OneUser ==
    \A p, q \in Processes : p # q /\ fd[p] # NoInode /\ fd[p] = fd[q] =>
        {fpc[p], fpc[q]} \cap {"locknew", "lockold", "dlock"} # {}

\* A store under an automatic path, and every store on Windows, stays at its
\* path while it is open: destroy_file refuses an open store.
OpenStaysLinked ==
    auto \/ host = "windows" => \A p \in Processes : fpc[p] = "open" => path = fd[p]

\* "A leftover from an interrupted run with an incompatible geometry must not
\* block this run" (start): the file that open() finds under an automatic path
\* is never rejected.
LeftoverNeverBlocks ==
    auto /\ ~retain => \A p \in Processes : fpc[p] = "check" => FileValid(fd[p], geom[p])
=============================================================================
