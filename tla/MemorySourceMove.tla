-------------------------- MODULE MemorySourceMove --------------------------
(***************************************************************************)
(* Moving a source folder into managed Memory and rolling the move back    *)
(* (host/memory-source-move.mjs), with the registration of the source in   *)
(* the memory settings (host/memory-source-settings-service.mjs).          *)
(*                                                                         *)
(* Between any two steps the human may save a file and the host may die;   *)
(* a call that throws out of the operation leaves exactly what a crash at  *)
(* that point leaves, and one whose failure is caught has an action of its *)
(* own.  A step is one call on the file system, or several that no save    *)
(* and no death in between sets apart: the check of a file with the mkdir  *)
(* for it, the mkdir and the rmdir of a folder that is rolled back, the    *)
(* removal of the emptied source.                                          *)
(*                                                                         *)
(* Abstracted: bytes are numbered by the save that wrote them; names, and  *)
(* with them the order files are taken in; folders nest one level below    *)
(* the root; symlinks, limits and unreadable entries; the audit and the    *)
(* history.  One move is followed, with any number of rollbacks.           *)
(***************************************************************************)
EXTENDS Naturals, FiniteSets

CONSTANTS
    Files,      \* the files of the source folder
    Folders,    \* the folders below its root
    Root,       \* the root folder, on either side
    FolderOf,   \* the folder of each file, or Root
    Volumes,    \* where Memory may be: on the "same" volume, on "another"
    MaxSaves,   \* bound on the human's saves
    MaxFaults,  \* bound on the crashes of the host and the failures of its calls
    Absent      \* no file, no bytes

ASSUME FoldersAssumption ==
    /\ Root \notin Folders
    /\ FolderOf \in [Files -> Folders \cup {Root}]
ASSUME VolumesAssumption == Volumes \subseteq {"same", "another"}
ASSUME BoundsAssumption ==
    /\ MaxSaves \in Nat
    /\ MaxFaults \in Nat
ASSUME AbsentAssumption == Absent \notin Nat /\ Absent \notin Files

VARIABLES
    volume,     \* where Memory is
    src, dst,   \* the bytes of each file in the source and in Memory
    srcDirs, dstDirs,   \* the folders that exist on each side
    approval,   \* the bytes the preflight fingerprint approved
    ledger,     \* move-ledger.jsonl
    manifest,   \* manifest.json
    source,     \* the source's entry in the memory settings
    op,         \* the operation the host runs
    saves,      \* saves so far
    raced,      \* files saved between a check and the call relying on it
    faults      \* crashes and failed calls so far

files == <<src, dst>>
dirs  == <<srcDirs, dstDirs>>
disk  == <<ledger, manifest, source>>
history == <<saves, raced, faults>>
vars  == <<volume, files, dirs, approval, disk, op, history>>

Bytes == 0..MaxSaves
Dirs  == Folders \cup {Root}

Started(pc, mode, todo) ==
    [pc |-> pc, mode |-> mode, file |-> Absent, todo |-> todo, skipped |-> FALSE]

Idle == Started("idle", "none", {})

MoveSteps == {"destination", "manifest", "ledger", "boundary", "folders", "files",
              "rename", "verify-copy", "unlink", "verify", "append", "failed",
              "moved", "register"}
RestoreSteps == {"restore", "restore-rename", "restore-verify",
                 "restore-folders", "report", "deregister"}

Operation == [pc      : MoveSteps \cup RestoreSteps \cup {"idle"},
              mode    : {"none", "move", "automatic", "command"},
              file    : Files \cup {Absent},
              todo    : SUBSET (Files \cup Folders),
              skipped : BOOLEAN]

TypeOK ==
    /\ volume \in Volumes
    /\ src \in [Files -> Bytes \cup {Absent}]
    /\ dst \in [Files -> Bytes \cup {Absent}]
    /\ srcDirs \subseteq Dirs
    /\ dstDirs \subseteq Dirs
    /\ approval \in [Files -> Bytes \cup {Absent}]
    /\ ledger \in [written : BOOLEAN, folders : SUBSET Folders,
                   moved : SUBSET Files]
    /\ manifest \in [status   : {"none", "running", "moved",
                                 "partial-failure-rolled-back"},
                     rollback : {"none", "partial", "restored"}]
    /\ source \in {"unregistered", "registered", "ledgerless"}
    /\ op \in Operation
    /\ saves \in 0..MaxSaves
    /\ raced \subseteq Files
    /\ faults \in Nat

Init ==
    /\ volume \in Volumes
    /\ src = [f \in Files |-> 0]
    /\ dst = [f \in Files |-> Absent]
    /\ srcDirs = Dirs
    /\ dstDirs = {}
    /\ approval = [f \in Files |-> Absent]
    /\ ledger = [written |-> FALSE, folders |-> {}, moved |-> {}]
    /\ manifest = [status |-> "none", rollback |-> "none"]
    /\ source = "unregistered"
    /\ op = Idle
    /\ saves = 0
    /\ raced = {}
    /\ faults = 0

\* A slip of FolderEmpty: the root counted as a folder of its own.
FolderEmptyWithRoot(held, folders, d) ==
    /\ \A f \in Files : FolderOf[f] = d => held[f] = Absent
    /\ d = Root => folders = {}

\* rmdir removes a folder that exists and is empty: no file in it and, in the
\* root, no folder.
FolderEmpty(held, folders, d) ==
    /\ \A f \in Files : FolderOf[f] = d => held[f] = Absent
    /\ d = Root => folders \subseteq {Root}

EmptyFolders(held, folders) ==
    {d \in folders \cap Folders : FolderEmpty(held, folders, d)}

Goto(pc) == op' = [op EXCEPT !.pc = pc]

-----------------------------------------------------------------------------
(* The human's side: a preflight, a confirmed move, a rollback command,    *)
(* saves of files and changes of the settings.                             *)

Preflight ==
    /\ op.pc = "idle"
    /\ Root \in srcDirs
    /\ Root \notin dstDirs
    /\ manifest.status = "none"
    /\ approval' = src
    /\ UNCHANGED <<volume, files, dirs, disk, op, history>>

\* executeMoveImport up to its first change: the source is listed and hashed
\* again, and must have the approved fingerprint.
ExecuteMove ==
    /\ op.pc = "idle"
    /\ manifest.status = "none"
    /\ Root \notin dstDirs
    /\ approval = src
    /\ op' = Started("destination", "move", {})
    /\ UNCHANGED <<volume, files, dirs, approval, disk, history>>

\* rollbackMoveImport up to its first change.
RollbackCommand ==
    /\ op.pc = "idle"
    /\ ledger.written
    /\ manifest.rollback # "restored"
    /\ op' = Started("restore", "command", ledger.moved)
    /\ UNCHANGED <<volume, files, dirs, approval, disk, history>>

\* The instants between a check of a file and the call that relies on it.
InWindow(f) ==
    /\ op.file = f
    /\ op.pc \in {"verify-copy", "unlink", "verify", "failed", "restore-rename"}

\* A file saved at its old path, its folder made again if it is gone.
SaveInSource(f) ==
    /\ saves < MaxSaves
    /\ saves' = saves + 1
    /\ raced' = IF InWindow(f) THEN raced \cup {f} ELSE raced
    /\ src' = [src EXCEPT ![f] = saves']
    /\ srcDirs' = srcDirs \cup {Root, FolderOf[f]}
    /\ UNCHANGED <<volume, dst, dstDirs, approval, disk, op, faults>>

\* A file edited in managed Memory, once it was moved there.
SaveInMemory(f) ==
    /\ saves < MaxSaves
    /\ f \in ledger.moved
    /\ dst[f] # Absent
    /\ saves' = saves + 1
    /\ raced' = IF InWindow(f) THEN raced \cup {f} ELSE raced
    /\ dst' = [dst EXCEPT ![f] = saves']
    /\ UNCHANGED <<volume, src, dirs, approval, disk, op, faults>>

\* A settings save of the source writes it without its ledger path.
SaveSource ==
    /\ source = "registered"
    /\ source' = "ledgerless"
    /\ UNCHANGED <<volume, files, dirs, approval, ledger, manifest, op, history>>

RemoveSource ==
    /\ source # "unregistered"
    /\ source' = "unregistered"
    /\ UNCHANGED <<volume, files, dirs, approval, ledger, manifest, op, history>>

-----------------------------------------------------------------------------
(* executeMoveImport.                                                      *)

MakeDestination ==
    /\ op.pc = "destination"
    /\ dstDirs' = dstDirs \cup {Root}
    /\ Goto("manifest")
    /\ UNCHANGED <<volume, files, srcDirs, approval, disk, history>>

WriteRunningManifest ==
    /\ op.pc = "manifest"
    /\ manifest' = [manifest EXCEPT !.status = "running"]
    /\ Goto("ledger")
    /\ UNCHANGED <<volume, files, dirs, approval, ledger, source, history>>

CreateLedger ==
    /\ op.pc = "ledger"
    /\ ledger' = [ledger EXCEPT !.written = TRUE]
    /\ Goto("boundary")
    /\ UNCHANGED <<volume, files, dirs, approval, manifest, source, history>>

\* The boundary line: without it a rollback goes by the manifest.
WriteBoundary ==
    /\ op.pc = "boundary"
    /\ op' = [op EXCEPT !.pc = "folders", !.todo = Folders]
    /\ UNCHANGED <<volume, files, dirs, approval, disk, history>>

\* A folder is made, and then its line is appended.
MakeFolder(d) ==
    /\ op.pc = "folders"
    /\ d \in op.todo
    /\ op.todo \cap dstDirs = {}
    /\ dstDirs' = dstDirs \cup {Root, d}
    /\ UNCHANGED <<volume, files, srcDirs, approval, disk, op, history>>

AppendFolder(d) ==
    /\ op.pc = "folders"
    /\ d \in op.todo \cap dstDirs
    /\ ledger' = [ledger EXCEPT !.folders = @ \cup {d}]
    /\ op' = [op EXCEPT !.todo = @ \ {d}]
    /\ UNCHANGED <<volume, files, dirs, approval, manifest, source, history>>

StartFiles ==
    /\ op.pc = "folders"
    /\ op.todo = {}
    /\ op' = [op EXCEPT !.pc = "files", !.todo = Files]
    /\ UNCHANGED <<volume, files, dirs, approval, disk, history>>

\* The file is read again and must still have its approved bytes.
CheckFile(f) ==
    /\ op.pc = "files"
    /\ f \in op.todo
    /\ op' = [op EXCEPT !.pc = IF src[f] = approval[f] THEN "rename" ELSE "failed",
                        !.file = f, !.todo = @ \ {f}]
    /\ UNCHANGED <<volume, files, dirs, approval, disk, history>>

Rename ==
    /\ op.pc = "rename"
    /\ volume = "same"
    /\ dst' = [dst EXCEPT ![op.file] = src[op.file]]
    /\ src' = [src EXCEPT ![op.file] = Absent]
    /\ Goto("verify")
    /\ UNCHANGED <<volume, dirs, approval, disk, history>>

\* rename fails with EXDEV: the file is copied, verified and then unlinked.
Copy ==
    /\ op.pc = "rename"
    /\ volume = "another"
    /\ dst' = [dst EXCEPT ![op.file] = src[op.file]]
    /\ Goto("verify-copy")
    /\ UNCHANGED <<volume, src, dirs, approval, disk, history>>

VerifyCopy ==
    /\ op.pc = "verify-copy"
    /\ Goto(IF dst[op.file] = approval[op.file] THEN "unlink" ELSE "failed")
    /\ UNCHANGED <<volume, files, dirs, approval, disk, history>>

Unlink ==
    /\ op.pc = "unlink"
    /\ src' = [src EXCEPT ![op.file] = Absent]
    /\ Goto("verify")
    /\ UNCHANGED <<volume, dst, dirs, approval, disk, history>>

Verify ==
    /\ op.pc = "verify"
    /\ Goto(IF dst[op.file] = approval[op.file] THEN "append" ELSE "failed")
    /\ UNCHANGED <<volume, files, dirs, approval, disk, history>>

AppendMoved ==
    /\ op.pc = "append"
    /\ ledger' = [ledger EXCEPT !.moved = @ \cup {op.file}]
    /\ op' = [op EXCEPT !.pc = "files", !.file = Absent]
    /\ UNCHANGED <<volume, files, dirs, approval, manifest, source, history>>

Fault ==
    /\ faults < MaxFaults
    /\ faults' = faults + 1
    /\ UNCHANGED <<volume, files, approval, ledger, manifest, source, saves, raced>>

\* A call in the try of a file fails, and the file with it.
FileCallFails ==
    /\ op.pc \in {"rename", "verify-copy", "unlink", "verify"}
    /\ Goto("failed")
    /\ UNCHANGED dirs
    /\ Fault

\* A slip of Restorable: what stands at the old path is not looked at.
RestorableOverNewFile(f) == dst[f] # Absent /\ dst[f] = approval[f]

\* restoreMovedEntry up to its rename: the bytes in Memory must be the ones
\* moved there, and nothing may stand at the old path.
Restorable(f) ==
    /\ dst[f] # Absent
    /\ src[f] = Absent
    /\ dst[f] = approval[f]

\* A slip of AutomaticRollback: the move goes on with the next file.
NoBreakAfterFailure == [op EXCEPT !.pc = "files", !.file = Absent]

AutomaticRollback == Started("restore", "automatic", ledger.moved)

\* The catch of a file that failed, by what it left.  A copy beside the
\* original is removed; a file that is only in Memory is put back when it has
\* the approved bytes, and stays there when it has not.
RemoveCopy ==
    /\ op.pc = "failed"
    /\ dst[op.file] # Absent /\ src[op.file] # Absent
    /\ dst' = [dst EXCEPT ![op.file] = Absent]
    /\ op' = AutomaticRollback
    /\ UNCHANGED <<volume, src, dirs, approval, disk, history>>

PutBack ==
    /\ op.pc = "failed"
    /\ Restorable(op.file)
    /\ srcDirs' = srcDirs \cup {Root, FolderOf[op.file]}
    /\ Goto("restore-rename")
    /\ UNCHANGED <<volume, files, dstDirs, approval, disk, history>>

LeaveFailed ==
    /\ op.pc = "failed"
    /\ src[op.file] = Absent \/ dst[op.file] = Absent
    /\ ~Restorable(op.file)
    /\ op' = AutomaticRollback
    /\ UNCHANGED <<volume, files, dirs, approval, disk, history>>

\* The copy cannot be removed, or the file cannot be read or its folder made:
\* it stays where it is.
FailedFileStays ==
    /\ op.pc = "failed"
    /\ dst[op.file] # Absent
    /\ op' = AutomaticRollback
    /\ UNCHANGED dirs
    /\ Fault

\* cleanupMovedSourceRoot: the empty folders go; new content stays.
CleanupSource ==
    /\ op.pc = "files"
    /\ op.todo = {}
    /\ LET left == srcDirs \ EmptyFolders(src, srcDirs)
       IN  srcDirs' = IF FolderEmpty(src, left, Root) THEN left \ {Root} ELSE left
    /\ Goto("moved")
    /\ UNCHANGED <<volume, files, dstDirs, approval, disk, history>>

\* A folder that cannot be removed stays, and the root with it.
SourceFolderStays ==
    /\ op.pc = "files"
    /\ op.todo = {}
    /\ \E stay \in SUBSET EmptyFolders(src, srcDirs) \ {{}} :
          srcDirs' = (srcDirs \ EmptyFolders(src, srcDirs)) \cup stay
    /\ Goto("moved")
    /\ UNCHANGED dstDirs
    /\ Fault

WriteMovedManifest ==
    /\ op.pc = "moved"
    /\ manifest' = [status |-> "moved", rollback |-> "none"]
    /\ Goto("register")
    /\ UNCHANGED <<volume, files, dirs, approval, ledger, source, history>>

\* executeMemorySourceMoveExecute after a move whose status is "moved".
RegisterSource ==
    /\ op.pc = "register"
    /\ source' = "registered"
    /\ op' = Idle
    /\ UNCHANGED <<volume, files, dirs, approval, ledger, manifest, history>>

-----------------------------------------------------------------------------
(* rollbackMoveImport, and the rollback a failed move makes by itself.     *)

RestoreFile(f) ==
    /\ op.pc = "restore"
    /\ f \in op.todo
    /\ Restorable(f)
    /\ srcDirs' = srcDirs \cup {Root, FolderOf[f]}
    /\ op' = [op EXCEPT !.pc = "restore-rename", !.file = f, !.todo = @ \ {f}]
    /\ UNCHANGED <<volume, files, dstDirs, approval, disk, history>>

\* A slip of SkipFile: a file that is skipped is tried again.
SkipFileForNow(f) ==
    /\ op.pc = "restore"
    /\ f \in op.todo
    /\ ~Restorable(f)
    /\ op' = [op EXCEPT !.skipped = TRUE]
    /\ UNCHANGED <<volume, files, dirs, approval, disk, history>>

SkipFile(f) ==
    /\ op.pc = "restore"
    /\ f \in op.todo
    /\ ~Restorable(f)
    /\ op' = [op EXCEPT !.todo = @ \ {f}, !.skipped = TRUE]
    /\ UNCHANGED <<volume, files, dirs, approval, disk, history>>

\* The file cannot be read, or its folder not be made.
RestoreFileFails(f) ==
    /\ op.pc = "restore"
    /\ f \in op.todo
    /\ Restorable(f)
    /\ op' = [op EXCEPT !.todo = @ \ {f}, !.skipped = TRUE]
    /\ UNCHANGED dirs
    /\ Fault

RestoreRename ==
    /\ op.pc = "restore-rename"
    /\ volume = "same"
    /\ src' = [src EXCEPT ![op.file] = dst[op.file]]
    /\ dst' = [dst EXCEPT ![op.file] = Absent]
    /\ Goto("restore-verify")
    /\ UNCHANGED <<volume, dirs, approval, disk, history>>

\* The rename back fails with EXDEV, and the error ends the operation.
RestoreThrows ==
    /\ op.pc = "restore-rename"
    /\ volume = "another"
    /\ op' = Idle
    /\ UNCHANGED <<volume, files, dirs, approval, disk, history>>

RestoreVerify ==
    /\ op.pc = "restore-verify"
    /\ op' = IF op.mode = "move"
             THEN AutomaticRollback
             ELSE [op EXCEPT !.pc = "restore", !.file = Absent,
                             !.skipped = @ \/ src[op.file] # approval[op.file]]
    /\ UNCHANGED <<volume, files, dirs, approval, disk, history>>

\* The restored file cannot be read: it counts as skipped.
RestoreVerifyFails ==
    /\ op.pc = "restore-verify"
    /\ op' = IF op.mode = "move"
             THEN AutomaticRollback
             ELSE [op EXCEPT !.pc = "restore", !.file = Absent, !.skipped = TRUE]
    /\ UNCHANGED dirs
    /\ Fault

StartFolders ==
    /\ op.pc = "restore"
    /\ op.todo = {}
    /\ op' = [op EXCEPT !.pc = "restore-folders", !.todo = ledger.folders]
    /\ UNCHANGED <<volume, files, dirs, approval, disk, history>>

\* rmdir of a folder in Memory, whatever it finds.
Removed(d) == IF FolderEmpty(dst, dstDirs, d) THEN dstDirs \ {d} ELSE dstDirs

\* rollbackCreatedDirectories: each folder of the ledger is made again in the
\* source and removed from Memory, where it must be empty.
RestoreFolder(d) ==
    /\ op.pc = "restore-folders"
    /\ d \in op.todo
    /\ srcDirs' = srcDirs \cup {Root, d}
    /\ dstDirs' = Removed(d)
    /\ op' = [op EXCEPT !.todo = @ \ {d}, !.skipped = @ \/ d \in dstDirs']
    /\ UNCHANGED <<volume, files, approval, disk, history>>

\* A failed mkdir or rmdir counts as skipped; cleanupEmptyDestinationDirs may
\* have removed the folder, or does so later.
RestoreFolderFails(d) ==
    /\ op.pc = "restore-folders"
    /\ d \in op.todo
    /\ srcDirs' \in {srcDirs, srcDirs \cup {Root, d}}
    /\ dstDirs' \in {dstDirs, Removed(d)}
    /\ op' = [op EXCEPT !.todo = @ \ {d}, !.skipped = TRUE]
    /\ Fault

\* rollbackMoveRoot, the same for the root.
RestoreRoot ==
    /\ op.pc = "restore-folders"
    /\ op.todo = {}
    /\ srcDirs' = srcDirs \cup {Root}
    /\ dstDirs' = Removed(Root)
    /\ op' = [op EXCEPT !.pc = "report", !.skipped = @ \/ Root \in dstDirs']
    /\ UNCHANGED <<volume, files, approval, disk, history>>

RestoreRootFails ==
    /\ op.pc = "restore-folders"
    /\ op.todo = {}
    /\ srcDirs' \in {srcDirs, srcDirs \cup {Root}}
    /\ dstDirs' \in {dstDirs, Removed(Root)}
    /\ op' = [op EXCEPT !.pc = "report", !.skipped = TRUE]
    /\ Fault

\* Slips of Outcome: the skips forgotten, and a status nothing else knows.
OutcomeRestored == "restored"
OutcomeSkipped == IF op.skipped THEN "skipped" ELSE "restored"

Outcome == IF op.skipped THEN "partial" ELSE "restored"

\* The manifest gets the outcome: at the end of the failed move, or after the
\* report of the command.
WriteOutcome ==
    /\ op.pc = "report"
    /\ manifest' =
         [status   |-> IF op.mode = "automatic" THEN "partial-failure-rolled-back"
                       ELSE manifest.status,
          rollback |-> Outcome]
    /\ op' = IF op.mode = "automatic" THEN Idle ELSE [op EXCEPT !.pc = "deregister"]
    /\ UNCHANGED <<volume, files, dirs, approval, ledger, source, history>>

\* The command goes on when the manifest cannot be written.
WriteOutcomeFails ==
    /\ op.pc = "report"
    /\ op.mode = "command"
    /\ Goto("deregister")
    /\ UNCHANGED dirs
    /\ Fault

\* executeMemorySourceMoveRollback: the entry with this ledger path goes when
\* nothing was skipped.
DeregisterSource ==
    /\ op.pc = "deregister"
    /\ source' = IF source = "registered" /\ ~op.skipped THEN "unregistered" ELSE source
    /\ op' = Idle
    /\ UNCHANGED <<volume, files, dirs, approval, ledger, manifest, history>>

\* The host dies, or a call whose failure nothing catches throws.
Crash ==
    /\ op.pc # "idle"
    /\ op' = Idle
    /\ UNCHANGED dirs
    /\ Fault

Commands ==
    \/ Preflight \/ ExecuteMove \/ RollbackCommand \/ SaveSource \/ RemoveSource
    \/ \E f \in Files : SaveInSource(f) \/ SaveInMemory(f)

MoveStep ==
    \/ MakeDestination \/ WriteRunningManifest \/ CreateLedger \/ WriteBoundary
    \/ \E d \in Folders : MakeFolder(d) \/ AppendFolder(d)
    \/ StartFiles
    \/ \E f \in Files : CheckFile(f)
    \/ Rename \/ Copy \/ VerifyCopy \/ Unlink \/ Verify \/ AppendMoved
    \/ RemoveCopy \/ PutBack \/ LeaveFailed
    \/ CleanupSource \/ WriteMovedManifest \/ RegisterSource

RollbackStep ==
    \/ \E f \in Files : RestoreFile(f) \/ SkipFile(f)
    \/ RestoreRename \/ RestoreThrows \/ RestoreVerify
    \/ StartFolders \/ \E d \in Folders : RestoreFolder(d)
    \/ RestoreRoot \/ WriteOutcome \/ DeregisterSource

HostStep == MoveStep \/ RollbackStep

\* The failures the host catches, and goes on from.
CaughtFailure ==
    \/ FileCallFails \/ FailedFileStays \/ SourceFolderStays
    \/ \E f \in Files : RestoreFileFails(f)
    \/ RestoreVerifyFails
    \/ \E d \in Folders : RestoreFolderFails(d)
    \/ RestoreRootFails \/ WriteOutcomeFails

Next == Commands \/ HostStep \/ CaughtFailure \/ Crash

Spec == Init /\ [][Next]_vars

\* A call on the file system is answered: the host runs what it started.
FairSpec == Spec /\ WF_vars(HostStep)
=============================================================================
