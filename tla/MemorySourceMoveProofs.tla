----------------------- MODULE MemorySourceMoveProofs -----------------------
(***************************************************************************)
(* Proofs about the source move, for any files, folders, saves and faults. *)
(*                                                                         *)
(* The invariant has parts.  Progress ties the step of the operation to    *)
(* the ledger, the manifest and the settings; FoldersMade and FilesPlaced  *)
(* say what a move has done so far; Housed ties files to folders, so that  *)
(* an empty root means that nothing is left; InHand says what holds of the *)
(* one file between a check and the call that relies on it.                *)
(* Straight, at the end, says where everything is while nothing disturbs   *)
(* the move and its rollback.                                              *)
(***************************************************************************)
EXTENDS MemorySourceMoveProperties, TLAPS

FileSteps == {"rename", "verify-copy", "unlink", "verify", "append", "failed"}

\* The file in hand: being moved, or being put back.
HandSteps == FileSteps \cup {"restore-rename", "restore-verify"}

InMove == op.mode = "move"

Progress ==
    /\ op.pc = "idle" <=> op.mode = "none"
    /\ op.pc \in MoveSteps => InMove
    /\ InMove /\ op.pc \notin MoveSteps => op.pc \in {"restore-rename", "restore-verify"}
    /\ op.pc \in HandSteps => op.file \in Files
    /\ manifest.status = "none" => ~ledger.written /\ manifest.rollback = "none"
    /\ ~ledger.written => /\ ledger.moved = {}
                          /\ op.pc \in {"idle", "destination", "manifest", "ledger"}
    /\ op.pc \in {"destination", "manifest"} => manifest.status = "none"
    /\ op.pc = "ledger" => ~ledger.written
    /\ InMove => manifest.rollback = "none"
    /\ InMove /\ op.pc \notin {"destination", "manifest", "register"}
         => manifest.status = "running"
    /\ op.mode = "automatic" => manifest.status = "running"
    /\ op.pc = "register" => manifest.status = "moved"
    /\ op.pc \in {"moved", "register"} => ledger.moved = Files /\ ledger.folders = Folders
    /\ op.pc # "idle" \/ ledger.written => \A f \in Files : approval[f] # Absent

\* Each folder that is not to be made any more is made and in the ledger.
FoldersMade ==
    /\ ~ledger.written => \A f \in Files : dst[f] = Absent
    /\ op.pc \in {"manifest", "ledger", "boundary", "folders"} => Root \in dstDirs
    /\ op.pc \in {"boundary", "folders"} =>
         /\ ledger.moved = {}
         /\ \A f \in Files : dst[f] = Absent
    /\ op.pc = "folders" =>
         /\ op.todo \subseteq Folders
         /\ \A d \in Folders \ op.todo : d \in ledger.folders /\ d \in dstDirs
    /\ op.pc \in FileSteps \cup {"files"} => Root \in dstDirs /\ Folders \subseteq dstDirs
    /\ InMove /\ op.pc \in HandSteps \cup {"files"} => ledger.folders = Folders

\* Each file is in the ledger, in hand, or still to be moved and not in Memory.
FilesPlaced ==
    /\ InMove /\ op.pc \in HandSteps \cup {"files"} =>
         /\ op.todo \subseteq Files
         /\ \A f \in op.todo : dst[f] = Absent /\ f \notin ledger.moved
    /\ InMove /\ op.pc \in HandSteps =>
         /\ op.file \notin op.todo
         /\ \A f \in Files : f \in ledger.moved \/ f \in op.todo \/ f = op.file
    /\ op.pc = "files" => \A f \in Files : f \in ledger.moved \/ f \in op.todo

Housed ==
    /\ dstDirs # {} => Root \in dstDirs
    /\ \A f \in Files : dst[f] # Absent => FolderOf[f] \in dstDirs

InHand ==
    /\ op.pc = "rename" => dst[op.file] = Absent /\ src[op.file] # Absent
    /\ op.pc \in {"verify-copy", "unlink", "verify", "append", "restore-rename"}
         => dst[op.file] # Absent
    /\ op.pc \in FileSteps => op.file \notin ledger.moved
    /\ op.pc \in {"verify-copy", "unlink"} /\ op.file \notin raced
         => src[op.file] = dst[op.file]
    /\ op.pc \in {"verify", "restore-rename"} /\ op.file \notin raced
         => src[op.file] = Absent
    /\ op.pc = "failed" /\ op.file \notin raced
         => \/ src[op.file] = Absent
            \/ dst[op.file] = Absent
            \/ src[op.file] = dst[op.file]

EmptyWhenDone ==
    (op.pc = "report" /\ ~op.skipped) \/ manifest.rollback = "restored"
        => \A f \in Files : dst[f] = Absent

MoveInv ==
    /\ TypeOK
    /\ \A f \in Files : FileKept(f)
    /\ Progress
    /\ FoldersMade
    /\ FilesPlaced
    /\ Housed
    /\ InHand
    /\ EmptyWhenDone
    /\ AtMostOneUnledgered
    /\ RegisteredIsRecoverable
-----------------------------------------------------------------------------
\* A save keeps the count in its bounds, and its number is not Absent.
LEMMA SavesCount ==
    ASSUME saves \in 0..MaxSaves, saves < MaxSaves, saves' = saves + 1
    PROVE  saves' \in 0..MaxSaves /\ saves' # Absent
BY BoundsAssumption, AbsentAssumption

\* The number a save gets is a number of bytes, not Absent.
LEMMA SaveNumbered ==
    ASSUME TypeOK, NEW f \in Files, SaveInSource(f) \/ SaveInMemory(f)
    PROVE  saves' \in 0..MaxSaves /\ saves' # Absent
BY SavesCount DEF TypeOK, SaveInSource, SaveInMemory

\* A save in the source keeps the types.
LEMMA SaveInSourceType ==
    ASSUME TypeOK, NEW f \in Files, SaveInSource(f)  PROVE TypeOK'
<1>1. saves' \in 0..MaxSaves
  BY SaveNumbered
<1>2. src' \in [Files -> Bytes \cup {Absent}]
  BY <1>1 DEF TypeOK, SaveInSource, Bytes
<1>3. QED
  BY <1>1, <1>2, FoldersAssumption DEF TypeOK, SaveInSource, Dirs, disk

\* A save in Memory keeps the types.
LEMMA SaveInMemoryType ==
    ASSUME TypeOK, NEW f \in Files, SaveInMemory(f)  PROVE TypeOK'
<1>1. saves' \in 0..MaxSaves
  BY SaveNumbered
<1>2. dst' \in [Files -> Bytes \cup {Absent}]
  BY <1>1 DEF TypeOK, SaveInMemory, Bytes
<1>3. QED
  BY <1>1, <1>2 DEF TypeOK, SaveInMemory, dirs, disk

\* The faults are counted.
LEMMA FaultsCount ==
    ASSUME faults \in Nat, faults' = faults + 1  PROVE faults' \in Nat
OBVIOUS

\* A fault keeps the types if it keeps those of the operation and the folders.
LEMMA FaultType ==
    ASSUME TypeOK, Fault, op' \in Operation, srcDirs' \subseteq Dirs, dstDirs' \subseteq Dirs
    PROVE  TypeOK'
<1>1. faults' \in Nat
  BY FaultsCount DEF TypeOK, Fault
<1>2. QED
  BY <1>1 DEF TypeOK, Fault, files

\* A failure that is caught keeps the types.
LEMMA CaughtFailureType == ASSUME TypeOK, Progress, CaughtFailure PROVE TypeOK'
<1> USE DEF TypeOK, Operation, MoveSteps, RestoreSteps
<1>1. CASE FileCallFails
  BY <1>1, FaultType DEF FileCallFails, dirs, Goto
<1>2. CASE FailedFileStays
  BY <1>2, FaultType DEF FailedFileStays, dirs, AutomaticRollback, Started
<1>3. CASE SourceFolderStays
  <2>1. srcDirs' \subseteq srcDirs
    BY <1>3 DEF SourceFolderStays, EmptyFolders
  <2>2. QED
    BY <1>3, <2>1, FaultType DEF SourceFolderStays, Goto
<1>4. ASSUME NEW f \in Files, RestoreFileFails(f) PROVE TypeOK'
  BY <1>4, FaultType DEF RestoreFileFails, dirs
<1>5. CASE RestoreVerifyFails
  BY <1>5, FaultType DEF RestoreVerifyFails, dirs, AutomaticRollback, Started
<1>6. ASSUME NEW d \in Folders, RestoreFolderFails(d) PROVE TypeOK'
  BY <1>6, FaultType DEF RestoreFolderFails, Removed, Dirs
<1>7. CASE RestoreRootFails
  BY <1>7, FaultType DEF RestoreRootFails, Removed, Dirs
<1>8. CASE WriteOutcomeFails
  BY <1>8, FaultType DEF WriteOutcomeFails, dirs, Goto
<1>9. QED
  BY <1>1, <1>2, <1>3, <1>4, <1>5, <1>6, <1>7, <1>8 DEF CaughtFailure

\* A crash keeps the types.
LEMMA CrashType == ASSUME TypeOK, Crash PROVE TypeOK'
BY FaultType DEF TypeOK, Crash, dirs, Idle, Started, Operation


\* Putting a failed file back keeps the types.
LEMMA PutBackType == ASSUME TypeOK, op.file \in Files, PutBack PROVE TypeOK'
<1>1. op' \in Operation
  BY DEF TypeOK, PutBack, Goto, Operation, RestoreSteps
<1>2. srcDirs' \subseteq Dirs
  BY FoldersAssumption DEF TypeOK, PutBack, Dirs
<1>3. QED
  BY <1>1, <1>2 DEF TypeOK, PutBack, files, disk, history

\* Starting to restore a file keeps the types.
LEMMA RestoreFileType ==
    ASSUME TypeOK, NEW f \in Files, RestoreFile(f)  PROVE TypeOK'
<1>1. op' \in Operation
  BY DEF TypeOK, RestoreFile, Operation, RestoreSteps
<1>2. srcDirs' \subseteq Dirs
  BY FoldersAssumption DEF TypeOK, RestoreFile, Dirs
<1>3. QED
  BY <1>1, <1>2 DEF TypeOK, RestoreFile, files, disk, history

\* What the host catches, and what ends it, is a fault and leaves the files.
LEMMA FailureIsFault == ASSUME CaughtFailure \/ Crash PROVE Fault
BY DEF CaughtFailure, Crash, FileCallFails, FailedFileStays, SourceFolderStays, RestoreFileFails,
       RestoreVerifyFails, RestoreFolderFails, RestoreRootFails, WriteOutcomeFails

\* A save in Memory and the removal of a copy add no file to Memory.
LEMMA UnledgeredKept ==
    ASSUME TypeOK, (\E f \in Files : SaveInMemory(f)) \/ RemoveCopy
    PROVE  Unledgered' \subseteq Unledgered
BY DEF TypeOK, SaveInMemory, RemoveCopy, disk, Unledgered

\* A save leaves what was checked of the file in hand, or is a race.
LEMMA SaveInHand ==
    ASSUME TypeOK, Progress, InHand, NEW f \in Files,
           SaveInSource(f) \/ SaveInMemory(f)
    PROVE  InHand'
<1>1. CASE SaveInSource(f)
  BY <1>1, SaveNumbered
  DEF TypeOK, Operation, Progress, InHand, SaveInSource, disk, InWindow,
      HandSteps, FileSteps
<1>2. CASE SaveInMemory(f)
  BY <1>2, SaveNumbered
  DEF TypeOK, Operation, Progress, InHand, SaveInMemory, disk, InWindow,
      HandSteps, FileSteps
<1>3. QED
  BY <1>1, <1>2

\* Every step keeps the types.
LEMMA TypeStep == ASSUME MoveInv, Next PROVE TypeOK'
  <1> USE FoldersAssumption, BoundsAssumption, AbsentAssumption
      DEF Progress, HandSteps, FileSteps, Outcome, MoveInv, TypeOK, 
          Operation, MoveSteps, RestoreSteps, Bytes, Dirs, files, dirs, 
          disk, history, Started, Idle, Goto, AutomaticRollback
  <1>1. CASE Preflight
    BY <1>1 DEF Preflight
  <1>2. CASE ExecuteMove
    BY <1>2 DEF ExecuteMove
  <1>3. CASE RollbackCommand
    BY <1>3 DEF RollbackCommand
  <1>4. ASSUME NEW f \in Files, SaveInSource(f) PROVE TypeOK'
    BY <1>4, SaveInSourceType DEF MoveInv
  <1>5. ASSUME NEW f \in Files, SaveInMemory(f) PROVE TypeOK'
    BY <1>5, SaveInMemoryType DEF MoveInv
  <1>6. CASE SaveSource
    BY <1>6 DEF SaveSource
  <1>7. CASE RemoveSource
    BY <1>7 DEF RemoveSource
  <1>8. CASE MakeDestination
    BY <1>8 DEF MakeDestination
  <1>9. CASE WriteRunningManifest
    BY <1>9 DEF WriteRunningManifest
  <1>10. CASE CreateLedger
    BY <1>10 DEF CreateLedger
  <1>11. CASE WriteBoundary
    BY <1>11 DEF WriteBoundary
  <1>12. ASSUME NEW d \in Folders, MakeFolder(d) PROVE TypeOK'
    BY <1>12 DEF MakeFolder
  <1>13. ASSUME NEW d \in Folders, AppendFolder(d) PROVE TypeOK'
    BY <1>13 DEF AppendFolder
  <1>14. CASE StartFiles
    BY <1>14 DEF StartFiles
  <1>15. ASSUME NEW f \in Files, CheckFile(f) PROVE TypeOK'
    BY <1>15 DEF CheckFile
  <1>16. CASE Rename
    BY <1>16 DEF Rename
  <1>17. CASE Copy
    BY <1>17 DEF Copy
  <1>18. CASE VerifyCopy
    BY <1>18 DEF VerifyCopy
  <1>19. CASE Unlink
    BY <1>19 DEF Unlink
  <1>20. CASE Verify
    BY <1>20 DEF Verify
  <1>21. CASE AppendMoved
    BY <1>21 DEF AppendMoved
  <1>22. CASE RemoveCopy
    BY <1>22 DEF RemoveCopy
  <1>23. CASE PutBack
    <2>1. op.file \in Files
      BY <1>23 DEF PutBack
    <2>2. QED
      BY <1>23, <2>1, PutBackType
  <1>24. CASE LeaveFailed
    BY <1>24 DEF LeaveFailed
  <1>25. CASE CleanupSource
    BY <1>25 DEF CleanupSource, FolderEmpty, EmptyFolders
  <1>26. CASE WriteMovedManifest
    BY <1>26 DEF WriteMovedManifest
  <1>27. CASE RegisterSource
    BY <1>27 DEF RegisterSource
  <1>28. ASSUME NEW f \in Files, RestoreFile(f) PROVE TypeOK'
    BY <1>28, RestoreFileType DEF MoveInv
  <1>29. ASSUME NEW f \in Files, SkipFile(f) PROVE TypeOK'
    BY <1>29 DEF SkipFile
  <1>30. CASE RestoreRename
    BY <1>30 DEF RestoreRename
  <1>31. CASE RestoreThrows
    BY <1>31 DEF RestoreThrows
  <1>32. CASE RestoreVerify
    BY <1>32 DEF RestoreVerify
  <1>33. CASE StartFolders
    BY <1>33 DEF StartFolders
  <1>34. ASSUME NEW d \in Folders, RestoreFolder(d) PROVE TypeOK'
    BY <1>34 DEF RestoreFolder, Removed, FolderEmpty
  <1>35. CASE RestoreRoot
    BY <1>35 DEF RestoreRoot, Removed, FolderEmpty
  <1>36. CASE WriteOutcome
    BY <1>36 DEF WriteOutcome
  <1>37. CASE DeregisterSource
    BY <1>37 DEF DeregisterSource
  <1>38. CASE CaughtFailure
    BY <1>38, CaughtFailureType DEF MoveInv
  <1>39. CASE Crash
    BY <1>39, CrashType DEF MoveInv
  <1>40. QED
    BY <1>1, <1>2, <1>3, <1>4, <1>5, <1>6, <1>7, <1>8, <1>9, <1>10, <1>11, <1>12, <1>13,
       <1>14, <1>15, <1>16, <1>17, <1>18, <1>19, <1>20, <1>21, <1>22, <1>23, <1>24, <1>25,
       <1>26, <1>27, <1>28, <1>29, <1>30, <1>31, <1>32, <1>33, <1>34, <1>35, <1>36, <1>37,
       <1>38, <1>39
    DEF Next, Commands, HostStep, MoveStep, RollbackStep

\* Every file stays on one side at least.
LEMMA KeptStep == ASSUME MoveInv, Next PROVE \A f \in Files : FileKept(f)'
  <1> USE FoldersAssumption, BoundsAssumption, AbsentAssumption
      DEF FileKept, InHand, Progress, InMove, HandSteps, FileSteps, 
          MoveInv, TypeOK, Operation, MoveSteps, RestoreSteps, Bytes, 
          Dirs, files, dirs, disk, history, Started, Idle, Goto, 
          AutomaticRollback
  <1>1. CASE UNCHANGED <<src, dst>>
    BY <1>1
  <1>2. CASE Rename
    <2> SUFFICES ASSUME NEW g \in Files PROVE FileKept(g)'
      OBVIOUS
    <2>1. CASE g = op.file
      BY <1>2, <2>1 DEF Rename
    <2>2. CASE g # op.file
      BY <1>2, <2>2 DEF Rename
    <2>3. QED
      BY <2>1, <2>2
  <1>3. CASE Copy
    <2> SUFFICES ASSUME NEW g \in Files PROVE FileKept(g)'
      OBVIOUS
    <2>1. CASE g = op.file
      BY <1>3, <2>1 DEF Copy
    <2>2. CASE g # op.file
      BY <1>3, <2>2 DEF Copy
    <2>3. QED
      BY <2>1, <2>2
  <1>4. CASE Unlink
    <2> SUFFICES ASSUME NEW g \in Files PROVE FileKept(g)'
      OBVIOUS
    <2>1. CASE g = op.file
      BY <1>4, <2>1 DEF Unlink
    <2>2. CASE g # op.file
      BY <1>4, <2>2 DEF Unlink
    <2>3. QED
      BY <2>1, <2>2
  <1>5. CASE RemoveCopy
    <2> SUFFICES ASSUME NEW g \in Files PROVE FileKept(g)'
      OBVIOUS
    <2>1. CASE g = op.file
      BY <1>5, <2>1 DEF RemoveCopy
    <2>2. CASE g # op.file
      BY <1>5, <2>2 DEF RemoveCopy
    <2>3. QED
      BY <2>1, <2>2
  <1>6. CASE RestoreRename
    <2> SUFFICES ASSUME NEW g \in Files PROVE FileKept(g)'
      OBVIOUS
    <2>1. CASE g = op.file
      BY <1>6, <2>1 DEF RestoreRename
    <2>2. CASE g # op.file
      BY <1>6, <2>2 DEF RestoreRename
    <2>3. QED
      BY <2>1, <2>2
  <1>7. ASSUME NEW f \in Files, SaveInSource(f) PROVE \A g \in Files : FileKept(g)'
    <2> SUFFICES ASSUME NEW g \in Files PROVE FileKept(g)'
      OBVIOUS
    <2>1. CASE g = f
      BY <1>7, <2>1, SaveNumbered DEF SaveInSource
    <2>2. CASE g # f
      BY <1>7, <2>2 DEF SaveInSource
    <2>3. QED
      BY <2>1, <2>2
  <1>8. ASSUME NEW f \in Files, SaveInMemory(f) PROVE \A g \in Files : FileKept(g)'
    <2> SUFFICES ASSUME NEW g \in Files PROVE FileKept(g)'
      OBVIOUS
    <2>1. CASE g = f
      BY <1>8, <2>1, SaveNumbered DEF SaveInMemory
    <2>2. CASE g # f
      BY <1>8, <2>2 DEF SaveInMemory
    <2>3. QED
      BY <2>1, <2>2
  <1>9. QED
    BY <1>1, <1>2, <1>3, <1>4, <1>5, <1>6, <1>7, <1>8, FailureIsFault
    DEF Next, Commands, HostStep, MoveStep, RollbackStep, Preflight, 
        ExecuteMove, RollbackCommand, SaveSource, RemoveSource, MakeDestination, 
        WriteRunningManifest, CreateLedger, WriteBoundary, MakeFolder, AppendFolder, StartFiles, 
        CheckFile, VerifyCopy, Verify, AppendMoved, PutBack, LeaveFailed, 
        CleanupSource, WriteMovedManifest, RegisterSource, RestoreFile, SkipFile, 
        RestoreThrows, RestoreVerify, StartFolders, RestoreFolder, RestoreRoot,
        WriteOutcome, DeregisterSource, Fault

\* The step, the ledger, the manifest and the settings stay in line.
LEMMA ProgressStep == ASSUME MoveInv, Next PROVE Progress'
  <1> USE FoldersAssumption, BoundsAssumption, AbsentAssumption
      DEF Progress, FoldersMade, FilesPlaced, RegisteredIsRecoverable, 
          FileKept, InMove, HandSteps, FileSteps, Restorable, MoveInv, 
          TypeOK, Operation, MoveSteps, RestoreSteps, Bytes, Dirs, files, 
          dirs, disk, history, Started, Idle, Goto, AutomaticRollback
  <1>1. CASE Preflight
    BY <1>1 DEF Preflight
  <1>2. CASE ExecuteMove
    BY <1>2 DEF ExecuteMove
  <1>3. CASE RollbackCommand
    BY <1>3 DEF RollbackCommand
  <1>4. ASSUME NEW f \in Files, SaveInSource(f) PROVE Progress'
    BY <1>4 DEF SaveInSource
  <1>5. ASSUME NEW f \in Files, SaveInMemory(f) PROVE Progress'
    BY <1>5 DEF SaveInMemory
  <1>6. CASE SaveSource
    BY <1>6 DEF SaveSource
  <1>7. CASE RemoveSource
    BY <1>7 DEF RemoveSource
  <1>8. CASE MakeDestination
    BY <1>8 DEF MakeDestination
  <1>9. CASE WriteRunningManifest
    BY <1>9 DEF WriteRunningManifest
  <1>10. CASE CreateLedger
    BY <1>10 DEF CreateLedger
  <1>11. CASE WriteBoundary
    BY <1>11 DEF WriteBoundary
  <1>12. ASSUME NEW d \in Folders, MakeFolder(d) PROVE Progress'
    BY <1>12 DEF MakeFolder
  <1>13. ASSUME NEW d \in Folders, AppendFolder(d) PROVE Progress'
    BY <1>13 DEF AppendFolder
  <1>14. CASE StartFiles
    BY <1>14 DEF StartFiles
  <1>15. ASSUME NEW f \in Files, CheckFile(f) PROVE Progress'
    BY <1>15 DEF CheckFile
  <1>16. CASE Rename
    BY <1>16 DEF Rename
  <1>17. CASE Copy
    BY <1>17 DEF Copy
  <1>18. CASE VerifyCopy
    BY <1>18 DEF VerifyCopy
  <1>19. CASE Unlink
    BY <1>19 DEF Unlink
  <1>20. CASE Verify
    BY <1>20 DEF Verify
  <1>21. CASE AppendMoved
    BY <1>21 DEF AppendMoved
  <1>22. CASE RemoveCopy
    BY <1>22 DEF RemoveCopy
  <1>23. CASE PutBack
    BY <1>23 DEF PutBack
  <1>24. CASE LeaveFailed
    BY <1>24 DEF LeaveFailed
  <1>25. CASE CleanupSource
    BY <1>25 DEF CleanupSource
  <1>26. CASE WriteMovedManifest
    BY <1>26 DEF WriteMovedManifest
  <1>27. CASE RegisterSource
    BY <1>27 DEF RegisterSource
  <1>28. ASSUME NEW f \in Files, RestoreFile(f) PROVE Progress'
    BY <1>28 DEF RestoreFile
  <1>29. ASSUME NEW f \in Files, SkipFile(f) PROVE Progress'
    BY <1>29 DEF SkipFile
  <1>30. CASE RestoreRename
    BY <1>30 DEF RestoreRename
  <1>31. CASE RestoreThrows
    BY <1>31 DEF RestoreThrows
  <1>32. CASE RestoreVerify
    BY <1>32 DEF RestoreVerify
  <1>33. CASE StartFolders
    BY <1>33 DEF StartFolders
  <1>34. ASSUME NEW d \in Folders, RestoreFolder(d) PROVE Progress'
    BY <1>34 DEF RestoreFolder
  <1>35. CASE RestoreRoot
    BY <1>35 DEF RestoreRoot
  <1>36. CASE WriteOutcome
    BY <1>36 DEF WriteOutcome
  <1>37. CASE DeregisterSource
    BY <1>37 DEF DeregisterSource
  <1>38. CASE FileCallFails
    BY <1>38 DEF FileCallFails, Fault
  <1>39. CASE FailedFileStays
    BY <1>39 DEF FailedFileStays, Fault
  <1>40. CASE SourceFolderStays
    BY <1>40 DEF SourceFolderStays, Fault
  <1>41. ASSUME NEW f \in Files, RestoreFileFails(f) PROVE Progress'
    BY <1>41 DEF RestoreFileFails, Fault
  <1>42. CASE RestoreVerifyFails
    BY <1>42 DEF RestoreVerifyFails, Fault
  <1>43. ASSUME NEW d \in Folders, RestoreFolderFails(d) PROVE Progress'
    BY <1>43 DEF RestoreFolderFails, Fault
  <1>44. CASE RestoreRootFails
    BY <1>44 DEF RestoreRootFails, Fault
  <1>45. CASE WriteOutcomeFails
    BY <1>45 DEF WriteOutcomeFails, Fault
  <1>46. CASE Crash
    BY <1>46 DEF Crash, Fault
  <1>47. QED
    BY <1>1, <1>2, <1>3, <1>4, <1>5, <1>6, <1>7, <1>8, <1>9, <1>10, <1>11, <1>12, <1>13,
       <1>14, <1>15, <1>16, <1>17, <1>18, <1>19, <1>20, <1>21, <1>22, <1>23, <1>24, <1>25,
       <1>26, <1>27, <1>28, <1>29, <1>30, <1>31, <1>32, <1>33, <1>34, <1>35, <1>36, <1>37,
       <1>38, <1>39, <1>40, <1>41, <1>42, <1>43, <1>44, <1>45, <1>46
    DEF Next, Commands, HostStep, MoveStep, RollbackStep, CaughtFailure

\* A move makes every folder before the first file.
LEMMA FoldersMadeStep == ASSUME MoveInv, Next PROVE FoldersMade'
  <1> USE FoldersAssumption, BoundsAssumption, AbsentAssumption
      DEF FoldersMade, FilesPlaced, Progress, InMove, HandSteps, 
          FileSteps, Restorable, MoveInv, TypeOK, Operation, MoveSteps, 
          RestoreSteps, Bytes, Dirs, files, dirs, disk, history, Started, 
          Idle, Goto, AutomaticRollback
  <1>1. CASE Preflight
    BY <1>1 DEF Preflight
  <1>2. CASE ExecuteMove
    BY <1>2 DEF ExecuteMove
  <1>3. CASE RollbackCommand
    BY <1>3 DEF RollbackCommand
  <1>4. ASSUME NEW f \in Files, SaveInSource(f) PROVE FoldersMade'
    BY <1>4 DEF SaveInSource
  <1>5. ASSUME NEW f \in Files, SaveInMemory(f) PROVE FoldersMade'
    BY <1>5 DEF SaveInMemory
  <1>6. CASE SaveSource
    BY <1>6 DEF SaveSource
  <1>7. CASE RemoveSource
    BY <1>7 DEF RemoveSource
  <1>8. CASE MakeDestination
    BY <1>8 DEF MakeDestination
  <1>9. CASE WriteRunningManifest
    BY <1>9 DEF WriteRunningManifest
  <1>10. CASE CreateLedger
    BY <1>10 DEF CreateLedger
  <1>11. CASE WriteBoundary
    BY <1>11 DEF WriteBoundary
  <1>12. ASSUME NEW d \in Folders, MakeFolder(d) PROVE FoldersMade'
    BY <1>12 DEF MakeFolder
  <1>13. ASSUME NEW d \in Folders, AppendFolder(d) PROVE FoldersMade'
    BY <1>13 DEF AppendFolder
  <1>14. CASE StartFiles
    BY <1>14 DEF StartFiles
  <1>15. ASSUME NEW f \in Files, CheckFile(f) PROVE FoldersMade'
    BY <1>15 DEF CheckFile
  <1>16. CASE Rename
    BY <1>16 DEF Rename
  <1>17. CASE Copy
    BY <1>17 DEF Copy
  <1>18. CASE VerifyCopy
    BY <1>18 DEF VerifyCopy
  <1>19. CASE Unlink
    BY <1>19 DEF Unlink
  <1>20. CASE Verify
    BY <1>20 DEF Verify
  <1>21. CASE AppendMoved
    BY <1>21 DEF AppendMoved
  <1>22. CASE RemoveCopy
    BY <1>22 DEF RemoveCopy
  <1>23. CASE PutBack
    BY <1>23 DEF PutBack
  <1>24. CASE LeaveFailed
    BY <1>24 DEF LeaveFailed
  <1>25. CASE CleanupSource
    BY <1>25 DEF CleanupSource
  <1>26. CASE WriteMovedManifest
    BY <1>26 DEF WriteMovedManifest
  <1>27. CASE RegisterSource
    BY <1>27 DEF RegisterSource
  <1>28. ASSUME NEW f \in Files, RestoreFile(f) PROVE FoldersMade'
    BY <1>28 DEF RestoreFile
  <1>29. ASSUME NEW f \in Files, SkipFile(f) PROVE FoldersMade'
    BY <1>29 DEF SkipFile
  <1>30. CASE RestoreRename
    BY <1>30 DEF RestoreRename
  <1>31. CASE RestoreThrows
    BY <1>31 DEF RestoreThrows
  <1>32. CASE RestoreVerify
    BY <1>32 DEF RestoreVerify
  <1>33. CASE StartFolders
    BY <1>33 DEF StartFolders
  <1>34. ASSUME NEW d \in Folders, RestoreFolder(d) PROVE FoldersMade'
    BY <1>34 DEF RestoreFolder, Removed, FolderEmpty
  <1>35. CASE RestoreRoot
    BY <1>35 DEF RestoreRoot, Removed, FolderEmpty
  <1>36. CASE WriteOutcome
    BY <1>36 DEF WriteOutcome
  <1>37. CASE DeregisterSource
    BY <1>37 DEF DeregisterSource
  <1>38. CASE FileCallFails
    BY <1>38 DEF FileCallFails, Fault
  <1>39. CASE FailedFileStays
    BY <1>39 DEF FailedFileStays, Fault
  <1>40. CASE SourceFolderStays
    BY <1>40 DEF SourceFolderStays, Fault
  <1>41. ASSUME NEW f \in Files, RestoreFileFails(f) PROVE FoldersMade'
    BY <1>41 DEF RestoreFileFails, Fault
  <1>42. CASE RestoreVerifyFails
    BY <1>42 DEF RestoreVerifyFails, Fault
  <1>43. ASSUME NEW d \in Folders, RestoreFolderFails(d) PROVE FoldersMade'
    BY <1>43 DEF RestoreFolderFails, Fault, Removed
  <1>44. CASE RestoreRootFails
    BY <1>44 DEF RestoreRootFails, Fault, Removed
  <1>45. CASE WriteOutcomeFails
    BY <1>45 DEF WriteOutcomeFails, Fault
  <1>46. CASE Crash
    BY <1>46 DEF Crash, Fault
  <1>47. QED
    BY <1>1, <1>2, <1>3, <1>4, <1>5, <1>6, <1>7, <1>8, <1>9, <1>10, <1>11, <1>12, <1>13,
       <1>14, <1>15, <1>16, <1>17, <1>18, <1>19, <1>20, <1>21, <1>22, <1>23, <1>24, <1>25,
       <1>26, <1>27, <1>28, <1>29, <1>30, <1>31, <1>32, <1>33, <1>34, <1>35, <1>36, <1>37,
       <1>38, <1>39, <1>40, <1>41, <1>42, <1>43, <1>44, <1>45, <1>46
    DEF Next, Commands, HostStep, MoveStep, RollbackStep, CaughtFailure

\* No file is passed over.
LEMMA FilesPlacedStep == ASSUME MoveInv, Next PROVE FilesPlaced'
  <1> USE FoldersAssumption, BoundsAssumption, AbsentAssumption
      DEF FilesPlaced, FoldersMade, Progress, InHand, InMove, HandSteps, 
          FileSteps, Restorable, MoveInv, TypeOK, Operation, MoveSteps, 
          RestoreSteps, Bytes, Dirs, files, dirs, disk, history, Started, 
          Idle, Goto, AutomaticRollback
  <1>1. CASE Preflight
    BY <1>1 DEF Preflight
  <1>2. CASE ExecuteMove
    BY <1>2 DEF ExecuteMove
  <1>3. CASE RollbackCommand
    BY <1>3 DEF RollbackCommand
  <1>4. ASSUME NEW f \in Files, SaveInSource(f) PROVE FilesPlaced'
    BY <1>4 DEF SaveInSource
  <1>5. ASSUME NEW f \in Files, SaveInMemory(f) PROVE FilesPlaced'
    BY <1>5 DEF SaveInMemory
  <1>6. CASE SaveSource
    BY <1>6 DEF SaveSource
  <1>7. CASE RemoveSource
    BY <1>7 DEF RemoveSource
  <1>8. CASE MakeDestination
    BY <1>8 DEF MakeDestination
  <1>9. CASE WriteRunningManifest
    BY <1>9 DEF WriteRunningManifest
  <1>10. CASE CreateLedger
    BY <1>10 DEF CreateLedger
  <1>11. CASE WriteBoundary
    BY <1>11 DEF WriteBoundary
  <1>12. ASSUME NEW d \in Folders, MakeFolder(d) PROVE FilesPlaced'
    BY <1>12 DEF MakeFolder
  <1>13. ASSUME NEW d \in Folders, AppendFolder(d) PROVE FilesPlaced'
    BY <1>13 DEF AppendFolder
  <1>14. CASE StartFiles
    BY <1>14 DEF StartFiles
  <1>15. ASSUME NEW f \in Files, CheckFile(f) PROVE FilesPlaced'
    BY <1>15 DEF CheckFile
  <1>16. CASE Rename
    BY <1>16 DEF Rename
  <1>17. CASE Copy
    BY <1>17 DEF Copy
  <1>18. CASE VerifyCopy
    BY <1>18 DEF VerifyCopy
  <1>19. CASE Unlink
    BY <1>19 DEF Unlink
  <1>20. CASE Verify
    BY <1>20 DEF Verify
  <1>21. CASE AppendMoved
    BY <1>21 DEF AppendMoved
  <1>22. CASE RemoveCopy
    BY <1>22 DEF RemoveCopy
  <1>23. CASE PutBack
    BY <1>23 DEF PutBack
  <1>24. CASE LeaveFailed
    BY <1>24 DEF LeaveFailed
  <1>25. CASE CleanupSource
    BY <1>25 DEF CleanupSource
  <1>26. CASE WriteMovedManifest
    BY <1>26 DEF WriteMovedManifest
  <1>27. CASE RegisterSource
    BY <1>27 DEF RegisterSource
  <1>28. ASSUME NEW f \in Files, RestoreFile(f) PROVE FilesPlaced'
    BY <1>28 DEF RestoreFile
  <1>29. ASSUME NEW f \in Files, SkipFile(f) PROVE FilesPlaced'
    BY <1>29 DEF SkipFile
  <1>30. CASE RestoreRename
    BY <1>30 DEF RestoreRename
  <1>31. CASE RestoreThrows
    BY <1>31 DEF RestoreThrows
  <1>32. CASE RestoreVerify
    BY <1>32 DEF RestoreVerify
  <1>33. CASE StartFolders
    BY <1>33 DEF StartFolders
  <1>34. ASSUME NEW d \in Folders, RestoreFolder(d) PROVE FilesPlaced'
    BY <1>34 DEF RestoreFolder
  <1>35. CASE RestoreRoot
    BY <1>35 DEF RestoreRoot
  <1>36. CASE WriteOutcome
    BY <1>36 DEF WriteOutcome
  <1>37. CASE DeregisterSource
    BY <1>37 DEF DeregisterSource
  <1>38. CASE FileCallFails
    BY <1>38 DEF FileCallFails, Fault
  <1>39. CASE FailedFileStays
    BY <1>39 DEF FailedFileStays, Fault
  <1>40. CASE SourceFolderStays
    BY <1>40 DEF SourceFolderStays, Fault
  <1>41. ASSUME NEW f \in Files, RestoreFileFails(f) PROVE FilesPlaced'
    BY <1>41 DEF RestoreFileFails, Fault
  <1>42. CASE RestoreVerifyFails
    BY <1>42 DEF RestoreVerifyFails, Fault
  <1>43. ASSUME NEW d \in Folders, RestoreFolderFails(d) PROVE FilesPlaced'
    BY <1>43 DEF RestoreFolderFails, Fault
  <1>44. CASE RestoreRootFails
    BY <1>44 DEF RestoreRootFails, Fault
  <1>45. CASE WriteOutcomeFails
    BY <1>45 DEF WriteOutcomeFails, Fault
  <1>46. CASE Crash
    BY <1>46 DEF Crash, Fault
  <1>47. QED
    BY <1>1, <1>2, <1>3, <1>4, <1>5, <1>6, <1>7, <1>8, <1>9, <1>10, <1>11, <1>12, <1>13,
       <1>14, <1>15, <1>16, <1>17, <1>18, <1>19, <1>20, <1>21, <1>22, <1>23, <1>24, <1>25,
       <1>26, <1>27, <1>28, <1>29, <1>30, <1>31, <1>32, <1>33, <1>34, <1>35, <1>36, <1>37,
       <1>38, <1>39, <1>40, <1>41, <1>42, <1>43, <1>44, <1>45, <1>46
    DEF Next, Commands, HostStep, MoveStep, RollbackStep, CaughtFailure

\* A file in Memory keeps its folders.
LEMMA HousedStep == ASSUME MoveInv, Next PROVE Housed'
  <1> USE FoldersAssumption, BoundsAssumption, AbsentAssumption
      DEF Housed, FoldersMade, Progress, InMove, HandSteps, FileSteps, 
          MoveInv, TypeOK, Operation, MoveSteps, RestoreSteps, Bytes, 
          Dirs, files, dirs, disk, history, Started, Idle, Goto, 
          AutomaticRollback
  <1>1. CASE UNCHANGED <<dst, dstDirs>>
    BY <1>1
  <1>2. ASSUME NEW f \in Files, SaveInMemory(f) PROVE Housed'
    BY <1>2 DEF SaveInMemory
  <1>3. CASE MakeDestination
    BY <1>3 DEF MakeDestination
  <1>4. ASSUME NEW d \in Folders, MakeFolder(d) PROVE Housed'
    BY <1>4 DEF MakeFolder
  <1>5. CASE Rename
    BY <1>5 DEF Rename
  <1>6. CASE Copy
    BY <1>6 DEF Copy
  <1>7. CASE RemoveCopy
    BY <1>7 DEF RemoveCopy
  <1>8. CASE RestoreRename
    BY <1>8 DEF RestoreRename
  <1>9. ASSUME NEW d \in Folders, RestoreFolder(d) PROVE Housed'
    BY <1>9 DEF RestoreFolder, Removed, FolderEmpty
  <1>10. CASE RestoreRoot
    BY <1>10 DEF RestoreRoot, Removed, FolderEmpty
  <1>11. ASSUME NEW d \in Folders, RestoreFolderFails(d) PROVE Housed'
    BY <1>11 DEF RestoreFolderFails, Removed, FolderEmpty, Fault
  <1>12. CASE RestoreRootFails
    BY <1>12 DEF RestoreRootFails, Removed, FolderEmpty, Fault
  <1>13. ASSUME \/ FileCallFails \/ FailedFileStays \/ SourceFolderStays
                \/ (\E f \in Files : RestoreFileFails(f))
                \/ RestoreVerifyFails \/ WriteOutcomeFails \/ Crash
         PROVE  UNCHANGED <<dst, dstDirs>>
    BY <1>13 DEF Fault, FileCallFails, FailedFileStays, SourceFolderStays, RestoreFileFails,
                 RestoreVerifyFails, WriteOutcomeFails, Crash
  <1>14. QED
    BY <1>1, <1>2, <1>3, <1>4, <1>5, <1>6, <1>7, <1>8, <1>9, <1>10, <1>11, <1>12, <1>13
    DEF Next, Commands, HostStep, MoveStep, RollbackStep, CaughtFailure, Preflight,
        ExecuteMove, RollbackCommand, SaveInSource, SaveSource, RemoveSource,
        WriteRunningManifest, CreateLedger, WriteBoundary, AppendFolder, StartFiles,
        CheckFile, VerifyCopy, Unlink, Verify, AppendMoved, PutBack, LeaveFailed,
        CleanupSource, WriteMovedManifest, RegisterSource, RestoreFile, SkipFile,
        RestoreThrows, RestoreVerify, StartFolders, WriteOutcome, DeregisterSource

\* What was checked of the file in hand still holds.
LEMMA InHandStep == ASSUME MoveInv, Next PROVE InHand'
  <1> USE FoldersAssumption, BoundsAssumption, AbsentAssumption
      DEF InHand, FilesPlaced, Progress, FileKept, InMove, HandSteps, 
          FileSteps, Restorable, MoveInv, TypeOK, Operation, MoveSteps, 
          RestoreSteps, Bytes, Dirs, files, dirs, disk, history, Started, 
          Idle, Goto, AutomaticRollback
  <1>1. CASE Preflight
    BY <1>1 DEF Preflight
  <1>2. CASE ExecuteMove
    BY <1>2 DEF ExecuteMove
  <1>3. CASE RollbackCommand
    BY <1>3 DEF RollbackCommand
  <1>4. ASSUME NEW f \in Files, SaveInSource(f) PROVE InHand'
    BY <1>4, SaveInHand
  <1>5. ASSUME NEW f \in Files, SaveInMemory(f) PROVE InHand'
    BY <1>5, SaveInHand
  <1>6. CASE SaveSource
    BY <1>6 DEF SaveSource
  <1>7. CASE RemoveSource
    BY <1>7 DEF RemoveSource
  <1>8. CASE MakeDestination
    BY <1>8 DEF MakeDestination
  <1>9. CASE WriteRunningManifest
    BY <1>9 DEF WriteRunningManifest
  <1>10. CASE CreateLedger
    BY <1>10 DEF CreateLedger
  <1>11. CASE WriteBoundary
    BY <1>11 DEF WriteBoundary
  <1>12. ASSUME NEW d \in Folders, MakeFolder(d) PROVE InHand'
    BY <1>12 DEF MakeFolder
  <1>13. ASSUME NEW d \in Folders, AppendFolder(d) PROVE InHand'
    BY <1>13 DEF AppendFolder
  <1>14. CASE StartFiles
    BY <1>14 DEF StartFiles
  <1>15. ASSUME NEW f \in Files, CheckFile(f) PROVE InHand'
    BY <1>15 DEF CheckFile
  <1>16. CASE Rename
    BY <1>16 DEF Rename
  <1>17. CASE Copy
    BY <1>17 DEF Copy
  <1>18. CASE VerifyCopy
    BY <1>18 DEF VerifyCopy
  <1>19. CASE Unlink
    BY <1>19 DEF Unlink
  <1>20. CASE Verify
    BY <1>20 DEF Verify
  <1>21. CASE AppendMoved
    BY <1>21 DEF AppendMoved
  <1>22. CASE RemoveCopy
    BY <1>22 DEF RemoveCopy
  <1>23. CASE PutBack
    BY <1>23 DEF PutBack
  <1>24. CASE LeaveFailed
    BY <1>24 DEF LeaveFailed
  <1>25. CASE CleanupSource
    BY <1>25 DEF CleanupSource
  <1>26. CASE WriteMovedManifest
    BY <1>26 DEF WriteMovedManifest
  <1>27. CASE RegisterSource
    BY <1>27 DEF RegisterSource
  <1>28. ASSUME NEW f \in Files, RestoreFile(f) PROVE InHand'
    BY <1>28 DEF RestoreFile
  <1>29. ASSUME NEW f \in Files, SkipFile(f) PROVE InHand'
    BY <1>29 DEF SkipFile
  <1>30. CASE RestoreRename
    BY <1>30 DEF RestoreRename
  <1>31. CASE RestoreThrows
    BY <1>31 DEF RestoreThrows
  <1>32. CASE RestoreVerify
    BY <1>32 DEF RestoreVerify
  <1>33. CASE StartFolders
    BY <1>33 DEF StartFolders
  <1>34. ASSUME NEW d \in Folders, RestoreFolder(d) PROVE InHand'
    BY <1>34 DEF RestoreFolder
  <1>35. CASE RestoreRoot
    BY <1>35 DEF RestoreRoot
  <1>36. CASE WriteOutcome
    BY <1>36 DEF WriteOutcome
  <1>37. CASE DeregisterSource
    BY <1>37 DEF DeregisterSource
  <1>38. CASE FileCallFails
    BY <1>38 DEF FileCallFails, Fault
  <1>39. CASE FailedFileStays
    BY <1>39 DEF FailedFileStays, Fault
  <1>40. CASE SourceFolderStays
    BY <1>40 DEF SourceFolderStays, Fault
  <1>41. ASSUME NEW f \in Files, RestoreFileFails(f) PROVE InHand'
    BY <1>41 DEF RestoreFileFails, Fault
  <1>42. CASE RestoreVerifyFails
    BY <1>42 DEF RestoreVerifyFails, Fault
  <1>43. ASSUME NEW d \in Folders, RestoreFolderFails(d) PROVE InHand'
    BY <1>43 DEF RestoreFolderFails, Fault
  <1>44. CASE RestoreRootFails
    BY <1>44 DEF RestoreRootFails, Fault
  <1>45. CASE WriteOutcomeFails
    BY <1>45 DEF WriteOutcomeFails, Fault
  <1>46. CASE Crash
    BY <1>46 DEF Crash, Fault
  <1>47. QED
    BY <1>1, <1>2, <1>3, <1>4, <1>5, <1>6, <1>7, <1>8, <1>9, <1>10, <1>11, <1>12, <1>13,
       <1>14, <1>15, <1>16, <1>17, <1>18, <1>19, <1>20, <1>21, <1>22, <1>23, <1>24, <1>25,
       <1>26, <1>27, <1>28, <1>29, <1>30, <1>31, <1>32, <1>33, <1>34, <1>35, <1>36, <1>37,
       <1>38, <1>39, <1>40, <1>41, <1>42, <1>43, <1>44, <1>45, <1>46
    DEF Next, Commands, HostStep, MoveStep, RollbackStep, CaughtFailure

\* A rollback that skips nothing empties Memory.
LEMMA EmptyWhenDoneStep == ASSUME MoveInv, Next PROVE EmptyWhenDone'
  <1> USE FoldersAssumption, BoundsAssumption, AbsentAssumption
      DEF EmptyWhenDone, Housed, Progress, InMove, HandSteps, FileSteps, 
          Outcome, MoveInv, TypeOK, Operation, MoveSteps, RestoreSteps, 
          Bytes, Dirs, files, dirs, disk, history, Started, Idle, Goto, 
          AutomaticRollback
  <1>1. CASE Preflight
    BY <1>1 DEF Preflight
  <1>2. CASE ExecuteMove
    BY <1>2 DEF ExecuteMove
  <1>3. CASE RollbackCommand
    BY <1>3 DEF RollbackCommand
  <1>4. ASSUME NEW f \in Files, SaveInSource(f) PROVE EmptyWhenDone'
    BY <1>4 DEF SaveInSource
  <1>5. ASSUME NEW f \in Files, SaveInMemory(f) PROVE EmptyWhenDone'
    BY <1>5 DEF SaveInMemory
  <1>6. CASE SaveSource
    BY <1>6 DEF SaveSource
  <1>7. CASE RemoveSource
    BY <1>7 DEF RemoveSource
  <1>8. CASE MakeDestination
    BY <1>8 DEF MakeDestination
  <1>9. CASE WriteRunningManifest
    BY <1>9 DEF WriteRunningManifest
  <1>10. CASE CreateLedger
    BY <1>10 DEF CreateLedger
  <1>11. CASE WriteBoundary
    BY <1>11 DEF WriteBoundary
  <1>12. ASSUME NEW d \in Folders, MakeFolder(d) PROVE EmptyWhenDone'
    BY <1>12 DEF MakeFolder
  <1>13. ASSUME NEW d \in Folders, AppendFolder(d) PROVE EmptyWhenDone'
    BY <1>13 DEF AppendFolder
  <1>14. CASE StartFiles
    BY <1>14 DEF StartFiles
  <1>15. ASSUME NEW f \in Files, CheckFile(f) PROVE EmptyWhenDone'
    BY <1>15 DEF CheckFile
  <1>16. CASE Rename
    BY <1>16 DEF Rename
  <1>17. CASE Copy
    BY <1>17 DEF Copy
  <1>18. CASE VerifyCopy
    BY <1>18 DEF VerifyCopy
  <1>19. CASE Unlink
    BY <1>19 DEF Unlink
  <1>20. CASE Verify
    BY <1>20 DEF Verify
  <1>21. CASE AppendMoved
    BY <1>21 DEF AppendMoved
  <1>22. CASE RemoveCopy
    BY <1>22 DEF RemoveCopy
  <1>23. CASE PutBack
    BY <1>23 DEF PutBack
  <1>24. CASE LeaveFailed
    BY <1>24 DEF LeaveFailed
  <1>25. CASE CleanupSource
    BY <1>25 DEF CleanupSource
  <1>26. CASE WriteMovedManifest
    BY <1>26 DEF WriteMovedManifest
  <1>27. CASE RegisterSource
    BY <1>27 DEF RegisterSource
  <1>28. ASSUME NEW f \in Files, RestoreFile(f) PROVE EmptyWhenDone'
    BY <1>28 DEF RestoreFile
  <1>29. ASSUME NEW f \in Files, SkipFile(f) PROVE EmptyWhenDone'
    BY <1>29 DEF SkipFile
  <1>30. CASE RestoreRename
    BY <1>30 DEF RestoreRename
  <1>31. CASE RestoreThrows
    BY <1>31 DEF RestoreThrows
  <1>32. CASE RestoreVerify
    BY <1>32 DEF RestoreVerify
  <1>33. CASE StartFolders
    BY <1>33 DEF StartFolders
  <1>34. ASSUME NEW d \in Folders, RestoreFolder(d) PROVE EmptyWhenDone'
    BY <1>34 DEF RestoreFolder, Removed, FolderEmpty
  <1>35. CASE RestoreRoot
    BY <1>35 DEF RestoreRoot, Removed, FolderEmpty
  <1>36. CASE WriteOutcome
    BY <1>36 DEF WriteOutcome
  <1>37. CASE DeregisterSource
    BY <1>37 DEF DeregisterSource
  <1>38. CASE FileCallFails
    BY <1>38 DEF FileCallFails, Fault
  <1>39. CASE FailedFileStays
    BY <1>39 DEF FailedFileStays, Fault
  <1>40. CASE SourceFolderStays
    BY <1>40 DEF SourceFolderStays, Fault
  <1>41. ASSUME NEW f \in Files, RestoreFileFails(f) PROVE EmptyWhenDone'
    BY <1>41 DEF RestoreFileFails, Fault
  <1>42. CASE RestoreVerifyFails
    BY <1>42 DEF RestoreVerifyFails, Fault
  <1>43. ASSUME NEW d \in Folders, RestoreFolderFails(d) PROVE EmptyWhenDone'
    BY <1>43 DEF RestoreFolderFails, Fault
  <1>44. CASE RestoreRootFails
    BY <1>44 DEF RestoreRootFails, Fault
  <1>45. CASE WriteOutcomeFails
    BY <1>45 DEF WriteOutcomeFails, Fault
  <1>46. CASE Crash
    BY <1>46 DEF Crash, Fault
  <1>47. QED
    BY <1>1, <1>2, <1>3, <1>4, <1>5, <1>6, <1>7, <1>8, <1>9, <1>10, <1>11, <1>12, <1>13,
       <1>14, <1>15, <1>16, <1>17, <1>18, <1>19, <1>20, <1>21, <1>22, <1>23, <1>24, <1>25,
       <1>26, <1>27, <1>28, <1>29, <1>30, <1>31, <1>32, <1>33, <1>34, <1>35, <1>36, <1>37,
       <1>38, <1>39, <1>40, <1>41, <1>42, <1>43, <1>44, <1>45, <1>46
    DEF Next, Commands, HostStep, MoveStep, RollbackStep, CaughtFailure

\* Fewer files outside the ledger are at most one, if there was at most one.
LEMMA UnledgeredShrinks ==
    ASSUME AtMostOneUnledgered, Unledgered' \subseteq Unledgered
    PROVE  AtMostOneUnledgered'
BY DEF AtMostOneUnledgered

\* Only the file in hand is in Memory and not in the ledger.
LEMMA UnledgeredStep == ASSUME MoveInv, Next PROVE AtMostOneUnledgered'
  <1> USE FoldersAssumption, BoundsAssumption, AbsentAssumption
      DEF AtMostOneUnledgered, FilesPlaced, Progress, InHand, InMove, 
          HandSteps, FileSteps, MoveInv, TypeOK, Operation, MoveSteps, 
          RestoreSteps, Bytes, Dirs, files, dirs, disk, history, Started, 
          Idle, Goto, AutomaticRollback
  <1>1. CASE UNCHANGED <<dst, ledger>>
    BY <1>1 DEF Unledgered
  <1>2. ASSUME NEW f \in Files, SaveInMemory(f) PROVE AtMostOneUnledgered'
    <2>1. Unledgered' \subseteq Unledgered
      BY <1>2, UnledgeredKept
    <2>2. QED
      BY <2>1, UnledgeredShrinks DEF MoveInv
  <1>3. CASE Rename
    BY <1>3 DEF Rename, Unledgered
  <1>4. CASE Copy
    BY <1>4 DEF Copy, Unledgered
  <1>5. CASE AppendMoved
    <2>1. Unledgered' \subseteq Unledgered
      BY <1>5 DEF AppendMoved, Unledgered
    <2>2. QED
      BY <2>1, UnledgeredShrinks DEF MoveInv
  <1>6. CASE RemoveCopy
    <2>1. Unledgered' \subseteq Unledgered
      BY <1>6, UnledgeredKept
    <2>2. QED
      BY <2>1, UnledgeredShrinks DEF MoveInv
  <1>7. CASE RestoreRename
    <2>1. Unledgered' \subseteq Unledgered
      BY <1>7 DEF RestoreRename, Unledgered
    <2>2. QED
      BY <2>1, UnledgeredShrinks DEF MoveInv
  <1>8. ASSUME NEW d \in Folders, AppendFolder(d) PROVE AtMostOneUnledgered'
    <2>1. Unledgered' \subseteq Unledgered
      BY <1>8 DEF AppendFolder, Unledgered
    <2>2. QED
      BY <2>1, UnledgeredShrinks DEF MoveInv
  <1>9. CASE CreateLedger
    <2>1. Unledgered' \subseteq Unledgered
      BY <1>9 DEF CreateLedger, Unledgered
    <2>2. QED
      BY <2>1, UnledgeredShrinks DEF MoveInv
  <1>10. QED
    BY <1>1, <1>2, <1>3, <1>4, <1>5, <1>6, <1>7, <1>8, <1>9, FailureIsFault
    DEF Next, Commands, HostStep, MoveStep, RollbackStep, Preflight, 
        ExecuteMove, RollbackCommand, SaveInSource, SaveSource, RemoveSource, 
        MakeDestination, WriteRunningManifest, WriteBoundary, MakeFolder, StartFiles, CheckFile, 
        VerifyCopy, Unlink, Verify, PutBack, LeaveFailed, CleanupSource, 
        WriteMovedManifest, RegisterSource, RestoreFile, SkipFile, RestoreThrows, 
        RestoreVerify, StartFolders, RestoreFolder, RestoreRoot, WriteOutcome,
        DeregisterSource, Fault

\* What stands in the settings was moved and recorded whole.
LEMMA RegisteredStep == ASSUME MoveInv, Next PROVE RegisteredIsRecoverable'
  <1> USE FoldersAssumption, BoundsAssumption, AbsentAssumption
      DEF RegisteredIsRecoverable, FilesPlaced, Progress, InMove, 
          HandSteps, FileSteps, MoveInv, TypeOK, Operation, MoveSteps, 
          RestoreSteps, Bytes, Dirs, files, dirs, disk, history, Started, 
          Idle, Goto, AutomaticRollback
  <1>1. CASE UNCHANGED <<ledger, manifest, source>>
    BY <1>1
  <1>2. CASE RemoveSource
    BY <1>2 DEF RemoveSource
  <1>3. CASE SaveSource
    BY <1>3 DEF SaveSource
  <1>4. CASE WriteRunningManifest
    BY <1>4 DEF WriteRunningManifest
  <1>5. CASE CreateLedger
    BY <1>5 DEF CreateLedger
  <1>6. ASSUME NEW d \in Folders, AppendFolder(d) PROVE RegisteredIsRecoverable'
    BY <1>6 DEF AppendFolder
  <1>7. CASE AppendMoved
    BY <1>7 DEF AppendMoved
  <1>8. CASE WriteMovedManifest
    BY <1>8 DEF WriteMovedManifest
  <1>9. CASE RegisterSource
    BY <1>9 DEF RegisterSource
  <1>10. CASE WriteOutcome
    BY <1>10 DEF WriteOutcome
  <1>11. CASE DeregisterSource
    BY <1>11 DEF DeregisterSource
  <1>12. QED
    BY <1>1, <1>2, <1>3, <1>4, <1>5, <1>6, <1>7, <1>8, <1>9, <1>10, <1>11, FailureIsFault
    DEF Next, Commands, HostStep, MoveStep, RollbackStep, Preflight, 
        ExecuteMove, RollbackCommand, SaveInSource, SaveInMemory, MakeDestination, 
        WriteBoundary, MakeFolder, StartFiles, CheckFile, Rename, Copy, VerifyCopy, Unlink, 
        Verify, RemoveCopy, PutBack, LeaveFailed, CleanupSource, RestoreFile, 
        SkipFile, RestoreRename, RestoreThrows, RestoreVerify,
        StartFolders, RestoreFolder, RestoreRoot, Fault

LEMMA InitInv == Init => MoveInv
<1> SUFFICES ASSUME Init PROVE MoveInv
  OBVIOUS
<1> USE FoldersAssumption, BoundsAssumption, AbsentAssumption DEF Init
<1>1. TypeOK
  <2>1. src \in [Files -> Bytes \cup {Absent}] /\ saves \in 0..MaxSaves
    BY DEF Bytes
  <2>2. op \in Operation
    BY DEF Operation, Idle, Started
  <2>3. QED
    BY <2>1, <2>2 DEF TypeOK
<1>2. /\ \A f \in Files : FileKept(f)
      /\ Progress /\ FoldersMade /\ FilesPlaced /\ InHand
  BY DEF FileKept, Progress, FoldersMade, FilesPlaced, InHand, InMove,
         HandSteps, FileSteps, MoveSteps, Idle, Started
<1>3. Housed /\ EmptyWhenDone /\ AtMostOneUnledgered /\ RegisteredIsRecoverable
  BY DEF Housed, EmptyWhenDone, AtMostOneUnledgered, Unledgered,
         RegisteredIsRecoverable
<1>4. QED
  BY <1>1, <1>2, <1>3 DEF MoveInv

\* Every step keeps the invariant.
LEMMA StepInv == MoveInv /\ [Next]_vars => MoveInv'
<1>1. ASSUME MoveInv, Next PROVE MoveInv'
  BY <1>1, TypeStep, KeptStep, ProgressStep, FoldersMadeStep, FilesPlacedStep,
     HousedStep, InHandStep, EmptyWhenDoneStep, UnledgeredStep, RegisteredStep
  DEF MoveInv
<1>2. ASSUME MoveInv, UNCHANGED vars PROVE MoveInv'
  <2> USE <1>2 DEF MoveInv, vars, files, dirs, disk, history
  <2>1. TypeOK' /\ RegisteredIsRecoverable'
    BY DEF TypeOK, RegisteredIsRecoverable
  <2>2. Progress' /\ FoldersMade' /\ FilesPlaced'
    BY DEF Progress, FoldersMade, FilesPlaced, InMove
  <2>3. Housed' /\ InHand' /\ EmptyWhenDone'
    BY DEF Housed, InHand, EmptyWhenDone
  <2>4. (\A f \in Files : FileKept(f))' /\ AtMostOneUnledgered'
    BY DEF FileKept, AtMostOneUnledgered, Unledgered
  <2>5. QED
    BY <2>1, <2>2, <2>3, <2>4
<1>3. QED
  BY <1>1, <1>2

\* The invariant holds in every state of a move and its rollbacks.
THEOREM MoveInvariant == Spec => []MoveInv
<1>1. QED
  BY InitInv, StepInv, PTL DEF Spec

\* Types are kept (memory-source-move.mjs, every step).
THEOREM MoveTypeCorrect == Spec => []TypeOK
<1>1. MoveInv => TypeOK
  BY DEF MoveInv
<1>2. QED
  BY <1>1, MoveInvariant, PTL

\* A move recorded as restored left every file in the source and none in
\* Memory, whatever was saved, skipped or crashed: EmptyWhenDone, and that
\* every file is on one side.
THEOREM RestoredIsBack == Spec => []RestoredMeansBack
<1>1. MoveInv => RestoredMeansBack
  BY DEF MoveInv, EmptyWhenDone, FileKept, RestoredMeansBack
<1>2. QED
  BY <1>1, MoveInvariant, PTL

\* The ledger misses one file at most, for any number of files and crashes.
THEOREM LedgerMissesOne == Spec => []AtMostOneUnledgered
<1>1. MoveInv => AtMostOneUnledgered
  BY DEF MoveInv
<1>2. QED
  BY <1>1, MoveInvariant, PTL

\* A registered source was moved whole, and its ledger names every file.
THEOREM RegisteredRecoverable == Spec => []RegisteredIsRecoverable
<1>1. MoveInv => RegisteredIsRecoverable
  BY DEF MoveInv
<1>2. QED
  BY <1>1, MoveInvariant, PTL

KeepsBytes ==
    saves' = saves =>
        \A f \in Files \ raced :
            {src[f], dst[f]} \ {Absent} \subseteq {src'[f], dst'[f]}

\* A save counts.
LEMMA NoSave ==
    ASSUME saves \in 0..MaxSaves, saves' = saves
    PROVE  ~\E f \in Files : SaveInSource(f) \/ SaveInMemory(f)
BY BoundsAssumption DEF SaveInSource, SaveInMemory

\* Only five steps of the host touch a file, and each has in hand what it
\* takes: the other side has the bytes, or none.
LEMMA StepKeepsBytes == ASSUME MoveInv, [Next]_vars PROVE KeepsBytes
<1> SUFFICES ASSUME saves' = saves, NEW f \in Files, f \notin raced
             PROVE  {src[f], dst[f]} \ {Absent} \subseteq {src'[f], dst'[f]}
  BY DEF KeepsBytes
<1> USE DEF MoveInv, TypeOK, Progress, FilesPlaced, InHand, InMove, HandSteps, FileSteps
<1>1. CASE UNCHANGED <<src, dst>>
  BY <1>1
<1>2. CASE Rename
  BY <1>2 DEF Rename
<1>3. CASE Copy
  BY <1>3 DEF Copy
<1>4. CASE Unlink
  BY <1>4 DEF Unlink
<1>5. CASE RemoveCopy
  BY <1>5 DEF RemoveCopy
<1>6. CASE RestoreRename
  BY <1>6 DEF RestoreRename
<1>7. ~\E g \in Files : SaveInSource(g) \/ SaveInMemory(g)
  BY NoSave
<1>8. QED
  BY <1>1, <1>2, <1>3, <1>4, <1>5, <1>6, <1>7, FailureIsFault
  DEF Next, Commands, HostStep, MoveStep, RollbackStep, vars, files,
      Preflight, ExecuteMove, RollbackCommand, SaveSource, RemoveSource,
      MakeDestination, WriteRunningManifest, CreateLedger, WriteBoundary, MakeFolder,
      AppendFolder, StartFiles, CheckFile, VerifyCopy, Verify, AppendMoved,
      PutBack, LeaveFailed, CleanupSource, WriteMovedManifest,
      RegisterSource, RestoreFile, SkipFile, RestoreThrows, RestoreVerify,
      StartFolders, RestoreFolder, RestoreRoot, WriteOutcome, DeregisterSource, Fault

\* No step of the host loses bytes that were not saved in a race with it.
THEOREM BytesAreKept == Spec => NothingLost
<1>1. MoveInv /\ [Next]_vars => [KeepsBytes]_vars
  BY StepKeepsBytes
<1>2. QED
  BY <1>1, MoveInvariant, PTL DEF Spec, NothingLost, KeepsBytes

-----------------------------------------------------------------------------
(* Without a save and a fault, on one volume, no step of a move or of a      *)
(* rollback can fail, and each file is where the step of the operation says. *)

Undisturbed == saves = 0 /\ faults = 0 /\ volume = "same"

AtHome(f) == src[f] = 0 /\ dst[f] = Absent
InMemory(f) == src[f] = Absent /\ dst[f] = 0

NothingFails ==
    /\ ~op.skipped
    /\ op.mode # "automatic"
    /\ op.pc \notin {"verify-copy", "unlink", "failed"}
    /\ op.mode = "move" => op.pc \in MoveSteps
    /\ op.pc # "idle" \/ manifest.status # "none" => \A f \in Files : approval[f] = 0

\* Before the move, and after its rollback.
AllAtHome ==
    (\/ manifest.status = "none"
     \/ manifest.rollback = "restored"
     \/ op.pc \in {"destination", "manifest", "ledger", "boundary", "folders",
                   "restore-folders", "report", "deregister"})
    => \A f \in Files : AtHome(f)

\* Between the move and its rollback.
AllInMemory ==
    /\ (\/ op.pc \in {"moved", "register"}
        \/ op.pc = "idle" /\ ledger.written /\ manifest.rollback # "restored")
       => /\ \A f \in Files : InMemory(f)
          /\ ledger.moved = Files
    /\ ledger.written /\ op.pc \notin {"folders", "boundary"} => ledger.folders = Folders

\* During either, the files still to be renamed, the one in hand with them,
\* are on the one side and the others on the other.
PartlyThere ==
    /\ op.pc \in {"files", "rename", "verify", "append"} =>
         \A f \in Files : IF f \in op.todo \/ (op.pc = "rename" /\ f = op.file)
                          THEN AtHome(f) ELSE InMemory(f)
    /\ op.pc \in {"restore", "restore-rename", "restore-verify"} =>
         \A f \in Files : IF f \in op.todo \/ (op.pc = "restore-rename" /\ f = op.file)
                          THEN InMemory(f) ELSE AtHome(f)
    /\ op.pc \in {"restore-rename", "restore-verify"} => op.file \notin op.todo

\* The rollback leaves no folder but the root, then none, and says so.
FoldersGone ==
    /\ op.pc = "restore-folders" => dstDirs \subseteq op.todo \cup {Root}
    /\ op.pc = "deregister" => manifest.rollback = "restored"

OnItsWay == NothingFails /\ AllAtHome /\ AllInMemory /\ PartlyThere /\ FoldersGone

Straight == Undisturbed => OnItsWay

\* A step of the host stays on the volume, and is no save and no fault.
LEMMA HostStays == ASSUME HostStep PROVE UNCHANGED <<volume, saves, faults>>
<1> USE DEF history
<1>1. ASSUME MoveStep  PROVE UNCHANGED <<volume, saves, faults>>
  <2>1. CASE CleanupSource
    BY <2>1 DEF CleanupSource
  <2>2. ASSUME NEW f \in Files, CheckFile(f)  PROVE UNCHANGED <<volume, saves, faults>>
    BY <2>2 DEF CheckFile
  <2>3. ASSUME NEW d \in Folders, MakeFolder(d) \/ AppendFolder(d)
        PROVE  UNCHANGED <<volume, saves, faults>>
    BY <2>3 DEF MakeFolder, AppendFolder
  <2>4. CASE \/ MakeDestination \/ WriteRunningManifest \/ CreateLedger \/ WriteBoundary
             \/ StartFiles
    BY <2>4 DEF MakeDestination, WriteRunningManifest, CreateLedger, WriteBoundary, StartFiles
  <2>5. CASE Rename \/ Copy \/ VerifyCopy \/ Unlink \/ Verify \/ AppendMoved
    BY <2>5 DEF Rename, Copy, VerifyCopy, Unlink, Verify, AppendMoved
  <2>6. CASE \/ RemoveCopy \/ PutBack \/ LeaveFailed
             \/ WriteMovedManifest \/ RegisterSource
    BY <2>6 DEF RemoveCopy, PutBack, LeaveFailed, WriteMovedManifest, RegisterSource
  <2>7. QED
    BY <1>1, <2>1, <2>2, <2>3, <2>4, <2>5, <2>6 DEF MoveStep
<1>2. ASSUME RollbackStep  PROVE UNCHANGED <<volume, saves, faults>>
  <2>1. ASSUME NEW f \in Files, RestoreFile(f) \/ SkipFile(f)
        PROVE  UNCHANGED <<volume, saves, faults>>
    BY <2>1 DEF RestoreFile, SkipFile
  <2>2. CASE StartFolders \/ (\E d \in Folders : RestoreFolder(d)) \/ RestoreRoot
    BY <2>2 DEF StartFolders, RestoreFolder, RestoreRoot
  <2>3. CASE RestoreRename \/ RestoreThrows \/ RestoreVerify \/ WriteOutcome \/ DeregisterSource
    BY <2>3 DEF RestoreRename, RestoreThrows, RestoreVerify, WriteOutcome, DeregisterSource
  <2>4. QED
    BY <1>2, <2>1, <2>2, <2>3 DEF RollbackStep
<1>3. QED
  BY <1>1, <1>2 DEF HostStep

\* What was undisturbed after a step was so before it, and no file was saved
\* and no call failed in it.
LEMMA UndisturbedBefore ==
    ASSUME MoveInv, Next, Undisturbed'
    PROVE  /\ Undisturbed
           /\ ~ \E f \in Files : SaveInSource(f) \/ SaveInMemory(f)
           /\ ~ CaughtFailure /\ ~ Crash
<1>1. saves \in Nat /\ faults \in Nat
  BY BoundsAssumption DEF MoveInv, TypeOK
<1>2. /\ ~ \E f \in Files : SaveInSource(f) \/ SaveInMemory(f)
      /\ ~ CaughtFailure /\ ~ Crash
  BY <1>1, FailureIsFault DEF Undisturbed, SaveInSource, SaveInMemory, Fault
<1>3. ASSUME Preflight \/ ExecuteMove \/ RollbackCommand \/ SaveSource \/ RemoveSource
      PROVE  UNCHANGED <<volume, saves, faults>>
  BY <1>3 DEF Preflight, ExecuteMove, RollbackCommand, SaveSource, RemoveSource, history
<1>4. UNCHANGED <<volume, saves, faults>>
  BY <1>2, <1>3, HostStays DEF Next, Commands
<1>5. QED
  BY <1>2, <1>4 DEF Undisturbed

\* The rename of a rollback puts the file in hand back.
LEMMA RenamedBack ==
    ASSUME MoveInv, OnItsWay, RestoreRename  PROVE OnItsWay'
<1>1. /\ op \in Operation /\ src \in [Files -> Bytes \cup {Absent}]
      /\ dst \in [Files -> Bytes \cup {Absent}] /\ op.file \in Files
  BY DEF RestoreRename, MoveInv, TypeOK, Progress, HandSteps
<1>2. /\ op.pc = "restore-rename"
      /\ src' = [src EXCEPT ![op.file] = dst[op.file]]
      /\ dst' = [dst EXCEPT ![op.file] = Absent]
      /\ UNCHANGED <<approval, ledger, manifest, dstDirs>>
  BY DEF RestoreRename, dirs, disk
<1>3. /\ op'.pc = "restore-verify" /\ op'.todo = op.todo /\ op'.file = op.file
      /\ op'.skipped = op.skipped /\ op'.mode = op.mode
  BY <1>1 DEF RestoreRename, Goto, Operation
<1>4. InMemory(op.file)
  BY <1>1, <1>2 DEF OnItsWay, PartlyThere
<1>5. AtHome(op.file)' /\ op.file \notin op.todo
  BY <1>1, <1>2, <1>3, <1>4 DEF InMemory, AtHome, OnItsWay, PartlyThere
<1>6. ASSUME NEW f \in Files, f # op.file
      PROVE  (AtHome(f) <=> AtHome(f)') /\ (InMemory(f) <=> InMemory(f)')
  BY <1>1, <1>2, <1>6 DEF AtHome, InMemory
<1>7. PartlyThere'
  <2>1. ASSUME NEW f \in Files  PROVE IF f \in op.todo THEN InMemory(f)' ELSE AtHome(f)'
    <3>1. CASE f = op.file
      BY <1>3, <1>5, <3>1
    <3>2. CASE f # op.file
      <4>1. IF f \in op.todo THEN InMemory(f) ELSE AtHome(f)
        BY <1>2, <3>2 DEF OnItsWay, PartlyThere
      <4>2. (AtHome(f) <=> AtHome(f)') /\ (InMemory(f) <=> InMemory(f)')
        BY <1>6, <3>2
      <4>3. QED
        BY <4>1, <4>2
    <3>3. QED
      BY <3>1, <3>2
  <2>2. QED
    BY <1>3, <1>5, <2>1 DEF PartlyThere
<1>8. ~ (manifest.status = "none" \/ manifest.rollback = "restored")
  BY <1>1, <1>2, <1>4, AbsentAssumption DEF OnItsWay, AllAtHome, AtHome, InMemory
<1>9. NothingFails'
  BY <1>2, <1>3 DEF OnItsWay, NothingFails, MoveSteps
<1>10. AllAtHome' /\ AllInMemory' /\ FoldersGone'
  BY <1>2, <1>3, <1>8 DEF OnItsWay, AllAtHome, AllInMemory, FoldersGone
<1>11. QED
  BY <1>7, <1>9, <1>10 DEF OnItsWay

\* And its check finds the bytes that were moved.
LEMMA VerifiedBack ==
    ASSUME MoveInv, OnItsWay, RestoreVerify  PROVE OnItsWay'
<1>1. op \in Operation /\ op.file \in Files
  BY DEF RestoreVerify, MoveInv, TypeOK, Progress, HandSteps
<1>2. op.pc = "restore-verify" /\ op.mode # "move"
      /\ UNCHANGED <<src, dst, approval, ledger, manifest, dstDirs>>
  BY DEF RestoreVerify, files, dirs, disk, OnItsWay, NothingFails, MoveSteps
<1>3. AtHome(op.file) /\ approval[op.file] = 0
  BY <1>1, <1>2 DEF OnItsWay, PartlyThere, NothingFails
<1>4. /\ op'.pc = "restore" /\ op'.todo = op.todo /\ op'.mode = op.mode
      /\ op'.skipped = op.skipped
  BY <1>1, <1>2, <1>3 DEF RestoreVerify, Operation, OnItsWay, NothingFails, AtHome
<1>5. NothingFails' /\ AllAtHome' /\ AllInMemory' /\ FoldersGone'
  BY <1>2, <1>4 DEF OnItsWay, NothingFails, AllAtHome, AllInMemory, FoldersGone, AtHome,
                    InMemory
<1>6. PartlyThere'
  BY <1>2, <1>4 DEF OnItsWay, PartlyThere, AtHome, InMemory
<1>7. QED
  BY <1>5, <1>6 DEF OnItsWay

\* Nothing takes a move or a rollback off its way then.
LEMMA StraightStep ==
    ASSUME MoveInv, Straight, Next, Undisturbed'
    PROVE  OnItsWay'
  <1> USE FoldersAssumption, BoundsAssumption, AbsentAssumption
      DEF Progress, FoldersMade, FilesPlaced, InMove, HandSteps, FileSteps, MoveInv, TypeOK,
          Operation, MoveSteps, RestoreSteps, Dirs, files, dirs, disk, history, Started,
          Idle, Goto, AutomaticRollback, NothingFails, AllAtHome, AllInMemory, PartlyThere,
          FoldersGone, AtHome, InMemory
  <1>0. Undisturbed /\ OnItsWay
    BY UndisturbedBefore DEF Straight
  <1> USE DEF OnItsWay
  <1>1. CASE Preflight
    BY <1>0, <1>1 DEF Preflight
  <1>2. CASE ExecuteMove
    BY <1>0, <1>2 DEF ExecuteMove
  <1>3. CASE RollbackCommand
    BY <1>0, <1>3 DEF RollbackCommand
  <1>4. CASE SaveSource \/ RemoveSource
    BY <1>0, <1>4 DEF SaveSource, RemoveSource
  <1>5. CASE MakeDestination
    BY <1>0, <1>5 DEF MakeDestination
  <1>6. CASE WriteRunningManifest
    BY <1>0, <1>6 DEF WriteRunningManifest
  <1>7. CASE CreateLedger
    BY <1>0, <1>7 DEF CreateLedger
  <1>8. CASE WriteBoundary
    BY <1>0, <1>8 DEF WriteBoundary
  <1>9. ASSUME NEW d \in Folders, MakeFolder(d) PROVE OnItsWay'
    BY <1>0, <1>9 DEF MakeFolder
  <1>10. ASSUME NEW d \in Folders, AppendFolder(d) PROVE OnItsWay'
    BY <1>0, <1>10 DEF AppendFolder
  <1>11. CASE StartFiles
    BY <1>0, <1>11 DEF StartFiles
  <1>12. ASSUME NEW f \in Files, CheckFile(f) PROVE OnItsWay'
    BY <1>0, <1>12 DEF CheckFile
  <1>13. CASE Rename
    BY <1>0, <1>13 DEF Rename
  <1>14. CASE Copy \/ VerifyCopy \/ Unlink \/ RemoveCopy \/ PutBack \/ LeaveFailed
    BY <1>0, <1>14 DEF Undisturbed, Copy, VerifyCopy, Unlink, RemoveCopy, PutBack, LeaveFailed
  <1>15. CASE Verify
    BY <1>0, <1>15 DEF Verify
  <1>16. CASE AppendMoved
    BY <1>0, <1>16 DEF AppendMoved
  <1>17. CASE CleanupSource
    BY <1>0, <1>17 DEF CleanupSource
  <1>18. CASE WriteMovedManifest
    BY <1>0, <1>18 DEF WriteMovedManifest
  <1>19. CASE RegisterSource
    BY <1>0, <1>19 DEF RegisterSource
  <1>20. ASSUME NEW f \in Files, RestoreFile(f) PROVE OnItsWay'
    BY <1>0, <1>20 DEF RestoreFile, Restorable
  <1>21. ASSUME NEW f \in Files, SkipFile(f) PROVE OnItsWay'
    BY <1>0, <1>21 DEF SkipFile, Restorable
  <1>22. CASE RestoreRename
    BY <1>0, <1>22, RenamedBack
  <1>23. CASE RestoreThrows
    BY <1>0, <1>23 DEF RestoreThrows, Undisturbed
  <1>24. CASE RestoreVerify
    BY <1>0, <1>24, VerifiedBack
  <1>25. CASE StartFolders
    BY <1>0, <1>25 DEF StartFolders
  <1>26. ASSUME NEW d \in Folders, RestoreFolder(d) PROVE OnItsWay'
    BY <1>0, <1>26 DEF RestoreFolder, Removed, FolderEmpty
  <1>27. CASE RestoreRoot
    BY <1>0, <1>27 DEF RestoreRoot, Removed, FolderEmpty
  <1>28. CASE WriteOutcome
    BY <1>0, <1>28 DEF WriteOutcome, Outcome
  <1>29. CASE DeregisterSource
    BY <1>0, <1>29 DEF DeregisterSource
  <1>30. QED
    BY <1>1, <1>2, <1>3, <1>4, <1>5, <1>6, <1>7, <1>8, <1>9, <1>10, <1>11, <1>12,
       <1>13, <1>14, <1>15, <1>16, <1>17, <1>18, <1>19, <1>20, <1>21, <1>22, <1>23,
       <1>24, <1>25, <1>26, <1>27, <1>28, <1>29, UndisturbedBefore
    DEF Next, Commands, HostStep, MoveStep, RollbackStep

\* The start is on the way, and no step leaves it.
LEMMA StraightAlways == Spec => []Straight
<1>1. Init => Straight
  BY DEF Init, Idle, Started, Straight, OnItsWay, NothingFails, AllAtHome, AllInMemory, PartlyThere,
         FoldersGone, AtHome, InMemory
<1>2. MoveInv /\ Straight /\ [Next]_vars => Straight'
  <2>1. ASSUME MoveInv, Straight, Next  PROVE Straight'
    BY <2>1, StraightStep DEF Straight
  <2>2. ASSUME Straight, UNCHANGED vars  PROVE Straight'
    BY <2>2 DEF vars, files, dirs, disk, history, Straight, Undisturbed, OnItsWay,
                NothingFails, AllAtHome, AllInMemory, PartlyThere, FoldersGone, AtHome, InMemory
  <2>3. QED
    BY <2>1, <2>2
<1>3. QED
  BY <1>1, <1>2, MoveInvariant, PTL DEF Spec

RestoresOnOneVolume ==
    UndisturbedRollbackEnds /\ volume = "same" => manifest'.rollback = "restored"

\* A rollback ends where its outcome is written or after it; what ends else
\* is a move, or a fault, or across volumes.
LEMMA EndRestores ==
    ASSUME MoveInv, Straight, Next  PROVE RestoresOnOneVolume
<1> SUFFICES ASSUME UndisturbedRollbackEnds, volume = "same"
             PROVE  manifest'.rollback = "restored"
  BY DEF RestoresOnOneVolume
<1>1. op.mode \in {"automatic", "command"} /\ op.pc # "idle" /\ op'.pc = "idle"
      /\ saves = 0 /\ faults' = 0 /\ op \in Operation /\ faults \in Nat
  BY DEF UndisturbedRollbackEnds, MoveInv, TypeOK
<1>2. ~ Crash /\ ~ CaughtFailure
  BY <1>1, FailureIsFault DEF Fault
<1>3. DeregisterSource \/ WriteOutcome \/ RegisterSource \/ RestoreThrows
  <2>1. ~ Commands
    <3>1. ~ \E f \in Files : SaveInSource(f) \/ SaveInMemory(f)
      BY <1>1 DEF SaveInSource, SaveInMemory, disk
    <3>2. QED
      BY <1>1, <3>1 DEF Commands, Preflight, ExecuteMove, RollbackCommand, SaveSource,
                        RemoveSource
  <2>2. CASE MoveStep
    <3> USE DEF Goto, Started, AutomaticRollback, Operation
    <3>1. ASSUME NEW f \in Files, CheckFile(f)  PROVE FALSE
      <4>1. op'.pc \in {"rename", "failed"}
        BY <1>1, <3>1 DEF CheckFile
      <4>2. QED
        BY <1>1, <4>1
    <3>2. ~ \E d \in Folders : MakeFolder(d) \/ AppendFolder(d)
      BY <1>1 DEF MakeFolder, AppendFolder
    <3>3. ~ CleanupSource
      BY <1>1 DEF CleanupSource
    <3>4. /\ ~ MakeDestination /\ ~ WriteRunningManifest /\ ~ CreateLedger
          /\ ~ WriteBoundary /\ ~ StartFiles
          /\ ~ Rename /\ ~ Copy /\ ~ VerifyCopy /\ ~ Unlink /\ ~ Verify /\ ~ AppendMoved
      BY <1>1 DEF MakeDestination, WriteRunningManifest, CreateLedger, WriteBoundary, StartFiles,
                  Rename, Copy, VerifyCopy, Unlink, Verify, AppendMoved
    <3>5. ~ RemoveCopy /\ ~ PutBack /\ ~ LeaveFailed /\ ~ WriteMovedManifest
      BY <1>1 DEF RemoveCopy, PutBack, LeaveFailed, WriteMovedManifest
    <3>6. QED
      BY <2>2, <3>1, <3>2, <3>3, <3>4, <3>5 DEF MoveStep
  <2>3. CASE RollbackStep
    <3> USE DEF Goto, Started, AutomaticRollback, Operation
    <3>1. ASSUME NEW f \in Files, RestoreFile(f) \/ SkipFile(f)  PROVE FALSE
      <4>1. op'.pc \in {"restore-rename", "restore"}
        BY <1>1, <3>1 DEF RestoreFile, SkipFile
      <4>2. QED
        BY <1>1, <4>1
    <3>2. ~ StartFolders /\ ~ (\E d \in Folders : RestoreFolder(d)) /\ ~ RestoreRoot
      BY <1>1 DEF StartFolders, RestoreFolder, RestoreRoot
    <3>3. ~ RestoreRename /\ ~ RestoreVerify
      BY <1>1 DEF RestoreRename, RestoreVerify
    <3>4. QED
      BY <2>3, <3>1, <3>2, <3>3 DEF RollbackStep
  <2>4. QED
    BY <1>2, <2>1, <2>2, <2>3 DEF Next, HostStep
<1>4. faults = 0 /\ op.mode = "command"
  BY <1>1, <1>3 DEF DeregisterSource, WriteOutcome, RegisterSource, RestoreThrows, history,
                    Straight, Undisturbed, OnItsWay, NothingFails
<1>5. QED
  BY <1>1, <1>3, <1>4
  DEF DeregisterSource, WriteOutcome, RegisterSource, RestoreThrows, Straight, Undisturbed,
      OnItsWay, FoldersGone, MoveInv, Progress, MoveSteps, InMove, Operation, Idle, Started

\* With Memory on the volume of the source, a rollback that no save and no
\* fault disturbed restores the move, for any files and folders.
THEOREM RollbackRestoresThere == Spec => RollbackRestoresOnOneVolume
<1>1. MoveInv /\ Straight /\ [Next]_vars => [RestoresOnOneVolume]_vars
  BY EndRestores
<1>2. Spec => [][RestoresOnOneVolume]_vars
  BY <1>1, MoveInvariant, StraightAlways, PTL DEF Spec
<1>3. QED
  BY <1>2 DEF RollbackRestoresOnOneVolume, RestoresOnOneVolume
=============================================================================
