--------------------- MODULE MemorySourceMoveProperties ---------------------
(***************************************************************************)
(* What a move of a source folder and its rollback promise.                *)
(***************************************************************************)
EXTENDS MemorySourceMove

FileKept(f) == src[f] # Absent \/ dst[f] # Absent

\* No step of the host loses bytes: whatever bytes a file has on one side
\* before a step, it has on one of the sides after it.  This is what hashing
\* a copy before the unlink, removing a copy only while the original stands,
\* and never restoring over a new file are for.  Not promised: a file saved in
\* the instant between such a check and the call that relies on it.
NothingLost ==
    [][saves' = saves =>
         \A f \in Files \ raced : {src[f], dst[f]} \ {Absent} \subseteq {src'[f], dst'[f]}]_vars

\* A move recorded as fully restored has left nothing behind in Memory and
\* every file in the source: the outcome is trusted (a restored move cannot be
\* rolled back again), whatever crashed, failed or was skipped before.
RestoredMeansBack ==
    manifest.rollback = "restored" =>
        \A f \in Files : src[f] # Absent /\ dst[f] = Absent

Unledgered == {f \in Files : dst[f] # Absent} \ ledger.moved

\* The ledger, appended to after each file, misses at most one of the files
\* that are in Memory: the one that was being moved when the host died, or
\* the one that failed and could not be put back.
AtMostOneUnledgered == \A f, g \in Unledgered : f = g

\* A source stands in the settings only when its whole move was recorded: the
\* ledger names every file, so that a rollback can find each of them.
RegisteredIsRecoverable ==
    source # "unregistered" =>
        manifest.status = "moved" /\ ledger.moved = Files /\ ledger.folders = Folders

\* An operation ends: no failure, skip or save leaves it waiting.
OperationsEnd == (op.pc # "idle") ~> (op.pc = "idle")

UndisturbedRollbackEnds ==
    /\ op.mode \in {"automatic", "command"}
    /\ op.pc # "idle" /\ op'.pc = "idle"
    /\ saves = 0 /\ faults' = 0

\* With Memory on the volume of the source, a rollback that no save and no
\* fault disturbs restores the move.
RollbackRestoresOnOneVolume ==
    [][UndisturbedRollbackEnds /\ volume = "same" => manifest'.rollback = "restored"]_vars

\* ADR-011: moves may fall back to copy-and-delete across volumes, and support
\* rollback from the ledger.
RollbackRestores ==
    [][UndisturbedRollbackEnds => manifest'.rollback = "restored"]_vars
=============================================================================
