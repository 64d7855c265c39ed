------------------------ MODULE BrowserJobProperties ------------------------
(***************************************************************************)
(* What is true, and what is said to be true, of browser jobs.             *)
(***************************************************************************)
EXTENDS BrowserJobSession

Live(r)    == runs[r].pc # "free"
Working(j) == Status(store, j) \in {"running", "approval"}

\* The human's /resume or /continue is about to put the job back in the queue.
Restarting(j) ==
    \/ cmd[j].pc = "showing" /\ cmd[j].what = "resume"
    \/ cmd[j].pc = "restarting"

-----------------------------------------------------------------------------
(* Safety of the panel as it is.                                              *)

\* Whatever the scheduler, the runs and the human do to the store, in whatever
\* order, a job that stopped working holds no page lock, only a job in approval
\* carries a pending approval, the focus is a job of the list, and the list is
\* sorted (normalizeBrowserJob, compact and the focus rules of the store).
StoreInvariant == StoreConsistent(store)

\* The scheduler's map "running" names exactly the jobs that are being
\* executed, each by one execution, although ticks overlap and the map's entry
\* is written two awaits after it was looked at (startJob).
OneRunPerJob ==
    /\ executing = {runs[r].job : r \in {q \in RunSlots : Live(q)}}
    /\ \A r, q \in RunSlots : Live(r) /\ Live(q) /\ runs[r].job = runs[q].job => r = q

\* No orphans: a job that is shown as running is being started by a tick or is
\* executed by a run that will still settle it (settleJob, recoverInterruptedJobs).
RunningIsDriven ==
    \A j \in Jobs : Status(store, j) = "running" =>
        \/ \E r \in RunSlots : runs[r].job = j /\ runs[r].pc \notin {"free", "settled"}
        \/ \E t \in TickSlots : ticks[t].job = j /\ ticks[t].pc = "starting"

\* Jobs at work hold a page lock, and no two of their locks cover the same
\* target (browserJobSchedulerState).
PageLocksSerialize ==
    \A j \in Jobs : Working(j) =>
        /\ store.job[j].lock # None
        /\ \A k \in Jobs \ {j} : Working(k) => ~LocksClash(store.job[j].lock, store.job[k].lock)

\* Never more jobs at work than the scheduler's capacity.
WithinCapacity == Cardinality({j \in Jobs : Working(j)}) <= MaxConcurrent

\* A job the human paused or cancelled stays stopped, whatever its run, the
\* scheduler or another command writes, until the human restarts it
\* (updateJob's preserveHumanStop; allowHumanStopOverride).
HumanStopSticks ==
    [][\A j \in Jobs : Status(store, j) \in HumanStops
           => Status(store', j) \in HumanStops \cup {"gone"} \/ Restarting(j)]_vars

\* A job that ended, in whatever way, is not queued or running again unless the
\* human restarts it: no late write of its run revives it.
SettledStays ==
    [][\A j \in Jobs : /\ Status(store, j) \in Terminal
                       /\ Status(store', j) \in {"queued", "running"}
           => Restarting(j)]_vars

\* The locks of the jobs at work behave like a lock table.
LockTable == INSTANCE PageLockTable WITH
                 held <- {<<j, store.job[j].lock>> : j \in Holding(store)}

LockTableSpec == LockTable!Spec

-----------------------------------------------------------------------------
(* Liveness: what the browser brings about without the human.                 *)

\* Every execution ends, is settled and gives its place back.
RunsEnd == \A r \in RunSlots : Live(r) ~> ~Live(r)

\* A queued job does not wait forever while capacity and page locks allow it
\* to run (the drain of settleJob, the tick of runControlCommand).
QueuedJobsStart ==
    \A j \in Jobs : []<>~(Status(store, j) = "queued" /\ Runnable(store, j))

-----------------------------------------------------------------------------
(* What the repository says of its jobs, and the code does not keep.          *)

\* "Denied browser action ... The task remains stopped.": a step of a run leaves
\* a denied job denied.
DeniedStays ==
    [][runs' # runs => \A j \in Jobs : Status(store, j) = "denied"
                           => Status(store', j) # "approval"]_vars

\* "blocked/failed ... usually still need a human, so "Clear done" must not
\* silently discard them": pausing or cancelling one job leaves the blocked and
\* failed state of every other job alone.
BlockedKept ==
    [][\A j, k \in Jobs :
           (j # k /\ Status(store, k) \in {"blocked", "failed"} /\ (Pause(j) \/ Cancel(j)))
               => Status(store', k) = Status(store, k)]_vars
=============================================================================
