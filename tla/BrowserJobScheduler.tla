------------------------- MODULE BrowserJobScheduler -------------------------
(***************************************************************************)
(* The supervisor that starts queued browser jobs                          *)
(* (lib/browser-job-scheduler.js).  A tick takes one snapshot of the       *)
(* runnable jobs and starts them one after the other; every await of       *)
(* startJob is a step of its own, so ticks overlap with each other, with   *)
(* the runs they started and with the human's commands.                    *)
(*                                                                         *)
(* Ticks are kept in TickSlots and runs in RunSlots: both bounds are the   *)
(* model's, the code has neither.                                          *)
(***************************************************************************)
EXTENDS BrowserJobStore, Sequences

CONSTANTS
    MaxConcurrent,  \* jobs the scheduler runs at once (2 in the panel)
    TickSlots,      \* bound: ticks in flight at once
    RunSlots        \* bound: executions in flight at once

ASSUME SchedulerAssumption ==
    /\ MaxConcurrent \in Nat \ {0}
    /\ RunSlots \subseteq Nat

VARIABLES
    store,      \* the job store
    executing,  \* the keys of the scheduler's map "running"
    ticks,      \* the ticks in flight
    runs        \* the executions in flight

schedulerVars == <<store, executing, ticks, runs>>

RunPcs == {"free", "top", "observing", "deciding", "checking", "acting",
           "verifying", "asking", "telling", "reporting", "finished", "settled"}

Results == {"none", "completed", "approval", "blocked", "rejected"}

\* job, lock: the job record an execution was started with.  local, asked: the
\* status of its private copy and whether it asked for an approval.  step,
\* retries: turns of its loop and repetitions of the action of this turn.
Run == [pc      : RunPcs,
        job     : Jobs \cup {None},
        lock    : Locks \cup {None},
        local   : Present,
        asked   : BOOLEAN,
        result  : Results,
        step    : Nat,
        retries : Nat]

FreeRun == [pc |-> "free", job |-> None, lock |-> None, local |-> "running",
            asked |-> FALSE, result |-> "none", step |-> 0, retries |-> 0]

\* todo: what is left of the snapshot.  job, lock: the job being started.
\* composer: the tick belongs to a command that keeps the composer busy.
Tick == [pc       : {"idle", "activating", "starting"},
         todo     : Seq(Jobs),
         job      : Jobs \cup {None},
         lock     : Locks \cup {None},
         composer : BOOLEAN]

IdleTick == [pc |-> "idle", todo |-> <<>>, job |-> None, lock |-> None, composer |-> FALSE]

SchedulerTypeOK ==
    /\ store \in Store
    /\ executing \subseteq Jobs
    /\ ticks \in [TickSlots -> Tick]
    /\ runs \in [RunSlots -> Run]

SchedulerInit ==
    /\ store = EmptyStore
    /\ executing = {}
    /\ ticks = [t \in TickSlots |-> IdleTick]
    /\ runs = [r \in RunSlots |-> FreeRun]

-----------------------------------------------------------------------------
(* browserJobSchedulerState: which queued jobs may start.                     *)

\* A slip of Holding: a job that waits for an approval gives its page away.
HoldingRunning(s) == {j \in WithStatus(s, {"running"}) : s.job[j].lock # None}

Holding(s) == {j \in WithStatus(s, {"running", "approval"}) : s.job[j].lock # None}

\* A slip of AvailableSlots: a job that waits for an approval takes no slot.
SlotsOfRunning(s) ==
    LET used == Cardinality(WithStatus(s, {"running"}))
    IN  IF used < MaxConcurrent THEN MaxConcurrent - used ELSE 0

AvailableSlots(s) ==
    LET used == Cardinality(WithStatus(s, {"running", "approval"}))
    IN  IF used < MaxConcurrent THEN MaxConcurrent - used ELSE 0

\* A slip of IsRunnableQueue: a job that was taken does not claim its lock.
IsRunnableWithoutClaims(s, q) ==
    LET taken == {q[i] : i \in DOMAIN q}
        before(j) == {k \in taken : Newer(s, k, j)}
    IN  /\ taken \subseteq WithStatus(s, {"queued"})
        /\ \A i, k \in DOMAIN q : i < k => Newer(s, q[i], q[k])
        /\ \A j \in WithStatus(s, {"queued"}) :
              j \in taken <=>
                 /\ \A h \in Holding(s) : ~LocksClash(s.job[j].lock, s.job[h].lock)
                 /\ Cardinality(before(j)) < AvailableSlots(s)

\* The runnable jobs q, in list order: a queued job is taken unless its lock
\* clashes with a holder or with a job taken before it, or the slots are used.
IsRunnableQueue(s, q) ==
    LET taken == {q[i] : i \in DOMAIN q}
        before(j) == {k \in taken : Newer(s, k, j)}
    IN  /\ taken \subseteq WithStatus(s, {"queued"})
        /\ \A i, k \in DOMAIN q : i < k => Newer(s, q[i], q[k])
        /\ \A j \in WithStatus(s, {"queued"}) :
              j \in taken <=>
                 /\ \A h \in Holding(s) \cup before(j) :
                        ~LocksClash(s.job[j].lock, s.job[h].lock)
                 /\ Cardinality(before(j)) < AvailableSlots(s)

Snapshots == UNION {[1..n -> Jobs] : n \in 0..MaxConcurrent}

\* A queued job that a tick taken now would start.
Runnable(s, j) == \E q \in Snapshots : IsRunnableQueue(s, q) /\ \E i \in DOMAIN q : q[i] = j

-----------------------------------------------------------------------------
(* tick() and startJob().                                                     *)

\* startJob from the update of the status on.  A job that left the store makes
\* onJobStarted throw, which ends the tick.
MarkRunning(s, t) ==
    IF t.job \in InStore(s)
    THEN LET next == UpdateJob(s, t.job, StatusPatch("running"))
         IN  [store |-> next,
              tick  |-> [t EXCEPT !.pc = "starting", !.lock = next.job[t.job].lock]]
    ELSE [store |-> s, tick |-> IdleTick]

\* The places of a snapshot whose job startJob does not turn away.
Startable(s, ex, todo) ==
    {i \in DOMAIN todo : todo[i] \notin ex /\ Status(s, todo[i]) = "queued"}

\* A slip of StartJob: the focus is taken after the await, not before it.
StartJobUnfocused(s, t) ==
    IF s.focus = None
    THEN [store |-> s, tick |-> [t EXCEPT !.pc = "activating"]]
    ELSE MarkRunning(s, t)

\* startJob up to its first await.  The first job a panel starts gets the focus.
StartJob(s, t) ==
    IF s.focus = None
    THEN [store |-> ActivateJob(s, t.job), tick |-> [t EXCEPT !.pc = "activating"]]
    ELSE MarkRunning(s, t)

\* The loop of tick() up to its next await: the first job that can be started
\* is; without one, or at the limit of executions, the tick ends.
AdvanceTick(t, s, ex, tick) ==
    LET open == Startable(s, ex, tick.todo)
    IN  \/ /\ open = {} \/ Cardinality(ex) >= MaxConcurrent
           /\ store' = s
           /\ ticks' = [ticks EXCEPT ![t] = IdleTick]
        \/ /\ Cardinality(ex) < MaxConcurrent
           /\ \E i \in open :
                 /\ \A k \in open : i <= k
                 /\ LET after == StartJob(s, [tick EXCEPT !.todo = SubSeq(@, i + 1, Len(@)),
                                                        !.job  = tick.todo[i]])
                    IN  /\ store' = after.store
                        /\ ticks' = [ticks EXCEPT ![t] = after.tick]

\* A call of tick() with the store s and the executions ex of the caller: the
\* snapshot and the first start belong to the caller's turn.
BeginTick(t, s, ex, byComposer) ==
    /\ ticks[t].pc = "idle"
    /\ \E q \in Snapshots :
          /\ IsRunnableQueue(s, q)
          /\ AdvanceTick(t, s, ex, [IdleTick EXCEPT !.todo = q, !.composer = byComposer])

\* After the await of activateJob: nothing is checked again.
TickActivated(t) ==
    /\ ticks[t].pc = "activating"
    /\ LET after == MarkRunning(store, ticks[t])
       IN  /\ store' = after.store
           /\ ticks' = [ticks EXCEPT ![t] = after.tick]
    /\ UNCHANGED <<executing, runs>>

\* After the awaits of updateJob and onJobStarted: the job is executed with the
\* record that updateJob returned, whatever became of the job since.  The loop
\* goes on in the same turn: what startJob returns is there at once.
TickLaunches(t) ==
    /\ ticks[t].pc = "starting"
    /\ \E r \in RunSlots :
          /\ runs[r].pc = "free"
          /\ \A q \in RunSlots : q < r => runs[q].pc # "free"
          /\ runs' = [runs EXCEPT ![r] = [FreeRun EXCEPT !.pc = "top", !.job = ticks[t].job,
                                                         !.lock = ticks[t].lock]]
    /\ executing' = executing \cup {ticks[t].job}
    /\ AdvanceTick(t, store, executing', [ticks[t] EXCEPT !.lock = None])

-----------------------------------------------------------------------------
(* settleJob().                                                               *)

\* The status settleJob writes, if any: a job whose run was rejected fails
\* unless a human stopped it, a job still running gets its result.
SettledStore(s, run) ==
    IF run.result = "rejected"
    THEN IF Status(s, run.job) \in HumanStops
         THEN s ELSE UpdateJob(s, run.job, StatusPatch("failed"))
    ELSE IF Status(s, run.job) = "running"
         THEN UpdateJob(s, run.job, StatusPatch(run.result)) ELSE s

Settle(r) ==
    /\ runs[r].pc = "finished"
    /\ store' = SettledStore(store, runs[r])
    /\ runs' = [runs EXCEPT ![r].pc = "settled"]
    /\ UNCHANGED <<executing, ticks>>

\* A slip of Retire: the queue is not drained.
RetireWithoutTick(r, t) ==
    /\ runs[r].pc = "settled" /\ ticks[t].pc = "idle"
    /\ executing' = executing \ {runs[r].job}
    /\ runs' = [runs EXCEPT ![r] = FreeRun]
    /\ UNCHANGED <<store, ticks>>

\* The finally block: the entry of the job is deleted and the queue drained.
Retire(r, t) ==
    /\ runs[r].pc = "settled"
    /\ executing' = executing \ {runs[r].job}
    /\ runs' = [runs EXCEPT ![r] = FreeRun]
    /\ BeginTick(t, store, executing \ {runs[r].job}, FALSE)
=============================================================================
