--------------------------- MODULE BrowserJobProofs ---------------------------
(***************************************************************************)
(* Theorems about a side panel at work, for any jobs, locks, clash         *)
(* relation, limits, slots and set of commands: the state keeps its type,  *)
(* the store stays consistent, and what the human stopped stays stopped.   *)
(*                                                                         *)
(* One inductive invariant, IInv, carries all of them.  Each step of the   *)
(* system is shown to keep IInv and to be a StopStep, bottom up: the       *)
(* operations of the store (BrowserJobStoreProofs), the turns of a tick,   *)
(* the drafts of a run, the handlers of the panel, the actions.            *)
(***************************************************************************)
EXTENDS BrowserJobProperties, BrowserJobStoreProofs, SequenceTheorems

\* A tick that starts a job has one.
GoodTick(t) == t \in Tick /\ (t.pc \in {"activating", "starting"} => t.job \in Jobs)

\* An execution has a job, and a result once its loop has ended.
GoodRun(r) ==
    /\ r \in Run
    /\ r.pc # "free" => r.job \in Jobs
    /\ r.pc \in {"telling", "reporting", "finished"} => r.result # "none"

\* The panel shows a job, or nothing.
GoodPanelRun(p) == p \in PanelRun /\ (p # NoRun => p.job \in Jobs)

\* A job that gets the focus was seen in the list.
GoodCommand(c) == c \in Command /\ (c.pc \in {"focusing", "showing"} => c.seen.status \in Present)

\* The job /control is about to create does not exist yet.
CreatesNew ==
    \A j \in Jobs : cmd[j].pc = "preparing" /\ cmd[j].what = "create" => Status(store, j) = "new"

GoodTicks == ticks \in [TickSlots -> Tick] /\ \A t \in TickSlots : GoodTick(ticks[t])
GoodRuns  == runs \in [RunSlots -> Run] /\ \A r \in RunSlots : GoodRun(runs[r])
GoodCmds  == cmd \in [Jobs -> Command] /\ \A j \in Jobs : GoodCommand(cmd[j])

GoodPanel == GoodPanelRun(panelRun) /\ panelApproval \in BOOLEAN
GoodActor == actor \in RunSlots \cup {None}

IInv ==
    /\ GoodStore(store)
    /\ executing \subseteq Jobs
    /\ GoodTicks
    /\ GoodRuns
    /\ GoodActor
    /\ GoodPanel
    /\ GoodCmds
    /\ CreatesNew

\* The jobs a step may put back to work against an earlier stop, or create.
Freed ==
    {j \in Jobs : \/ Restarting(j)
                  \/ /\ cmd[j].pc = "preparing" /\ cmd[j].what = "create"
                     /\ cmd'[j].pc = "ticking"}

\* What a step does to the stops of the human.
StopStep == KeepsStops(store, store', Jobs \ Freed)

-----------------------------------------------------------------------------
(* Patches and ticks.                                                         *)

\* The patches of the code are patches.
LEMMA PatchType ==
    /\ NoPatch \in Patches
    /\ \A st \in Present \cup {"same"} : StatusPatch(st) \in Patches
    /\ \A st : ~StatusPatch(st).override /\ StatusPatch(st).status = st
BY DEF NoPatch, StatusPatch, Patches

\* The idle tick is good.
LEMMA IdleTickGood == GoodTick(IdleTick)
BY EmptySeq DEF GoodTick, IdleTick, Tick

\* startJob from the update on.
LEMMA MarkRunningGood ==
    ASSUME NEW s, GoodStore(s), NEW t \in Tick, t.job \in Jobs
    PROVE  /\ GoodStore(MarkRunning(s, t).store)
           /\ KeepsStops(s, MarkRunning(s, t).store, Jobs)
           /\ GoodTick(MarkRunning(s, t).tick)
<1> DEFINE p    == StatusPatch("running")
           next == UpdateJob(s, t.job, p)
<1>1. p \in Patches /\ ~p.override
  BY PatchType DEF Present, Active
<1>2. GoodStore(next) /\ KeepsStops(s, next, Jobs)
  BY <1>1, UpdateJobGood, UpdateJobKeepsStops DEF GoodStore
<1>3. CASE t.job \in InStore(s)
  <2>1. MarkRunning(s, t) = [store |-> next,
                             tick  |-> [t EXCEPT !.pc = "starting", !.lock = next.job[t.job].lock]]
    BY <1>3 DEF MarkRunning
  <2>2. next.job[t.job].lock \in Locks \cup {None}
    BY <1>2 DEF GoodStore, Store, JobRecord
  <2> HIDE DEF next
  <2>3. GoodTick([t EXCEPT !.pc = "starting", !.lock = next.job[t.job].lock])
    BY <2>2 DEF GoodTick, Tick
  <2> QED
    BY <1>2, <2>1, <2>3
<1>4. CASE t.job \notin InStore(s)
  BY <1>4, IdleTickGood DEF MarkRunning, KeepsStops
<1> QED
  BY <1>3, <1>4

\* startJob up to its first await.
LEMMA StartJobGood ==
    ASSUME NEW s, GoodStore(s), NEW t \in Tick, t.job \in Jobs
    PROVE  /\ GoodStore(StartJob(s, t).store)
           /\ KeepsStops(s, StartJob(s, t).store, Jobs)
           /\ GoodTick(StartJob(s, t).tick)
<1>1. CASE s.focus = None
  <2>1. GoodTick([t EXCEPT !.pc = "activating"])
    BY DEF GoodTick, Tick
  <2>2. GoodStore(ActivateJob(s, t.job)) /\ KeepsStops(s, ActivateJob(s, t.job), Jobs)
    BY ActivateJobGood, ActivateJobKeepsStops DEF GoodStore
  <2> QED
    BY <1>1, <2>1, <2>2 DEF StartJob
<1>2. CASE s.focus # None
  BY <1>2, MarkRunningGood DEF StartJob
<1> QED
  BY <1>1, <1>2

\* The tick that starts the job at place i of its snapshot.
LEMMA PickedTick ==
    ASSUME NEW tick \in Tick, NEW i \in DOMAIN tick.todo
    PROVE  LET picked == [tick EXCEPT !.todo = SubSeq(@, i + 1, Len(@)), !.job = tick.todo[i]]
           IN  /\ picked \in Tick /\ picked.job = tick.todo[i] /\ picked.job \in Jobs
               /\ picked.composer = tick.composer /\ picked.pc = tick.pc
               /\ picked.todo = SubSeq(tick.todo, i + 1, Len(tick.todo))
<1>1. tick.todo \in Seq(Jobs) /\ i \in 1..Len(tick.todo) /\ Len(tick.todo) \in Nat
  BY DEF Tick
<1>2. tick.todo[i] \in Jobs
  BY <1>1, ElementOfSeq
<1>3. SubSeq(tick.todo, i + 1, Len(tick.todo)) \in Seq(Jobs)
  BY <1>1, SubSeqProperties
<1> QED
  BY <1>2, <1>3 DEF Tick

\* The loop of tick() up to its next await.
LEMMA AdvanceTickGood ==
    ASSUME GoodTicks, NEW t \in TickSlots, NEW s, GoodStore(s), NEW ex,
           NEW tick \in Tick, AdvanceTick(t, s, ex, tick)
    PROVE  GoodStore(store') /\ KeepsStops(s, store', Jobs) /\ GoodTicks'
<1>1. CASE store' = s /\ ticks' = [ticks EXCEPT ![t] = IdleTick]
  BY <1>1, IdleTickGood DEF GoodTicks, GoodTick, KeepsStops
<1>2. ASSUME NEW i \in DOMAIN tick.todo,
             LET after == StartJob(s, [tick EXCEPT !.todo = SubSeq(@, i + 1, Len(@)),
                                                   !.job  = tick.todo[i]])
             IN  store' = after.store /\ ticks' = [ticks EXCEPT ![t] = after.tick]
      PROVE  GoodStore(store') /\ KeepsStops(s, store', Jobs) /\ GoodTicks'
  <2> DEFINE picked == [tick EXCEPT !.todo = SubSeq(@, i + 1, Len(@)), !.job = tick.todo[i]]
  <2>1. picked \in Tick /\ picked.job \in Jobs
    BY PickedTick
  <2>2. store' = StartJob(s, picked).store
          /\ ticks' = [ticks EXCEPT ![t] = StartJob(s, picked).tick]
    BY <1>2
  <2> HIDE DEF picked
  <2>3. /\ GoodStore(StartJob(s, picked).store) /\ KeepsStops(s, StartJob(s, picked).store, Jobs)
        /\ GoodTick(StartJob(s, picked).tick)
    BY <2>1, StartJobGood
  <2> QED
    BY <2>2, <2>3 DEF GoodTicks, GoodTick
<1> QED
  BY <1>1, <1>2 DEF AdvanceTick, Startable

\* The first turn of a tick.
LEMMA FirstTick ==
    ASSUME NEW q \in Snapshots, NEW byComposer \in BOOLEAN
    PROVE  [IdleTick EXCEPT !.todo = q, !.composer = byComposer] \in Tick
<1>1. PICK n \in 0..MaxConcurrent : q \in [1..n -> Jobs]
  BY DEF Snapshots
<1>2. n \in Nat
  BY <1>1, SchedulerAssumption
<1>3. q \in Seq(Jobs)
  BY <1>1, <1>2, SeqDef
<1> QED
  BY <1>3 DEF IdleTick, Tick

\* A call of tick().
LEMMA BeginTickGood ==
    ASSUME GoodTicks, NEW t \in TickSlots, NEW s, GoodStore(s), NEW ex,
           NEW byComposer \in BOOLEAN, BeginTick(t, s, ex, byComposer)
    PROVE  GoodStore(store') /\ KeepsStops(s, store', Jobs) /\ GoodTicks'
<1>1. PICK q \in Snapshots :
        AdvanceTick(t, s, ex, [IdleTick EXCEPT !.todo = q, !.composer = byComposer])
  BY DEF BeginTick
<1>2. [IdleTick EXCEPT !.todo = q, !.composer = byComposer] \in Tick
  BY FirstTick
<1> QED
  BY <1>1, <1>2, AdvanceTickGood

-----------------------------------------------------------------------------
(* Drafts: what a run may write.                                              *)

\* A draft on the way, and one that a step may commit.
GoodDraft(d) ==
    /\ d \in [store : Store, run : Run, panel : PanelRun, approval : BOOLEAN]
    /\ GoodStore(d.store)
    /\ d.run.job \in Jobs
    /\ GoodPanelRun(d.panel)

\* The draft d comes after c: nothing the human stopped was put back to work.
Follows(c, d) == GoodDraft(d) /\ KeepsStops(c.store, d.store, Jobs)

LEMMA FollowsTransitive ==
    ASSUME NEW b, NEW c, NEW d, Follows(b, c), Follows(c, d)
    PROVE  Follows(b, d)
BY KeepsStopsTransitive DEF Follows

LEMMA FollowsItself ==
    ASSUME NEW d, GoodDraft(d)
    PROVE  Follows(d, d)
BY DEF Follows, KeepsStops

\* A draft that differs in the run's program counter, result or flags only.
LEMMA GoToFollows ==
    ASSUME NEW d, GoodDraft(d), NEW pc \in RunPcs
    PROVE  Follows(d, GoTo(d, pc)) /\ GoTo(d, pc).run.pc = pc /\ GoTo(d, pc).run.result = d.run.result
<1>1. GoodDraft(GoTo(d, pc)) /\ GoTo(d, pc).store = d.store
  BY DEF GoodDraft, GoTo, Run
<1>2. GoTo(d, pc).run.pc = pc /\ GoTo(d, pc).run.result = d.run.result
  BY DEF GoodDraft, GoTo, Run
<1> QED
  BY <1>1, <1>2 DEF Follows, KeepsStops

LEMMA UpdateOwnJobFollows ==
    ASSUME NEW d, GoodDraft(d), NEW patch \in Patches, ~patch.override
    PROVE  /\ Follows(d, UpdateOwnJob(d, patch))
           /\ UpdateOwnJob(d, patch).run = d.run
<1> DEFINE next == UpdateJob(d.store, d.run.job, patch)
<1>1. GoodStore(next) /\ KeepsStops(d.store, next, Jobs)
  BY UpdateJobGood, UpdateJobKeepsStops DEF GoodDraft, GoodStore
<1>2. UpdateOwnJob(d, patch) = [d EXCEPT !.store = next]
  BY DEF UpdateOwnJob
<1> HIDE DEF next
<1> QED
  BY <1>1, <1>2 DEF GoodDraft, GoodStore, Follows

LEMMA SyncFollows ==
    ASSUME NEW d, GoodDraft(d)
    PROVE  Follows(d, Sync(d)) /\ Sync(d).run = d.run
<1>1. GoodPanelRun([job |-> d.run.job, status |-> d.run.local, lock |-> d.run.lock])
  BY DEF GoodDraft, GoodPanelRun, PanelRun, Run
<1>2. GoodDraft(Sync(d)) /\ Sync(d).store = d.store /\ Sync(d).run = d.run
  BY <1>1 DEF GoodDraft, Sync, Run, GoodPanelRun
<1> QED
  BY <1>2 DEF Follows, KeepsStops

\* persistLocalRun.
LEMMA PersistFollows ==
    ASSUME NEW d, GoodDraft(d), NEW st \in Present
    PROVE  /\ Follows(d, Persist(d, st))
           /\ Persist(d, st).run.pc = d.run.pc /\ Persist(d, st).run.result = d.run.result
<1> DEFINE found == Status(d.store, d.run.job)
           local == IF found \in HumanStops /\ st \notin HumanStops THEN found ELSE st
           c     == [d EXCEPT !.run.local = local]
<1>1. local \in Present
  BY DEF HumanStops, Present, Active, Terminal
<1>2. Persist(d, st) = UpdateOwnJob(c, StatusPatch(local))
  BY DEF Persist
<1> HIDE DEF local
<1>3. Follows(d, c) /\ c.run.pc = d.run.pc /\ c.run.result = d.run.result
  BY <1>1 DEF GoodDraft, Follows, KeepsStops, Run
<1>4. StatusPatch(local) \in Patches /\ ~StatusPatch(local).override
  BY <1>1, PatchType
<1> HIDE DEF c
<1>5. Follows(c, Persist(d, st)) /\ Persist(d, st).run = c.run
  BY <1>2, <1>3, <1>4, UpdateOwnJobFollows DEF Follows
<1> QED
  BY <1>3, <1>5, FollowsTransitive

\* finishControlRun and the records of steps and artifacts.
LEMMA FinishFollows ==
    ASSUME NEW d, GoodDraft(d), NEW st \in Present
    PROVE  /\ Follows(d, Finish(d, st))
           /\ Finish(d, st).run.pc = d.run.pc /\ Finish(d, st).run.result = d.run.result
<1>1. Follows(d, Persist(d, st))
        /\ Persist(d, st).run.pc = d.run.pc /\ Persist(d, st).run.result = d.run.result
  BY PersistFollows
<1>2. Follows(Persist(d, st), Sync(Persist(d, st)))
        /\ Sync(Persist(d, st)).run = Persist(d, st).run
  BY <1>1, SyncFollows DEF Follows
<1> QED
  BY <1>1, <1>2, FollowsTransitive DEF Finish

LEMMA RecordFollows ==
    ASSUME NEW d, GoodDraft(d)
    PROVE  /\ Follows(d, Record(d))
           /\ Record(d).run.pc = d.run.pc /\ Record(d).run.result = d.run.result
<1>1. d.run.local \in Present
  BY DEF GoodDraft, Run
<1>2. Record(d) = Finish(d, d.run.local)
  BY DEF Record, Finish
<1> QED
  BY <1>1, <1>2, FinishFollows

\* The ends of a loop.
LEMMA ReturnFollows ==
    ASSUME NEW d, GoodDraft(d), NEW result \in Results
    PROVE  /\ Follows(d, Return(d, result))
           /\ Return(d, result).run.pc = "finished" /\ Return(d, result).run.result = result
<1>1. Return(d, result) = [d EXCEPT !.run = [d.run EXCEPT !.pc = "finished", !.result = result]]
  BY DEF Return, GoTo, GoodDraft, Run
<1>2. [d.run EXCEPT !.pc = "finished", !.result = result] \in Run
  BY DEF GoodDraft, Run, RunPcs
<1> QED
  BY <1>1, <1>2 DEF GoodDraft, Follows, KeepsStops, Run

LEMMA ReportLaterFollows ==
    ASSUME NEW d, GoodDraft(d), NEW result \in Results
    PROVE  /\ Follows(d, ReportLater(d, result))
           /\ ReportLater(d, result).run.pc = "reporting"
           /\ ReportLater(d, result).run.result = result
<1>1. ReportLater(d, result) =
        [d EXCEPT !.run = [d.run EXCEPT !.pc = "reporting", !.result = result]]
  BY DEF ReportLater, GoTo, GoodDraft, Run
<1>2. [d.run EXCEPT !.pc = "reporting", !.result = result] \in Run
  BY DEF GoodDraft, Run, RunPcs
<1> QED
  BY <1>1, <1>2 DEF GoodDraft, Follows, KeepsStops, Run

LEMMA TellLaterFollows ==
    ASSUME NEW d, GoodDraft(d), NEW result \in Results
    PROVE  /\ Follows(d, TellLater(d, result))
           /\ TellLater(d, result).run.pc = "telling"
           /\ TellLater(d, result).run.result = result
<1>1. TellLater(d, result) =
        [d EXCEPT !.run = [d.run EXCEPT !.pc = "telling", !.result = result]]
  BY DEF TellLater, GoTo, GoodDraft, Run
<1>2. [d.run EXCEPT !.pc = "telling", !.result = result] \in Run
  BY DEF GoodDraft, Run, RunPcs
<1> QED
  BY <1>1, <1>2 DEF GoodDraft, Follows, KeepsStops, Run

LEMMA FailFollows ==
    ASSUME NEW d, GoodDraft(d), NEW st \in Present
    PROVE  /\ Follows(d, Fail(d, st))
           /\ Fail(d, st).run.pc = "finished" /\ Fail(d, st).run.result = "blocked"
<1> DEFINE b == Finish(d, st)
           c == UpdateOwnJob(b, StatusPatch(st))
<1>1. Follows(d, b)
  BY FinishFollows
<1>2. Follows(b, c)
  BY <1>1, PatchType, UpdateOwnJobFollows DEF Follows
<1>3. Follows(c, Return(c, "blocked"))
        /\ Return(c, "blocked").run.pc = "finished" /\ Return(c, "blocked").run.result = "blocked"
  BY <1>2, ReturnFollows DEF Follows, Results
<1> QED
  BY <1>1, <1>2, <1>3, FollowsTransitive DEF Fail

-----------------------------------------------------------------------------
(* The steps of a run.                                                        *)

\* Nobody but Create can end what CreatesNew says.
LEMMA CreatesNewKept ==
    ASSUME CreatesNew, StopStep,
           \A j \in Jobs : cmd'[j].pc = "preparing" /\ cmd'[j].what = "create" =>
               \/ cmd[j].pc = "preparing" /\ cmd[j].what = "create"
               \/ Status(store', j) = "new"
    PROVE  CreatesNew'
<1> SUFFICES ASSUME NEW j \in Jobs, cmd'[j].pc = "preparing", cmd'[j].what = "create",
                    cmd[j].pc = "preparing", cmd[j].what = "create"
             PROVE  Status(store', j) = "new"
  BY DEF CreatesNew, Status
<1>1. j \notin Freed
  BY DEF Freed, Restarting
<1>2. Status(store, j) = "new"
  BY DEF CreatesNew
<1> QED
  BY <1>1, <1>2 DEF StopStep, KeepsStops

\* The draft of a run in flight is good.
LEMMA DraftGood ==
    ASSUME IInv, NEW r \in RunSlots, runs[r].pc # "free"
    PROVE  GoodDraft(Draft(r)) /\ Draft(r).run = runs[r]
BY DEF IInv, GoodDraft, Draft, GoodStore, GoodRuns, GoodRun, GoodPanel, GoodPanelRun

\* A run that commits a draft which follows its own keeps the invariant.
LEMMA CommitGood ==
    ASSUME IInv, NEW r \in RunSlots, NEW d, Follows(Draft(r), d), GoodRun(d.run),
           Commit(r, d), GoodActor', cmd' = cmd
    PROVE  IInv' /\ StopStep
<1>1. GoodStore(store') /\ KeepsStops(store, store', Jobs)
  BY DEF Commit, Follows, GoodDraft, Draft
<1>2. StopStep
  BY <1>1 DEF StopStep, KeepsStops
<1>3. GoodRuns'
  BY DEF IInv, GoodRuns, Commit, GoodRun
<1>4. GoodPanel'
  BY DEF Commit, Follows, GoodDraft, GoodPanel, GoodPanelRun
<1>5. GoodTicks' /\ (executing \subseteq Jobs)' /\ GoodCmds'
  BY DEF IInv, Commit, GoodTicks, GoodCmds
<1>6. CreatesNew'
  BY <1>2, CreatesNewKept DEF IInv
<1> QED
  BY <1>1, <1>2, <1>3, <1>4, <1>5, <1>6 DEF IInv

\* A draft that went on to another turn is that of a good run.
LEMMA MovesOn ==
    ASSUME NEW d, GoodDraft(d), NEW pc \in RunPcs \ {"telling", "reporting", "finished"}
    PROVE  Follows(d, GoTo(d, pc)) /\ GoodRun(GoTo(d, pc).run)
<1>1. Follows(d, GoTo(d, pc)) /\ GoTo(d, pc).run.pc = pc
  BY GoToFollows
<1> QED
  BY <1>1 DEF Follows, GoodDraft, GoodRun

\* A draft that returned, reports or failed is that of a good run.
LEMMA LoopEnds ==
    ASSUME NEW d, GoodDraft(d), NEW result \in Results \ {"none"}, NEW st \in Present
    PROVE  /\ Follows(d, Return(d, result)) /\ GoodRun(Return(d, result).run)
           /\ Follows(d, ReportLater(d, result)) /\ GoodRun(ReportLater(d, result).run)
           /\ Follows(d, TellLater(d, result)) /\ GoodRun(TellLater(d, result).run)
           /\ Follows(d, Fail(d, st)) /\ GoodRun(Fail(d, st).run)
<1>1. Follows(d, Return(d, result)) /\ Return(d, result).run.result # "none"
  BY ReturnFollows
<1>2. Follows(d, ReportLater(d, result)) /\ ReportLater(d, result).run.result # "none"
  BY ReportLaterFollows
<1>3. Follows(d, TellLater(d, result)) /\ TellLater(d, result).run.result # "none"
  BY TellLaterFollows
<1>4. Follows(d, Fail(d, st)) /\ Fail(d, st).run.result # "none"
  BY FailFollows
<1> QED
  BY <1>1, <1>2, <1>3, <1>4 DEF Follows, GoodDraft, GoodRun

\* Every step of a run.
LEMMA RunStepGood ==
    ASSUME IInv, NEW r \in RunSlots, RunStep(r), cmd' = cmd
    PROVE  IInv' /\ StopStep
<1> DEFINE d == Draft(r)
<1>1. runs[r].pc # "free"
  BY DEF RunStep, LockedStep, RunRejected, BeginTurn, StepLimit, Observe, ObserveLost,
         DecideDone, DecideBlocked, DecideUnproven, DecideFailed, DecideAction, CheckStop,
         Act, ActFails, VerifyRetries, VerifyDone, VerifyFails, VerifyNeedsApproval,
         AskApproval, Report, ReportSkipped, ReportFails
<1>2. GoodDraft(d) /\ d.run = runs[r] /\ GoodRun(runs[r])
  BY <1>1, DraftGood DEF IInv, GoodRuns
<1>3. UNCHANGED actor => GoodActor'
  BY DEF IInv, GoodActor
<1>4. {"failed", "cancelled", "blocked", "completed", "approval", "paused", "running"} \subseteq Present
  BY DEF Present, Active, Terminal
<1>5. {"blocked", "completed", "approval", "rejected"} \subseteq Results \ {"none"}
  BY DEF Results
<1>6. RunPcs \ {"telling", "reporting", "finished"} =
        {"free", "top", "observing", "deciding", "checking", "acting", "verifying", "asking",
         "settled"}
  BY DEF RunPcs
<1> HIDE DEF d
<1>7. ASSUME NEW c, Follows(d, c), GoodRun(c.run), Commit(r, c), GoodActor'
      PROVE  IInv' /\ StopStep
  BY <1>7, CommitGood DEF d
<1>8. CASE RunRejected(r)
  BY <1>2, <1>3, <1>4, <1>5, <1>7, <1>8, LoopEnds DEF RunRejected, d
<1>9. CASE BeginTurn(r)
  <2> DEFINE c == UpdateOwnJob(d, StatusPatch("running"))
  <2>1. Follows(d, c)
    BY <1>2, <1>4, PatchType, UpdateOwnJobFollows
  <2>2. Follows(c, GoTo(c, "observing")) /\ GoodRun(GoTo(c, "observing").run)
    BY <1>6, <2>1, MovesOn DEF Follows
  <2> QED
    BY <1>3, <1>7, <1>9, <2>1, <2>2, FollowsTransitive DEF BeginTurn, d
<1>10. ASSUME NEW st \in {"blocked", "completed"}, NEW c, Follows(d, c)
       PROVE  /\ Follows(d, TellLater(Finish(c, st), st))
              /\ GoodRun(TellLater(Finish(c, st), st).run)
  <2>1. Follows(c, Finish(c, st))
    BY <1>4, <1>10, FinishFollows DEF Follows
  <2>2. Follows(Finish(c, st), TellLater(Finish(c, st), st))
          /\ GoodRun(TellLater(Finish(c, st), st).run)
    BY <1>4, <1>5, <2>1, LoopEnds DEF Follows
  <2> QED
    BY <1>10, <2>1, <2>2, FollowsTransitive
<1>11. Follows(d, d) /\ Follows(d, Record(d))
  BY <1>2, FollowsItself, RecordFollows
<1>12. CASE StepLimit(r)
  BY <1>3, <1>7, <1>10, <1>11, <1>12 DEF StepLimit, d
<1>13. ASSUME NEW st \in Present
       PROVE  Follows(d, Fail(d, st)) /\ GoodRun(Fail(d, st).run)
  BY <1>2, <1>5, LoopEnds
<1>14. CASE Observe(r)
  <2>1. Follows(d, GoTo(d, "deciding")) /\ GoodRun(GoTo(d, "deciding").run)
    BY <1>2, <1>6, MovesOn
  <2> QED
    BY <1>3, <1>4, <1>7, <1>13, <1>14, <2>1 DEF Observe, d
<1>15. CASE ObserveLost(r)
  BY <1>3, <1>4, <1>7, <1>13, <1>15 DEF ObserveLost, d
<1>16. CASE DecideDone(r)
  BY <1>3, <1>7, <1>10, <1>11, <1>16 DEF DecideDone, d
<1>17. CASE DecideBlocked(r)
  <2>1. PICK c \in {d, Record(d)} : Commit(r, TellLater(Finish(c, "blocked"), "blocked"))
    BY <1>17 DEF DecideBlocked, d
  <2> QED
    BY <1>3, <1>7, <1>10, <1>11, <1>17, <2>1 DEF DecideBlocked
<1>18. ASSUME NEW st \in {"blocked", "approval"}
       PROVE  Follows(d, Finish(Record(d), st))
  <2>1. Follows(Record(d), Finish(Record(d), st))
    BY <1>4, <1>11, FinishFollows DEF Follows
  <2> QED
    BY <1>11, <2>1, FollowsTransitive
<1>19. ASSUME NEW result \in {"blocked", "approval"}
       PROVE  /\ Follows(d, ReportLater(Finish(Record(d), "blocked"), result))
              /\ GoodRun(ReportLater(Finish(Record(d), "blocked"), result).run)
  <2> DEFINE c == Finish(Record(d), "blocked")
  <2>1. Follows(d, c)
    BY <1>18
  <2>2. Follows(c, ReportLater(c, result)) /\ GoodRun(ReportLater(c, result).run)
    BY <1>4, <1>5, <2>1, LoopEnds DEF Follows
  <2> QED
    BY <2>1, <2>2, FollowsTransitive
<1>20. CASE DecideUnproven(r)
  BY <1>3, <1>7, <1>19, <1>20 DEF DecideUnproven, d
<1>21. CASE DecideFailed(r)
  BY <1>3, <1>4, <1>7, <1>13, <1>21 DEF DecideFailed, d
<1>22. CASE DecideAction(r)
  <2>1. Follows(Record(d), GoTo(Record(d), "checking"))
          /\ GoodRun(GoTo(Record(d), "checking").run)
    BY <1>6, <1>11, MovesOn DEF Follows
  <2> QED
    BY <1>3, <1>7, <1>11, <1>22, <2>1, FollowsTransitive DEF DecideAction, d
<1>23. CASE CheckStop(r)
  <2>1. Follows(d, GoTo(d, "acting")) /\ GoodRun(GoTo(d, "acting").run)
    BY <1>2, <1>6, MovesOn
  <2>2. HumanStops \subseteq Present
    BY <1>4 DEF HumanStops
  <2>3. CASE Status(store, runs[r].job) \in HumanStops
    BY <1>3, <1>7, <1>13, <1>23, <2>2, <2>3 DEF CheckStop, d
  <2>4. CASE Status(store, runs[r].job) \notin HumanStops
    BY <1>7, <1>23, <2>1, <2>4 DEF CheckStop, GoodActor, d
  <2> QED
    BY <2>3, <2>4
<1>24. CASE Act(r)
  <2>1. Follows(d, GoTo(d, "verifying")) /\ GoodRun(GoTo(d, "verifying").run)
    BY <1>2, <1>6, MovesOn
  <2> QED
    BY <1>7, <1>24, <2>1 DEF Act, GoodActor, d
<1>25. CASE ActFails(r)
  BY <1>4, <1>7, <1>13, <1>25 DEF ActFails, GoodActor, d
<1>26. CASE VerifyRetries(r)
  <2> DEFINE c == [GoTo(d, "checking") EXCEPT !.run.retries = @ + 1]
  <2>1. Follows(d, GoTo(d, "checking")) /\ GoodRun(GoTo(d, "checking").run)
    BY <1>2, <1>6, MovesOn
  <2>2. Follows(GoTo(d, "checking"), c) /\ GoodRun(c.run)
    BY <2>1 DEF Follows, GoodDraft, GoodRun, Run, KeepsStops
  <2> QED
    BY <1>3, <1>7, <1>26, <2>1, <2>2, FollowsTransitive DEF VerifyRetries, d
<1>27. CASE VerifyDone(r)
  <2> DEFINE b == GoTo(Record(d), "top")
             c == [b EXCEPT !.run.step = @ + 1, !.run.retries = 0]
  <2>1. Follows(Record(d), b) /\ GoodRun(b.run)
    BY <1>6, <1>11, MovesOn DEF Follows
  <2>2. Follows(b, c) /\ GoodRun(c.run)
    <3> HIDE DEF b
    <3>1. GoodDraft(b) /\ b.run \in Run /\ b.run.step + 1 \in Nat
      BY <2>1 DEF Follows, GoodDraft, Run
    <3>2. c = [b EXCEPT !.run = [b.run EXCEPT !.step = b.run.step + 1, !.retries = 0]]
      BY <3>1 DEF GoodDraft
    <3>3. [b.run EXCEPT !.step = b.run.step + 1, !.retries = 0] \in Run
      BY <3>1 DEF Run
    <3> QED
      BY <2>1, <3>1, <3>2, <3>3 DEF Follows, GoodDraft, GoodRun, Run, KeepsStops
  <2>3. Follows(d, c)
    BY <1>11, <2>1, <2>2, FollowsTransitive
  <2> QED
    BY <1>3, <1>7, <1>27, <2>2, <2>3 DEF VerifyDone, d
<1>28. CASE VerifyFails(r)
  <2>1. PICK result \in {"blocked", "approval"} :
          Commit(r, ReportLater(Finish(Record(d), "blocked"), result))
    BY <1>28 DEF VerifyFails, d
  <2> QED
    BY <1>3, <1>7, <1>19, <1>28, <2>1 DEF VerifyFails
<1>29. CASE VerifyNeedsApproval(r)
  <2> DEFINE c == Finish(Record(d), "approval")
  <2>1. Follows(c, GoTo(c, "asking")) /\ GoodRun(GoTo(c, "asking").run)
    BY <1>6, <1>18, MovesOn DEF Follows
  <2> QED
    BY <1>3, <1>7, <1>18, <1>29, <2>1, FollowsTransitive DEF VerifyNeedsApproval, d
<1>30. CASE AskApproval(r)
  <2> DEFINE ask == [StatusPatch("approval") EXCEPT !.approval = "set"]
             b   == UpdateOwnJob(d, ask)
             c   == [b EXCEPT !.run.asked = TRUE]
  <2>1. ask \in Patches /\ ~ask.override
    BY DEF StatusPatch, NoPatch, Patches, Present, Active
  <2> HIDE DEF ask
  <2>2. Follows(d, b)
    BY <1>2, <2>1, UpdateOwnJobFollows
  <2>3. Follows(b, c)
    BY <2>2 DEF Follows, GoodDraft, Run, KeepsStops
  <2>4. Follows(c, Sync(c))
    BY <2>3, SyncFollows DEF Follows
  <2>5. Follows(Sync(c), ReportLater(Sync(c), "approval"))
          /\ GoodRun(ReportLater(Sync(c), "approval").run)
    BY <1>4, <1>5, <2>4, LoopEnds DEF Follows
  <2>6. Follows(d, ReportLater(Sync(c), "approval"))
    BY <2>2, <2>3, <2>4, <2>5, FollowsTransitive
  <2> QED
    BY <1>3, <1>7, <1>30, <2>5, <2>6 DEF AskApproval, d, ask
<1>31. ASSUME runs[r].pc \in {"telling", "reporting"}, NEW c, Follows(d, c), c.run.result = d.run.result
       PROVE  Follows(d, GoTo(c, "finished")) /\ GoodRun(GoTo(c, "finished").run)
  <2>1. Follows(c, GoTo(c, "finished")) /\ GoTo(c, "finished").run.pc = "finished"
          /\ GoTo(c, "finished").run.result = c.run.result
    BY <1>31, GoToFollows DEF Follows, RunPcs
  <2>2. c.run.result # "none"
    BY <1>2, <1>31 DEF GoodRun
  <2> QED
    BY <1>31, <2>1, <2>2, FollowsTransitive DEF Follows, GoodDraft, GoodRun
<1>32. CASE Report(r)
  <2>1. Record(d).run.result = d.run.result
    BY <1>2, RecordFollows
  <2> QED
    BY <1>3, <1>7, <1>11, <1>31, <1>32, <2>1 DEF Report, d
<1>33. CASE ReportSkipped(r)
  BY <1>3, <1>7, <1>11, <1>31, <1>33 DEF ReportSkipped, d
<1>34. CASE ReportFails(r)
  BY <1>3, <1>4, <1>7, <1>13, <1>34 DEF ReportFails, d
<1> QED
  BY <1>8, <1>9, <1>12, <1>14, <1>15, <1>16, <1>17, <1>20, <1>21, <1>22, <1>23, <1>24,
     <1>25, <1>26, <1>27, <1>28, <1>29, <1>30, <1>32, <1>33, <1>34
  DEF RunStep, LockedStep

-----------------------------------------------------------------------------
(* The handlers of the panel.                                                 *)

GoodPanelDraft(p) ==
    /\ p \in [store : Store, run : PanelRun, approval : BOOLEAN]
    /\ GoodStore(p.store)
    /\ GoodPanelRun(p.run)

PanelFollows(p, q) == GoodPanelDraft(q) /\ KeepsStops(p.store, q.store, Jobs)

LEMMA PanelFollowsTransitive ==
    ASSUME NEW p, NEW q, NEW r, PanelFollows(p, q), PanelFollows(q, r)
    PROVE  PanelFollows(p, r)
BY KeepsStopsTransitive DEF PanelFollows

LEMMA PanelFollowsItself ==
    ASSUME NEW p, GoodPanelDraft(p)
    PROVE  PanelFollows(p, p)
BY DEF PanelFollows, KeepsStops

LEMMA PanelGood ==
    ASSUME IInv
    PROVE  GoodPanelDraft(Panel) /\ Panel.store = store /\ Panel.run = panelRun
             /\ Panel.approval = panelApproval
BY DEF IInv, GoodPanelDraft, Panel, GoodStore, GoodPanel, GoodPanelRun

LEMMA UpdateThenFollows ==
    ASSUME NEW p, GoodPanelDraft(p), NEW j, NEW patch \in Patches
    PROVE  /\ GoodPanelDraft(UpdateThen(p, j, patch))
           /\ KeepsStops(p.store, UpdateThen(p, j, patch).store, Jobs \ {j})
           /\ ~patch.override => PanelFollows(p, UpdateThen(p, j, patch))
           /\ UpdateThen(p, j, patch).run = p.run
           /\ UpdateThen(p, j, patch).approval = p.approval
<1> DEFINE next == UpdateJob(p.store, j, patch)
<1>1. /\ GoodStore(next)
      /\ KeepsStops(p.store, next, Jobs \ {j})
      /\ ~patch.override => KeepsStops(p.store, next, Jobs)
  BY UpdateJobGood, UpdateJobKeepsStops DEF GoodPanelDraft, GoodStore
<1>2. UpdateThen(p, j, patch) = [p EXCEPT !.store = next]
  BY DEF UpdateThen
<1> HIDE DEF next
<1> QED
  BY <1>1, <1>2 DEF GoodPanelDraft, GoodStore, PanelFollows

\* finishControlRun of the panel.
LEMMA FinishPanelFollows ==
    ASSUME NEW p, GoodPanelDraft(p), p.run # NoRun, NEW st \in Present
    PROVE  PanelFollows(p, FinishPanel(p, st))
<1> DEFINE found == Status(p.store, p.run.job)
           kept  == IF found \in HumanStops /\ st \notin HumanStops THEN found ELSE st
           patch == [status |-> kept, lock |-> p.run.lock, approval |-> "clear", override |-> FALSE]
           next  == UpdateJob(p.store, p.run.job, patch)
<1>1. kept \in Present
  BY DEF HumanStops, Present, Active, Terminal
<1>2. FinishPanel(p, st) = [p EXCEPT !.run = [p.run EXCEPT !.status = kept], !.store = next]
  BY DEF FinishPanel, GoodPanelDraft
<1> HIDE DEF kept
<1>3. patch \in Patches /\ ~patch.override
  BY <1>1 DEF Patches, GoodPanelDraft, PanelRun
<1> HIDE DEF patch
<1>4. GoodStore(next) /\ KeepsStops(p.store, next, Jobs)
  BY <1>3, UpdateJobGood, UpdateJobKeepsStops DEF GoodPanelDraft, GoodStore
<1>5. GoodPanelRun([p.run EXCEPT !.status = kept])
  BY <1>1 DEF GoodPanelDraft, GoodPanelRun, PanelRun
<1> HIDE DEF next
<1> QED
  BY <1>2, <1>4, <1>5 DEF GoodPanelDraft, GoodPanelRun, GoodStore, PanelFollows

LEMMA PausePanelFollows ==
    ASSUME NEW p, GoodPanelDraft(p), NEW j
    PROVE  PanelFollows(p, PausePanel(p, j))
<1> DEFINE finishes == /\ j = p.store.focus /\ p.run # NoRun
                       /\ Status(p.store, j) = "running"
           q == IF finishes THEN FinishPanel(p, "paused") ELSE p
<1>1. PanelFollows(p, q)
  BY FinishPanelFollows, PanelFollowsItself DEF Present, Active
<1> HIDE DEF q
<1>2. StatusPatch("paused") \in Patches /\ ~StatusPatch("paused").override
  BY PatchType DEF Present, Active
<1>3. PanelFollows(q, UpdateThen(q, j, StatusPatch("paused")))
  BY <1>1, <1>2, UpdateThenFollows DEF PanelFollows
<1> QED
  BY <1>1, <1>3, PanelFollowsTransitive DEF PausePanel, q

LEMMA CancelPanelFollows ==
    ASSUME NEW p, GoodPanelDraft(p), NEW j
    PROVE  PanelFollows(p, CancelPanel(p, j))
<1> DEFINE finishes == /\ j = p.store.focus /\ p.run # NoRun
                       /\ p.run.status \notin Terminal
           q == IF finishes THEN FinishPanel(p, "cancelled") ELSE p
<1>1. PanelFollows(p, q)
  BY FinishPanelFollows, PanelFollowsItself DEF Present, Terminal
<1> HIDE DEF q
<1>2. StatusPatch("cancelled") \in Patches /\ ~StatusPatch("cancelled").override
  BY PatchType DEF Present, Terminal
<1>3. PanelFollows(q, UpdateThen(q, j, StatusPatch("cancelled")))
  BY <1>1, <1>2, UpdateThenFollows DEF PanelFollows
<1> QED
  BY <1>1, <1>3, PanelFollowsTransitive DEF CancelPanel, q

LEMMA DenyPanelFollows ==
    ASSUME NEW p, GoodPanelDraft(p)
    PROVE  PanelFollows(p, DenyPanel(p))
<1> DEFINE clear   == [NoPatch EXCEPT !.approval = "clear"]
           cleared == IF p.store.focus = None THEN p ELSE UpdateThen(p, p.store.focus, clear)
           q       == [cleared EXCEPT !.approval = FALSE]
<1>1. clear \in Patches /\ ~clear.override
  BY DEF NoPatch, Patches
<1> HIDE DEF clear
<1>2. PanelFollows(p, cleared) /\ cleared.run = p.run
  BY <1>1, UpdateThenFollows, PanelFollowsItself
<1>3. DenyPanel(p) = IF p.approval /\ p.run # NoRun THEN FinishPanel(q, "denied") ELSE p
  BY DEF DenyPanel, clear
<1> HIDE DEF cleared
<1>4. PanelFollows(cleared, q) /\ q.run = p.run
  BY <1>2 DEF PanelFollows, GoodPanelDraft, KeepsStops
<1> HIDE DEF q
<1>5. p.run # NoRun => PanelFollows(q, FinishPanel(q, "denied"))
  BY <1>4, FinishPanelFollows DEF PanelFollows, Present, Terminal
<1> QED
  BY <1>2, <1>3, <1>4, <1>5, PanelFollowsTransitive, PanelFollowsItself

\* A handler that commits what follows from the panel keeps the invariant.
LEMMA CommitPanelGood ==
    ASSUME IInv, NEW q, PanelFollows(Panel, q), CommitPanel(q),
           UNCHANGED <<executing, ticks, runs, actor, cmd>>
    PROVE  IInv' /\ StopStep
<1>1. GoodStore(store') /\ KeepsStops(store, store', Jobs) /\ GoodPanel'
  BY PanelGood DEF CommitPanel, PanelFollows, GoodPanelDraft, GoodPanel, GoodPanelRun
<1>2. StopStep
  BY <1>1 DEF StopStep, KeepsStops
<1>3. CreatesNew'
  BY <1>2, CreatesNewKept DEF IInv
<1> QED
  BY <1>1, <1>2, <1>3 DEF IInv, GoodTicks, GoodRuns, GoodActor, GoodCmds

-----------------------------------------------------------------------------
(* The commands.                                                              *)

\* A command that changes the store, the panel and the record of one command.
LEMMA CommandGood ==
    ASSUME IInv, NEW j \in Jobs, NEW c, GoodCommand(c), cmd' = [cmd EXCEPT ![j] = c],
           c.pc = "preparing" /\ c.what = "create" => Status(store', j) = "new",
           GoodStore(store'), StopStep, GoodPanel',
           UNCHANGED <<executing, ticks, runs, actor>>
    PROVE  IInv'
<1>1. \A k \in Jobs : cmd'[k] = IF k = j THEN c ELSE cmd[k]
  BY DEF IInv, GoodCmds
<1>2. GoodCmds'
  BY <1>1 DEF IInv, GoodCmds, GoodCommand
<1>3. CreatesNew'
  BY <1>1, CreatesNewKept DEF IInv
<1> QED
  BY <1>2, <1>3 DEF IInv, GoodTicks, GoodRuns, GoodActor

\* No command in flight is a good one.
LEMMA NoCommandGood == GoodCommand(NoCommand) /\ NoCommand.pc = "idle"
BY DEF NoCommand, GoodCommand, Command, MissingJob, JobRecord, Missing

\* The commands of one turn.
LEMMA TurnGood ==
    ASSUME IInv,
           (\E j \in Jobs : Pause(j) \/ Cancel(j)) \/ Stop \/ Deny \/ ClearDone \/ RunJobs \/ Reload
    PROVE  IInv' /\ StopStep
<1>1. ASSUME NEW j \in Jobs, Pause(j) PROVE IInv' /\ StopStep
  BY <1>1, PanelGood, PausePanelFollows, CommitPanelGood DEF Pause
<1>2. ASSUME NEW j \in Jobs, Cancel(j) PROVE IInv' /\ StopStep
  BY <1>2, PanelGood, CancelPanelFollows, CommitPanelGood DEF Cancel
<1>3. CASE Stop
  <2>1. PICK j : CommitPanel(CancelPanel(Panel, j))
                   /\ UNCHANGED <<executing, ticks, runs, actor, cmd>>
    BY <1>3 DEF Stop
  <2> QED
    BY <2>1, PanelGood, CancelPanelFollows, CommitPanelGood
<1>4. CASE Deny
  BY <1>4, PanelGood, DenyPanelFollows, CommitPanelGood DEF Deny
<1>5. CASE ClearDone
  <2>1. GoodStore(store') /\ KeepsStops(store, store', Jobs)
    BY <1>5, ClearCompletedJobsGood, ClearCompletedJobsKeepsStops DEF ClearDone, IInv, GoodStore
  <2>2. StopStep
    BY <2>1 DEF StopStep, KeepsStops
  <2>3. CreatesNew'
    BY <1>5, <2>2, CreatesNewKept DEF IInv, ClearDone
  <2> QED
    BY <1>5, <2>1, <2>2, <2>3
    DEF ClearDone, IInv, GoodTicks, GoodRuns, GoodActor, GoodPanel, GoodCmds
<1>6. CASE RunJobs
  <2>1. PICK t \in TickSlots : BeginTick(t, store, executing, TRUE)
    BY <1>6 DEF RunJobs
  <2>2. GoodStore(store') /\ KeepsStops(store, store', Jobs) /\ GoodTicks'
    BY <2>1, BeginTickGood DEF IInv
  <2>3. StopStep
    BY <2>2 DEF StopStep, KeepsStops
  <2>4. CreatesNew'
    BY <1>6, <2>3, CreatesNewKept DEF IInv, RunJobs
  <2> QED
    BY <1>6, <2>2, <2>3, <2>4 DEF RunJobs, IInv, GoodRuns, GoodActor, GoodPanel, GoodCmds
<1>7. CASE Reload
  <2>1. GoodStore(store') /\ KeepsStops(store, store', Jobs)
    BY <1>7, RecoverJobsGood, RecoverJobsKeepsStops DEF Reload, IInv, GoodStore
  <2>2. StopStep
    BY <2>1 DEF StopStep, KeepsStops
  <2>3. GoodTicks'
    BY <1>7, IdleTickGood DEF Reload, GoodTicks, GoodTick
  <2>4. GoodRuns'
    BY <1>7 DEF Reload, GoodRuns, GoodRun, FreeRun, Run, RunPcs, Results, Present, Active
  <2>5. GoodPanel' /\ GoodActor'
    BY <1>7 DEF Reload, GoodPanel, GoodPanelRun, NoRun, PanelRun, GoodActor, Present, Terminal
  <2>6. GoodCmds' /\ CreatesNew'
    BY <1>7, NoCommandGood DEF Reload, GoodCmds, GoodCommand, CreatesNew
  <2>7. (executing \subseteq Jobs)'
    BY <1>7 DEF Reload
  <2> QED
    BY <2>1, <2>2, <2>3, <2>4, <2>5, <2>6, <2>7 DEF IInv
<1> QED
  BY <1>1, <1>2, <1>3, <1>4, <1>5, <1>6, <1>7

\* The commands that give a job the focus, up to Show.
LEMMA FocusGood ==
    ASSUME IInv, NEW j \in Jobs,
           \/ Focus(j) \/ Resume(j) \/ Continue(j) \/ DenyJob(j) \/ Control(j)
           \/ FindTab(j) \/ FocusFails(j) \/ GiveUp(j)
    PROVE  IInv' /\ StopStep
<1>1. ASSUME NEW what \in {"focus", "resume", "continue", "deny"}, NEW composer \in BOOLEAN,
             BeginFocus(j, what, composer)
      PROVE  IInv' /\ StopStep
  <2> DEFINE c == [NoCommand EXCEPT !.pc = "focusing", !.what = what,
                                    !.seen = store.job[j], !.composer = composer]
  <2>1. store.job[j] \in JobRecord /\ store.job[j].status \in Present
    BY <1>1 DEF BeginFocus, IInv, GoodStore, Store, InStore, Status
  <2>2. GoodCommand(c) /\ c.pc = "focusing"
    BY <2>1 DEF NoCommand, GoodCommand, Command
  <2>3. GoodStore(store') /\ KeepsStops(store, store', Jobs)
    BY <1>1, ActivateJobGood, ActivateJobKeepsStops DEF BeginFocus, IInv, GoodStore
  <2>4. StopStep
    BY <2>3 DEF StopStep, KeepsStops
  <2>5. cmd' = [cmd EXCEPT ![j] = c]
    BY <1>1 DEF BeginFocus
  <2>6. GoodPanel'
    BY <1>1 DEF BeginFocus, IInv, GoodPanel
  <2>7. UNCHANGED <<executing, ticks, runs, actor>>
    BY <1>1 DEF BeginFocus
  <2> HIDE DEF c
  <2> QED
    BY <2>2, <2>3, <2>4, <2>5, <2>6, <2>7, CommandGood
<1>2. CASE Focus(j)
  BY <1>1, <1>2 DEF Focus
<1>3. CASE Resume(j)
  BY <1>1, <1>3 DEF Resume
<1>4. CASE Continue(j)
  BY <1>1, <1>4 DEF Continue
<1>5. CASE DenyJob(j)
  BY <1>1, <1>5 DEF DenyJob
<1>6. ASSUME NEW c, GoodCommand(c), cmd' = [cmd EXCEPT ![j] = c], UNCHANGED runVars,
             c.pc = "preparing" /\ c.what = "create" => Status(store, j) = "new"
      PROVE  IInv' /\ StopStep
  <2>1. GoodStore(store') /\ StopStep /\ GoodPanel'
    BY <1>6 DEF runVars, IInv, GoodPanel, StopStep, KeepsStops
  <2> QED
    BY <1>6, <2>1, CommandGood DEF runVars, Status
<1>7. CASE Control(j)
  <2> DEFINE c == [NoCommand EXCEPT !.pc = "preparing", !.what = "create", !.composer = TRUE]
  <2>1. GoodCommand(c)
    BY NoCommandGood DEF NoCommand, GoodCommand, Command
  <2> QED
    BY <1>6, <1>7, <2>1 DEF Control
<1>8. CASE FindTab(j)
  <2> DEFINE c == [cmd[j] EXCEPT !.pc = "showing"]
  <2>1. GoodCommand(c) /\ c.pc = "showing"
    BY <1>8 DEF FindTab, IInv, GoodCmds, GoodCommand, Command
  <2>2. cmd' = [cmd EXCEPT ![j] = c]
    BY <1>8 DEF FindTab
  <2> HIDE DEF c
  <2> QED
    BY <1>6, <1>8, <2>1, <2>2 DEF FindTab
<1>9. CASE FocusFails(j) \/ GiveUp(j)
  BY <1>6, <1>9, NoCommandGood DEF FocusFails, GiveUp
<1> QED
  BY <1>2, <1>3, <1>4, <1>5, <1>7, <1>8, <1>9

\* The panel shows the job, and the command goes on: only /resume of the job
\* itself puts it back to work.
LEMMA ShowGood ==
    ASSUME IInv, NEW j \in Jobs, Show(j)
    PROVE  IInv' /\ StopStep
<1> DEFINE seen  == cmd[j].seen
           shown == [store |-> store, approval |-> seen.approval,
                     run |-> [job |-> j, status |-> seen.status, lock |-> seen.lock]]
           queue == [StatusPatch("queued") EXCEPT !.override = TRUE]
           q == CASE cmd[j].what = "resume" -> UpdateThen(shown, j, queue)
                  [] cmd[j].what = "deny"   -> DenyPanel(shown)
                  [] OTHER                  -> shown
           c == IF cmd[j].what \in {"resume", "continue"}
                THEN [cmd[j] EXCEPT !.pc = "preparing", !.seen = MissingJob("new")]
                ELSE NoCommand
<1>1. GoodCommand(cmd[j]) /\ cmd[j].pc = "showing" /\ GoodStore(store)
  BY DEF Show, IInv, GoodCmds
<1>2. GoodPanelDraft(shown) /\ shown.store = store
  BY <1>1 DEF GoodPanelDraft, GoodStore, GoodCommand, Command, JobRecord, GoodPanelRun, PanelRun
<1>3. queue \in Patches
  BY DEF StatusPatch, NoPatch, Patches, Present, Active
<1> HIDE DEF shown, queue
<1>4. GoodPanelDraft(q) /\ KeepsStops(store, q.store, Jobs \ Freed)
  <2>1. CASE cmd[j].what = "resume"
    <3>1. j \in Freed
      BY <1>1, <2>1 DEF Freed, Restarting
    <3>2. /\ GoodPanelDraft(UpdateThen(shown, j, queue))
          /\ KeepsStops(store, UpdateThen(shown, j, queue).store, Jobs \ {j})
      BY <1>2, <1>3, UpdateThenFollows
    <3> QED
      BY <2>1, <3>1, <3>2 DEF KeepsStops
  <2>2. CASE cmd[j].what = "deny"
    <3>1. PanelFollows(shown, DenyPanel(shown))
      BY <1>2, DenyPanelFollows
    <3> QED
      BY <1>2, <2>2, <3>1 DEF PanelFollows, KeepsStops
  <2>3. CASE cmd[j].what \notin {"resume", "deny"}
    BY <1>2, <2>3 DEF KeepsStops
  <2> QED
    BY <2>1, <2>2, <2>3
<1>5. CommitPanel(q) /\ cmd' = [cmd EXCEPT ![j] = c] /\ UNCHANGED <<executing, ticks, runs, actor>>
  BY DEF Show, shown, queue
<1> HIDE DEF q
<1>6. GoodStore(store') /\ StopStep /\ GoodPanel'
  BY <1>4, <1>5 DEF CommitPanel, GoodPanelDraft, StopStep, GoodPanel, GoodPanelRun
<1>7. GoodCommand(c) /\ ~(c.pc = "preparing" /\ c.what = "create")
  BY <1>1, NoCommandGood DEF GoodCommand, Command, MissingJob, JobRecord, Missing
<1> HIDE DEF c
<1> QED
  BY <1>5, <1>6, <1>7, CommandGood

\* The rest of /control, /resume and /continue.
LEMMA RestartGood ==
    ASSUME IInv, NEW j \in Jobs,
           \/ Requeue(j) \/ StartTick(j)
           \/ \E l \in Locks : FinishStale(j, l) \/ Create(j, l) \/ Restart(j, l)
    PROVE  IInv' /\ StopStep
<1>1. GoodCommand(cmd[j]) /\ GoodStore(store) /\ store \in Store
  BY DEF IInv, GoodCmds, GoodStore
<1>2. ASSUME NEW l \in Locks, FinishStale(j, l) PROVE IInv' /\ StopStep
  <2> DEFINE patch == [StatusPatch(panelRun.status) EXCEPT !.lock = None]
             c     == [cmd[j] EXCEPT !.lock = l]
  <2>1. patch \in Patches /\ ~patch.override
    BY DEF StatusPatch, NoPatch, Patches, IInv, GoodPanel, GoodPanelRun, PanelRun
  <2>2. store' = UpdateJob(store, panelRun.job, patch)
    BY <1>2 DEF FinishStale
  <2> HIDE DEF patch
  <2>3. GoodStore(store') /\ KeepsStops(store, store', Jobs)
    BY <1>1, <2>1, <2>2, UpdateJobGood, UpdateJobKeepsStops
  <2>4. StopStep
    BY <2>3 DEF StopStep, KeepsStops
  <2>5. GoodCommand(c) /\ c.pc = cmd[j].pc /\ c.what = cmd[j].what
    BY <1>1 DEF GoodCommand, Command
  <2>6. cmd' = [cmd EXCEPT ![j] = c] /\ GoodPanel' /\ UNCHANGED <<executing, ticks, runs, actor>>
    BY <1>2 DEF FinishStale, IInv, GoodPanel
  <2>7. c.pc = "preparing" /\ c.what = "create" => Status(store', j) = "new"
    BY <2>3, <2>5 DEF IInv, CreatesNew, KeepsStops
  <2> HIDE DEF c
  <2> QED
    BY <2>3, <2>4, <2>5, <2>6, <2>7, CommandGood
<1>3. ASSUME NEW l \in Locks, Create(j, l) PROVE IInv' /\ StopStep
  <2> DEFINE c == [cmd[j] EXCEPT !.pc = "ticking", !.lock = None]
  <2>1. GoodStore(store') /\ KeepsStops(store, store', Jobs \ {j})
    BY <1>1, <1>3, CreateJobGood, CreateJobKeepsStops DEF Create
  <2>2. GoodCommand(c) /\ c.pc = "ticking"
    BY <1>1 DEF GoodCommand, Command
  <2>3. cmd' = [cmd EXCEPT ![j] = c] /\ GoodPanel' /\ UNCHANGED <<executing, ticks, runs, actor>>
    BY <1>3 DEF Create, IInv, GoodPanel, GoodCmds
  <2> HIDE DEF c
  <2>4. cmd'[j] = c
    BY <2>3 DEF IInv, GoodCmds
  <2>5. j \in Freed
    BY <1>3, <2>2, <2>4 DEF Freed, Create, ChoosesLock
  <2>6. StopStep
    BY <2>1, <2>5 DEF StopStep, KeepsStops
  <2> QED
    BY <2>1, <2>2, <2>3, <2>6, CommandGood
<1>4. ASSUME NEW l \in Locks, Restart(j, l) PROVE IInv' /\ StopStep
  <2> DEFINE c == [cmd[j] EXCEPT !.pc = "restarting", !.lock = l]
  <2>1. GoodStore(store') /\ KeepsStops(store, store', Jobs)
    BY <1>1, <1>4, ActivateJobGood, ActivateJobKeepsStops DEF Restart
  <2>2. StopStep
    BY <2>1 DEF StopStep, KeepsStops
  <2>3. GoodCommand(c) /\ c.pc = "restarting"
    BY <1>1 DEF GoodCommand, Command
  <2>4. cmd' = [cmd EXCEPT ![j] = c] /\ GoodPanel' /\ UNCHANGED <<executing, ticks, runs, actor>>
    BY <1>4 DEF Restart, IInv, GoodPanel, GoodCmds
  <2> HIDE DEF c
  <2> QED
    BY <2>1, <2>2, <2>3, <2>4, CommandGood
<1>5. CASE Requeue(j)
  <2> DEFINE patch == [status |-> "queued", lock |-> cmd[j].lock, approval |-> "same",
                       override |-> TRUE]
             c == IF UpdateThrows(store, j, patch) THEN NoCommand
                  ELSE [cmd[j] EXCEPT !.pc = "ticking", !.lock = None]
  <2>1. patch \in Patches
    BY <1>1 DEF Patches, GoodCommand, Command, Present, Active
  <2>2. store' = UpdateJob(store, j, patch) /\ cmd' = [cmd EXCEPT ![j] = c]
          /\ GoodPanel' /\ UNCHANGED <<executing, ticks, runs, actor>>
    BY <1>5 DEF Requeue, IInv, GoodPanel, GoodCmds
  <2>3. GoodCommand(c) /\ c.pc # "preparing"
    BY <1>1, NoCommandGood DEF GoodCommand, Command
  <2> HIDE DEF patch, c
  <2>4. GoodStore(store') /\ KeepsStops(store, store', Jobs \ {j})
    BY <1>1, <2>1, <2>2, UpdateJobGood, UpdateJobKeepsStops
  <2>5. j \in Freed
    BY <1>5 DEF Freed, Restarting, Requeue
  <2>6. StopStep
    BY <2>4, <2>5 DEF StopStep, KeepsStops
  <2> QED
    BY <2>2, <2>3, <2>4, <2>6, CommandGood
<1>6. CASE StartTick(j)
  <2>1. PICK t \in TickSlots : BeginTick(t, store, executing, cmd[j].composer)
    BY <1>6 DEF StartTick
  <2>2. GoodStore(store') /\ KeepsStops(store, store', Jobs) /\ GoodTicks'
    BY <1>1, <2>1, BeginTickGood DEF IInv, GoodCommand, Command
  <2>3. StopStep
    BY <2>2 DEF StopStep, KeepsStops
  <2>4. cmd' = [cmd EXCEPT ![j] = NoCommand] /\ UNCHANGED <<executing, runs, actor>> /\ GoodPanel'
    BY <1>6 DEF StartTick, IInv, GoodPanel
  <2>5. \A k \in Jobs : cmd'[k] = IF k = j THEN NoCommand ELSE cmd[k]
    BY <2>4 DEF IInv, GoodCmds
  <2>6. GoodCmds' /\ CreatesNew'
    BY <2>3, <2>4, <2>5, NoCommandGood, CreatesNewKept DEF IInv, GoodCmds, GoodCommand
  <2> QED
    BY <2>2, <2>3, <2>4, <2>6 DEF IInv, GoodRuns, GoodActor
<1> QED
  BY <1>2, <1>3, <1>4, <1>5, <1>6

-----------------------------------------------------------------------------
(* The scheduler.                                                             *)

\* What a step of the scheduler must show.
LEMMA SchedulerGood ==
    ASSUME IInv, GoodStore(store'), KeepsStops(store, store', Jobs), GoodTicks', GoodRuns',
           executing' \subseteq Jobs, UNCHANGED <<actor, panelRun, panelApproval, cmd>>
    PROVE  IInv' /\ StopStep
<1>1. StopStep
  BY DEF StopStep, KeepsStops
<1>2. CreatesNew'
  BY <1>1, CreatesNewKept DEF IInv
<1> QED
  BY <1>1, <1>2 DEF IInv, GoodActor, GoodPanel, GoodCmds

LEMMA TickStepGood ==
    ASSUME IInv, NEW t \in TickSlots, TickStep(t),
           UNCHANGED <<actor, panelRun, panelApproval, cmd>>
    PROVE  IInv' /\ StopStep
<1>1. GoodStore(store) /\ GoodTick(ticks[t]) /\ ticks[t] \in Tick
  BY DEF IInv, GoodTicks, GoodTick
<1>2. CASE TickActivated(t)
  <2> DEFINE after == MarkRunning(store, ticks[t])
  <2>1. ticks[t].job \in Jobs
    BY <1>1, <1>2 DEF TickActivated, GoodTick
  <2>2. GoodStore(after.store) /\ KeepsStops(store, after.store, Jobs) /\ GoodTick(after.tick)
    BY <1>1, <2>1, MarkRunningGood
  <2>3. /\ store' = after.store /\ ticks' = [ticks EXCEPT ![t] = after.tick]
        /\ UNCHANGED <<executing, runs>>
    BY <1>2 DEF TickActivated
  <2> HIDE DEF after
  <2>4. GoodTicks' /\ GoodRuns' /\ executing' \subseteq Jobs
    BY <2>2, <2>3 DEF IInv, GoodTicks, GoodTick, GoodRuns
  <2> QED
    BY <2>2, <2>3, <2>4, SchedulerGood
<1>3. CASE TickLaunches(t)
  <2> DEFINE run  == [FreeRun EXCEPT !.pc = "top", !.job = ticks[t].job, !.lock = ticks[t].lock]
             next == [ticks[t] EXCEPT !.lock = None]
  <2>1. ticks[t].job \in Jobs /\ ticks[t].lock \in Locks \cup {None}
    BY <1>1, <1>3 DEF TickLaunches, GoodTick, Tick
  <2>2. PICK r \in RunSlots : runs' = [runs EXCEPT ![r] = run]
    BY <1>3 DEF TickLaunches
  <2>3. GoodRun(run)
    BY <2>1 DEF FreeRun, GoodRun, Run, RunPcs, Results, Present, Active
  <2>4. next \in Tick /\ AdvanceTick(t, store, executing', next)
    BY <1>1, <1>3 DEF Tick, TickLaunches
  <2>5. executing' \subseteq Jobs
    BY <1>3, <2>1 DEF TickLaunches, IInv
  <2> HIDE DEF run, next
  <2>6. GoodRuns'
    BY <2>2, <2>3 DEF IInv, GoodRuns, GoodRun
  <2>7. GoodStore(store') /\ KeepsStops(store, store', Jobs) /\ GoodTicks'
    BY <1>1, <2>4, AdvanceTickGood DEF IInv
  <2> QED
    BY <2>5, <2>6, <2>7, SchedulerGood
<1> QED
  BY <1>2, <1>3 DEF TickStep

LEMMA SettleStepGood ==
    ASSUME IInv, NEW r \in RunSlots, SettleStep(r),
           UNCHANGED <<actor, panelRun, panelApproval, cmd>>
    PROVE  IInv' /\ StopStep
<1>1. GoodStore(store) /\ GoodRun(runs[r])
  BY DEF IInv, GoodRuns
<1>2. CASE Settle(r)
  <2> DEFINE run  == runs[r]
             next == [run EXCEPT !.pc = "settled"]
  <2>1. /\ run.job \in Jobs /\ run.result \in Results \ {"none"} /\ run.pc = "finished"
        /\ run \in Run
    BY <1>1, <1>2 DEF Settle, GoodRun, Run
  <2>2. /\ run.result # "rejected" => StatusPatch(run.result) \in Patches
        /\ StatusPatch("failed") \in Patches
        /\ ~StatusPatch("failed").override /\ ~StatusPatch(run.result).override
    BY <2>1, PatchType DEF Results, Present, Active, Terminal
  <2>3. GoodStore(SettledStore(store, run)) /\ KeepsStops(store, SettledStore(store, run), Jobs)
    <3>1. run.result # "rejected" =>
            /\ GoodStore(UpdateJob(store, run.job, StatusPatch(run.result)))
            /\ KeepsStops(store, UpdateJob(store, run.job, StatusPatch(run.result)), Jobs)
      BY <1>1, <2>2, UpdateJobGood, UpdateJobKeepsStops DEF GoodStore
    <3>2. /\ GoodStore(UpdateJob(store, run.job, StatusPatch("failed")))
          /\ KeepsStops(store, UpdateJob(store, run.job, StatusPatch("failed")), Jobs)
      BY <1>1, <2>2, UpdateJobGood, UpdateJobKeepsStops DEF GoodStore
    <3>3. KeepsStops(store, store, Jobs)
      BY DEF KeepsStops
    <3> QED
      BY <1>1, <3>1, <3>2, <3>3 DEF SettledStore
  <2>4. GoodRun(next)
    BY <2>1 DEF GoodRun, Run, RunPcs
  <2>5. runs' = [runs EXCEPT ![r] = next] /\ store' = SettledStore(store, run)
          /\ UNCHANGED <<executing, ticks>>
    BY <1>2 DEF Settle, IInv, GoodRuns
  <2> HIDE DEF run, next
  <2>6. GoodRuns' /\ GoodTicks' /\ executing' \subseteq Jobs
    BY <2>4, <2>5 DEF IInv, GoodRuns, GoodRun, GoodTicks
  <2> QED
    BY <2>3, <2>5, <2>6, SchedulerGood
<1>3. ASSUME NEW t \in TickSlots, Retire(r, t) PROVE IInv' /\ StopStep
  <2>1. GoodStore(store') /\ KeepsStops(store, store', Jobs) /\ GoodTicks'
    BY <1>1, <1>3, BeginTickGood DEF Retire, IInv
  <2>2. GoodRun(FreeRun)
    BY DEF GoodRun, FreeRun, Run, RunPcs, Results, Present, Active
  <2>3. GoodRuns' /\ executing' \subseteq Jobs
    BY <1>3, <2>2 DEF Retire, IInv, GoodRuns, GoodRun
  <2> QED
    BY <2>1, <2>3, SchedulerGood
<1> QED
  BY <1>2, <1>3 DEF SettleStep

-----------------------------------------------------------------------------
(* The theorems.                                                              *)

\* A session starts in the invariant.
LEMMA InitGood ==
    ASSUME Init
    PROVE  IInv
<1>1. GoodStore(store) /\ executing \subseteq Jobs
  BY EmptyStoreGood DEF Init, SchedulerInit
<1>2. GoodTicks
  BY IdleTickGood DEF Init, SchedulerInit, GoodTicks, GoodTick
<1>3. GoodRuns
  BY DEF Init, SchedulerInit, GoodRuns, GoodRun, FreeRun, Run, RunPcs, Results, Present, Active
<1>4. GoodActor /\ GoodPanel
  BY DEF Init, RunInit, GoodActor, GoodPanel, GoodPanelRun, NoRun, PanelRun, Present, Terminal
<1>5. GoodCmds /\ CreatesNew
  BY NoCommandGood DEF Init, GoodCmds, GoodCommand, CreatesNew
<1> QED
  BY <1>1, <1>2, <1>3, <1>4, <1>5 DEF IInv

\* Every step keeps the invariant, and is a stutter or a StopStep.
LEMMA NextGood ==
    ASSUME IInv, [Next]_vars
    PROVE  IInv' /\ StopStep
<1>1. CASE UNCHANGED vars
  BY <1>1 DEF vars, IInv, GoodTicks, GoodRuns, GoodActor, GoodPanel, GoodCmds, CreatesNew,
              StopStep, KeepsStops
<1>2. ASSUME NEW j \in Jobs, Human(j) PROVE IInv' /\ StopStep
  BY <1>2, TurnGood, FocusGood DEF Human
<1>3. ASSUME NEW j \in Jobs, CommandStep(j) PROVE IInv' /\ StopStep
  <2>1. CASE Show(j)
    BY <2>1, ShowGood
  <2>2. CASE FindTab(j) \/ FocusFails(j) \/ GiveUp(j)
    BY <2>2, FocusGood
  <2>3. CASE \/ Requeue(j) \/ StartTick(j)
             \/ \E l \in Locks : FinishStale(j, l) \/ Create(j, l) \/ Restart(j, l)
    BY <2>3, RestartGood
  <2> QED
    BY <1>3, <2>1, <2>2, <2>3 DEF CommandStep
<1>4. CASE Stop \/ Deny \/ ClearDone \/ RunJobs \/ Reload
  BY <1>4, TurnGood
<1>5. ASSUME NEW t \in TickSlots, TickStep(t), UNCHANGED <<actor, panelRun, panelApproval, cmd>>
      PROVE  IInv' /\ StopStep
  BY <1>5, TickStepGood
<1>6. ASSUME NEW r \in RunSlots, SettleStep(r),
             UNCHANGED <<actor, panelRun, panelApproval, cmd>>
      PROVE  IInv' /\ StopStep
  BY <1>6, SettleStepGood
<1>7. ASSUME NEW r \in RunSlots, RunStep(r), UNCHANGED cmd
      PROVE  IInv' /\ StopStep
  BY <1>7, RunStepGood
<1> QED
  BY <1>1, <1>2, <1>3, <1>4, <1>5, <1>6, <1>7 DEF Next

LEMMA IInvHolds == Spec => []IInv
<1>1. Init => IInv
  BY InitGood
<1>2. IInv /\ [Next]_vars => IInv'
  BY NextGood
<1> QED
  BY <1>1, <1>2, PTL DEF Spec

\* The store, the scheduler's map, the ticks, the runs, the panel and the
\* commands always have the values they are declared to have: no interleaving
\* makes a handler write a status or a lock that is none, or act for no job.
THEOREM TypeCorrect == Spec => []TypeOK
<1>1. IInv => TypeOK
  BY DEF IInv, TypeOK, SchedulerTypeOK, RunTypeOK, GoodStore, GoodTicks, GoodRuns, GoodActor,
         GoodPanel, GoodPanelRun, GoodCmds
<1> QED
  BY <1>1, IInvHolds, PTL

\* Whatever the scheduler, the runs and the human do to the store, in whatever
\* order and with any number of jobs: a job that stopped working holds no lock,
\* only a job in approval waits for one, the focus is in the list, and the list
\* is sorted (normalizeBrowserJob, compact, the focus rules of the store).
THEOREM StoreConsistentAlways == Spec => []StoreInvariant
<1>1. IInv => StoreInvariant
  BY DEF IInv, GoodStore, StoreInvariant
<1> QED
  BY <1>1, IInvHolds, PTL

\* A job the human paused or cancelled stays stopped until the human restarts
\* it, whatever its old run, the scheduler or another command writes late
\* (updateJob's preserveHumanStop, for any number of overlapping ticks and runs).
THEOREM HumanStopsStick == Spec => HumanStopSticks
<1> DEFINE Sticks == \A j \in Jobs : Status(store, j) \in HumanStops
                       => Status(store', j) \in HumanStops \cup {"gone"} \/ Restarting(j)
<1>1. IInv /\ [Next]_vars => [Sticks]_vars
  <2> SUFFICES ASSUME IInv, [Next]_vars, NEW j \in Jobs, Status(store, j) \in HumanStops,
                      ~Restarting(j)
               PROVE  Status(store', j) \in HumanStops \cup {"gone"}
    OBVIOUS
  <2>1. StopStep
    BY NextGood
  <2>2. ~(cmd[j].pc = "preparing" /\ cmd[j].what = "create")
    BY DEF IInv, CreatesNew, HumanStops
  <2>3. j \notin Freed
    BY <2>2 DEF Freed
  <2> QED
    BY <2>1, <2>3 DEF StopStep, KeepsStops
<1> QED
  BY <1>1, IInvHolds, PTL DEF Spec, HumanStopSticks
=============================================================================
