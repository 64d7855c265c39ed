------------------------- MODULE BrowserJobRunProofs -------------------------
(***************************************************************************)
(* Theorems about a side panel at work as long as the human does not put   *)
(* jobs back in the queue and the store holds all of them, for any jobs,   *)
(* locks, limits and any number of overlapping ticks and runs: a job is    *)
(* executed once, a running job is driven, and an ended job stays ended.   *)
(*                                                                         *)
(* The argument: only /control queues a job, once.  So a job has at most   *)
(* one driver at a time - the tick that starts it, then the run that tick  *)
(* launched - and the phase of the driver bounds what the store and the    *)
(* run's private copy say of the job.                                      *)
(***************************************************************************)
EXTENDS BrowserJobProofs

\* The human neither resumes nor continues a job.
NoRestart == Commands \cap {"resume", "continue"} = {}

\* The store keeps every job of the session.
NoEviction == Cardinality(Jobs) <= MaxJobs

\* The human does not deny an approval.
NoDeny == "deny" \notin Commands

-----------------------------------------------------------------------------
(* Drivers, over a store s, ticks tk and runs rn.                             *)

\* The turns of the loop before it ended.
LoopPcs == {"top", "observing", "deciding", "checking", "acting", "verifying"}

\* What the store says of a job a driver has not finished with.
Held == {"running", "paused", "cancelled", "gone"}

\* The run may still write "approval" over what the store says.
Awaits(run) == run.pc = "asking" \/ (run.pc = "reporting" /\ run.local = "approval")

\* The run may put its job back to work.
Drives(run) == run.pc \in LoopPcs \/ (NoDeny /\ Awaits(run))

\* A job at work, or about to be.
IsOpen(st) == st \in {"queued", "running"} \/ (NoDeny /\ st = "approval")

\* Nothing the store says lets the job start or go on.
Settled(s, j) == ~IsOpen(Status(s, j)) /\ Status(s, j) # "new"

\* And no tick and no run will.
Over(s, tk, rn, j) ==
    /\ Settled(s, j)
    /\ \A t \in TickSlots : tk[t].pc # "idle" => tk[t].job # j
    /\ \A r \in RunSlots : Drives(rn[r]) => rn[r].job # j

TickOk(s, t) ==
    /\ t.pc = "activating" => Status(s, t.job) \in {"queued", "paused", "cancelled", "gone"}
    /\ t.pc = "starting" => Status(s, t.job) \in Held

RunOk(s, run) ==
    /\ run.pc \in LoopPcs => /\ Status(s, run.job) \in Held
                             /\ run.local \in Held \ {"gone"} /\ ~run.asked
    /\ run.pc = "asking" => ~run.asked /\ run.local \in {"approval", "paused", "cancelled"}
    /\ run.pc \in {"asking", "telling", "reporting"} =>
          /\ Status(s, run.job) \notin {"new", "queued", "running"}
          /\ run.local \notin {"queued", "running"}
    /\ NoDeny /\ Awaits(run) => Status(s, run.job) \in {"approval", "paused", "cancelled", "gone"}
    /\ run.pc = "finished" => /\ Status(s, run.job) \notin {"new", "queued"}
                              /\ run.result # "rejected" => Status(s, run.job) # "running"
    /\ run.pc = "settled" => Status(s, run.job) \notin {"new", "queued", "running"}

\* A job has one driver: a tick that starts it, or a run.
OneDriver(tk, rn) ==
    /\ \A t, u \in TickSlots : tk[t].pc # "idle" /\ tk[u].pc # "idle" /\ t # u
                                   => tk[t].job # tk[u].job
    /\ \A t \in TickSlots, r \in RunSlots : tk[t].pc # "idle" /\ rn[r].pc # "free"
                                                => tk[t].job # rn[r].job
    /\ \A r, q \in RunSlots : rn[r].pc # "free" /\ rn[q].pc # "free" /\ r # q
                                  => rn[r].job # rn[q].job

AllQuiet(tk, rn) ==
    /\ \A t \in TickSlots : tk[t].pc = "idle"
    /\ \A r \in RunSlots : rn[r].pc = "free"

\* The first job of a panel is activated before anything else is started.
FirstAlone(tk, rn) ==
    \A t \in TickSlots : tk[t].pc = "activating" =>
        /\ tk[t].composer
        /\ \A u \in TickSlots : u # t => tk[u].pc = "idle"
        /\ \A r \in RunSlots : rn[r].pc = "free"

Driven(s, tk, rn) ==
    \A j \in Jobs : Status(s, j) = "running" =>
        \/ \E r \in RunSlots : rn[r].job = j /\ rn[r].pc \notin {"free", "settled"}
        \/ \E t \in TickSlots : tk[t].job = j /\ tk[t].pc = "starting"

Drivers(s, tk, rn) ==
    /\ \A t \in TickSlots : TickOk(s, tk[t])
    /\ \A r \in RunSlots : RunOk(s, rn[r])
    /\ OneDriver(tk, rn)
    /\ FirstAlone(tk, rn)
    /\ s.focus = None => AllQuiet(tk, rn)
    /\ Driven(s, tk, rn)
    /\ Irreflexive(s)

\* What is over stays over.
StaysOver(s, tk, rn, s2, tk2, rn2) ==
    \A j \in Jobs : Over(s, tk, rn, j) => Over(s2, tk2, rn2, j)

\* The ticks and the runs have jobs.
Typed(tk, rn) ==
    /\ tk \in [TickSlots -> Tick] /\ \A t \in TickSlots : GoodTick(tk[t])
    /\ rn \in [RunSlots -> Run] /\ \A r \in RunSlots : GoodRun(rn[r])

\* No job is put to work, and a job at work keeps its lock.
WorkKeptAt(s, s2, j) ==
    Status(s2, j) \in LockHolding =>
        /\ s2.job[j].lock = s.job[j].lock
        /\ \/ Status(s2, j) = Status(s, j)
           \/ {Status(s, j), Status(s2, j)} \subseteq {"running", "approval"}

-----------------------------------------------------------------------------
(* The moves that keep Drivers.                                               *)

\* The job is as it was, as far as the scheduler can tell.
SameWork(s, s2, j) ==
    /\ Status(s2, j) = Status(s, j)
    /\ Status(s, j) \in LockHolding => s2.job[j].lock = s.job[j].lock

\* What the human's commands do to the jobs.
HumanMoves(s, tk, rn, s2) ==
    \A j \in Jobs :
        \/ SameWork(s, s2, j)
        \/ Status(s, j) \in Present /\ Status(s2, j) \in HumanStops
        \/ Status(s, j) \in Clearable /\ Status(s2, j) = "gone"
        \/ Over(s, tk, rn, j) /\ Settled(s2, j)
        \/ Status(s, j) = "new" /\ Status(s2, j) = "queued" /\ s2.job[j].lock \in Locks

LEMMA HumanMovesKeep ==
    ASSUME NEW s, NEW tk, NEW rn, NEW s2, Typed(tk, rn), Drivers(s, tk, rn),
           HumanMoves(s, tk, rn, s2), s2.focus = None => s.focus = None,
           Irreflexive(s) => Irreflexive(s2)
    PROVE  Drivers(s2, tk, rn) /\ StaysOver(s, tk, rn, s2, tk, rn)
<1>1. ASSUME NEW t \in TickSlots PROVE TickOk(s2, tk[t])
  <2>1. tk[t].pc \in {"activating", "starting"} => tk[t].job \in Jobs
    BY DEF Typed, GoodTick
  <2>2. TickOk(s, tk[t])
    BY DEF Drivers
  <2>3. tk[t].pc # "idle" => ~Over(s, tk, rn, tk[t].job)
    BY DEF Over
  <2> QED
    BY <2>1, <2>2, <2>3
    DEF TickOk, HumanMoves, SameWork, Held, HumanStops, Present, Active, Terminal, Clearable
<1>2. ASSUME NEW r \in RunSlots PROVE RunOk(s2, rn[r])
  <2> DEFINE run == rn[r]
             j   == run.job
  <2>1. run.pc # "free" => j \in Jobs
    BY DEF Typed, GoodRun
  <2>2. RunOk(s, run)
    BY DEF Drivers
  <2>3. Drives(run) => ~Over(s, tk, rn, j)
    BY DEF Over
  <2>4. CASE run.pc = "free"
    BY <2>4 DEF RunOk, LoopPcs, Awaits
  <2>5. CASE run.pc # "free"
    <3>1. \/ Status(s2, j) = Status(s, j)
          \/ Status(s, j) \in Present /\ Status(s2, j) \in HumanStops
          \/ Status(s, j) \in Clearable /\ Status(s2, j) = "gone"
          \/ ~Drives(run) /\ Settled(s2, j)
          \/ Status(s, j) = "new" /\ Status(s2, j) = "queued"
      BY <2>1, <2>3, <2>5 DEF HumanMoves, SameWork
    <3> SUFFICES RunOk(s2, run)
      OBVIOUS
    <3>0. run.pc \in RunPcs \ {"free"}
      BY <2>5 DEF Typed, GoodRun, Run
    <3> HIDE DEF run
    <3>2. CASE Status(s2, j) = Status(s, j)
      BY <2>2, <3>2 DEF RunOk
    <3>3. CASE Status(s2, j) \in HumanStops \cup {"gone"}
      BY <2>2, <3>3 DEF RunOk, HumanStops, Held
    <3>4. CASE ~Drives(run) /\ Settled(s2, j)
      BY <2>2, <3>4 DEF RunOk, Drives, Settled, IsOpen
    <3>5. CASE Status(s, j) = "new"
      BY <2>2, <3>0, <3>5 DEF RunOk, Held, RunPcs, LoopPcs
    <3> QED
      BY <3>1, <3>2, <3>3, <3>4, <3>5
  <2> QED
    BY <2>4, <2>5
<1>3. Driven(s2, tk, rn)
  BY DEF Drivers, Driven, HumanMoves, SameWork, HumanStops, Settled, IsOpen
<1>4. StaysOver(s, tk, rn, s2, tk, rn)
  BY DEF StaysOver, Over, HumanMoves, SameWork, Settled, IsOpen, HumanStops
<1> QED
  BY <1>1, <1>2, <1>3, <1>4 DEF Drivers

\* What a step of a run does to its job, the store and the run.
RunMoves(s, run, s2, run2) ==
    /\ KeepsFrame(s, s2)
    /\ \A k \in Jobs \ {run.job} : s2.job[k] = s.job[k]
    /\ run2.job = run.job /\ run2.pc # "free"
    /\ RunOk(s2, run2)
    /\ Drives(run2) => Drives(run)
    /\ Settled(s, run.job) /\ ~Drives(run) => Settled(s2, run.job)
    /\ Status(s2, run.job) = "running" => run2.pc # "settled"
    /\ NoDeny => WorkKeptAt(s, s2, run.job)

LEMMA RunMovesKeep ==
    ASSUME NEW s, NEW tk, NEW rn, Typed(tk, rn), Drivers(s, tk, rn),
           NEW r \in RunSlots, rn[r].pc # "free",
           NEW s2, NEW run2, RunMoves(s, rn[r], s2, run2)
    PROVE  LET rn2 == [rn EXCEPT ![r] = run2]
           IN  Drivers(s2, tk, rn2) /\ StaysOver(s, tk, rn, s2, tk, rn2)
<1> DEFINE rn2 == [rn EXCEPT ![r] = run2]
           j   == rn[r].job
<1>1. j \in Jobs
  BY DEF Typed, GoodRun
<1>2. \A q \in RunSlots : rn2[q] = IF q = r THEN run2 ELSE rn[q]
  BY DEF Typed
<1>3. run2.job = j /\ run2.pc # "free" /\ rn[r].pc # "free"
  BY DEF RunMoves
<1>4. \A k \in Jobs \ {j} : Status(s2, k) = Status(s, k)
  BY DEF RunMoves, Status
<1> HIDE DEF rn2
<1>5. ASSUME NEW t \in TickSlots PROVE TickOk(s2, tk[t])
  <2>1. tk[t].pc \in {"activating", "starting"} => tk[t].job \in Jobs /\ tk[t].job # j
    BY <1>3 DEF Typed, GoodTick, Drivers, OneDriver
  <2> QED
    BY <1>4, <2>1 DEF TickOk, Drivers
<1>6. ASSUME NEW q \in RunSlots PROVE RunOk(s2, rn2[q])
  <2>1. CASE q = r
    BY <1>2, <2>1 DEF RunMoves
  <2>2. CASE q # r
    <3>1. rn[q].pc # "free" => rn[q].job \in Jobs \ {j}
      BY <1>3, <2>2 DEF Typed, GoodRun, Drivers, OneDriver
    <3>2. RunOk(s, rn[q]) /\ rn2[q] = rn[q]
      BY <1>2, <2>2 DEF Drivers
    <3> QED
      BY <1>4, <3>1, <3>2 DEF RunOk, LoopPcs, Awaits
  <2> QED
    BY <2>1, <2>2
<1>7. OneDriver(tk, rn2)
  BY <1>2, <1>3 DEF Drivers, OneDriver
<1>8. FirstAlone(tk, rn2)
  BY <1>3 DEF Drivers, FirstAlone
<1>9. s2.focus # None
  BY <1>3 DEF Drivers, AllQuiet, RunMoves, KeepsFrame
<1>10. Driven(s2, tk, rn2)
  BY <1>2, <1>3, <1>4 DEF Drivers, Driven, RunMoves
<1>11. Irreflexive(s2)
  BY DEF Drivers, RunMoves, KeepsFrame
<1>12. StaysOver(s, tk, rn, s2, tk, rn2)
  <2> SUFFICES ASSUME NEW k \in Jobs, Over(s, tk, rn, k) PROVE Over(s2, tk, rn2, k)
    BY DEF StaysOver
  <2>1. CASE k = j
    BY <1>2, <1>3, <2>1 DEF Over, RunMoves
  <2>2. CASE k # j
    BY <1>2, <1>3, <1>4, <2>2 DEF Over, Settled
  <2> QED
    BY <2>1, <2>2
<1> QED
  BY <1>5, <1>6, <1>7, <1>8, <1>9, <1>10, <1>11, <1>12 DEF Drivers, rn2

\* A tick hands the job it started to a run.
LEMMA LaunchKeeps ==
    ASSUME NEW s, NEW tk, NEW rn, Typed(tk, rn), Drivers(s, tk, rn),
           NEW t \in TickSlots, tk[t].pc = "starting", NEW r \in RunSlots, rn[r].pc = "free",
           NEW lock
    PROVE  LET run == [FreeRun EXCEPT !.pc = "top", !.job = tk[t].job, !.lock = lock]
               tk2 == [tk EXCEPT ![t] = IdleTick]
               rn2 == [rn EXCEPT ![r] = run]
           IN  Drivers(s, tk2, rn2) /\ StaysOver(s, tk, rn, s, tk2, rn2)
<1> DEFINE run == [FreeRun EXCEPT !.pc = "top", !.job = tk[t].job, !.lock = lock]
           tk2 == [tk EXCEPT ![t] = IdleTick]
           rn2 == [rn EXCEPT ![r] = run]
           j   == tk[t].job
<1>1. \A u \in TickSlots : tk2[u] = IF u = t THEN IdleTick ELSE tk[u]
  BY DEF Typed
<1>2. \A q \in RunSlots : rn2[q] = IF q = r THEN run ELSE rn[q]
  BY DEF Typed
<1>3. run.pc = "top" /\ run.job = j /\ run.local = "running" /\ ~run.asked /\ run.result = "none"
  BY DEF FreeRun
<1>4. IdleTick.pc = "idle"
  BY DEF IdleTick
<1>5. j \in Jobs /\ Status(s, j) \in Held
  BY DEF Typed, GoodTick, Drivers, TickOk
<1> HIDE DEF run, tk2, rn2
<1>6. \A u \in TickSlots : TickOk(s, tk2[u])
  BY <1>1, <1>4 DEF Drivers, TickOk
<1>7. RunOk(s, run)
  BY <1>3, <1>5 DEF RunOk, Held, LoopPcs, Awaits
<1>8. \A q \in RunSlots : RunOk(s, rn2[q])
  BY <1>2, <1>7 DEF Drivers
<1>9. OneDriver(tk2, rn2)
  BY <1>1, <1>2, <1>3, <1>4 DEF Drivers, OneDriver
<1>10. FirstAlone(tk2, rn2) /\ s.focus # None
  BY <1>1, <1>4 DEF Drivers, FirstAlone, AllQuiet
<1>11. Driven(s, tk2, rn2)
  <2> SUFFICES ASSUME NEW k \in Jobs, Status(s, k) = "running"
               PROVE  \/ \E q \in RunSlots : rn2[q].job = k /\ rn2[q].pc \notin {"free", "settled"}
                      \/ \E u \in TickSlots : tk2[u].job = k /\ tk2[u].pc = "starting"
    BY DEF Driven
  <2>1. CASE k = j
    BY <1>2, <1>3, <2>1
  <2>2. CASE k # j
    BY <1>1, <1>2, <2>2 DEF Drivers, Driven
  <2> QED
    BY <2>1, <2>2
<1>12. StaysOver(s, tk, rn, s, tk2, rn2)
  BY <1>1, <1>2, <1>3, <1>4 DEF StaysOver, Over
<1> QED
  BY <1>6, <1>8, <1>9, <1>10, <1>11, <1>12 DEF Drivers, run, tk2, rn2

\* A tick that does not know a job to start any more is idle again.
LEMMA IdleKeeps ==
    ASSUME NEW s, NEW tk, NEW rn, Typed(tk, rn), Drivers(s, tk, rn),
           NEW t \in TickSlots, tk[t].pc = "starting" => Status(s, tk[t].job) # "running"
    PROVE  LET tk2 == [tk EXCEPT ![t] = IdleTick]
           IN  Drivers(s, tk2, rn) /\ StaysOver(s, tk, rn, s, tk2, rn)
<1> DEFINE tk2 == [tk EXCEPT ![t] = IdleTick]
<1>1. \A u \in TickSlots : tk2[u] = IF u = t THEN IdleTick ELSE tk[u]
  BY DEF Typed
<1>2. IdleTick.pc = "idle"
  BY DEF IdleTick
<1> HIDE DEF tk2
<1>3. \A u \in TickSlots : TickOk(s, tk2[u])
  BY <1>1, <1>2 DEF Drivers, TickOk
<1>4. OneDriver(tk2, rn)
  BY <1>1, <1>2 DEF Drivers, OneDriver
<1>5. FirstAlone(tk2, rn) /\ (s.focus = None => AllQuiet(tk2, rn))
  BY <1>1, <1>2 DEF Drivers, FirstAlone, AllQuiet
<1>6. Driven(s, tk2, rn)
  BY <1>1 DEF Drivers, Driven
<1>7. StaysOver(s, tk, rn, s, tk2, rn)
  BY <1>1, <1>2 DEF StaysOver, Over
<1> QED
  BY <1>3, <1>4, <1>5, <1>6, <1>7 DEF Drivers, tk2

\* A settled run gives its slot back.
LEMMA FreeKeeps ==
    ASSUME NEW s, NEW tk, NEW rn, Typed(tk, rn), Drivers(s, tk, rn),
           NEW r \in RunSlots, rn[r].pc = "settled"
    PROVE  LET rn2 == [rn EXCEPT ![r] = FreeRun]
           IN  Drivers(s, tk, rn2) /\ StaysOver(s, tk, rn, s, tk, rn2)
<1> DEFINE rn2 == [rn EXCEPT ![r] = FreeRun]
<1>1. \A q \in RunSlots : rn2[q] = IF q = r THEN FreeRun ELSE rn[q]
  BY DEF Typed
<1>2. FreeRun.pc = "free"
  BY DEF FreeRun
<1> HIDE DEF rn2
<1>3. RunOk(s, FreeRun) /\ ~Drives(FreeRun)
  BY <1>2 DEF RunOk, LoopPcs, Awaits, Drives
<1>4. \A q \in RunSlots : RunOk(s, rn2[q])
  BY <1>1, <1>3 DEF Drivers
<1>5. OneDriver(tk, rn2)
  BY <1>1, <1>2 DEF Drivers, OneDriver
<1>6. FirstAlone(tk, rn2) /\ s.focus # None
  BY DEF Drivers, FirstAlone, AllQuiet
<1>7. Driven(s, tk, rn2)
  BY <1>1 DEF Drivers, Driven
<1>8. StaysOver(s, tk, rn, s, tk, rn2)
  BY <1>1, <1>3 DEF StaysOver, Over
<1> QED
  BY <1>4, <1>5, <1>6, <1>7, <1>8 DEF Drivers, rn2

-----------------------------------------------------------------------------
(* The moves of a tick.                                                       *)

\* startJob of job j, from store s to s2, up to its first await.
Starts(s, j, s2, new) ==
    /\ j \in Jobs /\ Status(s, j) = "queued"
    /\ new \in Tick /\ new.job = j
    /\ \A k \in Jobs \ {j} : s2.job[k] = s.job[k]
    /\ Irreflexive(s) => Irreflexive(s2)
    /\ s2.focus # None
    /\ \/ new.pc = "activating" /\ s.focus = None /\ s2.job = s.job
       \/ new.pc = "starting" /\ Status(s2, j) = "running" /\ s2.job[j].lock = s.job[j].lock

\* startJob from the update on: the job runs unless a human stopped it.
LEMMA MarkRunningWrites ==
    ASSUME NEW s \in Store, NEW t \in Tick, t.job \in Jobs
    PROVE  /\ t.job \notin InStore(s) => MarkRunning(s, t) = [store |-> s, tick |-> IdleTick]
           /\ t.job \in InStore(s) =>
                 /\ WritesStatus(s, MarkRunning(s, t).store, t.job, "running")
                 /\ MarkRunning(s, t).tick \in Tick
                 /\ MarkRunning(s, t).tick.pc = "starting"
                 /\ MarkRunning(s, t).tick.job = t.job
                 /\ MarkRunning(s, t).tick.todo = t.todo
                 /\ MarkRunning(s, t).tick.composer = t.composer
<1> DEFINE next == UpdateJob(s, t.job, StatusPatch("running"))
           new  == [t EXCEPT !.pc = "starting", !.lock = next.job[t.job].lock]
<1>1. CASE t.job \notin InStore(s)
  BY <1>1 DEF MarkRunning
<1>2. CASE t.job \in InStore(s)
  <2>1. /\ StatusPatch("running") \in Patches /\ ~StatusPatch("running").override
        /\ StatusPatch("running").lock = "same" /\ StatusPatch("running").status = "running"
        /\ StatusPatch("running").status \in Present
    BY DEF StatusPatch, NoPatch, Patches, Present, Active
  <2>2. WritesStatus(s, next, t.job, "running")
    BY <2>1, StatusPatchWrites
  <2>3. MarkRunning(s, t) = [store |-> next, tick |-> new]
    BY <1>2 DEF MarkRunning
  <2>4. next.job[t.job].lock \in Locks \cup {None}
    <3>1. PatchedJob(s, t.job, StatusPatch("running")) \in JobRecord
      BY <1>2, <2>1, PatchedJobSettles
    <3>2. next.job[t.job] \in JobRecord
      BY <3>1 DEF UpdateJob, Store
    <3> QED
      BY <3>2 DEF JobRecord
  <2> HIDE DEF next
  <2>5. /\ new \in Tick /\ new.pc = "starting" /\ new.job = t.job
        /\ new.todo = t.todo /\ new.composer = t.composer
    BY <2>4 DEF Tick
  <2> HIDE DEF new
  <2> QED
    BY <1>2, <2>2, <2>3, <2>5
<1> QED
  BY <1>1, <1>2

LEMMA StartJobStarts ==
    ASSUME NEW s \in Store, NEW t \in Tick, t.job \in Jobs, Status(s, t.job) = "queued"
    PROVE  LET after == StartJob(s, t)
           IN  /\ Starts(s, t.job, after.store, after.tick)
               /\ after.tick.todo = t.todo /\ after.tick.composer = t.composer
<1> DEFINE j == t.job
<1>1. j \in InStore(s)
  BY DEF InStore, Present, Active
<1>2. CASE s.focus = None
  <2> DEFINE new == [t EXCEPT !.pc = "activating"]
             s2  == ActivateJob(s, j)
  <2>1. /\ new \in Tick /\ new.pc = "activating" /\ new.job = j
        /\ new.todo = t.todo /\ new.composer = t.composer
    BY DEF Tick
  <2>2. s2.job = s.job /\ s2.newer = s.newer /\ s2.focus # None
    BY <1>1, ActivateJobWrites
  <2>3. StartJob(s, t) = [store |-> s2, tick |-> new]
    BY <1>2 DEF StartJob
  <2> HIDE DEF new, s2
  <2> QED
    BY <1>2, <2>1, <2>2, <2>3 DEF Starts, Irreflexive, Newer
<1>3. CASE s.focus # None
  <2>1. StartJob(s, t) = MarkRunning(s, t)
    BY <1>3 DEF StartJob
  <2>2. /\ WritesStatus(s, MarkRunning(s, t).store, j, "running")
        /\ MarkRunning(s, t).tick \in Tick
        /\ MarkRunning(s, t).tick.pc = "starting" /\ MarkRunning(s, t).tick.job = j
        /\ MarkRunning(s, t).tick.todo = t.todo /\ MarkRunning(s, t).tick.composer = t.composer
    BY <1>1, MarkRunningWrites
  <2>3. StatusAfter("queued", "running") = "running" /\ "running" \in LockHolding
    BY DEF StatusAfter, HumanStops, LockHolding
  <2> QED
    BY <1>1, <1>3, <2>1, <2>2, <2>3 DEF Starts, WritesStatus, KeepsFrame
<1> QED
  BY <1>2, <1>3

\* The loop of tick() ends, or it starts a job of the snapshot that is still
\* queued and is not being executed.
LEMMA AdvanceTickStarts ==
    ASSUME NEW t \in TickSlots, NEW s \in Store, NEW ex, NEW tick \in Tick,
           AdvanceTick(t, s, ex, tick)
    PROVE  \/ store' = s /\ ticks' = [ticks EXCEPT ![t] = IdleTick]
           \/ \E i \in DOMAIN tick.todo, new \in Tick :
                 /\ tick.todo[i] \notin ex
                 /\ Starts(s, tick.todo[i], store', new)
                 /\ new.todo = SubSeq(tick.todo, i + 1, Len(tick.todo))
                 /\ new.composer = tick.composer
                 /\ ticks' = [ticks EXCEPT ![t] = new]
<1>1. ASSUME NEW i \in Startable(s, ex, tick.todo),
             LET after == StartJob(s, [tick EXCEPT !.todo = SubSeq(@, i + 1, Len(@)),
                                                   !.job  = tick.todo[i]])
             IN  store' = after.store /\ ticks' = [ticks EXCEPT ![t] = after.tick]
      PROVE  \E new \in Tick :
                 /\ Starts(s, tick.todo[i], store', new)
                 /\ new.todo = SubSeq(tick.todo, i + 1, Len(tick.todo))
                 /\ new.composer = tick.composer
                 /\ ticks' = [ticks EXCEPT ![t] = new]
  <2> DEFINE picked == [tick EXCEPT !.todo = SubSeq(@, i + 1, Len(@)), !.job = tick.todo[i]]
  <2>1. i \in DOMAIN tick.todo /\ Status(s, tick.todo[i]) = "queued"
    BY DEF Startable
  <2>2. /\ picked \in Tick /\ picked.job = tick.todo[i] /\ picked.job \in Jobs
        /\ picked.composer = tick.composer
        /\ picked.todo = SubSeq(tick.todo, i + 1, Len(tick.todo))
    BY <2>1, PickedTick
  <2>3. store' = StartJob(s, picked).store
          /\ ticks' = [ticks EXCEPT ![t] = StartJob(s, picked).tick]
    BY <1>1
  <2> HIDE DEF picked
  <2>4. /\ Starts(s, picked.job, store', StartJob(s, picked).tick)
        /\ StartJob(s, picked).tick.todo = picked.todo
        /\ StartJob(s, picked).tick.composer = picked.composer
    BY <2>1, <2>2, <2>3, StartJobStarts
  <2> QED
    BY <2>2, <2>3, <2>4 DEF Starts
<1> QED
  BY <1>1 DEF AdvanceTick, Startable

LEMMA StartsKeep ==
    ASSUME NEW s, NEW tk, NEW rn, Typed(tk, rn), Drivers(s, tk, rn),
           NEW t \in TickSlots, tk[t].pc = "idle",
           \A u \in TickSlots : tk[u].pc # "activating",
           NEW j, NEW s2, NEW new, Starts(s, j, s2, new),
           \A r \in RunSlots : rn[r].pc # "free" => rn[r].job # j,
           new.pc = "activating" => new.composer
    PROVE  LET tk2 == [tk EXCEPT ![t] = new]
           IN  Drivers(s2, tk2, rn) /\ StaysOver(s, tk, rn, s2, tk2, rn)
<1> DEFINE tk2 == [tk EXCEPT ![t] = new]
<1>1. \A u \in TickSlots : tk2[u] = IF u = t THEN new ELSE tk[u]
  BY DEF Typed
<1>2. new.job = j /\ new.pc \in {"activating", "starting"} /\ j \in Jobs
  BY DEF Starts
<1>3. \A k \in Jobs \ {j} : Status(s2, k) = Status(s, k)
  BY DEF Starts, Status
<1>4. Status(s, j) = "queued" /\ Status(s2, j) \in {"queued", "running"}
  BY DEF Starts, Status
<1> HIDE DEF tk2
<1>5. \A u \in TickSlots : tk[u].pc # "idle" => tk[u].pc = "starting" /\ tk[u].job \in Jobs \ {j}
  <2> SUFFICES ASSUME NEW u \in TickSlots, tk[u].pc # "idle"
               PROVE  tk[u].pc = "starting" /\ tk[u].job \in Jobs \ {j}
    OBVIOUS
  <2>1. tk[u].pc = "starting" /\ tk[u].job \in Jobs
    BY DEF Typed, GoodTick, Tick
  <2>2. Status(s, tk[u].job) \in Held
    BY <2>1 DEF Drivers, TickOk
  <2> QED
    BY <1>4, <2>1, <2>2 DEF Held
<1>6. \A r \in RunSlots : rn[r].pc # "free" => rn[r].job \in Jobs \ {j}
  BY DEF Typed, GoodRun
<1>7. ASSUME NEW u \in TickSlots PROVE TickOk(s2, tk2[u])
  <2>1. CASE u = t
    BY <1>1, <2>1 DEF TickOk, Starts, Held, Status
  <2>2. CASE u # t
    BY <1>1, <1>3, <1>5, <2>2 DEF TickOk, Drivers
  <2> QED
    BY <2>1, <2>2
<1>8. ASSUME NEW r \in RunSlots PROVE RunOk(s2, rn[r])
  BY <1>3, <1>6 DEF Drivers, RunOk, LoopPcs, Awaits
<1>9. OneDriver(tk2, rn)
  BY <1>1, <1>2, <1>5, <1>6 DEF Drivers, OneDriver
<1>10. FirstAlone(tk2, rn)
  BY <1>1 DEF Starts, Drivers, FirstAlone, AllQuiet
<1>11. Driven(s2, tk2, rn)
  <2> SUFFICES ASSUME NEW k \in Jobs, Status(s2, k) = "running"
               PROVE  \/ \E r \in RunSlots : rn[r].job = k /\ rn[r].pc \notin {"free", "settled"}
                      \/ \E u \in TickSlots : tk2[u].job = k /\ tk2[u].pc = "starting"
    BY DEF Driven
  <2>1. CASE k = j
    BY <1>1, <2>1 DEF Starts, Status
  <2>2. CASE k # j
    BY <1>1, <1>3, <2>2 DEF Drivers, Driven
  <2> QED
    BY <2>1, <2>2
<1>12. StaysOver(s, tk, rn, s2, tk2, rn)
  <2> SUFFICES ASSUME NEW k \in Jobs, Over(s, tk, rn, k) PROVE Over(s2, tk2, rn, k)
    BY DEF StaysOver
  <2>1. k # j
    BY <1>4 DEF Over, Settled, IsOpen
  <2> QED
    BY <1>1, <1>2, <1>3, <2>1 DEF Over, Settled
<1> QED
  BY <1>7, <1>8, <1>9, <1>10, <1>11, <1>12 DEF Drivers, Starts, tk2

LEMMA ActivatedKeeps ==
    ASSUME NEW s \in Store, NEW tk, NEW rn, Typed(tk, rn), Drivers(s, tk, rn),
           NEW t \in TickSlots, tk[t].pc = "activating"
    PROVE  LET after == MarkRunning(s, tk[t])
               tk2   == [tk EXCEPT ![t] = after.tick]
           IN  Drivers(after.store, tk2, rn) /\ StaysOver(s, tk, rn, after.store, tk2, rn)
<1> DEFINE after == MarkRunning(s, tk[t])
           tk2   == [tk EXCEPT ![t] = after.tick]
           s2    == after.store
           j     == tk[t].job
<1>1. j \in Jobs /\ tk[t] \in Tick /\ Status(s, j) \in {"queued", "paused", "cancelled", "gone"}
  BY DEF Typed, GoodTick, Drivers, TickOk
<1>2. CASE j \notin InStore(s)
  <2>1. after.store = s /\ after.tick = IdleTick
    BY <1>1, <1>2, MarkRunningWrites
  <2> HIDE DEF after
  <2> QED
    BY <2>1, IdleKeeps DEF after
<1>3. CASE j \in InStore(s)
  <2>1. /\ WritesStatus(s, s2, j, "running")
        /\ after.tick \in Tick /\ after.tick.pc = "starting" /\ after.tick.job = j
    BY <1>1, <1>3, MarkRunningWrites
  <2> HIDE DEF after
  <2>2. \A u \in TickSlots : tk2[u] = IF u = t THEN after.tick ELSE tk[u]
    BY DEF Typed
  <2> HIDE DEF tk2
  <2>3. Status(s2, j) \in {"running", "paused", "cancelled"}
    <3>1. Status(s, j) # "gone"
      BY <1>3 DEF InStore, Present, Active, Terminal
    <3> QED
      BY <1>1, <1>3, <2>1, <3>1 DEF WritesStatus, StatusAfter, HumanStops
  <2>4. \A k \in Jobs \ {j} : Status(s2, k) = Status(s, k)
    BY <2>1 DEF WritesStatus, Status
  <2>5. /\ \A u \in TickSlots : u # t => tk[u].pc = "idle"
        /\ \A r \in RunSlots : rn[r].pc = "free"
    BY DEF Drivers, FirstAlone
  <2>6. ASSUME NEW u \in TickSlots PROVE TickOk(s2, tk2[u])
    BY <2>1, <2>2, <2>3, <2>5 DEF TickOk, Held
  <2>7. ASSUME NEW r \in RunSlots PROVE RunOk(s2, rn[r])
    BY <2>5 DEF RunOk, LoopPcs, Awaits
  <2>8. OneDriver(tk2, rn) /\ FirstAlone(tk2, rn)
    BY <2>1, <2>2, <2>5 DEF OneDriver, FirstAlone
  <2>9. s2.focus # None /\ Irreflexive(s2)
    BY <2>1 DEF WritesStatus, KeepsFrame, Drivers, AllQuiet
  <2>10. Driven(s2, tk2, rn)
    <3> SUFFICES ASSUME NEW k \in Jobs, Status(s2, k) = "running"
                 PROVE  \E u \in TickSlots : tk2[u].job = k /\ tk2[u].pc = "starting"
      BY DEF Driven
    <3>1. CASE k = j
      BY <2>1, <2>2, <3>1
    <3>2. CASE k # j
      BY <2>1, <2>2, <2>4, <2>5, <3>2 DEF Drivers, Driven
    <3> QED
      BY <3>1, <3>2
  <2>11. StaysOver(s, tk, rn, s2, tk2, rn)
    <3> SUFFICES ASSUME NEW k \in Jobs, Over(s, tk, rn, k) PROVE Over(s2, tk2, rn, k)
      BY DEF StaysOver
    <3>1. k # j
      BY DEF Over
    <3> QED
      BY <2>1, <2>2, <2>4, <3>1 DEF Over, Settled
  <2> QED
    BY <2>6, <2>7, <2>8, <2>9, <2>10, <2>11 DEF Drivers, tk2, after
<1> QED
  BY <1>2, <1>3

\* StaysOver, from one store, ticks and runs to the next and the next.
LEMMA StaysOverTransitive ==
    ASSUME NEW s1, NEW tk1, NEW rn1, NEW s2, NEW tk2, NEW rn2, NEW s3, NEW tk3, NEW rn3,
           StaysOver(s1, tk1, rn1, s2, tk2, rn2), StaysOver(s2, tk2, rn2, s3, tk3, rn3)
    PROVE  StaysOver(s1, tk1, rn1, s3, tk3, rn3)
BY DEF StaysOver

\* The scheduler's map names the jobs of the live runs.
Executes(ex, rn) == ex = {rn[r].job : r \in {q \in RunSlots : rn[q].pc # "free"}}

LEMMA ExecutesEach ==
    ASSUME NEW ex, NEW rn, Executes(ex, rn), NEW r \in RunSlots, rn[r].pc # "free"
    PROVE  rn[r].job \in ex
BY DEF Executes

\* The loop of tick() with the tick itself idle so far.
LEMMA AdvanceTickKeeps ==
    ASSUME NEW s \in Store, NEW rn, NEW t \in TickSlots, Typed(ticks, rn),
           Drivers(s, [ticks EXCEPT ![t] = IdleTick], rn), NEW ex, Executes(ex, rn),
           \A u \in TickSlots : u # t => ticks[u].pc # "activating",
           NEW tick \in Tick, AdvanceTick(t, s, ex, tick), s.focus = None => tick.composer
    PROVE  /\ Drivers(store', ticks', rn)
           /\ StaysOver(s, [ticks EXCEPT ![t] = IdleTick], rn, store', ticks', rn)
           /\ \A u \in TickSlots : u # t => ticks'[u] = ticks[u]
           /\ ticks'[t].pc = "idle" \/ ticks'[t].composer = tick.composer
<1> DEFINE tk == [ticks EXCEPT ![t] = IdleTick]
<1>1. /\ \A u \in TickSlots : tk[u] = IF u = t THEN IdleTick ELSE ticks[u]
      /\ IdleTick.pc = "idle" /\ Typed(tk, rn)
  BY IdleTickGood DEF Typed, IdleTick, GoodTick
<1>2. CASE store' = s /\ ticks' = tk
  <2>1. StaysOver(s, tk, rn, s, tk, rn) /\ tk[t].pc = "idle"
          /\ \A u \in TickSlots : u # t => tk[u] = ticks[u]
    BY <1>1 DEF StaysOver
  <2> HIDE DEF tk
  <2> QED
    BY <1>2, <2>1 DEF tk
<1>3. ASSUME NEW i \in DOMAIN tick.todo, NEW new \in Tick,
             tick.todo[i] \notin ex, Starts(s, tick.todo[i], store', new),
             new.composer = tick.composer, ticks' = [ticks EXCEPT ![t] = new]
      PROVE  /\ Drivers(store', ticks', rn) /\ StaysOver(s, tk, rn, store', ticks', rn)
             /\ \A u \in TickSlots : u # t => ticks'[u] = ticks[u]
             /\ ticks'[t].composer = tick.composer
  <2>1. ticks' = [tk EXCEPT ![t] = new] /\ ticks'[t] = new
          /\ \A u \in TickSlots : u # t => ticks'[u] = ticks[u]
    BY <1>3 DEF Typed
  <2>2. tk[t].pc = "idle" /\ \A u \in TickSlots : tk[u].pc # "activating"
    BY <1>1
  <2>3. \A r \in RunSlots : rn[r].pc # "free" => rn[r].job # tick.todo[i]
    BY <1>3, ExecutesEach
  <2>4. new.pc = "activating" => new.composer
    BY <1>3 DEF Starts
  <2> HIDE DEF tk
  <2>5. LET tk2 == [tk EXCEPT ![t] = new]
        IN  Drivers(store', tk2, rn) /\ StaysOver(s, tk, rn, store', tk2, rn)
    BY <1>1, <1>3, <2>2, <2>3, <2>4, StartsKeep DEF tk
  <2> QED
    BY <1>3, <2>1, <2>5
<1>4. CASE \E i \in DOMAIN tick.todo, new \in Tick :
             /\ tick.todo[i] \notin ex
             /\ Starts(s, tick.todo[i], store', new)
             /\ new.todo = SubSeq(tick.todo, i + 1, Len(tick.todo))
             /\ new.composer = tick.composer
             /\ ticks' = [ticks EXCEPT ![t] = new]
  <2>1. PICK i \in DOMAIN tick.todo, new \in Tick :
           /\ tick.todo[i] \notin ex /\ Starts(s, tick.todo[i], store', new)
           /\ new.composer = tick.composer /\ ticks' = [ticks EXCEPT ![t] = new]
    BY <1>4
  <2> HIDE DEF tk
  <2> QED
    BY <1>3, <2>1 DEF tk
<1> QED
  BY <1>2, <1>4, AdvanceTickStarts

\* A call of tick().
LEMMA BeginTickKeeps ==
    ASSUME NEW s \in Store, NEW rn, NEW t \in TickSlots, Typed(ticks, rn),
           Drivers(s, ticks, rn), NEW ex, Executes(ex, rn),
           \A u \in TickSlots : ticks[u].pc # "activating",
           NEW byComposer \in BOOLEAN, BeginTick(t, s, ex, byComposer),
           s.focus = None => byComposer
    PROVE  /\ Drivers(store', ticks', rn)
           /\ StaysOver(s, ticks, rn, store', ticks', rn)
           /\ \A u \in TickSlots : u # t => ticks'[u] = ticks[u]
           /\ ticks'[t].pc = "idle" \/ ticks'[t].composer = byComposer
<1> DEFINE tk == [ticks EXCEPT ![t] = IdleTick]
<1>1. PICK q \in Snapshots :
        AdvanceTick(t, s, ex, [IdleTick EXCEPT !.todo = q, !.composer = byComposer])
  BY DEF BeginTick
<1> DEFINE first == [IdleTick EXCEPT !.todo = q, !.composer = byComposer]
<1>2. first \in Tick /\ first.composer = byComposer
  BY FirstTick DEF IdleTick
<1>3. Drivers(s, tk, rn) /\ StaysOver(s, ticks, rn, s, tk, rn)
  BY IdleKeeps DEF BeginTick
<1>4. AdvanceTick(t, s, ex, first)
  BY <1>1
<1> HIDE DEF first
<1>5. /\ Drivers(store', ticks', rn)
      /\ StaysOver(s, tk, rn, store', ticks', rn)
      /\ \A u \in TickSlots : u # t => ticks'[u] = ticks[u]
      /\ ticks'[t].pc = "idle" \/ ticks'[t].composer = byComposer
  BY <1>2, <1>3, <1>4, AdvanceTickKeeps
<1> HIDE DEF tk
<1>6. StaysOver(s, ticks, rn, store', ticks', rn)
  BY <1>3, <1>5, StaysOverTransitive
<1> QED
  BY <1>5, <1>6

-----------------------------------------------------------------------------
(* Drafts: what a run writes about its own job.                               *)

\* A status a job has once its run is through with it, but for a cancellation.
Ended(st) == st \in Terminal \ {"cancelled"}

\* The panel shows what it showed, or the private copy of the draft's run.
ShowsRun(d, e) ==
    \/ e.panel = d.panel /\ e.approval = d.approval
    \/ /\ e.panel.job = e.run.job /\ e.panel.status = e.run.local
       /\ e.approval = e.run.asked

\* The draft e wrote the status st, in the store and in the private copy.
WritesDraft(d, e, st) ==
    /\ WritesStatus(d.store, e.store, d.run.job, st)
    /\ e.run.job = d.run.job /\ e.run.asked = d.run.asked /\ e.run.result = d.run.result
    /\ e.run.local = StatusAfter(Status(d.store, d.run.job), st)
    /\ ShowsRun(d, e)

LEMMA WritesTwice ==
    ASSUME NEW s1, NEW s2, NEW s3, NEW j \in Jobs, NEW st \in Present,
           WritesStatus(s1, s2, j, st), WritesStatus(s2, s3, j, st)
    PROVE  WritesStatus(s1, s3, j, st)
<1>1. j \in InStore(s2) <=> j \in InStore(s1)
  BY DEF WritesStatus, InStore, StatusAfter
<1>2. Status(s3, j) = Status(s2, j)
  BY <1>1 DEF WritesStatus, StatusAfter
<1> QED
  BY <1>1, <1>2 DEF WritesStatus, KeepsFrame

\* updateJob of the run's own job.
LEMMA UpdateOwnJobWrites ==
    ASSUME NEW d, GoodDraft(d), NEW p \in Patches, ~p.override,
           p.lock = "same", p.status \in Present
    PROVE  LET e == UpdateOwnJob(d, p)
           IN  /\ WritesStatus(d.store, e.store, d.run.job, p.status)
               /\ e.run = d.run /\ e.panel = d.panel /\ e.approval = d.approval
<1> DEFINE next == UpdateJob(d.store, d.run.job, p)
<1>1. WritesStatus(d.store, next, d.run.job, p.status)
  BY StatusPatchWrites DEF GoodDraft, GoodStore
<1>2. UpdateOwnJob(d, p) = [d EXCEPT !.store = next]
  BY DEF UpdateOwnJob
<1> HIDE DEF next
<1> QED
  BY <1>1, <1>2 DEF GoodDraft

\* The patch with a status has no lock and overrides nothing.
LEMMA StatusPatchPlain ==
    ASSUME NEW st \in Present
    PROVE  /\ StatusPatch(st) \in Patches /\ ~StatusPatch(st).override
           /\ StatusPatch(st).lock = "same" /\ StatusPatch(st).status = st
BY DEF StatusPatch, NoPatch, Patches

\* persistLocalRun.
LEMMA PersistWrites ==
    ASSUME NEW d, GoodDraft(d), NEW st \in Present
    PROVE  LET e == Persist(d, st)
           IN  WritesDraft(d, e, st) /\ e.run.pc = d.run.pc
<1> DEFINE j     == d.run.job
           found == Status(d.store, j)
           local == StatusAfter(found, st)
           c     == [d EXCEPT !.run.local = local]
           e     == UpdateOwnJob(c, StatusPatch(local))
<1>1. local \in Present
  BY DEF StatusAfter, HumanStops, Present, Active, Terminal
<1>2. Persist(d, st) = e
  BY DEF Persist, StatusAfter
<1>3. StatusAfter(found, local) = local
  BY DEF StatusAfter
<1> HIDE DEF local
<1>4. /\ GoodDraft(c) /\ c.store = d.store /\ c.panel = d.panel /\ c.approval = d.approval
      /\ c.run.job = j /\ c.run.asked = d.run.asked /\ c.run.result = d.run.result
      /\ c.run.local = local /\ c.run.pc = d.run.pc
  BY <1>1 DEF GoodDraft, Run
<1> HIDE DEF c
<1>5. /\ WritesStatus(c.store, e.store, j, local)
      /\ e.run = c.run /\ e.panel = c.panel /\ e.approval = c.approval
  BY <1>1, <1>4, StatusPatchPlain, UpdateOwnJobWrites
<1> HIDE DEF e
<1>6. WritesStatus(d.store, e.store, j, st)
  BY <1>3, <1>4, <1>5 DEF WritesStatus, local
<1> QED
  BY <1>2, <1>4, <1>5, <1>6 DEF WritesDraft, ShowsRun, local

\* syncFocusedLocalRun.
LEMMA SyncWrites ==
    ASSUME NEW d, GoodDraft(d)
    PROVE  LET e == Sync(d)
           IN  /\ e.store = d.store /\ e.run = d.run /\ ShowsRun(d, e)
               /\ \/ e.panel = d.panel /\ e.approval = d.approval
                  \/ e.panel.job = d.run.job /\ e.panel.status = d.run.local
                       /\ e.approval = d.run.asked
<1> DEFINE shown == [job |-> d.run.job, status |-> d.run.local, lock |-> d.run.lock]
<1>1. CASE d.store.focus = d.run.job
  <2>1. Sync(d) = [d EXCEPT !.panel = shown, !.approval = d.run.asked]
    BY <1>1 DEF Sync
  <2>2. shown.job = d.run.job /\ shown.status = d.run.local
    OBVIOUS
  <2> HIDE DEF shown
  <2> QED
    BY <2>1, <2>2 DEF GoodDraft, ShowsRun
<1>2. CASE d.store.focus # d.run.job
  BY <1>2 DEF Sync, ShowsRun
<1> QED
  BY <1>1, <1>2

\* finishControlRun.
LEMMA FinishWrites ==
    ASSUME NEW d, GoodDraft(d), NEW st \in Present
    PROVE  LET e == Finish(d, st)
           IN  WritesDraft(d, e, st) /\ e.run.pc = d.run.pc
<1> DEFINE c == Persist(d, st)
<1>1. WritesDraft(d, c, st) /\ c.run.pc = d.run.pc /\ c.panel = d.panel /\ c.approval = d.approval
  <2>1. WritesDraft(d, c, st) /\ c.run.pc = d.run.pc
    BY PersistWrites
  <2>2. c.panel = d.panel /\ c.approval = d.approval
    BY DEF Persist, UpdateOwnJob, GoodDraft
  <2> QED
    BY <2>1, <2>2
<1>2. GoodDraft(c)
  BY PersistFollows DEF Follows
<1>3. Finish(d, st) = Sync(c)
  BY DEF Finish
<1> HIDE DEF c
<1>4. /\ Sync(c).store = c.store /\ Sync(c).run = c.run /\ ShowsRun(c, Sync(c))
  BY <1>2, SyncWrites
<1> QED
  BY <1>1, <1>3, <1>4 DEF WritesDraft, ShowsRun

\* The record of a step or an artifact.
LEMMA RecordWrites ==
    ASSUME NEW d, GoodDraft(d)
    PROVE  LET e == Record(d)
           IN  WritesDraft(d, e, d.run.local) /\ e.run.pc = d.run.pc
<1>1. d.run.local \in Present
  BY DEF GoodDraft, Run
<1>2. Record(d) = Finish(d, d.run.local)
  BY DEF Record, Finish
<1> QED
  BY <1>1, <1>2, FinishWrites

\* The catch block.
LEMMA FailWrites ==
    ASSUME NEW d, GoodDraft(d), NEW st \in Present
    PROVE  LET e == Fail(d, st)
           IN  /\ WritesStatus(d.store, e.store, d.run.job, st)
               /\ e.run.job = d.run.job /\ e.run.asked = d.run.asked
               /\ e.run.local = StatusAfter(Status(d.store, d.run.job), st)
               /\ e.run.pc = "finished" /\ e.run.result = "blocked"
               /\ ShowsRun(d, e)
<1> DEFINE b == Finish(d, st)
           c == UpdateOwnJob(b, StatusPatch(st))
           e == Return(c, "blocked")
<1>1. WritesDraft(d, b, st) /\ GoodDraft(b)
  BY FinishWrites, FinishFollows DEF Follows
<1> HIDE DEF b
<1>2. /\ WritesStatus(b.store, c.store, b.run.job, st)
      /\ c.run = b.run /\ c.panel = b.panel /\ c.approval = b.approval
  BY <1>1, StatusPatchPlain, UpdateOwnJobWrites
<1>3. GoodDraft(c)
  BY <1>1, StatusPatchPlain, UpdateOwnJobFollows DEF Follows
<1> HIDE DEF c
<1>4. /\ e.store = c.store /\ e.panel = c.panel /\ e.approval = c.approval
      /\ e.run.job = c.run.job /\ e.run.asked = c.run.asked /\ e.run.local = c.run.local
      /\ e.run.pc = "finished" /\ e.run.result = "blocked"
  BY <1>3 DEF Return, GoTo, GoodDraft, Run
<1>5. Fail(d, st) = e
  BY DEF Fail, b, c
<1> HIDE DEF e
<1>6. WritesStatus(d.store, e.store, d.run.job, st)
  BY <1>1, <1>2, <1>4, WritesTwice DEF WritesDraft, GoodDraft
<1> QED
  BY <1>1, <1>2, <1>4, <1>5, <1>6 DEF WritesDraft, ShowsRun

-----------------------------------------------------------------------------
(* The steps of a run, by their effect.                                       *)

\* What the panel shows afterwards: the same, or the run's job, and then as
\* ended (or to be denied) only if nothing puts it back to work.
PanelMoves(d, e) ==
    \/ e.panel = d.panel /\ e.approval = d.approval
    \/ /\ e.panel.job = d.run.job
       /\ Ended(e.panel.status) \/ (~NoDeny /\ e.approval)
              => Settled(e.store, d.run.job) /\ ~Drives(e.run)

OwnMoves(d, e) == RunMoves(d.store, d.run, e.store, e.run) /\ PanelMoves(d, e)

InLoop(d) == RunOk(d.store, d.run) /\ d.run.pc \in LoopPcs

LEMMA OwnMovesTransitive ==
    ASSUME NEW c, NEW d, NEW e, OwnMoves(c, d), OwnMoves(d, e)
    PROVE  OwnMoves(c, e)
<1>1. RunMoves(c.store, c.run, d.store, d.run) /\ RunMoves(d.store, d.run, e.store, e.run)
  BY DEF OwnMoves
<1>2. NoDeny => WorkKeptAt(c.store, e.store, c.run.job)
  BY <1>1 DEF RunMoves, WorkKeptAt, LockHolding
<1>3. RunMoves(c.store, c.run, e.store, e.run)
  BY <1>1, <1>2 DEF RunMoves, KeepsFrame
<1>4. PanelMoves(c, e)
  BY DEF OwnMoves, RunMoves, PanelMoves
<1> QED
  BY <1>3, <1>4 DEF OwnMoves

\* The loop goes on: it wrote "running", or a stop its private copy knows of.
LEMMA LoopGoesOn ==
    ASSUME NEW c, NEW d, NEW st \in {"running", "paused", "cancelled"}, InLoop(c),
           \/ d.store = c.store
           \/ WritesStatus(c.store, d.store, c.run.job, st),
           d.run.job = c.run.job, d.run.pc \in LoopPcs, ~d.run.asked,
           d.run.local \in {"running", "paused", "cancelled"}, ShowsRun(c, d)
    PROVE  OwnMoves(c, d) /\ InLoop(d)
<1> DEFINE j == c.run.job
<1>1. Status(c.store, j) \in Held
  BY DEF InLoop, RunOk
<1>2. \/ d.store = c.store
      \/ /\ Status(d.store, j) \in Held
         /\ Status(d.store, j) = "running" => Status(c.store, j) = "running"
  BY <1>1 DEF WritesStatus, StatusAfter, HumanStops, Held, InStore, Present, Active, Terminal
<1>3. RunOk(d.store, d.run)
  BY <1>1, <1>2 DEF RunOk, Held, LoopPcs, Awaits
<1>4. d.run.pc # "free" /\ d.run.pc # "settled" /\ Drives(c.run)
  BY DEF LoopPcs, Drives, InLoop
<1>5. WorkKeptAt(c.store, d.store, j)
  BY <1>2 DEF WorkKeptAt, WritesStatus, Held, LockHolding
<1>6. KeepsFrame(c.store, d.store) /\ \A k \in Jobs \ {j} : d.store.job[k] = c.store.job[k]
  BY DEF WritesStatus, KeepsFrame
<1>7. PanelMoves(c, d)
  BY DEF ShowsRun, PanelMoves, Ended, Terminal
<1> QED
  BY <1>3, <1>4, <1>5, <1>6, <1>7 DEF OwnMoves, RunMoves, InLoop

\* The loop ends with the status st.
LEMMA LoopIsOver ==
    ASSUME NEW c, NEW d, NEW st \in Terminal \cup {"paused"}, InLoop(c), c.run.job \in Jobs,
           WritesStatus(c.store, d.store, c.run.job, st),
           d.run.job = c.run.job, d.run.pc \in {"finished", "telling", "reporting"}, ~d.run.asked,
           d.run.local = StatusAfter(Status(c.store, c.run.job), st), ShowsRun(c, d)
    PROVE  OwnMoves(c, d)
<1> DEFINE j == c.run.job
<1>1. Status(c.store, j) \in Held
  BY DEF InLoop, RunOk
<1>2. Status(d.store, j) \in Terminal \cup {"paused", "gone"}
  <2>1. CASE j \in InStore(c.store)
    BY <1>1, <2>1 DEF WritesStatus, StatusAfter, HumanStops, Terminal
  <2>2. CASE j \notin InStore(c.store)
    BY <1>1, <2>2 DEF WritesStatus, InStore, Present, Active, Terminal, Held
  <2> QED
    BY <2>1, <2>2
<1>3. d.run.local \in Terminal \cup {"paused"}
  BY <1>1 DEF StatusAfter, HumanStops, Terminal
<1>4. Settled(d.store, j) /\ ~Drives(d.run)
  BY <1>2, <1>3 DEF Settled, IsOpen, Drives, Awaits, LoopPcs, Terminal
<1>5. RunOk(d.store, d.run)
  BY <1>2, <1>3 DEF RunOk, Awaits, LoopPcs, Terminal
<1>6. PanelMoves(c, d)
  BY <1>4 DEF ShowsRun, PanelMoves
<1>7. WorkKeptAt(c.store, d.store, j)
  BY <1>2 DEF WorkKeptAt, LockHolding, Terminal
<1>8. d.run.pc # "free" /\ d.run.pc # "settled"
  BY <1>1
<1>9. KeepsFrame(c.store, d.store) /\ \A k \in Jobs \ {j} : d.store.job[k] = c.store.job[k]
  BY DEF WritesStatus
<1>10. RunMoves(c.store, c.run, d.store, d.run)
  BY <1>4, <1>5, <1>7, <1>8, <1>9 DEF RunMoves
<1> QED
  BY <1>6, <1>10 DEF OwnMoves

\* The job is left to the human's approval.
LEMMA LoopAsks ==
    ASSUME NEW c, NEW d, InLoop(c), c.run.job \in Jobs,
           WritesStatus(c.store, d.store, c.run.job, "approval"),
           d.run.job = c.run.job, d.run.pc = "asking", ~d.run.asked,
           d.run.local = StatusAfter(Status(c.store, c.run.job), "approval"), ShowsRun(c, d)
    PROVE  OwnMoves(c, d)
<1> DEFINE j == c.run.job
<1>1. Status(c.store, j) \in Held
  BY DEF InLoop, RunOk
<1>2. /\ Status(d.store, j) \in {"approval", "paused", "cancelled", "gone"}
      /\ Status(d.store, j) = "approval" => Status(c.store, j) = "running"
  <2>1. CASE j \in InStore(c.store)
    BY <1>1, <2>1 DEF WritesStatus, StatusAfter, HumanStops, Held, InStore, Present, Active, Terminal
  <2>2. CASE j \notin InStore(c.store)
    BY <1>1, <2>2 DEF WritesStatus, InStore, Present, Active, Terminal, Held
  <2> QED
    BY <2>1, <2>2
<1>3. d.run.local \in {"approval", "paused", "cancelled"}
  BY <1>1 DEF StatusAfter, HumanStops, Held
<1>4. RunOk(d.store, d.run)
  BY <1>2, <1>3 DEF RunOk, Awaits, LoopPcs
<1>5. PanelMoves(c, d)
  BY <1>3 DEF ShowsRun, PanelMoves, Ended, Terminal
<1>6. WorkKeptAt(c.store, d.store, j)
  BY <1>2 DEF WorkKeptAt, LockHolding, WritesStatus
<1>7. Drives(c.run)
  BY DEF InLoop, Drives
<1> QED
  BY <1>4, <1>5, <1>6, <1>7 DEF OwnMoves, RunMoves, WritesStatus

\* After its loop a run writes what it has, or that the report failed.
LEMMA AfterTheLoop ==
    ASSUME NEW c, NEW d, NEW st \in Present \ {"queued", "running"},
           c.run.job \in Jobs, RunOk(c.store, c.run), c.run.pc \in {"asking", "telling", "reporting"},
           NoDeny /\ st = "approval" => Awaits(c.run),
           \/ d.store = c.store
           \/ WritesStatus(c.store, d.store, c.run.job, st),
           d.run.job = c.run.job,
           \/ d.run.pc = "finished"
           \/ /\ d.run.pc = "reporting" /\ d.run.local \in {"approval", "paused", "cancelled"}
              /\ Awaits(c.run) /\ st = "approval",
           \/ d.panel = c.panel /\ d.approval = c.approval
           \/ /\ d.panel.job = c.run.job
              /\ Ended(d.panel.status) => /\ Ended(st) /\ d.run.pc = "finished"
                                          /\ WritesStatus(c.store, d.store, c.run.job, st)
    PROVE  OwnMoves(c, d)
<1> DEFINE j     == c.run.job
           found == Status(c.store, j)
<1>1. /\ found \notin {"new", "queued", "running"}
      /\ NoDeny /\ Awaits(c.run) => found \in {"approval", "paused", "cancelled", "gone"}
  BY DEF RunOk
<1>2. \/ d.store = c.store
      \/ Status(d.store, j) = found
      \/ Status(d.store, j) = st /\ found \notin Missing
  BY DEF WritesStatus, StatusAfter, InStore, Missing, Present, Active, Terminal
<1>3. Status(d.store, j) \notin {"new", "queued", "running"}
  BY <1>1, <1>2 DEF Present, Active, Terminal
<1>4. RunOk(d.store, d.run)
  BY <1>1, <1>2, <1>3 DEF RunOk, Awaits, LoopPcs
<1>5. d.run.pc # "free" /\ d.run.pc # "settled" /\ (Drives(d.run) => Drives(c.run))
  BY DEF Drives, Awaits, LoopPcs
<1>6. Settled(c.store, j) /\ ~Drives(c.run) => Settled(d.store, j)
  BY <1>2, <1>3 DEF Settled, IsOpen, Drives
<1>7. NoDeny => WorkKeptAt(c.store, d.store, j)
  <2> SUFFICES ASSUME NoDeny, Status(d.store, j) \in LockHolding
               PROVE  /\ d.store.job[j].lock = c.store.job[j].lock
                      /\ \/ Status(d.store, j) = found
                         \/ {found, Status(d.store, j)} \subseteq {"running", "approval"}
    BY DEF WorkKeptAt
  <2>1. d.store.job[j].lock = c.store.job[j].lock
    BY DEF WritesStatus
  <2>2. Status(d.store, j) = "approval"
    BY <1>3 DEF LockHolding
  <2>3. Status(d.store, j) = found \/ (st = "approval" /\ found \notin Missing)
    BY <1>2, <2>2
  <2>4. CASE st = "approval" /\ found \notin Missing /\ Status(d.store, j) # found
    <3>1. found \in {"paused", "cancelled"}
      BY <1>1, <2>2, <2>4 DEF Missing
    <3>2. WritesStatus(c.store, d.store, j, "approval")
      BY <2>4
    <3> QED
      BY <2>2, <3>1, <3>2 DEF WritesStatus, StatusAfter, HumanStops, InStore, Present, Active, Terminal
  <2> QED
    BY <2>1, <2>2, <2>3, <2>4
<1>8. PanelMoves(c, d)
  <2> SUFFICES ASSUME d.panel.job = j, Ended(d.panel.status) \/ ~NoDeny,
                      Ended(d.panel.status) => /\ Ended(st) /\ d.run.pc = "finished"
                                               /\ WritesStatus(c.store, d.store, j, st)
               PROVE  Settled(d.store, j) /\ ~Drives(d.run)
    BY DEF PanelMoves
  <2>1. CASE ~NoDeny
    BY <1>3, <2>1 DEF Settled, IsOpen, Drives, LoopPcs
  <2>2. CASE Ended(d.panel.status)
    <3>1. Status(d.store, j) # "approval"
      BY <2>2 DEF WritesStatus, StatusAfter, HumanStops, InStore, Present, Active, Ended, Terminal
    <3> QED
      BY <1>3, <2>2, <3>1 DEF Settled, IsOpen, Drives, Awaits, LoopPcs
  <2> QED
    BY <2>1, <2>2
<1>9. KeepsFrame(c.store, d.store) /\ \A k \in Jobs \ {j} : d.store.job[k] = c.store.job[k]
  BY DEF WritesStatus, KeepsFrame
<1> QED
  BY <1>3, <1>4, <1>5, <1>6, <1>7, <1>8, <1>9 DEF OwnMoves, RunMoves

\* GoTo, Return, TellLater and ReportLater move the run along and nothing else.
LEMMA GoToKeepsRest ==
    ASSUME NEW d, GoodDraft(d), NEW pc
    PROVE  LET e == GoTo(d, pc)
           IN  /\ e.store = d.store /\ e.panel = d.panel /\ e.approval = d.approval
               /\ e.run.pc = pc /\ e.run.job = d.run.job /\ e.run.local = d.run.local
               /\ e.run.asked = d.run.asked
BY DEF GoTo, GoodDraft, Run

LEMMA ReturnKeepsRest ==
    ASSUME NEW d, GoodDraft(d), NEW result,
           NEW e \in {Return(d, result), TellLater(d, result), ReportLater(d, result)}
    PROVE  /\ e.store = d.store /\ e.panel = d.panel /\ e.approval = d.approval
           /\ e.run.job = d.run.job /\ e.run.local = d.run.local /\ e.run.asked = d.run.asked
           /\ e.run.pc \in {"finished", "telling", "reporting"}
           /\ e = ReportLater(d, result) => e.run.pc = "reporting"
           /\ e = Return(d, result) => e.run.pc = "finished"
<1>1. CASE e = Return(d, result)
  <2>1. e.run.pc = "finished" /\ ReportLater(d, result).run.pc = "reporting"
    BY <1>1 DEF Return, ReportLater, GoTo, GoodDraft, Run
  <2> QED
    BY <1>1, <2>1 DEF Return, GoTo, GoodDraft, Run
<1>2. CASE e = TellLater(d, result)
  <2>1. /\ e.run.pc = "telling" /\ ReportLater(d, result).run.pc = "reporting"
        /\ Return(d, result).run.pc = "finished"
    BY <1>2 DEF Return, TellLater, ReportLater, GoTo, GoodDraft, Run
  <2> QED
    BY <1>2, <2>1 DEF TellLater, GoTo, GoodDraft, Run
<1>3. CASE e = ReportLater(d, result)
  <2>1. e.run.pc = "reporting" /\ Return(d, result).run.pc = "finished"
    BY <1>3 DEF Return, ReportLater, GoTo, GoodDraft, Run
  <2> QED
    BY <1>3, <2>1 DEF ReportLater, GoTo, GoodDraft, Run
<1> QED
  BY <1>1, <1>2, <1>3

\* In the loop, the record of a step is no news.
LEMMA LoopRecords ==
    ASSUME NEW d, GoodDraft(d), InLoop(d)
    PROVE  OwnMoves(d, Record(d)) /\ InLoop(Record(d)) /\ GoodDraft(Record(d))
<1> DEFINE e == Record(d)
<1>1. d.run.local \in {"running", "paused", "cancelled"} /\ ~d.run.asked
  BY DEF InLoop, RunOk, Held
<1>2. WritesDraft(d, e, d.run.local) /\ e.run.pc = d.run.pc /\ GoodDraft(e)
  BY RecordWrites, RecordFollows DEF Follows
<1>3. Status(d.store, d.run.job) \in Held
  BY DEF InLoop, RunOk
<1> HIDE DEF e
<1>4. e.run.local \in {"running", "paused", "cancelled"}
  BY <1>1, <1>2, <1>3 DEF WritesDraft, StatusAfter, HumanStops, Held
<1>5. OwnMoves(d, e) /\ InLoop(e)
  BY <1>1, <1>2, <1>4, LoopGoesOn DEF WritesDraft, InLoop
<1> QED
  BY <1>2, <1>5 DEF e

\* In the loop, going on in the same turn.
LEMMA LoopProceeds ==
    ASSUME NEW d, GoodDraft(d), InLoop(d), NEW e, e.store = d.store, e.panel = d.panel,
           e.approval = d.approval, e.run.job = d.run.job, e.run.local = d.run.local,
           e.run.asked = d.run.asked, e.run.pc \in LoopPcs
    PROVE  OwnMoves(d, e)
<1>1. d.run.local \in {"running", "paused", "cancelled"} /\ ~d.run.asked
  BY DEF InLoop, RunOk, Held
<1>2. ShowsRun(d, e)
  BY DEF ShowsRun
<1> QED
  BY <1>1, <1>2, LoopGoesOn

\* The ways out of the loop.
LEMMA LoopFinishes ==
    ASSUME NEW d, GoodDraft(d), InLoop(d), NEW st \in Terminal \cup {"paused"}, NEW result,
           NEW e \in {Return(Finish(d, st), result), TellLater(Finish(d, st), result),
                   ReportLater(Finish(d, st), result), Fail(d, st)}
    PROVE  OwnMoves(d, e)
<1>1. st \in Present /\ d.run.job \in Jobs /\ ~d.run.asked
  BY DEF Present, Active, InLoop, RunOk, GoodDraft
<1>2. CASE e = Fail(d, st)
  <2>1. /\ WritesStatus(d.store, e.store, d.run.job, st)
        /\ e.run.job = d.run.job /\ e.run.asked = d.run.asked
        /\ e.run.local = StatusAfter(Status(d.store, d.run.job), st)
        /\ e.run.pc = "finished" /\ ShowsRun(d, e)
    BY <1>1, <1>2, FailWrites
  <2> QED
    BY <1>1, <2>1, LoopIsOver
<1>3. CASE e \in {Return(Finish(d, st), result), TellLater(Finish(d, st), result),
                  ReportLater(Finish(d, st), result)}
  <2> DEFINE b == Finish(d, st)
  <2>1. WritesDraft(d, b, st) /\ GoodDraft(b)
    BY <1>1, FinishWrites, FinishFollows DEF Follows
  <2>2. e \in {Return(b, result), TellLater(b, result), ReportLater(b, result)}
    BY <1>3
  <2> HIDE DEF b
  <2>3. /\ e.store = b.store /\ e.panel = b.panel /\ e.approval = b.approval
        /\ e.run.job = b.run.job /\ e.run.local = b.run.local /\ e.run.asked = b.run.asked
        /\ e.run.pc \in {"finished", "telling", "reporting"}
    BY <2>1, <2>2, ReturnKeepsRest
  <2>4. ShowsRun(d, e)
    BY <2>1, <2>3 DEF WritesDraft, ShowsRun
  <2> QED
    BY <1>1, <2>1, <2>3, <2>4, LoopIsOver DEF WritesDraft
<1> QED
  BY <1>2, <1>3

\* The approval of a public submit.
LEMMA LoopNeedsApproval ==
    ASSUME NEW d, GoodDraft(d), InLoop(d)
    PROVE  OwnMoves(d, GoTo(Finish(d, "approval"), "asking"))
<1> DEFINE b == Finish(d, "approval")
           e == GoTo(b, "asking")
<1>1. WritesDraft(d, b, "approval") /\ GoodDraft(b)
  BY FinishWrites, FinishFollows DEF Follows, Present, Active
<1> HIDE DEF b
<1>2. /\ e.store = b.store /\ e.panel = b.panel /\ e.approval = b.approval
      /\ e.run.job = b.run.job /\ e.run.local = b.run.local /\ e.run.asked = b.run.asked
      /\ e.run.pc = "asking"
  BY <1>1, GoToKeepsRest
<1> HIDE DEF e
<1>3. d.run.job \in Jobs /\ ~d.run.asked
  BY DEF InLoop, RunOk, GoodDraft
<1>4. ShowsRun(d, e)
  BY <1>1, <1>2 DEF WritesDraft, ShowsRun
<1>5. OwnMoves(d, e)
  BY <1>1, <1>2, <1>3, <1>4, LoopAsks DEF WritesDraft
<1> QED
  BY <1>5 DEF e, b

\* The request for the human's approval.
LEMMA AsksMoves ==
    ASSUME NEW d, GoodDraft(d), RunOk(d.store, d.run), d.run.pc = "asking"
    PROVE  LET ask == [StatusPatch("approval") EXCEPT !.approval = "set"]
               c   == [UpdateOwnJob(d, ask) EXCEPT !.run.asked = TRUE]
           IN  OwnMoves(d, ReportLater(Sync(c), "approval"))
<1> DEFINE ask == [StatusPatch("approval") EXCEPT !.approval = "set"]
           b   == UpdateOwnJob(d, ask)
           c   == [b EXCEPT !.run.asked = TRUE]
           e   == ReportLater(Sync(c), "approval")
<1>1. ask \in Patches /\ ~ask.override /\ ask.lock = "same" /\ ask.status = "approval"
  BY DEF StatusPatch, NoPatch, Patches, Present, Active
<1>2. "approval" \in Present /\ "approval" \notin {"queued", "running"}
  BY DEF Present, Active
<1> HIDE DEF ask
<1>3. /\ WritesStatus(d.store, b.store, d.run.job, "approval") /\ GoodDraft(b)
      /\ b.run = d.run /\ b.panel = d.panel /\ b.approval = d.approval
  BY <1>1, <1>2, UpdateOwnJobWrites, UpdateOwnJobFollows DEF Follows
<1> HIDE DEF b
<1>4. /\ GoodDraft(c) /\ c.store = b.store /\ c.panel = b.panel
      /\ c.run.job = d.run.job /\ c.run.local = d.run.local
  BY <1>3 DEF GoodDraft, Run
<1>5. c.approval = d.approval
  BY <1>3 DEF GoodDraft
<1> HIDE DEF c
<1>6. /\ Sync(c).store = c.store /\ Sync(c).run = c.run /\ GoodDraft(Sync(c))
      /\ \/ Sync(c).panel = c.panel /\ Sync(c).approval = c.approval
         \/ Sync(c).panel.job = c.run.job /\ Sync(c).panel.status = c.run.local
  BY <1>4, SyncWrites, SyncFollows DEF Follows
<1>7. /\ e.store = Sync(c).store /\ e.panel = Sync(c).panel /\ e.approval = Sync(c).approval
      /\ e.run.job = c.run.job /\ e.run.local = c.run.local /\ e.run.pc = "reporting"
  <2>1. Return(Sync(c), "approval").run.pc = "finished" /\ e.run.pc = "reporting"
    BY <1>6 DEF Return, ReportLater, GoTo, GoodDraft, Run
  <2> QED
    BY <1>6, <2>1, ReturnKeepsRest
<1> HIDE DEF e
<1>8. d.run.local \in {"approval", "paused", "cancelled"} /\ Awaits(d.run) /\ d.run.job \in Jobs
  BY DEF RunOk, Awaits, GoodDraft
<1>9. ~Ended(d.run.local)
  BY <1>8 DEF Ended, Terminal
<1>10. WritesStatus(d.store, e.store, d.run.job, "approval")
  BY <1>3, <1>4, <1>6, <1>7
<1>11. \/ e.panel = d.panel /\ e.approval = d.approval
       \/ e.panel.job = d.run.job /\ ~Ended(e.panel.status)
  BY <1>3, <1>4, <1>5, <1>6, <1>7, <1>9
<1>12. e.run.job = d.run.job /\ e.run.pc = "reporting"
         /\ e.run.local \in {"approval", "paused", "cancelled"}
  BY <1>4, <1>7, <1>8
<1>13. OwnMoves(d, e)
  BY <1>2, <1>8, <1>10, <1>11, <1>12, AfterTheLoop
<1> QED
  BY <1>13 DEF e, c, b, ask

\* The end of a run that reports: with an artifact, without one, or not at all.
LEMMA ReportMoves ==
    ASSUME NEW d, GoodDraft(d), RunOk(d.store, d.run), d.run.pc \in {"asking", "telling", "reporting"}
    PROVE  /\ d.run.pc = "reporting" => OwnMoves(d, GoTo(Record(d), "finished"))
           /\ OwnMoves(d, GoTo(d, "finished"))
           /\ OwnMoves(d, Fail(d, "failed"))
<1>0. d.run.job \in Jobs /\ d.run.local \in Present \ {"queued", "running"}
  BY DEF GoodDraft, Run, RunOk
<1>1. ASSUME d.run.pc = "reporting" PROVE OwnMoves(d, GoTo(Record(d), "finished"))
  <2> DEFINE b == Record(d)
             e == GoTo(b, "finished")
  <2>1. WritesDraft(d, b, d.run.local) /\ GoodDraft(b)
    BY RecordWrites, RecordFollows DEF Follows
  <2> HIDE DEF b
  <2>2. /\ e.store = b.store /\ e.panel = b.panel /\ e.approval = b.approval
        /\ e.run.pc = "finished" /\ e.run.job = b.run.job /\ e.run.local = b.run.local
    BY <2>1, GoToKeepsRest
  <2> HIDE DEF e
  <2>3. d.run.local = "approval" => Awaits(d.run)
    BY <1>1 DEF Awaits
  <2>4. Ended(b.run.local) => Ended(d.run.local)
    BY <2>1 DEF WritesDraft, StatusAfter, HumanStops, Ended, Terminal
  <2>5. WritesStatus(d.store, e.store, d.run.job, d.run.local)
    BY <2>1, <2>2 DEF WritesDraft
  <2>6. \/ e.panel = d.panel /\ e.approval = d.approval
        \/ e.panel.job = d.run.job /\ e.panel.status = b.run.local
    BY <2>1, <2>2 DEF WritesDraft, ShowsRun
  <2>7. e.run.job = d.run.job
    BY <2>1, <2>2 DEF WritesDraft
  <2>8. OwnMoves(d, e)
    BY <1>0, <2>2, <2>3, <2>4, <2>5, <2>6, <2>7, AfterTheLoop
  <2> QED
    BY <2>8 DEF e, b
<1>2. OwnMoves(d, GoTo(d, "finished"))
  <2> DEFINE e == GoTo(d, "finished")
  <2>1. /\ e.store = d.store /\ e.panel = d.panel /\ e.approval = d.approval
        /\ e.run.pc = "finished" /\ e.run.job = d.run.job
    BY GoToKeepsRest
  <2>2. "failed" \in Present \ {"queued", "running"} /\ "failed" # "approval"
    BY DEF Present, Terminal
  <2> HIDE DEF e
  <2>3. OwnMoves(d, e)
    BY <1>0, <2>1, <2>2, AfterTheLoop
  <2> QED
    BY <2>3 DEF e
<1>3. OwnMoves(d, Fail(d, "failed"))
  <2> DEFINE e == Fail(d, "failed")
  <2>1. "failed" \in Present \ {"queued", "running"} /\ "failed" # "approval" /\ Ended("failed")
    BY DEF Present, Terminal, Ended
  <2>2. /\ WritesStatus(d.store, e.store, d.run.job, "failed")
        /\ e.run.job = d.run.job /\ e.run.pc = "finished" /\ ShowsRun(d, e)
    BY <2>1, FailWrites
  <2> HIDE DEF e
  <2>3. OwnMoves(d, e)
    BY <1>0, <2>1, <2>2, AfterTheLoop DEF ShowsRun
  <2> QED
    BY <2>3 DEF e
<1> QED
  BY <1>1, <1>2, <1>3

\* A run whose message could not be opened.
LEMMA RejectedMoves ==
    ASSUME NEW d, GoodDraft(d), InLoop(d)
    PROVE  OwnMoves(d, Return(d, "rejected"))
<1> DEFINE e == Return(d, "rejected")
<1>1. /\ e.store = d.store /\ e.panel = d.panel /\ e.approval = d.approval
      /\ e.run.job = d.run.job /\ e.run.pc = "finished"
  BY ReturnKeepsRest
<1>2. e.run.result = "rejected"
  BY DEF Return, GoTo, GoodDraft, Run
<1> HIDE DEF e
<1>3. RunOk(e.store, e.run)
  BY <1>1, <1>2 DEF InLoop, RunOk, LoopPcs, Awaits, Held
<1>4. ~Drives(e.run) /\ Drives(d.run)
  BY <1>1 DEF Drives, Awaits, LoopPcs, InLoop
<1>5. RunMoves(d.store, d.run, e.store, e.run)
  BY <1>1, <1>3, <1>4 DEF RunMoves, KeepsFrame, WorkKeptAt
<1>6. OwnMoves(d, e)
  BY <1>1, <1>5 DEF OwnMoves, PanelMoves
<1> QED
  BY <1>6 DEF e

\* Every step of a run.
LEMMA RunStepMoves ==
    ASSUME NEW r, GoodDraft(Draft(r)), RunOk(store, runs[r]), RunStep(r)
    PROVE  \E e : Commit(r, e) /\ OwnMoves(Draft(r), e)
<1> DEFINE d == Draft(r)
<1>1. d.store = store /\ d.run = runs[r]
  BY DEF Draft
<1>2. GoodDraft(d) /\ RunOk(d.store, d.run)
  BY <1>1
<1> HIDE DEF d
<1>3. ASSUME runs[r].pc \in LoopPcs
      PROVE  /\ InLoop(d)
             /\ OwnMoves(d, Record(d)) /\ InLoop(Record(d)) /\ GoodDraft(Record(d))
  BY <1>1, <1>2, <1>3, LoopRecords DEF InLoop
<1>4. ASSUME runs[r].pc \in LoopPcs, NEW st \in Terminal \cup {"paused"}, NEW result,
             NEW c \in {d, Record(d)},
             NEW e \in {Return(Finish(c, st), result), TellLater(Finish(c, st), result),
                     ReportLater(Finish(c, st), result), Fail(c, st)}
      PROVE  OwnMoves(d, e)
  <2>1. InLoop(c) /\ GoodDraft(c) /\ (c = d \/ OwnMoves(d, c))
    BY <1>2, <1>3, <1>4
  <2>2. OwnMoves(c, e)
    BY <1>4, <2>1, LoopFinishes
  <2> QED
    BY <2>1, <2>2, OwnMovesTransitive
<1>5. ASSUME runs[r].pc \in LoopPcs, NEW pc \in LoopPcs, NEW c \in {d, Record(d)}
      PROVE  OwnMoves(d, GoTo(c, pc))
  <2>1. InLoop(c) /\ GoodDraft(c) /\ (c = d \/ OwnMoves(d, c))
    BY <1>2, <1>3, <1>5
  <2>2. OwnMoves(c, GoTo(c, pc))
    BY <1>5, <2>1, GoToKeepsRest, LoopProceeds
  <2> QED
    BY <2>1, <2>2, OwnMovesTransitive
<1>6. {"blocked", "completed", "failed", "cancelled", "paused"} \subseteq Terminal \cup {"paused"}
  BY DEF Terminal
<1>7. CASE RunRejected(r)
  BY <1>2, <1>3, <1>7, RejectedMoves DEF RunRejected, LoopPcs, d
<1>8. CASE BeginTurn(r)
  <2> DEFINE c == UpdateOwnJob(d, StatusPatch("running"))
             e == GoTo(c, "observing")
  <2>1. "running" \in Present
    BY DEF Present, Active
  <2>2. /\ WritesStatus(d.store, c.store, d.run.job, "running") /\ GoodDraft(c)
        /\ c.run = d.run /\ c.panel = d.panel /\ c.approval = d.approval
    BY <1>2, <2>1, StatusPatchPlain, UpdateOwnJobWrites, UpdateOwnJobFollows DEF Follows
  <2> HIDE DEF c
  <2>3. /\ e.store = c.store /\ e.panel = c.panel /\ e.approval = c.approval
        /\ e.run.pc = "observing" /\ e.run.job = c.run.job /\ e.run.local = c.run.local
        /\ e.run.asked = c.run.asked
    BY <2>2, GoToKeepsRest
  <2> HIDE DEF e
  <2>4. InLoop(d) /\ d.run.local \in {"running", "paused", "cancelled"} /\ ~d.run.asked
    BY <1>3, <1>8 DEF BeginTurn, LoopPcs, InLoop, RunOk, Held
  <2>5. ShowsRun(d, e) /\ e.run.pc \in LoopPcs
    BY <2>2, <2>3 DEF ShowsRun, LoopPcs
  <2>6. OwnMoves(d, e)
    BY <2>2, <2>3, <2>4, <2>5, LoopGoesOn
  <2> QED
    BY <1>8, <2>6 DEF BeginTurn, d, e, c
<1>9. CASE StepLimit(r)
  BY <1>4, <1>6, <1>9 DEF StepLimit, LoopPcs, d
<1>10. CASE Observe(r)
  BY <1>4, <1>5, <1>6, <1>10 DEF Observe, LoopPcs, d
<1>11. CASE ObserveLost(r)
  BY <1>4, <1>6, <1>11 DEF ObserveLost, LoopPcs, d
<1>12. CASE DecideDone(r)
  BY <1>4, <1>6, <1>12 DEF DecideDone, LoopPcs, d
<1>13. CASE DecideBlocked(r)
  BY <1>4, <1>6, <1>13 DEF DecideBlocked, LoopPcs, d
<1>14. CASE DecideUnproven(r)
  BY <1>4, <1>6, <1>14 DEF DecideUnproven, LoopPcs, d
<1>15. CASE DecideFailed(r)
  BY <1>4, <1>6, <1>15 DEF DecideFailed, LoopPcs, d
<1>16. CASE DecideAction(r)
  BY <1>5, <1>16 DEF DecideAction, LoopPcs, d
<1>17. CASE CheckStop(r)
  BY <1>4, <1>5, <1>6, <1>17 DEF CheckStop, LoopPcs, HumanStops, d
<1>18. CASE Act(r)
  BY <1>5, <1>18 DEF Act, LoopPcs, d
<1>19. CASE ActFails(r)
  BY <1>4, <1>6, <1>19 DEF ActFails, LoopPcs, d
<1>20. CASE VerifyRetries(r)
  <2> DEFINE c == GoTo(d, "checking")
             e == [c EXCEPT !.run.retries = @ + 1]
  <2>1. /\ c.store = d.store /\ c.panel = d.panel /\ c.approval = d.approval
        /\ c.run.pc = "checking" /\ c.run.job = d.run.job /\ c.run.local = d.run.local
        /\ c.run.asked = d.run.asked
    BY <1>2, GoToKeepsRest
  <2>2. GoodDraft(c)
    BY <1>2, GoToFollows DEF Follows, RunPcs
  <2> HIDE DEF c
  <2>3. /\ e.store = d.store /\ e.panel = d.panel /\ e.approval = d.approval
        /\ e.run.pc = "checking" /\ e.run.job = d.run.job /\ e.run.local = d.run.local
        /\ e.run.asked = d.run.asked
    BY <2>1, <2>2 DEF GoodDraft, Run
  <2> HIDE DEF e
  <2>4. OwnMoves(d, e)
    BY <1>2, <1>3, <1>20, <2>3, LoopProceeds DEF VerifyRetries, LoopPcs
  <2> QED
    BY <1>20, <2>4 DEF VerifyRetries, d, e, c
<1>21. CASE VerifyDone(r)
  <2> DEFINE b == Record(d)
             c == GoTo(b, "top")
             e == [c EXCEPT !.run.step = @ + 1, !.run.retries = 0]
  <2>1. InLoop(b) /\ GoodDraft(b) /\ OwnMoves(d, b)
    BY <1>3, <1>21 DEF VerifyDone, LoopPcs
  <2> HIDE DEF b
  <2>2. /\ c.store = b.store /\ c.panel = b.panel /\ c.approval = b.approval
        /\ c.run.pc = "top" /\ c.run.job = b.run.job /\ c.run.local = b.run.local
        /\ c.run.asked = b.run.asked
    BY <2>1, GoToKeepsRest
  <2>3. GoodDraft(c)
    BY <2>1, GoToFollows DEF Follows, RunPcs
  <2> HIDE DEF c
  <2>4. /\ e.store = b.store /\ e.panel = b.panel /\ e.approval = b.approval
        /\ e.run.pc = "top" /\ e.run.job = b.run.job /\ e.run.local = b.run.local
        /\ e.run.asked = b.run.asked
    BY <2>2, <2>3 DEF GoodDraft, Run
  <2> HIDE DEF e
  <2>5. OwnMoves(b, e)
    BY <2>1, <2>4, LoopProceeds DEF LoopPcs
  <2> QED
    BY <1>21, <2>1, <2>5, OwnMovesTransitive DEF VerifyDone, d, e, c, b
<1>22. CASE VerifyFails(r)
  BY <1>4, <1>6, <1>22 DEF VerifyFails, LoopPcs, d
<1>23. CASE VerifyNeedsApproval(r)
  <2>1. InLoop(Record(d)) /\ GoodDraft(Record(d)) /\ OwnMoves(d, Record(d))
    BY <1>3, <1>23 DEF VerifyNeedsApproval, LoopPcs
  <2>2. OwnMoves(d, GoTo(Finish(Record(d), "approval"), "asking"))
    BY <2>1, LoopNeedsApproval, OwnMovesTransitive
  <2> QED
    BY <1>23, <2>2 DEF VerifyNeedsApproval, d
<1>24. CASE AskApproval(r)
  BY <1>1, <1>2, <1>24, AsksMoves DEF AskApproval, d
<1>25. CASE Report(r)
  BY <1>1, <1>2, <1>25, ReportMoves DEF Report, d
<1>26. CASE ReportSkipped(r)
  BY <1>1, <1>2, <1>26, ReportMoves DEF ReportSkipped, d
<1>27. CASE ReportFails(r)
  BY <1>1, <1>2, <1>27, ReportMoves DEF ReportFails, d
<1> QED
  BY <1>7, <1>8, <1>9, <1>10, <1>11, <1>12, <1>13, <1>14, <1>15, <1>16, <1>17, <1>18, <1>19,
     <1>20, <1>21, <1>22, <1>23, <1>24, <1>25, <1>26, <1>27
  DEF RunStep, LockedStep

-----------------------------------------------------------------------------
(* The invariant: the drivers, and what the panel and the commands remember.  *)

\* What is shown as ended, or waits to be denied, is over.
ShownOver(run, approval, s, tk, rn) ==
    run # NoRun /\ (Ended(run.status) \/ (~NoDeny /\ approval)) => Over(s, tk, rn, run.job)

PanelOver == ShownOver(panelRun, panelApproval, store, ticks, runs)

\* So is a job that was seen as ended when it got the focus.
SeenOver ==
    \A j \in Jobs : cmd[j].pc \in {"focusing", "showing"} =>
        (Ended(cmd[j].seen.status) \/ (~NoDeny /\ cmd[j].seen.approval)
            => Over(store, ticks, runs, j))

CmdBusy(j)  == cmd[j].pc # "idle" /\ cmd[j].composer
TickBusy(t) == ticks[t].pc # "idle" /\ ticks[t].composer

\* The composer is kept busy by one command, or by one tick of a command.
OneComposer ==
    /\ \A j, k \in Jobs : CmdBusy(j) /\ CmdBusy(k) => j = k
    /\ \A t, u \in TickSlots : TickBusy(t) /\ TickBusy(u) => t = u
    /\ \A j \in Jobs, t \in TickSlots : ~(CmdBusy(j) /\ TickBusy(t))

\* Commands are the human's, and only /control puts a job in the queue.
ControlOnly ==
    \A j \in Jobs :
        /\ cmd[j].pc # "restarting" /\ cmd[j].what \notin {"resume", "continue"}
        /\ NoDeny => cmd[j].what # "deny"
        /\ cmd[j].pc \in {"preparing", "ticking"} => cmd[j].composer /\ cmd[j].what = "create"

DInv ==
    /\ Drivers(store, ticks, runs)
    /\ Executes(executing, runs)
    /\ OneComposer
    /\ ControlOnly
    /\ PanelOver
    /\ SeenOver

\* The invariant of the session says the ticks and the runs have jobs.
LEMMA TypedRuns ==
    ASSUME IInv
    PROVE  Typed(ticks, runs) /\ store \in Store
BY DEF IInv, Typed, GoodTicks, GoodRuns, GoodStore

\* A job that ended, unless it was cancelled, is over.
LEMMA EndedIsOver ==
    ASSUME NEW s, NEW tk, NEW rn, Typed(tk, rn), Drivers(s, tk, rn), NEW j \in Jobs,
           Ended(Status(s, j)) \/ (~NoDeny /\ Status(s, j) = "approval")
    PROVE  Over(s, tk, rn, j)
<1>1. Settled(s, j)
  BY DEF Settled, IsOpen, Ended, Terminal
<1>2. ASSUME NEW t \in TickSlots, tk[t].pc # "idle" PROVE tk[t].job # j
  <2>1. tk[t].pc \in {"activating", "starting"} /\ TickOk(s, tk[t])
    BY <1>2 DEF Typed, Tick, GoodTick, Drivers
  <2> QED
    BY <2>1 DEF TickOk, Held, Ended, Terminal
<1>3. ASSUME NEW r \in RunSlots, Drives(rn[r]) PROVE rn[r].job # j
  <2>1. RunOk(s, rn[r])
    BY DEF Drivers
  <2> QED
    BY <1>3, <2>1 DEF RunOk, Drives, Held, Ended, Terminal
<1> QED
  BY <1>1, <1>2, <1>3 DEF Over

\* A step of the human, or of a command, that starts no tick.
HumanStep ==
    /\ HumanMoves(store, ticks, runs, store')
    /\ store'.focus = None => store.focus = None
    /\ Irreflexive(store) => Irreflexive(store')
    /\ UNCHANGED <<executing, ticks, runs>>

\* What such a step leaves to show.
LEMMA HumanStepKeeps ==
    ASSUME IInv, DInv, HumanStep
    PROVE  /\ Drivers(store', ticks', runs') /\ Executes(executing', runs')
           /\ StaysOver(store, ticks, runs, store', ticks', runs')
BY TypedRuns, HumanMovesKeep DEF HumanStep, DInv

\* A handler of the panel.
LEMMA PanelStepKeeps ==
    ASSUME IInv, DInv, HumanStep, UNCHANGED cmd,
           ShownOver(panelRun', panelApproval', store, ticks, runs), GoodPanelRun(panelRun')
    PROVE  DInv' /\ StaysOver(store, ticks, runs, store', ticks', runs')
<1>1. /\ Drivers(store', ticks', runs') /\ Executes(executing', runs')
      /\ StaysOver(store, ticks, runs, store', ticks', runs')
  BY HumanStepKeeps
<1>2. PanelOver'
  BY <1>1 DEF ShownOver, PanelOver, StaysOver, GoodPanelRun
<1>3. SeenOver'
  BY <1>1 DEF DInv, SeenOver, StaysOver
<1>4. OneComposer' /\ ControlOnly'
  BY DEF DInv, HumanStep, OneComposer, CmdBusy, TickBusy, ControlOnly
<1> QED
  BY <1>1, <1>2, <1>3, <1>4 DEF DInv

-----------------------------------------------------------------------------
(* The handlers of the panel, by their effect.                                *)

\* Some jobs of the list are paused or cancelled, and nothing else happens.
StopsOnly(s, s2) ==
    /\ KeepsFrame(s, s2)
    /\ \A j \in Jobs : s2.job[j] = s.job[j] \/ (Status(s, j) \in Present /\ Status(s2, j) \in HumanStops)

LEMMA StopsOnlyTransitive ==
    ASSUME NEW s1, NEW s2, NEW s3, StopsOnly(s1, s2), StopsOnly(s2, s3)
    PROVE  StopsOnly(s1, s3)
<1>1. \A j \in Jobs : s2.job[j] = s1.job[j] => Status(s2, j) = Status(s1, j)
  BY DEF Status
<1>2. \A j \in Jobs : s3.job[j] = s2.job[j] => Status(s3, j) = Status(s2, j)
  BY DEF Status
<1> QED
  BY <1>1, <1>2 DEF StopsOnly, KeepsFrame

LEMMA UpdateStops ==
    ASSUME NEW s \in Store, NEW j \in Jobs, NEW p \in Patches, ~p.override, p.status \in HumanStops
    PROVE  StopsOnly(s, UpdateJob(s, j, p))
<1>1. p.status # "same" /\ StatusAfter(Status(s, j), p.status) = p.status
  BY DEF HumanStops, StatusAfter
<1>2. \A k \in InStore(s) : Status(s, k) \in Present
  BY DEF InStore
<1> QED
  BY <1>1, <1>2, UpdateJobWrites DEF StopsOnly

\* finishControlRun of the panel.
LEMMA FinishPanelWrites ==
    ASSUME NEW p, GoodPanelDraft(p), p.run # NoRun, NEW st \in Present
    PROVE  LET q    == FinishPanel(p, st)
               j    == p.run.job
               kept == StatusAfter(Status(p.store, j), st)
           IN  /\ q.run.job = j /\ q.run.status = kept /\ q.approval = p.approval
               /\ GoodPanelDraft(q) /\ j \in Jobs
               /\ KeepsFrame(p.store, q.store)
               /\ \A k \in Jobs \ {j} : q.store.job[k] = p.store.job[k]
               /\ \/ q.store = p.store
                  \/ j \in InStore(p.store) /\ Status(q.store, j) = kept
               /\ st \in HumanStops => StopsOnly(p.store, q.store)
<1> DEFINE q     == FinishPanel(p, st)
           j     == p.run.job
           found == Status(p.store, j)
           kept  == StatusAfter(found, st)
           patch == [status |-> kept, lock |-> p.run.lock, approval |-> "clear", override |-> FALSE]
           next  == UpdateJob(p.store, j, patch)
<1>1. kept \in Present /\ j \in Jobs /\ (st \in HumanStops => kept \in HumanStops)
  BY DEF StatusAfter, HumanStops, Present, Active, Terminal, GoodPanelDraft, GoodPanelRun
<1>2. q = [p EXCEPT !.run = [p.run EXCEPT !.status = kept], !.store = next]
  BY DEF FinishPanel, GoodPanelDraft, StatusAfter
<1>3. StatusAfter(found, kept) = kept
  BY DEF StatusAfter
<1>4. GoodPanelDraft(q)
  BY FinishPanelFollows DEF PanelFollows
<1> HIDE DEF kept, q
<1>5. patch \in Patches /\ ~patch.override /\ patch.status = kept /\ kept # "same"
  BY <1>1 DEF Patches, GoodPanelDraft, PanelRun, Present, Active, Terminal
<1> HIDE DEF patch
<1>6. /\ KeepsFrame(p.store, next)
      /\ \A k \in Jobs \ {j} : next.job[k] = p.store.job[k]
      /\ \/ next = p.store
         \/ j \in InStore(p.store) /\ Status(next, j) = kept
  BY <1>1, <1>3, <1>5, UpdateJobWrites DEF GoodPanelDraft
<1>7. kept \in HumanStops => StopsOnly(p.store, next)
  BY <1>1, <1>5, UpdateStops DEF GoodPanelDraft
<1> HIDE DEF next
<1>8. q.store = next /\ q.approval = p.approval /\ q.run.job = j /\ q.run.status = kept
  BY <1>2 DEF GoodPanelDraft, PanelRun
<1> QED
  BY <1>1, <1>4, <1>6, <1>7, <1>8 DEF q, kept

\* pauseBrowserJob and cancelBrowserJob.
LEMMA StopPanelMoves ==
    ASSUME NEW p, GoodPanelDraft(p), NEW j \in Jobs, NEW q \in {PausePanel(p, j), CancelPanel(p, j)}
    PROVE  /\ StopsOnly(p.store, q.store) /\ q.approval = p.approval
           /\ q.run = p.run \/ (p.run # NoRun /\ q.run.job = p.run.job /\ ~Ended(q.run.status))
<1>1. ASSUME NEW st \in HumanStops, NEW finishes \in BOOLEAN, finishes => p.run # NoRun,
             q = UpdateThen(IF finishes THEN FinishPanel(p, st) ELSE p, j, StatusPatch(st))
      PROVE  /\ StopsOnly(p.store, q.store) /\ q.approval = p.approval
             /\ q.run = p.run \/ (p.run # NoRun /\ q.run.job = p.run.job /\ ~Ended(q.run.status))
  <2> DEFINE b == IF finishes THEN FinishPanel(p, st) ELSE p
  <2>1. st \in Present
    BY DEF HumanStops, Present, Active, Terminal
  <2>2. StatusAfter(Status(p.store, p.run.job), st) = st /\ ~Ended(st)
    BY DEF StatusAfter, HumanStops, Ended, Terminal
  <2>3. /\ GoodPanelDraft(b) /\ b.approval = p.approval /\ StopsOnly(p.store, b.store)
        /\ b.run = p.run \/ (p.run # NoRun /\ b.run.job = p.run.job /\ ~Ended(b.run.status))
    <3>1. CASE finishes
      BY <1>1, <2>1, <2>2, <3>1, FinishPanelWrites
    <3>2. CASE ~finishes
      BY <3>2 DEF StopsOnly, KeepsFrame
    <3> QED
      BY <3>1, <3>2
  <2>4. q = UpdateThen(b, j, StatusPatch(st))
    BY <1>1
  <2> HIDE DEF b
  <2>5. StopsOnly(b.store, UpdateJob(b.store, j, StatusPatch(st)))
    BY <2>1, <2>3, StatusPatchPlain, UpdateStops DEF GoodPanelDraft
  <2>6. q.store = UpdateJob(b.store, j, StatusPatch(st)) /\ q.run = b.run /\ q.approval = b.approval
    BY <2>3, <2>4 DEF UpdateThen, GoodPanelDraft
  <2> QED
    BY <2>3, <2>5, <2>6, StopsOnlyTransitive
<1>2. CASE q = PausePanel(p, j)
  <2> DEFINE finishes == j = p.store.focus /\ p.run # NoRun /\ Status(p.store, j) = "running"
  <2>1. finishes \in BOOLEAN /\ (finishes => p.run # NoRun) /\ "paused" \in HumanStops
    BY DEF HumanStops
  <2>2. q = UpdateThen(IF finishes THEN FinishPanel(p, "paused") ELSE p, j, StatusPatch("paused"))
    BY <1>2 DEF PausePanel
  <2> HIDE DEF finishes
  <2> QED
    BY <1>1, <2>1, <2>2
<1>3. CASE q = CancelPanel(p, j)
  <2> DEFINE finishes == j = p.store.focus /\ p.run # NoRun /\ p.run.status \notin Terminal
  <2>1. finishes \in BOOLEAN /\ (finishes => p.run # NoRun) /\ "cancelled" \in HumanStops
    BY DEF HumanStops
  <2>2. q = UpdateThen(IF finishes THEN FinishPanel(p, "cancelled") ELSE p, j,
                       StatusPatch("cancelled"))
    BY <1>3 DEF CancelPanel
  <2> HIDE DEF finishes
  <2> QED
    BY <1>1, <2>1, <2>2
<1> QED
  BY <1>2, <1>3

\* denyPendingControlStep, for a panel that shows what is over.
LEMMA DenyPanelMoves ==
    ASSUME NEW p, GoodPanelDraft(p), NEW tk, NEW rn, ~NoDeny,
           ShownOver(p.run, p.approval, p.store, tk, rn)
    PROVE  LET q == DenyPanel(p)
           IN  /\ HumanMoves(p.store, tk, rn, q.store) /\ KeepsFrame(p.store, q.store)
               /\ ShownOver(q.run, q.approval, p.store, tk, rn)
<1> DEFINE clear   == [NoPatch EXCEPT !.approval = "clear"]
           cleared == IF p.store.focus = None THEN p ELSE UpdateThen(p, p.store.focus, clear)
           c       == [cleared EXCEPT !.approval = FALSE]
           q       == DenyPanel(p)
           j       == p.run.job
<1>1. clear \in Patches /\ ~clear.override /\ clear.status = "same" /\ clear.lock = "same"
  BY DEF NoPatch, Patches
<1>2. q = IF p.approval /\ p.run # NoRun THEN FinishPanel(c, "denied") ELSE p
  BY DEF DenyPanel
<1> HIDE DEF clear
<1>3. PanelFollows(p, cleared) /\ cleared.run = p.run
  BY <1>1, UpdateThenFollows, PanelFollowsItself
<1>4. /\ KeepsFrame(p.store, cleared.store)
      /\ \A k \in Jobs : SameWork(p.store, cleared.store, k)
  <2>1. CASE p.store.focus = None
    BY <2>1 DEF KeepsFrame, SameWork
  <2>2. CASE p.store.focus # None
    <3> DEFINE f    == p.store.focus
               next == UpdateJob(p.store, f, clear)
    <3>1. p.store \in Store /\ f \in Jobs
      BY <2>2 DEF GoodPanelDraft, Store
    <3>2. /\ KeepsFrame(p.store, next)
          /\ \A k \in Jobs \ {f} : next.job[k] = p.store.job[k]
          /\ \/ next = p.store
             \/ /\ Status(next, f) = Status(p.store, f)
                /\ Status(next, f) \in LockHolding => next.job[f].lock = p.store.job[f].lock
      BY <1>1, <3>1, UpdateJobWrites
    <3>3. cleared.store = next
      BY <2>2 DEF UpdateThen, GoodPanelDraft
    <3> HIDE DEF next, cleared
    <3> QED
      BY <3>1, <3>2, <3>3 DEF SameWork, Status
  <2> QED
    BY <2>1, <2>2
<1>5. CASE ~(p.approval /\ p.run # NoRun)
  BY <1>2, <1>5 DEF HumanMoves, SameWork, KeepsFrame
<1>6. CASE p.approval /\ p.run # NoRun
  <2> HIDE DEF cleared
  <2>1. GoodPanelDraft(c) /\ c.run = p.run /\ c.approval = FALSE /\ c.store = cleared.store
    BY <1>3 DEF PanelFollows, GoodPanelDraft
  <2> HIDE DEF c
  <2>2. q = FinishPanel(c, "denied") /\ "denied" \in Present
    BY <1>2, <1>6 DEF Present, Terminal
  <2>3. /\ q.run.job = j /\ q.approval = FALSE /\ j \in Jobs
        /\ KeepsFrame(c.store, q.store)
        /\ \A k \in Jobs \ {j} : q.store.job[k] = c.store.job[k]
        /\ \/ q.store = c.store
           \/ Status(q.store, j) = StatusAfter(Status(c.store, j), "denied")
    BY <1>6, <2>1, <2>2, FinishPanelWrites
  <2> HIDE DEF q
  <2>4. Over(p.store, tk, rn, j)
    BY <1>6 DEF ShownOver
  <2>5. Settled(q.store, j)
    <3>1. Settled(c.store, j)
      BY <1>4, <2>1, <2>3, <2>4 DEF Over, Settled, SameWork
    <3> QED
      BY <2>3, <3>1 DEF Settled, IsOpen, StatusAfter, HumanStops
  <2>6. \A k \in Jobs \ {j} : SameWork(p.store, q.store, k)
    BY <1>4, <2>1, <2>3 DEF SameWork, Status
  <2>7. HumanMoves(p.store, tk, rn, q.store)
    BY <2>4, <2>5, <2>6 DEF HumanMoves
  <2>8. KeepsFrame(p.store, q.store) /\ ShownOver(q.run, q.approval, p.store, tk, rn)
    BY <1>4, <2>1, <2>3, <2>4 DEF KeepsFrame, ShownOver
  <2> QED
    BY <2>7, <2>8 DEF q
<1> QED
  BY <1>5, <1>6

-----------------------------------------------------------------------------
(* The steps of the human and of the commands.                                *)

LEMMA StopsOnlyMoves ==
    ASSUME NEW s, NEW tk, NEW rn, NEW s2, StopsOnly(s, s2)
    PROVE  HumanMoves(s, tk, rn, s2)
BY DEF StopsOnly, HumanMoves, SameWork, Status

\* Only the order of the list and the focus may have changed.
LEMMA SameJobsMove ==
    ASSUME NEW s, NEW tk, NEW rn, NEW s2, s2.job = s.job
    PROVE  HumanMoves(s, tk, rn, s2)
BY DEF HumanMoves, SameWork, Status

\* The handlers of the panel's buttons.
LEMMA PanelTurnMoves ==
    ASSUME IInv, IInv', DInv, (\E j \in Jobs : Pause(j) \/ Cancel(j)) \/ Stop \/ Deny
    PROVE  HumanStep /\ DInv' /\ StaysOver(store, ticks, runs, store', ticks', runs')
<1>1. GoodPanelDraft(Panel) /\ Panel.store = store /\ Panel.run = panelRun
        /\ Panel.approval = panelApproval
  BY PanelGood
<1>2. ShownOver(Panel.run, Panel.approval, store, ticks, runs) /\ GoodPanelRun(panelRun')
  BY <1>1 DEF DInv, PanelOver, IInv, GoodPanel
<1>3. ASSUME NEW j \in Jobs, NEW q \in {PausePanel(Panel, j), CancelPanel(Panel, j)},
             CommitPanel(q), UNCHANGED <<executing, ticks, runs, actor, cmd>>
      PROVE  HumanStep /\ DInv' /\ StaysOver(store, ticks, runs, store', ticks', runs')
  <2>1. /\ StopsOnly(store, store') /\ panelApproval' = panelApproval
        /\ \/ panelRun' = panelRun
           \/ panelRun # NoRun /\ panelRun'.job = panelRun.job /\ ~Ended(panelRun'.status)
    BY <1>1, <1>3, StopPanelMoves DEF CommitPanel
  <2>2. HumanStep
    BY <1>3, <2>1, StopsOnlyMoves DEF HumanStep, StopsOnly, KeepsFrame
  <2>3. ShownOver(panelRun', panelApproval', store, ticks, runs)
    BY <1>1, <1>2, <2>1 DEF ShownOver
  <2> QED
    BY <1>2, <1>3, <2>2, <2>3, PanelStepKeeps
<1>4. ASSUME NEW j \in Jobs, Pause(j) \/ Cancel(j)
      PROVE  HumanStep /\ DInv' /\ StaysOver(store, ticks, runs, store', ticks', runs')
  BY <1>3, <1>4 DEF Pause, Cancel
<1>5. CASE Stop
  <2>1. PICK j \in Jobs : CommitPanel(CancelPanel(Panel, j))
                             /\ UNCHANGED <<executing, ticks, runs, actor, cmd>>
    BY <1>5 DEF Stop, InStore
  <2> QED
    BY <1>3, <2>1
<1>6. CASE Deny
  <2> DEFINE q == DenyPanel(Panel)
  <2>1. ~NoDeny /\ CommitPanel(q) /\ UNCHANGED <<executing, ticks, runs, actor, cmd>>
    BY <1>6 DEF Deny, NoDeny
  <2>2. /\ HumanMoves(store, ticks, runs, q.store) /\ KeepsFrame(store, q.store)
        /\ ShownOver(q.run, q.approval, store, ticks, runs)
    BY <1>1, <1>2, <2>1, DenyPanelMoves
  <2> HIDE DEF q
  <2>3. HumanStep /\ ShownOver(panelRun', panelApproval', store, ticks, runs)
    BY <2>1, <2>2 DEF HumanStep, CommitPanel, KeepsFrame
  <2> QED
    BY <1>2, <2>1, <2>3, PanelStepKeeps
<1> QED
  BY <1>4, <1>5, <1>6

LEMMA ClearDoneMoves ==
    ASSUME IInv, IInv', DInv, ClearDone
    PROVE  HumanStep /\ DInv' /\ StaysOver(store, ticks, runs, store', ticks', runs')
<1>1. /\ KeepsFrame(store, store')
      /\ \A j \in Jobs : \/ store'.job[j] = store.job[j]
                         \/ Status(store, j) \in Clearable /\ Status(store', j) = "gone"
  BY TypedRuns, ClearCompletedJobsWrites DEF ClearDone
<1>2. HumanMoves(store, ticks, runs, store')
  BY <1>1 DEF HumanMoves, SameWork, Status
<1>3. HumanStep /\ UNCHANGED cmd
  BY <1>1, <1>2 DEF HumanStep, KeepsFrame, ClearDone
<1>4. ShownOver(panelRun', panelApproval', store, ticks, runs) /\ GoodPanelRun(panelRun')
  BY DEF ClearDone, DInv, PanelOver, IInv, GoodPanel
<1> QED
  BY <1>3, <1>4, PanelStepKeeps

\* A command that goes on, starts or ends, and what the panel shows then.
LEMMA CommandKeeps ==
    ASSUME IInv, IInv', DInv, HumanStep, NEW j \in Jobs, NEW c, cmd' = [cmd EXCEPT ![j] = c],
           c.pc # "idle" /\ c.composer => CmdBusy(j) \/ ~Busy,
           c.pc # "restarting" /\ c.what \notin {"resume", "continue"},
           NoDeny => c.what # "deny",
           c.pc \in {"preparing", "ticking"} => c.composer /\ c.what = "create",
           c.pc \in {"focusing", "showing"} =>
               (Ended(c.seen.status) \/ (~NoDeny /\ c.seen.approval)
                   => Over(store, ticks, runs, j)),
           ShownOver(panelRun', panelApproval', store, ticks, runs)
    PROVE  DInv' /\ StaysOver(store, ticks, runs, store', ticks', runs')
<1>1. /\ Drivers(store', ticks', runs') /\ Executes(executing', runs')
      /\ StaysOver(store, ticks, runs, store', ticks', runs')
  BY HumanStepKeeps
<1>2. \A k \in Jobs : cmd'[k] = IF k = j THEN c ELSE cmd[k]
  BY DEF IInv, GoodCmds
<1>3. PanelOver'
  BY <1>1 DEF ShownOver, PanelOver, StaysOver, IInv, GoodPanel, GoodPanelRun
<1>4. SeenOver'
  BY <1>1, <1>2 DEF DInv, SeenOver, StaysOver
<1>5. ~Busy => /\ \A k \in Jobs : ~CmdBusy(k)
               /\ \A t \in TickSlots : ~TickBusy(t)
  BY DEF Busy, CmdBusy, TickBusy
<1>6. \A t \in TickSlots : TickBusy(t)' = TickBusy(t)
  BY DEF TickBusy, HumanStep
<1>7. \A k \in Jobs : CmdBusy(k)' = IF k = j THEN c.pc # "idle" /\ c.composer ELSE CmdBusy(k)
  BY <1>2 DEF CmdBusy
<1>8. OneComposer'
  BY <1>5, <1>6, <1>7 DEF DInv, OneComposer
<1>9. ControlOnly'
  BY <1>2 DEF DInv, ControlOnly
<1> QED
  BY <1>1, <1>3, <1>4, <1>8, <1>9 DEF DInv

\* Commands up to Show.
LEMMA FocusMoves ==
    ASSUME IInv, IInv', DInv, NoRestart, NEW j \in Jobs,
           \/ Focus(j) \/ Resume(j) \/ Continue(j) \/ DenyJob(j) \/ Control(j)
           \/ FindTab(j) \/ FocusFails(j) \/ GiveUp(j)
    PROVE  HumanStep /\ DInv' /\ StaysOver(store, ticks, runs, store', ticks', runs')
<1>1. ASSUME UNCHANGED runVars
      PROVE  HumanStep /\ ShownOver(panelRun', panelApproval', store, ticks, runs)
  BY <1>1, SameJobsMove DEF runVars, HumanStep, DInv, PanelOver
<1>2. NoCommand.pc = "idle" /\ NoCommand.what = "none" /\ NoCommand.composer = FALSE
  BY DEF NoCommand
<1>3. ASSUME NEW what \in {"focus", "deny"}, NEW composer \in BOOLEAN, NoDeny => what # "deny",
             BeginFocus(j, what, composer)
      PROVE  HumanStep /\ DInv' /\ StaysOver(store, ticks, runs, store', ticks', runs')
  <2> DEFINE c == [NoCommand EXCEPT !.pc = "focusing", !.what = what,
                                    !.seen = store.job[j], !.composer = composer]
  <2>1. /\ c.pc = "focusing" /\ c.what = what /\ c.composer = composer /\ c.seen = store.job[j]
        /\ cmd' = [cmd EXCEPT ![j] = c]
    BY <1>3 DEF BeginFocus, NoCommand
  <2> HIDE DEF c
  <2>2. store'.job = store.job /\ store'.newer = store.newer /\ store'.focus # None
    BY <1>3, TypedRuns, ActivateJobWrites DEF BeginFocus
  <2>3. HumanStep
    BY <1>3, <2>2, SameJobsMove DEF HumanStep, BeginFocus, Irreflexive, Newer
  <2>4. store.job[j].approval => Status(store, j) = "approval"
    BY DEF IInv, GoodStore, StoreConsistent, ApprovalsAwaited
  <2>5. Ended(c.seen.status) \/ (~NoDeny /\ c.seen.approval) => Over(store, ticks, runs, j)
    BY <2>1, <2>4, TypedRuns, EndedIsOver DEF DInv, Status
  <2>6. ShownOver(panelRun', panelApproval', store, ticks, runs) /\ (composer => ~Busy)
    BY <1>3 DEF BeginFocus, DInv, PanelOver
  <2> QED
    BY <1>3, <2>1, <2>3, <2>5, <2>6, CommandKeeps
<1>4. CASE Focus(j) \/ DenyJob(j)
  BY <1>3, <1>4 DEF Focus, DenyJob, NoDeny
<1>5. ~Resume(j) /\ ~Continue(j)
  BY DEF NoRestart, Resume, Continue
<1>6. CASE Control(j)
  <2> DEFINE c == [NoCommand EXCEPT !.pc = "preparing", !.what = "create", !.composer = TRUE]
  <2>1. /\ c.pc = "preparing" /\ c.what = "create" /\ c.composer
        /\ cmd' = [cmd EXCEPT ![j] = c] /\ ~Busy /\ UNCHANGED runVars
    BY <1>6 DEF Control, NoCommand
  <2> HIDE DEF c
  <2>2. HumanStep /\ ShownOver(panelRun', panelApproval', store, ticks, runs)
    BY <1>1, <2>1
  <2>3. c.pc # "restarting" /\ c.pc \notin {"focusing", "showing"}
          /\ c.what \notin {"resume", "continue", "deny"}
    BY <2>1
  <2> QED
    BY <2>1, <2>2, <2>3, CommandKeeps
<1>7. CASE FindTab(j)
  <2> DEFINE c == [cmd[j] EXCEPT !.pc = "showing"]
  <2>1. /\ cmd[j].pc = "focusing" /\ c.pc = "showing" /\ c.what = cmd[j].what
        /\ c.composer = cmd[j].composer /\ c.seen = cmd[j].seen
        /\ cmd' = [cmd EXCEPT ![j] = c] /\ UNCHANGED runVars
    BY <1>7 DEF FindTab, IInv, GoodCmds, GoodCommand, Command
  <2> HIDE DEF c
  <2>2. /\ cmd[j].what \notin {"resume", "continue"} /\ (NoDeny => cmd[j].what # "deny")
        /\ Ended(c.seen.status) \/ (~NoDeny /\ c.seen.approval) => Over(store, ticks, runs, j)
        /\ c.composer => CmdBusy(j)
    BY <2>1 DEF DInv, ControlOnly, SeenOver, CmdBusy
  <2> QED
    BY <1>1, <2>1, <2>2, CommandKeeps
<1>8. CASE FocusFails(j) \/ GiveUp(j)
  <2>1. cmd' = [cmd EXCEPT ![j] = NoCommand] /\ UNCHANGED runVars
    BY <1>8 DEF FocusFails, GiveUp
  <2>2. HumanStep /\ ShownOver(panelRun', panelApproval', store, ticks, runs)
    BY <1>1, <2>1
  <2>3. /\ NoCommand.pc \notin {"restarting", "preparing", "ticking", "focusing", "showing"}
        /\ NoCommand.what \notin {"resume", "continue", "deny"}
    BY <1>2
  <2> QED
    BY <1>2, <2>1, <2>2, <2>3, CommandKeeps
<1> QED
  BY <1>4, <1>5, <1>6, <1>7, <1>8

\* The panel shows the job as it was seen.
LEMMA ShowMoves ==
    ASSUME IInv, IInv', DInv, NEW j \in Jobs, Show(j)
    PROVE  HumanStep /\ DInv' /\ StaysOver(store, ticks, runs, store', ticks', runs')
<1> DEFINE seen  == cmd[j].seen
           shown == [store |-> store, approval |-> seen.approval,
                     run |-> [job |-> j, status |-> seen.status, lock |-> seen.lock]]
           q     == IF cmd[j].what = "deny" THEN DenyPanel(shown) ELSE shown
<1>1. /\ cmd[j].pc = "showing" /\ cmd[j].what \notin {"resume", "continue"}
      /\ CommitPanel(q) /\ cmd' = [cmd EXCEPT ![j] = NoCommand]
      /\ UNCHANGED <<executing, ticks, runs, actor>>
  BY DEF Show, DInv, ControlOnly
<1>2. GoodPanelDraft(shown) /\ shown.store = store
  BY <1>1 DEF GoodPanelDraft, GoodStore, GoodCommand, Command, JobRecord, GoodPanelRun, PanelRun,
              IInv, GoodCmds
<1>3. ShownOver(shown.run, shown.approval, store, ticks, runs)
  BY <1>1 DEF DInv, SeenOver, ShownOver
<1>4. cmd[j].what = "deny" => ~NoDeny
  BY DEF DInv, ControlOnly
<1> HIDE DEF shown
<1>5. /\ HumanMoves(store, ticks, runs, q.store) /\ KeepsFrame(store, q.store)
      /\ ShownOver(q.run, q.approval, store, ticks, runs)
  <2>1. HumanMoves(store, ticks, runs, store) /\ KeepsFrame(store, store)
    BY SameJobsMove DEF KeepsFrame
  <2> QED
    BY <1>2, <1>3, <1>4, <2>1, DenyPanelMoves
<1> HIDE DEF q
<1>6. HumanStep /\ ShownOver(panelRun', panelApproval', store, ticks, runs)
  BY <1>1, <1>5 DEF HumanStep, CommitPanel, KeepsFrame
<1>7. /\ NoCommand.pc = "idle" /\ NoCommand.what = "none"
  BY DEF NoCommand
<1> QED
  BY <1>1, <1>6, <1>7, CommandKeeps

\* The rest of /control: only what is over or unknown to the scheduler changes.
LEMMA ControlMoves ==
    ASSUME IInv, IInv', DInv, NoEviction, NEW j \in Jobs, NEW l \in Locks,
           FinishStale(j, l) \/ Create(j, l) \/ Restart(j, l)
    PROVE  HumanStep /\ DInv' /\ StaysOver(store, ticks, runs, store', ticks', runs')
<1>1. /\ cmd[j] \in Command /\ cmd[j].what \notin {"resume", "continue"}
      /\ cmd[j].pc = "preparing" => CmdBusy(j) /\ cmd[j].what = "create"
  BY DEF IInv, GoodCmds, GoodCommand, DInv, ControlOnly, CmdBusy
<1>2. ~Restart(j, l)
  BY <1>1 DEF Restart, ChoosesLock
<1>3. CASE FinishStale(j, l)
  <2> DEFINE st    == panelRun.status
             k     == panelRun.job
             patch == [StatusPatch(st) EXCEPT !.lock = None]
             c     == [cmd[j] EXCEPT !.lock = l]
  <2>1. /\ panelRun # NoRun /\ st \in Terminal /\ k \in Jobs
        /\ UNCHANGED <<executing, ticks, runs, panelRun, panelApproval>>
        /\ cmd' = [cmd EXCEPT ![j] = c] /\ cmd[j].pc = "preparing"
    BY <1>3 DEF FinishStale, Stale, IInv, GoodPanel, GoodPanelRun, GoodCmds
  <2>2. patch \in Patches /\ ~patch.override /\ patch.status = st /\ patch.lock = None
    BY <2>1 DEF StatusPatch, NoPatch, Patches, Present
  <2>3. store' = UpdateJob(store, k, patch)
    BY <1>3 DEF FinishStale
  <2> HIDE DEF patch
  <2>4. /\ KeepsFrame(store, store')
        /\ \A i \in Jobs \ {k} : store'.job[i] = store.job[i]
        /\ \/ store' = store
           \/ k \in InStore(store) /\ Status(store', k) = StatusAfter(Status(store, k), st)
    BY <2>1, <2>2, <2>3, TypedRuns, UpdateJobWrites DEF Terminal
  <2>5. HumanMoves(store, ticks, runs, store')
    <3>1. \A i \in Jobs \ {k} : SameWork(store, store', i)
      BY <2>4 DEF SameWork, Status
    <3>2. CASE store' = store
      BY <3>2, SameJobsMove
    <3>3. CASE k \in InStore(store) /\ Status(store', k) = StatusAfter(Status(store, k), st)
      <4>1. CASE st = "cancelled"
        <5>1. Status(store, k) \in Present /\ Status(store', k) \in HumanStops
          BY <3>3, <4>1 DEF InStore, StatusAfter, HumanStops
        <5> QED
          BY <3>1, <5>1 DEF HumanMoves
      <4>2. CASE st # "cancelled"
        <5>1. Over(store, ticks, runs, k)
          BY <2>1, <4>2 DEF DInv, PanelOver, ShownOver, Ended
        <5>2. Settled(store', k)
          BY <2>1, <3>3 DEF Settled, IsOpen, StatusAfter, HumanStops, Terminal
        <5> QED
          BY <3>1, <5>1, <5>2 DEF HumanMoves
      <4> QED
        BY <4>1, <4>2
    <3> QED
      BY <2>4, <3>2, <3>3
  <2>6. HumanStep /\ ShownOver(panelRun', panelApproval', store, ticks, runs)
    BY <2>1, <2>4, <2>5 DEF HumanStep, KeepsFrame, DInv, PanelOver
  <2>7. c.pc = "preparing" /\ c.what = "create" /\ c.composer
    BY <1>1, <2>1 DEF Command, CmdBusy
  <2> HIDE DEF c
  <2>8. c.pc # "restarting" /\ c.pc \notin {"focusing", "showing"}
          /\ c.what \notin {"resume", "continue", "deny"}
    BY <2>7
  <2> QED
    BY <1>1, <2>1, <2>6, <2>7, <2>8, CommandKeeps
<1>4. CASE Create(j, l)
  <2> DEFINE c == [cmd[j] EXCEPT !.pc = "ticking", !.lock = None]
  <2>1. /\ cmd[j].pc = "preparing" /\ cmd[j].what = "create"
        /\ store' = CreateJob(store, j, l) /\ cmd' = [cmd EXCEPT ![j] = c]
        /\ UNCHANGED <<executing, ticks, runs, panelRun, panelApproval>>
    BY <1>4 DEF Create, ChoosesLock, IInv, GoodCmds
  <2>2. Status(store, j) = "new"
    BY <2>1 DEF IInv, CreatesNew
  <2>3. /\ KeepsFrame(store, store')
        /\ \A k \in Jobs \ {j} : store'.job[k] = store.job[k]
        /\ Status(store', j) = "queued" /\ store'.job[j].lock = l
    BY <2>1, TypedRuns, CreateJobWrites DEF NoEviction, DInv, Drivers
  <2>4. HumanMoves(store, ticks, runs, store')
    BY <2>2, <2>3 DEF HumanMoves, SameWork, Status
  <2>5. HumanStep /\ ShownOver(panelRun', panelApproval', store, ticks, runs)
    BY <2>1, <2>3, <2>4 DEF HumanStep, KeepsFrame, DInv, PanelOver
  <2>6. c.pc = "ticking" /\ c.what = "create" /\ c.composer
    BY <1>1, <2>1 DEF Command, CmdBusy
  <2> HIDE DEF c
  <2>7. c.pc # "restarting" /\ c.pc \notin {"focusing", "showing"}
          /\ c.what \notin {"resume", "continue", "deny"}
    BY <2>6
  <2> QED
    BY <1>1, <2>1, <2>5, <2>6, <2>7, CommandKeeps
<1> QED
  BY <1>2, <1>3, <1>4

-----------------------------------------------------------------------------
(* The steps of the scheduler and of the runs.                                *)

\* What a step that leaves the panel alone must show.
LEMMA SchedulerKeeps ==
    ASSUME DInv, Drivers(store', ticks', runs'), Executes(executing', runs'),
           StaysOver(store, ticks, runs, store', ticks', runs'),
           UNCHANGED <<panelRun, panelApproval>>, panelRun # NoRun => panelRun.job \in Jobs,
           \A k \in Jobs : cmd'[k] \in {cmd[k], NoCommand}, OneComposer'
    PROVE  DInv'
<1>1. PanelOver'
  BY DEF DInv, PanelOver, ShownOver, StaysOver
<1>2. /\ NoCommand.pc = "idle" /\ NoCommand.what = "none"
  BY DEF NoCommand
<1>3. SeenOver'
  BY <1>2 DEF DInv, SeenOver, StaysOver
<1>4. ControlOnly'
  <2> SUFFICES ASSUME NEW k \in Jobs
               PROVE  /\ cmd'[k].pc # "restarting" /\ cmd'[k].what \notin {"resume", "continue"}
                      /\ NoDeny => cmd'[k].what # "deny"
                      /\ cmd'[k].pc \in {"preparing", "ticking"} => cmd'[k].composer /\ cmd'[k].what = "create"
    BY DEF ControlOnly
  <2>1. CASE cmd'[k] = cmd[k]
    BY <2>1 DEF DInv, ControlOnly
  <2>2. CASE cmd'[k] = NoCommand
    BY <1>2, <2>2
  <2> QED
    BY <2>1, <2>2
<1> QED
  BY <1>1, <1>3, <1>4 DEF DInv

\* A tick that goes on keeps the composer as busy as it was.
LEMMA ComposerKept ==
    ASSUME OneComposer, NEW t \in TickSlots, UNCHANGED cmd,
           \A u \in TickSlots : u # t => ticks'[u] = ticks[u], TickBusy(t)' => TickBusy(t)
    PROVE  OneComposer'
<1>1. \A u \in TickSlots : TickBusy(u)' => TickBusy(u)
  BY DEF TickBusy
<1>2. \A k \in Jobs : CmdBusy(k)' = CmdBusy(k)
  BY DEF CmdBusy
<1> QED
  BY <1>1, <1>2 DEF OneComposer

\* The tick of a command: /control at its end, or /jobs run.  It finds no other
\* tick of a command, and none that starts the first job of the panel.
LEMMA CommandTick ==
    ASSUME IInv, DInv, RunJobs \/ \E j \in Jobs : StartTick(j)
    PROVE  /\ \E t \in TickSlots : BeginTick(t, store, executing, TRUE)
           /\ \A u \in TickSlots : ~TickBusy(u) /\ ticks[u].pc # "activating"
           /\ \A k \in Jobs : ~CmdBusy(k)'
           /\ \A k \in Jobs : cmd'[k] \in {cmd[k], NoCommand}
           /\ UNCHANGED <<executing, runs, panelRun, panelApproval>>
<1>1. NoCommand.pc = "idle"
  BY DEF NoCommand
<1>2. /\ \E t \in TickSlots : BeginTick(t, store, executing, TRUE)
      /\ \A u \in TickSlots : ~TickBusy(u)
      /\ \A k \in Jobs : ~CmdBusy(k)'
      /\ \A k \in Jobs : cmd'[k] \in {cmd[k], NoCommand}
  <2>1. CASE RunJobs
    BY <2>1 DEF RunJobs, Busy, CmdBusy, TickBusy
  <2>2. ASSUME NEW j \in Jobs, StartTick(j)
        PROVE  /\ \E t \in TickSlots : BeginTick(t, store, executing, TRUE)
               /\ \A u \in TickSlots : ~TickBusy(u)
               /\ \A k \in Jobs : ~CmdBusy(k)'
               /\ \A k \in Jobs : cmd'[k] \in {cmd[k], NoCommand}
    <3>1. cmd[j].pc = "ticking" /\ CmdBusy(j) /\ cmd[j].composer = TRUE
      BY <2>2 DEF StartTick, DInv, ControlOnly, CmdBusy, IInv, GoodCmds, GoodCommand, Command
    <3>2. \A k \in Jobs : cmd'[k] = IF k = j THEN NoCommand ELSE cmd[k]
      BY <2>2 DEF StartTick, IInv, GoodCmds
    <3>3. /\ \A u \in TickSlots : ~TickBusy(u)
          /\ \A k \in Jobs : k # j => ~CmdBusy(k)
      BY <3>1 DEF DInv, OneComposer
    <3>4. \A k \in Jobs : ~CmdBusy(k)'
      BY <1>1, <3>2, <3>3 DEF CmdBusy
    <3> QED
      BY <2>2, <3>1, <3>2, <3>3, <3>4 DEF StartTick
  <2> QED
    BY <2>1, <2>2
<1>3. \A u \in TickSlots : ticks[u].pc # "activating"
  BY <1>2 DEF DInv, Drivers, FirstAlone, TickBusy
<1>4. UNCHANGED <<executing, runs, panelRun, panelApproval>>
  BY DEF RunJobs, StartTick
<1> QED
  BY <1>2, <1>3, <1>4

LEMMA CommandTickMoves ==
    ASSUME IInv, DInv, RunJobs \/ \E j \in Jobs : StartTick(j)
    PROVE  DInv' /\ StaysOver(store, ticks, runs, store', ticks', runs')
<1>1. PICK t \in TickSlots : BeginTick(t, store, executing, TRUE)
  BY CommandTick
<1>2. /\ \A u \in TickSlots : ~TickBusy(u) /\ ticks[u].pc # "activating"
      /\ \A k \in Jobs : ~CmdBusy(k)'
      /\ \A k \in Jobs : cmd'[k] \in {cmd[k], NoCommand}
      /\ UNCHANGED <<executing, runs, panelRun, panelApproval>>
  BY CommandTick
<1>3. /\ Drivers(store', ticks', runs)
      /\ StaysOver(store, ticks, runs, store', ticks', runs)
      /\ \A u \in TickSlots : u # t => ticks'[u] = ticks[u]
  BY <1>1, <1>2, TypedRuns, BeginTickKeeps DEF DInv
<1>4. OneComposer'
  <2>1. \A u \in TickSlots : TickBusy(u)' => u = t
    BY <1>2, <1>3 DEF TickBusy
  <2> QED
    BY <1>2, <2>1 DEF OneComposer
<1>5. panelRun # NoRun => panelRun.job \in Jobs
  BY DEF IInv, GoodPanel, GoodPanelRun
<1> QED
  BY <1>2, <1>3, <1>4, <1>5, SchedulerKeeps DEF DInv

\* The map of executions when a run takes a slot or leaves it.
LEMMA ExecutesMore ==
    ASSUME NEW ex, NEW rn, rn \in [RunSlots -> Run], Executes(ex, rn),
           NEW r \in RunSlots, rn[r].pc = "free", NEW run, run.pc # "free"
    PROVE  Executes(ex \cup {run.job}, [rn EXCEPT ![r] = run])
<1> DEFINE rn2 == [rn EXCEPT ![r] = run]
<1>1. \A q \in RunSlots : rn2[q] = IF q = r THEN run ELSE rn[q]
  OBVIOUS
<1> HIDE DEF rn2
<1>2. ex \cup {run.job} = {rn2[q].job : q \in {p \in RunSlots : rn2[p].pc # "free"}}
  BY <1>1 DEF Executes
<1> QED
  BY <1>2 DEF Executes, rn2

LEMMA ExecutesLess ==
    ASSUME NEW ex, NEW tk, NEW rn, rn \in [RunSlots -> Run], Executes(ex, rn), OneDriver(tk, rn),
           NEW r \in RunSlots, rn[r].pc # "free"
    PROVE  Executes(ex \ {rn[r].job}, [rn EXCEPT ![r] = FreeRun])
<1> DEFINE rn2 == [rn EXCEPT ![r] = FreeRun]
<1>1. \A q \in RunSlots : rn2[q] = IF q = r THEN FreeRun ELSE rn[q]
  OBVIOUS
<1>2. FreeRun.pc = "free"
  BY DEF FreeRun
<1> HIDE DEF rn2
<1>3. ex \ {rn[r].job} = {rn2[q].job : q \in {p \in RunSlots : rn2[p].pc # "free"}}
  BY <1>1, <1>2 DEF Executes, OneDriver
<1> QED
  BY <1>3 DEF Executes, rn2

\* The steps of a tick.
LEMMA TickStepMoves ==
    ASSUME IInv, DInv, NEW t \in TickSlots, TickStep(t),
           UNCHANGED <<actor, panelRun, panelApproval, cmd>>
    PROVE  DInv' /\ StaysOver(store, ticks, runs, store', ticks', runs')
<1>1. Typed(ticks, runs) /\ store \in Store /\ (panelRun # NoRun => panelRun.job \in Jobs)
        /\ \A k \in Jobs : cmd'[k] \in {cmd[k], NoCommand}
  BY TypedRuns DEF IInv, GoodPanel, GoodPanelRun
<1>2. CASE TickActivated(t)
  <2> DEFINE after == MarkRunning(store, ticks[t])
  <2>1. /\ store' = after.store /\ ticks' = [ticks EXCEPT ![t] = after.tick]
        /\ UNCHANGED <<executing, runs>> /\ ticks[t].pc = "activating"
    BY <1>2 DEF TickActivated
  <2>2. after.tick.pc = "idle" \/ after.tick.composer = ticks[t].composer
    <3>1. ticks[t] \in Tick /\ ticks[t].job \in Jobs
      BY <1>1, <2>1 DEF Typed, GoodTick
    <3> QED
      BY <1>1, <3>1, MarkRunningWrites DEF IdleTick
  <2>3. /\ Drivers(store', ticks', runs')
        /\ StaysOver(store, ticks, runs, store', ticks', runs')
    BY <1>1, <2>1, ActivatedKeeps DEF DInv
  <2> HIDE DEF after
  <2>4. \A u \in TickSlots : ticks'[u] = IF u = t THEN after.tick ELSE ticks[u]
    BY <1>1, <2>1 DEF Typed
  <2>5. OneComposer'
    BY <2>1, <2>2, <2>4, ComposerKept DEF DInv, TickBusy
  <2> QED
    BY <1>1, <2>1, <2>3, <2>5, SchedulerKeeps DEF DInv
<1>3. CASE TickLaunches(t)
  <2> DEFINE j    == ticks[t].job
             run  == [FreeRun EXCEPT !.pc = "top", !.job = ticks[t].job, !.lock = ticks[t].lock]
             next == [ticks[t] EXCEPT !.lock = None]
             tk2  == [ticks EXCEPT ![t] = IdleTick]
  <2>1. PICK r \in RunSlots : runs[r].pc = "free" /\ runs' = [runs EXCEPT ![r] = run]
    BY <1>3 DEF TickLaunches
  <2>2. ticks[t].pc = "starting" /\ executing' = executing \cup {j}
          /\ AdvanceTick(t, store, executing', next)
    BY <1>3 DEF TickLaunches
  <2>3. run.job = j /\ run.pc # "free"
    BY DEF FreeRun
  <2>4. next \in Tick /\ next.composer = ticks[t].composer
    BY <1>1 DEF Typed, Tick
  <2> HIDE DEF next
  <2>5. Drivers(store, tk2, runs') /\ StaysOver(store, ticks, runs, store, tk2, runs')
    BY <1>1, <2>1, <2>2, LaunchKeeps DEF DInv
  <2>6. Executes(executing', runs')
    <3> HIDE DEF run
    <3> QED
      BY <1>1, <2>1, <2>2, <2>3, ExecutesMore DEF DInv, Typed
  <2> HIDE DEF run, tk2
  <2>7. Typed(ticks, runs')
    <3>1. GoodRuns'
      BY TickStepGood DEF IInv
    <3> QED
      BY <1>1, <3>1 DEF Typed, GoodRuns
  <2>8. \A u \in TickSlots : u # t => ticks[u].pc # "activating"
    BY <2>2 DEF DInv, Drivers, FirstAlone
  <2>9. store.focus # None
    BY <2>2 DEF DInv, Drivers, AllQuiet
  <2>10. /\ Drivers(store', ticks', runs')
         /\ StaysOver(store, tk2, runs', store', ticks', runs')
         /\ \A u \in TickSlots : u # t => ticks'[u] = ticks[u]
         /\ ticks'[t].pc = "idle" \/ ticks'[t].composer = next.composer
    BY <1>1, <2>2, <2>4, <2>5, <2>6, <2>7, <2>8, <2>9, AdvanceTickKeeps DEF tk2
  <2>11. StaysOver(store, ticks, runs, store', ticks', runs')
    BY <2>5, <2>10, StaysOverTransitive
  <2>12. OneComposer'
    BY <2>2, <2>4, <2>10, ComposerKept DEF DInv, TickBusy
  <2> QED
    BY <1>1, <2>6, <2>10, <2>11, <2>12, SchedulerKeeps
<1> QED
  BY <1>2, <1>3 DEF TickStep

\* What a step of a run leaves to show.
LEMMA RunKeeps ==
    ASSUME IInv, DInv, NEW r \in RunSlots, runs[r].pc # "free", NEW run2,
           RunMoves(store, runs[r], store', run2), runs' = [runs EXCEPT ![r] = run2],
           UNCHANGED <<executing, ticks>>
    PROVE  /\ Drivers(store', ticks', runs') /\ Executes(executing', runs')
           /\ StaysOver(store, ticks, runs, store', ticks', runs')
           /\ runs'[r] = run2 /\ \A q \in RunSlots : q # r => runs'[q] = runs[q]
<1>1. Typed(ticks, runs) /\ Drivers(store, ticks, runs)
  BY TypedRuns DEF DInv
<1>2. \A q \in RunSlots : runs'[q] = IF q = r THEN run2 ELSE runs[q]
  BY <1>1 DEF Typed
<1>3. run2.job = runs[r].job /\ run2.pc # "free"
  BY DEF RunMoves
<1>4. Executes(executing', runs')
  BY <1>2, <1>3 DEF DInv, Executes
<1>5. /\ Drivers(store', ticks, runs')
      /\ StaysOver(store, ticks, runs, store', ticks, runs')
  BY <1>1, RunMovesKeep
<1> QED
  BY <1>2, <1>4, <1>5

LEMMA SettleMoves ==
    ASSUME IInv, DInv, NEW r \in RunSlots, Settle(r)
    PROVE  \E run2 \in Run : RunMoves(store, runs[r], store', run2)
                               /\ runs' = [runs EXCEPT ![r] = run2]
<1> DEFINE run  == runs[r]
           j    == run.job
           run2 == [run EXCEPT !.pc = "settled"]
<1>1. Typed(ticks, runs) /\ store \in Store
  BY TypedRuns
<1>2. run \in Run /\ j \in Jobs /\ run.pc = "finished" /\ RunOk(store, run)
  BY <1>1 DEF Settle, Typed, GoodRun, DInv, Drivers
<1>3. run2.job = j /\ run2.pc = "settled" /\ run2 \in Run
  BY <1>2 DEF Run, RunPcs
<1>4. store' = SettledStore(store, run) /\ runs' = [runs EXCEPT ![r] = run2]
  BY <1>1 DEF Settle, Typed
<1> HIDE DEF run, run2
<1>5. \/ store' = store /\ Status(store, j) # "running"
      \/ /\ Status(store, j) \notin HumanStops
         /\ WritesStatus(store, store', j, "failed")
  <2>1. WritesStatus(store, UpdateJob(store, j, StatusPatch("failed")), j, "failed")
    BY <1>1, <1>2, StatusPatchPlain, StatusPatchWrites DEF Present, Terminal
  <2> QED
    BY <1>2, <1>4, <2>1 DEF SettledStore, RunOk, HumanStops
<1>6. KeepsFrame(store, store') /\ \A k \in Jobs \ {j} : store'.job[k] = store.job[k]
  BY <1>5 DEF WritesStatus, KeepsFrame
<1>7. \/ store' = store /\ Status(store, j) # "running"
      \/ Status(store', j) = "failed"
      \/ Status(store', j) = Status(store, j) /\ Status(store, j) \in Missing
  BY <1>1, <1>2, <1>5 DEF WritesStatus, StatusAfter, InStore, Store, JobRecord, Status
<1>8. RunOk(store', run2)
  BY <1>2, <1>3, <1>7 DEF RunOk, LoopPcs, Awaits, Missing
<1>9. ~Drives(run2)
  BY <1>3 DEF Drives, LoopPcs, Awaits
<1>10. Settled(store, j) => Settled(store', j)
  BY <1>7 DEF Settled, IsOpen, Missing
<1>11. WorkKeptAt(store, store', j) /\ Status(store', j) # "running"
  BY <1>7 DEF WorkKeptAt, LockHolding, Missing
<1>12. RunMoves(store, run, store', run2)
  BY <1>3, <1>6, <1>8, <1>9, <1>10, <1>11 DEF RunMoves
<1> QED
  BY <1>3, <1>4, <1>12 DEF run

\* The steps that settle an execution.
LEMMA SettleStepMoves ==
    ASSUME IInv, DInv, NEW r \in RunSlots, SettleStep(r),
           UNCHANGED <<actor, panelRun, panelApproval, cmd>>
    PROVE  DInv' /\ StaysOver(store, ticks, runs, store', ticks', runs')
<1>1. Typed(ticks, runs) /\ store \in Store /\ (panelRun # NoRun => panelRun.job \in Jobs)
        /\ \A k \in Jobs : cmd'[k] \in {cmd[k], NoCommand}
  BY TypedRuns DEF IInv, GoodPanel, GoodPanelRun
<1>2. CASE Settle(r)
  <2>1. PICK run2 : RunMoves(store, runs[r], store', run2) /\ runs' = [runs EXCEPT ![r] = run2]
    BY <1>2, SettleMoves
  <2>2. runs[r].pc # "free" /\ UNCHANGED <<executing, ticks>>
    BY <1>2 DEF Settle
  <2>3. /\ Drivers(store', ticks', runs') /\ Executes(executing', runs')
        /\ StaysOver(store, ticks, runs, store', ticks', runs')
    BY <2>1, <2>2, RunKeeps
  <2>4. OneComposer'
    BY <2>2 DEF DInv, OneComposer, CmdBusy, TickBusy
  <2> QED
    BY <1>1, <2>3, <2>4, SchedulerKeeps
<1>3. ASSUME NEW t \in TickSlots, Retire(r, t)
      PROVE  DInv' /\ StaysOver(store, ticks, runs, store', ticks', runs')
  <2> DEFINE left == executing \ {runs[r].job}
             rn2  == [runs EXCEPT ![r] = FreeRun]
  <2>1. /\ runs[r].pc = "settled" /\ executing' = left /\ runs' = rn2
        /\ BeginTick(t, store, left, FALSE)
    BY <1>3 DEF Retire
  <2>2. Drivers(store, ticks, rn2) /\ StaysOver(store, ticks, runs, store, ticks, rn2)
    BY <1>1, <2>1, FreeKeeps DEF DInv
  <2>3. Executes(left, rn2)
    BY <1>1, <2>1, ExecutesLess DEF DInv, Drivers, Typed
  <2>4. Typed(ticks, rn2)
    <3>1. GoodRuns'
      BY SettleStepGood DEF IInv
    <3> QED
      BY <1>1, <2>1, <3>1 DEF Typed, GoodRuns
  <2>5. store.focus # None /\ \A u \in TickSlots : ticks[u].pc # "activating"
    BY <2>1 DEF DInv, Drivers, AllQuiet, FirstAlone
  <2> HIDE DEF left, rn2
  <2>6. /\ Drivers(store', ticks', rn2)
        /\ StaysOver(store, ticks, rn2, store', ticks', rn2)
        /\ \A u \in TickSlots : u # t => ticks'[u] = ticks[u]
        /\ ticks'[t].pc = "idle" \/ ticks'[t].composer = FALSE
    BY <1>1, <2>1, <2>2, <2>3, <2>4, <2>5, BeginTickKeeps
  <2>7. StaysOver(store, ticks, runs, store', ticks', runs')
    BY <2>1, <2>2, <2>6, StaysOverTransitive
  <2>8. OneComposer'
    BY <2>6, ComposerKept DEF DInv, TickBusy
  <2> QED
    BY <1>1, <2>1, <2>3, <2>6, <2>7, <2>8, SchedulerKeeps
<1> QED
  BY <1>2, <1>3 DEF SettleStep

\* Every step of a run is one of a live run, and leaves the ticks alone.
LEMMA RunStepFrame ==
    ASSUME NEW r, RunStep(r)
    PROVE  runs[r].pc # "free" /\ UNCHANGED <<executing, ticks>>
BY DEF RunStep, RunRejected, BeginTurn, StepLimit, LockedStep, Observe, ObserveLost, CheckStop,
       DecideDone, DecideBlocked, DecideUnproven, DecideFailed, DecideAction, Act, ActFails,
       VerifyRetries, VerifyDone, VerifyFails, VerifyNeedsApproval, AskApproval, Report,
       ReportSkipped, ReportFails, Commit

\* The steps of a run, with what the panel shows of it.
LEMMA RunStepKeeps ==
    ASSUME IInv, DInv, NEW r \in RunSlots, RunStep(r), UNCHANGED cmd
    PROVE  /\ DInv' /\ StaysOver(store, ticks, runs, store', ticks', runs')
           /\ \E run2 \in Run : RunMoves(store, runs[r], store', run2)
<1>1. runs[r].pc # "free"
  BY RunStepFrame
<1>2. Typed(ticks, runs) /\ Drivers(store, ticks, runs) /\ runs[r].job \in Jobs
  BY <1>1, TypedRuns DEF DInv, Typed, GoodRun
<1>3. PICK e : Commit(r, e) /\ OwnMoves(Draft(r), e)
  BY <1>1, <1>2, DraftGood, RunStepMoves DEF Drivers
<1> DEFINE j == runs[r].job
<1>4. /\ RunMoves(store, runs[r], store', e.run)
      /\ runs' = [runs EXCEPT ![r] = e.run] /\ UNCHANGED <<executing, ticks>>
  BY <1>3 DEF OwnMoves, Draft, Commit
<1>5. \/ panelRun' = panelRun /\ panelApproval' = panelApproval
      \/ /\ panelRun'.job = j
         /\ Ended(panelRun'.status) \/ (~NoDeny /\ panelApproval')
                => Settled(store', j) /\ ~Drives(e.run)
  BY <1>3 DEF OwnMoves, PanelMoves, Draft, Commit
<1>6. /\ Drivers(store', ticks', runs') /\ Executes(executing', runs')
      /\ StaysOver(store, ticks, runs, store', ticks', runs')
      /\ runs'[r] = e.run /\ \A q \in RunSlots : q # r => runs'[q] = runs[q]
  BY <1>1, <1>4, RunKeeps
<1>7. PanelOver'
  <2>1. CASE panelRun' = panelRun /\ panelApproval' = panelApproval
    BY <1>6, <2>1 DEF DInv, PanelOver, ShownOver, StaysOver, IInv, GoodPanel, GoodPanelRun
  <2>2. CASE Settled(store', j) /\ ~Drives(e.run)
    <3>1. \A t \in TickSlots : ticks'[t].pc # "idle" => ticks'[t].job # j
      BY <1>1, <1>2, <1>4 DEF Drivers, OneDriver
    <3>2. \A q \in RunSlots : Drives(runs'[q]) => runs'[q].job # j
      <4> SUFFICES ASSUME NEW q \in RunSlots, q # r, Drives(runs[q]) PROVE runs[q].job # j
        BY <1>6, <2>2
      <4>1. runs[q].pc # "free"
        BY DEF Drives, LoopPcs, Awaits
      <4> QED
        BY <1>1, <1>2, <4>1 DEF Drivers, OneDriver
    <3>3. Over(store', ticks', runs', j)
      BY <2>2, <3>1, <3>2 DEF Over
    <3>4. CASE panelRun' = panelRun /\ panelApproval' = panelApproval
      BY <2>1, <3>4
    <3>5. CASE panelRun'.job = j
      BY <3>3, <3>5 DEF PanelOver, ShownOver
    <3> QED
      BY <1>5, <3>4, <3>5
  <2>3. CASE ~(Ended(panelRun'.status) \/ (~NoDeny /\ panelApproval'))
    BY <2>3 DEF PanelOver, ShownOver
  <2> QED
    BY <1>5, <2>1, <2>2, <2>3
<1>8. SeenOver'
  BY <1>6 DEF DInv, SeenOver, StaysOver
<1>9. OneComposer' /\ ControlOnly'
  BY <1>4 DEF DInv, OneComposer, CmdBusy, TickBusy, ControlOnly
<1>10. e.run \in Run
  <2>1. GoodRuns'
    BY RunStepGood DEF IInv
  <2> QED
    BY <1>6, <2>1 DEF GoodRuns
<1> QED
  BY <1>4, <1>6, <1>7, <1>8, <1>9, <1>10 DEF DInv

\* The panel is closed and opened again.
LEMMA ReloadMoves ==
    ASSUME IInv, DInv, Reload
    PROVE  /\ DInv' /\ StaysOver(store, ticks, runs, store', ticks', runs')
           /\ \A j \in Jobs : \/ store'.job[j] = store.job[j]
                                  /\ Status(store, j) \notin {"running", "approval"}
                              \/ Status(store', j) = "paused"
<1>1. /\ Irreflexive(store) => Irreflexive(store')
      /\ \A j \in Jobs :
            \/ store'.job[j] = store.job[j] /\ Status(store, j) \notin {"running", "approval"}
            \/ Status(store', j) = "paused"
  BY TypedRuns, RecoverJobsWrites DEF Reload
<1>2. /\ \A t \in TickSlots : ticks'[t] = IdleTick
      /\ \A r \in RunSlots : runs'[r] = FreeRun
      /\ executing' = {} /\ panelRun' = NoRun /\ \A j \in Jobs : cmd'[j] = NoCommand
  BY DEF Reload
<1>3. /\ IdleTick.pc = "idle" /\ FreeRun.pc = "free"
      /\ NoCommand.pc = "idle" /\ NoCommand.what = "none"
  BY DEF IdleTick, FreeRun, NoCommand
<1>4. \A j \in Jobs : Status(store', j) # "running"
  BY <1>1 DEF Status
<1>5. RunOk(store', FreeRun) /\ ~Drives(FreeRun) /\ TickOk(store', IdleTick)
  BY <1>3 DEF RunOk, LoopPcs, Awaits, Drives, TickOk
<1>6. Drivers(store', ticks', runs')
  <2>1. OneDriver(ticks', runs') /\ FirstAlone(ticks', runs') /\ AllQuiet(ticks', runs')
    BY <1>2, <1>3 DEF OneDriver, FirstAlone, AllQuiet
  <2>2. Driven(store', ticks', runs')
    BY <1>4 DEF Driven
  <2> QED
    BY <1>1, <1>2, <1>5, <2>1, <2>2 DEF Drivers, DInv
<1>7. StaysOver(store, ticks, runs, store', ticks', runs')
  <2> SUFFICES ASSUME NEW j \in Jobs, Settled(store, j) PROVE Settled(store', j)
    BY <1>2, <1>3, <1>5 DEF StaysOver, Over
  <2> QED
    BY <1>1 DEF Settled, IsOpen, Status
<1>8. Executes(executing', runs')
  BY <1>2, <1>3 DEF Executes
<1>9. OneComposer' /\ ControlOnly' /\ PanelOver' /\ SeenOver'
  BY <1>2, <1>3 DEF OneComposer, CmdBusy, TickBusy, ControlOnly, PanelOver, ShownOver, SeenOver
<1> QED
  BY <1>1, <1>6, <1>7, <1>8, <1>9 DEF DInv

LEMMA InitDriven ==
    ASSUME Init
    PROVE  DInv
<1>1. /\ \A t \in TickSlots : ticks[t] = IdleTick
      /\ \A r \in RunSlots : runs[r] = FreeRun
      /\ executing = {} /\ panelRun = NoRun /\ \A j \in Jobs : cmd[j] = NoCommand
      /\ store = EmptyStore
  BY DEF Init, SchedulerInit, RunInit
<1>2. /\ IdleTick.pc = "idle" /\ FreeRun.pc = "free"
      /\ NoCommand.pc = "idle" /\ NoCommand.what = "none"
  BY DEF IdleTick, FreeRun, NoCommand
<1>3. Irreflexive(store) /\ \A j \in Jobs : Status(store, j) # "running"
  BY <1>1 DEF EmptyStore, Irreflexive, Newer, Status, MissingJob
<1>4. Drivers(store, ticks, runs)
  <2>1. RunOk(store, FreeRun) /\ TickOk(store, IdleTick)
    BY <1>2 DEF RunOk, LoopPcs, Awaits, TickOk
  <2>2. OneDriver(ticks, runs) /\ FirstAlone(ticks, runs) /\ AllQuiet(ticks, runs)
    BY <1>1, <1>2 DEF OneDriver, FirstAlone, AllQuiet
  <2> QED
    BY <1>1, <1>3, <2>1, <2>2 DEF Drivers, Driven
<1>5. Executes(executing, runs)
  BY <1>1, <1>2 DEF Executes
<1>6. OneComposer /\ ControlOnly /\ PanelOver /\ SeenOver
  BY <1>1, <1>2 DEF OneComposer, CmdBusy, TickBusy, ControlOnly, PanelOver, ShownOver, SeenOver
<1> QED
  BY <1>4, <1>5, <1>6 DEF DInv

\* The steps of the human and of the commands, but for the ticks they start.
HumanActs ==
    \/ \E j \in Jobs : Human(j) \/ (CommandStep(j) /\ ~StartTick(j))
    \/ Stop \/ Deny \/ ClearDone

LEMMA HumanActsMove ==
    ASSUME NoRestart, NoEviction, IInv, IInv', DInv, HumanActs
    PROVE  HumanStep /\ DInv' /\ StaysOver(store, ticks, runs, store', ticks', runs')
<1>1. CASE Stop \/ Deny \/ ClearDone
  BY <1>1, PanelTurnMoves, ClearDoneMoves
<1>2. ASSUME NEW j \in Jobs, Human(j)
      PROVE  HumanStep /\ DInv' /\ StaysOver(store, ticks, runs, store', ticks', runs')
  BY <1>2, PanelTurnMoves, FocusMoves DEF Human
<1>3. ASSUME NEW j \in Jobs, CommandStep(j), ~StartTick(j)
      PROVE  HumanStep /\ DInv' /\ StaysOver(store, ticks, runs, store', ticks', runs')
  <2>1. CASE FindTab(j) \/ FocusFails(j) \/ GiveUp(j)
    BY <2>1, FocusMoves
  <2>2. CASE Show(j)
    BY <2>2, ShowMoves
  <2>3. CASE \E l \in Locks : FinishStale(j, l) \/ Create(j, l) \/ Restart(j, l)
    BY <2>3, ControlMoves
  <2>4. ~Requeue(j)
    BY DEF Requeue, DInv, ControlOnly
  <2> QED
    BY <1>3, <2>1, <2>2, <2>3, <2>4 DEF CommandStep
<1> QED
  BY <1>1, <1>2, <1>3 DEF HumanActs

\* Every step keeps the invariant, and what is over stays over.
LEMMA NextKeeps ==
    ASSUME NoRestart, NoEviction, IInv, DInv, [Next]_vars
    PROVE  DInv' /\ StaysOver(store, ticks, runs, store', ticks', runs')
<1>1. IInv'
  BY NextGood
<1>2. CASE UNCHANGED vars
  BY <1>2 DEF vars, DInv, PanelOver, SeenOver, OneComposer, CmdBusy, TickBusy, ControlOnly,
              StaysOver
<1>3. CASE HumanActs
  BY <1>1, <1>3, HumanActsMove
<1>4. CASE RunJobs \/ \E j \in Jobs : StartTick(j)
  BY <1>4, CommandTickMoves
<1>5. CASE Reload
  BY <1>5, ReloadMoves
<1>6. ASSUME NEW t \in TickSlots, TickStep(t), UNCHANGED <<actor, panelRun, panelApproval, cmd>>
      PROVE  DInv' /\ StaysOver(store, ticks, runs, store', ticks', runs')
  BY <1>6, TickStepMoves
<1>7. ASSUME NEW r \in RunSlots, SettleStep(r),
             UNCHANGED <<actor, panelRun, panelApproval, cmd>>
      PROVE  DInv' /\ StaysOver(store, ticks, runs, store', ticks', runs')
  BY <1>7, SettleStepMoves
<1>8. ASSUME NEW r \in RunSlots, RunStep(r), UNCHANGED cmd
      PROVE  DInv' /\ StaysOver(store, ticks, runs, store', ticks', runs')
  BY <1>8, RunStepKeeps
<1> QED
  BY <1>2, <1>3, <1>4, <1>5, <1>6, <1>7, <1>8 DEF Next, HumanActs

-----------------------------------------------------------------------------
(* The theorems.                                                              *)

LEMMA DInvHolds ==
    ASSUME NoRestart, NoEviction
    PROVE  Spec => [](IInv /\ DInv)
<1>1. Init => IInv /\ DInv
  BY InitGood, InitDriven
<1>2. (IInv /\ DInv) /\ [Next]_vars => (IInv /\ DInv)'
  BY NextGood, NextKeeps
<1> QED
  BY <1>1, <1>2, PTL DEF Spec

\* However ticks, runs, settlements, commands and reloads overlap, and however
\* many of them there are: the scheduler's map names exactly the jobs that are
\* executed, and no job is executed twice (startJob, settleJob), as long as the
\* human does not put jobs back in the queue and no job is cut off the list.
THEOREM RunsAreUnique ==
    ASSUME NoRestart, NoEviction
    PROVE  Spec => []OneRunPerJob
<1>1. IInv /\ DInv => OneRunPerJob
  BY DEF DInv, Drivers, OneDriver, Executes, OneRunPerJob, Live
<1> QED
  BY <1>1, DInvHolds, PTL

\* No orphans, under the same conditions: whatever overlaps, a job that is shown
\* as running is being started by a tick or executed by a run that will settle
\* it, the panel being reloaded at any moment included.
THEOREM NoOrphans ==
    ASSUME NoRestart, NoEviction
    PROVE  Spec => []RunningIsDriven
<1>1. IInv /\ DInv => RunningIsDriven
  BY DEF DInv, Drivers, Driven, RunningIsDriven
<1> QED
  BY <1>1, DInvHolds, PTL

\* A job that ended is not queued or running again, under the same conditions:
\* no late write of its run, no tick with an old snapshot, no handler of the
\* panel that acts on the run it shows and no reload revives it.
THEOREM EndedStaysEnded ==
    ASSUME NoRestart, NoEviction
    PROVE  Spec => SettledStays
<1> DEFINE Stays == \A j \in Jobs : /\ Status(store, j) \in Terminal
                                    /\ Status(store', j) \in {"queued", "running"}
                       => Restarting(j)
<1>1. (IInv /\ DInv) /\ [Next]_vars => [Stays]_vars
  <2> SUFFICES ASSUME IInv, DInv, [Next]_vars, NEW j \in Jobs, Status(store, j) \in Terminal
               PROVE  Status(store', j) \notin {"queued", "running"} \/ Restarting(j)
    OBVIOUS
  <2>1. CASE Ended(Status(store, j))
    <3>1. Over(store, ticks, runs, j)
      BY <2>1, TypedRuns, EndedIsOver DEF DInv
    <3>2. Over(store', ticks', runs', j)
      BY <3>1, NextKeeps DEF StaysOver
    <3> QED
      BY <3>2 DEF Over, Settled, IsOpen
  <2>2. CASE Status(store, j) = "cancelled"
    <3>1. StopStep
      BY NextGood
    <3>2. ~(cmd[j].pc = "preparing" /\ cmd[j].what = "create")
      BY <2>2 DEF IInv, CreatesNew
    <3>3. j \notin Freed \/ Restarting(j)
      BY <3>2 DEF Freed
    <3> QED
      BY <2>2, <3>1, <3>3 DEF StopStep, KeepsStops, HumanStops
  <2> QED
    BY <2>1, <2>2 DEF Ended
<1> QED
  BY <1>1, DInvHolds, PTL DEF Spec, SettledStays
=============================================================================
