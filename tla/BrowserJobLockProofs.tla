------------------------- MODULE BrowserJobLockProofs -------------------------
(***************************************************************************)
(* Theorems about page locks and capacity, for any jobs, locks, clash      *)
(* relation, limits, slots and set of commands, with denials, restarts,    *)
(* reloads and jobs cut off the list, and with ticks that overlap.         *)
(*                                                                         *)
(* The panel itself does not keep its locks apart.  The theorems say what  *)
(* it takes: as long as no step does one of two things, jobs at work have  *)
(* locks that do not clash, fit the capacity, and use their locks as a     *)
(* lock table grants them.  The two things are a tick that begins while    *)
(* another has jobs left to start, and a job put to work past the queue.   *)
(*                                                                         *)
(* The argument: the jobs at work and those the ticks took into their      *)
(* snapshots are apart, in locks and in number, and only a tick puts jobs  *)
(* to work, from its snapshot.                                             *)
(***************************************************************************)
EXTENDS BrowserJobRunProofs

AtWork(s) == WithStatus(s, {"running", "approval"})

\* What is left of a snapshot.
Rest(q) == {q[i] : i \in DOMAIN q}

\* The jobs a tick may still put to work, and those of all ticks.
Pending(tick) == Rest(tick.todo) \cup (IF tick.pc = "activating" THEN {tick.job} ELSE {})

AllPending(tk) == UNION {Pending(tk[t]) : t \in TickSlots}

-----------------------------------------------------------------------------
(* The two conditions, on a step.                                             *)

\* No tick begins while another one has jobs left to start.
TicksTakeTurns ==
    \A t \in TickSlots : ticks[t].pc = "idle" /\ ticks'[t].pc # "idle"
        => \A u \in TickSlots \ {t} : Pending(ticks[u]) = {}

\* A job that goes to work was queued, with a page lock, and is started by a
\* tick: not by a run that marks as its own a job the human had denied or put
\* back in the queue, and not without the lock /resume leaves out.
FromTheQueue ==
    \A j \in AtWork(store') \ AtWork(store) :
        Status(store, j) = "queued" /\ store.job[j].lock # None /\ ticks' # ticks

-----------------------------------------------------------------------------
(* The invariant.                                                             *)

\* The jobs at work have page locks; together with the jobs js they fit the
\* capacity, and no two of them have locks that clash.
Apart(s, js) ==
    /\ js \subseteq Jobs
    /\ \A j \in js : Status(s, j) # "new"
    /\ \A j \in AtWork(s) : s.job[j].lock \in Locks
    /\ \A j, k \in AtWork(s) \cup js : j # k => ~LocksClash(s.job[j].lock, s.job[k].lock)
    /\ Cardinality(AtWork(s) \cup js) <= MaxConcurrent

\* In its loop a run believes itself running, or stopped by the human.
LoopStatus == {"running", "paused", "cancelled"}

LocalInv == \A r \in RunSlots : runs[r].pc \in LoopPcs => runs[r].local \in LoopStatus

LInv == IInv /\ LocalInv /\ Apart(store, AllPending(ticks))

-----------------------------------------------------------------------------
(* The moves of the store.                                                    *)

\* The job j keeps its lock or gives it up, and keeps it while it works.
KeepsLock(s, s2, j) ==
    /\ Status(s2, j) = "new" => Status(s, j) = "new"
    /\ s2.job[j].lock \in {s.job[j].lock, None}
    /\ {Status(s, j), Status(s2, j)} \subseteq {"running", "approval"}
           => s2.job[j].lock = s.job[j].lock

\* The job j is new, or is queued with a lock no other job's lock clashes with.
ClaimsLock(s, s2, j) ==
    \/ Status(s, j) = "new"
    \/ /\ Status(s2, j) = "queued"
       /\ \A k \in Jobs \ {j} : ~LocksClash(s2.job[j].lock, s2.job[k].lock)

Quiet(s, s2) == \A j \in Jobs : KeepsLock(s, s2, j) \/ ClaimsLock(s, s2, j)

\* No job is put to work.
Calm(s, s2) == Quiet(s, s2) /\ AtWork(s2) \subseteq AtWork(s)

\* The queued job j is put to work, with a lock that clashes with none in use.
Granted(s, s2, j) ==
    /\ Status(s, j) = "queued" /\ Status(s2, j) \in {"running", "approval"}
    /\ s.job[j].lock \in Locks /\ s2.job[j].lock = s.job[j].lock
    /\ \A k \in Jobs \ {j} : s2.job[k] = s.job[k]
    /\ \A k \in AtWork(s) : ~LocksClash(s.job[j].lock, s.job[k].lock)

\* A smaller set of jobs is not larger.
LEMMA FewerJobs ==
    ASSUME NEW S \in SUBSET Jobs, NEW T \in SUBSET S
    PROVE  Cardinality(T) <= Cardinality(S) /\ Cardinality(T) \in Nat /\ Cardinality(S) \in Nat
<1>1. IsFiniteSet(S) /\ IsFiniteSet(T)
  BY JobsAssumption, FS_Subset
<1> QED
  BY <1>1, FS_Subset, FS_CardinalityType

LEMMA WorkingJobs ==
    ASSUME NEW s
    PROVE  /\ AtWork(s) \subseteq Jobs
           /\ \A j \in Jobs : j \in AtWork(s) <=> Status(s, j) \in {"running", "approval"}
BY DEF AtWork, WithStatus

\* No lock is in the way of a job without one.
LEMMA ClashIsOfLocks ==
    ASSUME NEW l, NEW m, LocksClash(l, m)
    PROVE  l \in Locks /\ m \in Locks /\ l # None /\ m # None /\ LocksClash(m, l)
BY ClashAssumption, LocksAssumption DEF LocksClash

\* A calm move keeps the jobs at work apart from those of the ticks.
LEMMA CalmKeeps ==
    ASSUME NEW s, NEW s2, NEW js, NEW js2 \in SUBSET js, Apart(s, js), Calm(s, s2)
    PROVE  Apart(s2, js2)
<1> DEFINE W  == AtWork(s) \cup js
           W2 == AtWork(s2) \cup js2
<1>1. W2 \subseteq W /\ W \subseteq Jobs
  BY WorkingJobs DEF Apart, Calm
<1>2. \A j \in W : Status(s, j) # "new"
  BY WorkingJobs DEF Apart
<1>3. \A j \in W2 : \/ KeepsLock(s, s2, j)
                    \/ /\ Status(s2, j) = "queued"
                       /\ \A k \in Jobs \ {j} : ~LocksClash(s2.job[j].lock, s2.job[k].lock)
  BY <1>1, <1>2 DEF Calm, Quiet, ClaimsLock
<1>4. \A j \in js2 : Status(s2, j) # "new"
  BY <1>1, <1>2, <1>3 DEF KeepsLock
<1>5. \A j \in AtWork(s2) : s2.job[j].lock \in Locks
  <2> SUFFICES ASSUME NEW j \in AtWork(s2) PROVE s2.job[j].lock \in Locks
    OBVIOUS
  <2>1. j \in AtWork(s) /\ j \in Jobs
    BY WorkingJobs DEF Calm
  <2>2. Status(s, j) \in {"running", "approval"} /\ Status(s2, j) \in {"running", "approval"}
    BY <2>1, WorkingJobs
  <2>3. KeepsLock(s, s2, j)
    BY <1>3, <2>2
  <2> QED
    BY <2>1, <2>2, <2>3 DEF KeepsLock, Apart
<1>6. ASSUME NEW j \in W2, NEW k \in W2, j # k
      PROVE  ~LocksClash(s2.job[j].lock, s2.job[k].lock)
  <2> SUFFICES ASSUME LocksClash(s2.job[j].lock, s2.job[k].lock) PROVE FALSE
    OBVIOUS
  <2>1. LocksClash(s2.job[k].lock, s2.job[j].lock)
          /\ s2.job[j].lock # None /\ s2.job[k].lock # None
    BY ClashIsOfLocks
  <2>2. KeepsLock(s, s2, j) /\ KeepsLock(s, s2, k)
    BY <1>1, <1>3, <1>6, <2>1
  <2>3. s2.job[j].lock = s.job[j].lock /\ s2.job[k].lock = s.job[k].lock
    BY <2>1, <2>2 DEF KeepsLock
  <2> QED
    BY <1>1, <1>6, <2>3 DEF Apart
<1>7. Cardinality(W2) <= Cardinality(W) /\ Cardinality(W2) \in Nat /\ Cardinality(W) \in Nat
  <2> HIDE DEF W, W2
  <2> QED
    BY <1>1, FewerJobs
<1>8. Cardinality(W2) <= MaxConcurrent
  <2>1. Cardinality(W) <= MaxConcurrent
    BY DEF Apart
  <2> HIDE DEF W, W2
  <2> QED
    BY <1>7, <2>1, SchedulerAssumption
<1>9. js2 \subseteq Jobs
  BY DEF Apart
<1> QED
  BY <1>4, <1>5, <1>6, <1>8, <1>9 DEF Apart

\* A job of a snapshot is put to work.
LEMMA GrantedKeeps ==
    ASSUME NEW s \in Store, NEW s2, NEW js, NEW js2 \in SUBSET js, Apart(s, js), NEW j \in js,
           Status(s, j) = "queued", Status(s2, j) \in {"running", "approval"},
           s.job[j].lock # None, s2.job[j].lock = s.job[j].lock,
           \A k \in Jobs \ {j} : s2.job[k] = s.job[k]
    PROVE  Granted(s, s2, j) /\ Apart(s2, js2)
<1>1. j \in Jobs /\ js \subseteq Jobs
  BY DEF Apart
<1>2. s.job[j].lock \in Locks
  BY <1>1 DEF Store, JobRecord
<1>3. \A k \in Jobs \ {j} : Status(s2, k) = Status(s, k)
  BY DEF Status
<1>4. AtWork(s2) = AtWork(s) \cup {j} /\ j \notin AtWork(s)
  BY <1>1, <1>3, WorkingJobs
<1>5. \A k \in Jobs : s2.job[k].lock = s.job[k].lock
  OBVIOUS
<1>6. Granted(s, s2, j)
  <2>1. \A k \in AtWork(s) : ~LocksClash(s.job[j].lock, s.job[k].lock)
    BY <1>4 DEF Apart
  <2> QED
    BY <1>2, <2>1 DEF Granted
<1> DEFINE W  == AtWork(s) \cup js
           W2 == AtWork(s2) \cup js2
<1>7. W2 \subseteq W /\ W \subseteq Jobs
  BY <1>1, <1>4, WorkingJobs
<1>8. \A k \in js2 : Status(s2, k) # "new"
  BY <1>1, <1>3 DEF Apart
<1>9. \A k \in AtWork(s2) : s2.job[k].lock \in Locks
  BY <1>2, <1>4, <1>5, WorkingJobs DEF Apart
<1>10. \A i, k \in W2 : i # k => ~LocksClash(s2.job[i].lock, s2.job[k].lock)
  BY <1>5, <1>7 DEF Apart
<1>11. Cardinality(W2) <= Cardinality(W) /\ Cardinality(W2) \in Nat /\ Cardinality(W) \in Nat
  <2> HIDE DEF W, W2
  <2> QED
    BY <1>7, FewerJobs
<1>12. Cardinality(W2) <= MaxConcurrent
  <2>1. Cardinality(W) <= MaxConcurrent
    BY DEF Apart
  <2> HIDE DEF W, W2
  <2> QED
    BY <1>11, <2>1, SchedulerAssumption
<1>13. js2 \subseteq Jobs
  BY <1>1
<1> QED
  BY <1>6, <1>8, <1>9, <1>10, <1>12, <1>13 DEF Apart

-----------------------------------------------------------------------------
(* The snapshot of a tick.                                                    *)

LEMMA QueueElements ==
    ASSUME NEW q \in Snapshots
    PROVE  \E n \in 0..MaxConcurrent : DOMAIN q = 1..n /\ n \in Nat /\ Rest(q) \subseteq Jobs
<1>1. PICK n \in 0..MaxConcurrent : q \in [1..n -> Jobs]
  BY DEF Snapshots
<1> QED
  BY <1>1, SchedulerAssumption DEF Rest

\* The runnable jobs fit beside the jobs at work (browserJobSchedulerState).
LEMMA SnapshotFits ==
    ASSUME NEW s, Apart(s, {}), NEW q \in Snapshots, IsRunnableQueue(s, q)
    PROVE  Apart(s, Rest(q))
<1> DEFINE taken     == Rest(q)
           before(j) == {k \in taken : Newer(s, k, j)}
<1>1. PICK n \in 0..MaxConcurrent : DOMAIN q = 1..n /\ n \in Nat /\ taken \subseteq Jobs
  BY QueueElements
<1>2. \A j \in taken : j \in Jobs /\ Status(s, j) = "queued"
  BY <1>1 DEF IsRunnableQueue, WithStatus, Rest
<1>3. ASSUME NEW j \in taken
      PROVE  /\ \A h \in Holding(s) \cup before(j) : ~LocksClash(s.job[j].lock, s.job[h].lock)
             /\ Cardinality(before(j)) < AvailableSlots(s)
  BY <1>2 DEF IsRunnableQueue, WithStatus, Rest
<1>4. \A i, k \in DOMAIN q : i < k => Newer(s, q[i], q[k])
  BY DEF IsRunnableQueue
<1>5. Cardinality(AtWork(s)) \in Nat /\ IsFiniteSet(AtWork(s)) /\ Cardinality(AtWork(s)) <= MaxConcurrent
  <2>1. AtWork(s) \cup {} = AtWork(s)
    OBVIOUS
  <2>2. Cardinality(AtWork(s)) <= MaxConcurrent
    BY <2>1 DEF Apart
  <2> QED
    BY <2>2, WorkingJobs, FewerJobs, JobsAssumption, FS_Subset
<1>6. Cardinality(AtWork(s) \cup taken) <= MaxConcurrent
  <2>1. CASE taken = {}
    BY <1>5, <2>1
  <2>2. CASE taken # {}
    <3> DEFINE last == q[n]
    <3>1. n \in 1..n /\ last \in taken
      BY <1>1, <2>2 DEF Rest
    <3>2. taken = before(last) \cup {last}
      <4> SUFFICES ASSUME NEW k \in taken, k # last PROVE Newer(s, k, last)
        BY <3>1
      <4>1. PICK i \in 1..n : k = q[i]
        BY <1>1 DEF Rest
      <4>2. i < n
        BY <1>1, <4>1
      <4> QED
        BY <1>1, <1>4, <3>1, <4>1, <4>2
    <3>3. IsFiniteSet(before(last)) /\ Cardinality(before(last)) \in Nat
      BY <1>1, JobsAssumption, FS_Subset, FewerJobs
    <3>4. /\ IsFiniteSet(taken) /\ Cardinality(taken) \in Nat
          /\ Cardinality(taken) <= Cardinality(before(last)) + 1
      <4> HIDE DEF before, taken, last
      <4> QED
        BY <3>2, <3>3, FS_AddElement
    <3>5. Cardinality(before(last)) + 1 <= MaxConcurrent - Cardinality(AtWork(s))
      <4>1. Cardinality(before(last)) < AvailableSlots(s)
        BY <1>3, <3>1
      <4>2. AvailableSlots(s) = IF Cardinality(AtWork(s)) < MaxConcurrent
                                THEN MaxConcurrent - Cardinality(AtWork(s)) ELSE 0
        BY DEF AvailableSlots, AtWork
      <4> HIDE DEF before, last
      <4> QED
        BY <1>5, <3>3, <4>1, <4>2, SchedulerAssumption
    <3>6. /\ Cardinality(AtWork(s) \cup taken)
                = Cardinality(AtWork(s)) + Cardinality(taken) - Cardinality(AtWork(s) \cap taken)
          /\ Cardinality(AtWork(s) \cap taken) \in Nat
      <4> HIDE DEF taken
      <4>1. IsFiniteSet(AtWork(s) \cap taken)
        BY <1>5, FS_Intersection
      <4> QED
        BY <1>5, <3>4, <4>1, FS_Union, FS_CardinalityType
    <3> HIDE DEF before, taken, last
    <3> QED
      BY <1>5, <3>3, <3>4, <3>5, <3>6, SchedulerAssumption
  <2> QED
    BY <2>1, <2>2
<1>7. ASSUME NEW j \in taken, NEW k \in AtWork(s) \cup taken, k # j,
             LocksClash(s.job[j].lock, s.job[k].lock)
      PROVE  FALSE
  <2>1. LocksClash(s.job[k].lock, s.job[j].lock) /\ s.job[k].lock # None
    BY <1>7, ClashIsOfLocks
  <2>2. CASE k \in AtWork(s)
    <3>1. k \in Holding(s)
      BY <2>1, <2>2 DEF Holding, AtWork
    <3> QED
      BY <1>3, <1>7, <3>1
  <2>3. CASE k \in taken
    <3>1. PICK a, b \in 1..n : j = q[a] /\ k = q[b]
      BY <1>1, <2>3 DEF Rest
    <3>2. a < b \/ b < a
      BY <1>1, <1>7, <3>1
    <3>3. CASE b < a
      <4>1. k \in before(j)
        BY <1>1, <1>4, <2>3, <3>1, <3>3
      <4> QED
        BY <1>3, <1>7, <4>1
    <3>4. CASE a < b
      <4>1. j \in before(k)
        BY <1>1, <1>4, <3>1, <3>4
      <4> QED
        BY <1>3, <2>1, <2>3, <4>1
    <3> QED
      BY <3>2, <3>3, <3>4
  <2> QED
    BY <2>2, <2>3
<1>8. \A j, k \in AtWork(s) \cup taken : j # k => ~LocksClash(s.job[j].lock, s.job[k].lock)
  <2> SUFFICES ASSUME NEW j \in AtWork(s) \cup taken, NEW k \in AtWork(s) \cup taken, j # k,
                      LocksClash(s.job[j].lock, s.job[k].lock)
               PROVE  FALSE
    OBVIOUS
  <2>1. LocksClash(s.job[k].lock, s.job[j].lock)
    BY ClashIsOfLocks
  <2>2. ~(j \in AtWork(s) /\ k \in AtWork(s))
    BY DEF Apart
  <2> HIDE DEF taken
  <2> QED
    BY <1>7, <2>1, <2>2
<1> QED
  BY <1>1, <1>2, <1>6, <1>8 DEF Apart

LEMMA RestOfSubSeq ==
    ASSUME NEW q \in Seq(Jobs), NEW i \in DOMAIN q
    PROVE  Rest(SubSeq(q, i + 1, Len(q))) \subseteq Rest(q) /\ q[i] \in Rest(q)
<1> DEFINE rest == SubSeq(q, i + 1, Len(q))
<1>1. Len(q) \in Nat /\ i \in 1..Len(q) /\ DOMAIN q = 1..Len(q)
  OBVIOUS
<1>2. /\ rest \in Seq(Jobs)
      /\ Len(rest) = IF i + 1 <= Len(q) THEN Len(q) - (i + 1) + 1 ELSE 0
      /\ \A k \in 1..Len(q) - (i + 1) + 1 : rest[k] = q[i + 1 + k - 1]
  BY <1>1, SubSeqProperties
<1> HIDE DEF rest
<1>3. DOMAIN rest = 1..Len(rest) /\ Len(rest) \in Nat
  BY <1>2
<1>4. \A k \in DOMAIN rest : \E m \in DOMAIN q : rest[k] = q[m]
  <2> SUFFICES ASSUME NEW k \in DOMAIN rest PROVE \E m \in DOMAIN q : rest[k] = q[m]
    OBVIOUS
  <2>1. k \in 1..Len(q) - (i + 1) + 1 /\ i + k \in 1..Len(q)
    BY <1>1, <1>2, <1>3
  <2>2. rest[k] = q[i + k]
    BY <1>1, <1>2, <2>1
  <2> QED
    BY <1>1, <2>1, <2>2
<1> QED
  BY <1>4 DEF Rest, rest

LEMMA IdleIsNotPending == Pending(IdleTick) = {}
BY DEF Pending, IdleTick, Rest

\* A job goes to work in a step that takes it from the queue.
Works(s, s2, js2) ==
    /\ Apart(s2, js2)
    /\ Calm(s, s2) \/ \E j \in Jobs : Granted(s, s2, j)

\* A start of the job j of a snapshot, if what goes to work has a lock.
LEMMA StartWorks ==
    ASSUME NEW s \in Store, NEW js, Apart(s, js), NEW j \in js, NEW s2, NEW new,
           Starts(s, j, s2, new), j \in AtWork(s2) \ AtWork(s) => s.job[j].lock # None,
           NEW js2 \in SUBSET js
    PROVE  Works(s, s2, js2)
<1>1. j \in Jobs /\ Status(s, j) = "queued"
  BY DEF Starts
<1>2. CASE s2.job = s.job
  <2>1. Calm(s, s2)
    BY <1>2 DEF Calm, Quiet, KeepsLock, AtWork, WithStatus, Status
  <2> QED
    BY <2>1, CalmKeeps DEF Works
<1>3. CASE Status(s2, j) = "running" /\ s2.job[j].lock = s.job[j].lock
  <2>1. s.job[j].lock # None
    BY <1>1, <1>3, WorkingJobs
  <2>2. \A k \in Jobs \ {j} : s2.job[k] = s.job[k]
    BY DEF Starts
  <2> QED
    BY <1>1, <1>3, <2>1, <2>2, GrantedKeeps DEF Works
<1> QED
  BY <1>2, <1>3 DEF Starts

-----------------------------------------------------------------------------
(* What the operations do to locks.                                           *)

\* Jobs that do not change, but for those that hold no lock afterwards.
LEMMA LocksLost ==
    ASSUME NEW s, NEW s2, GoodStore(s2),
           \A k \in Jobs : \/ s2.job[k] = s.job[k]
                           \/ /\ Status(s2, k) \notin LockHolding
                              /\ Status(s2, k) = "new" => Status(s, k) = "new"
    PROVE  Quiet(s, s2)
<1>1. \A k \in Jobs : Status(s2, k) \notin LockHolding => s2.job[k].lock = None
  BY DEF GoodStore, StoreConsistent, LocksReleased
<1> QED
  BY <1>1 DEF Quiet, KeepsLock, LockHolding, Status

\* A write that keeps the lock.
LEMMA WritesQuiet ==
    ASSUME NEW s, NEW s2, GoodStore(s2), NEW j \in Jobs, NEW st \in Present,
           WritesStatus(s, s2, j, st)
    PROVE  Quiet(s, s2)
<1>1. \A k \in Jobs \ {j} : KeepsLock(s, s2, k)
  BY DEF WritesStatus, KeepsLock, Status
<1>2. Status(s2, j) = "new" => Status(s, j) = "new"
  BY DEF WritesStatus, StatusAfter, HumanStops, Present, Active, Terminal
<1>3. Status(s2, j) \notin LockHolding => s2.job[j].lock = None
  BY DEF GoodStore, StoreConsistent, LocksReleased
<1>4. KeepsLock(s, s2, j)
  BY <1>2, <1>3 DEF WritesStatus, KeepsLock, LockHolding
<1> QED
  BY <1>1, <1>4 DEF Quiet

\* A record in the loop, and then the result.
LEMMA WritesQuietTwice ==
    ASSUME NEW s1, NEW s2, NEW s3, GoodStore(s3), NEW j \in Jobs,
           NEW st \in LoopStatus, WritesStatus(s1, s2, j, st),
           NEW st2 \in {"blocked", "approval"}, WritesStatus(s2, s3, j, st2)
    PROVE  Quiet(s1, s3)
<1>1. \A k \in Jobs \ {j} : s3.job[k] = s1.job[k]
  BY DEF WritesStatus
<1>2. CASE j \notin InStore(s1)
  <2>1. Status(s2, j) = Status(s1, j) /\ j \notin InStore(s2)
    BY <1>2 DEF WritesStatus, InStore
  <2>2. Status(s3, j) = Status(s1, j) /\ Status(s3, j) \notin LockHolding
    BY <1>2, <2>1 DEF WritesStatus, InStore, Present, Active, LockHolding
  <2> QED
    BY <1>1, <2>2, LocksLost
<1>3. CASE j \in InStore(s1)
  <2>1. Status(s2, j) \in LoopStatus /\ j \in InStore(s2)
    <3>1. Status(s2, j) = StatusAfter(Status(s1, j), st)
      BY <1>3 DEF WritesStatus
    <3>2. Status(s2, j) \in LoopStatus
      BY <3>1 DEF StatusAfter, HumanStops, LoopStatus
    <3> QED
      BY <3>2 DEF LoopStatus, InStore, Present, Active, Terminal
  <2>2. Status(s3, j) = IF Status(s2, j) = "running" THEN st2 ELSE Status(s2, j)
    BY <2>1 DEF WritesStatus, StatusAfter, HumanStops, LoopStatus
  <2>3. CASE Status(s3, j) \in LockHolding
    <3>1. Status(s2, j) = "running" /\ Status(s3, j) = "approval"
      BY <2>1, <2>2, <2>3 DEF LoopStatus, LockHolding
    <3>2. s3.job[j].lock = s1.job[j].lock
      BY <3>1 DEF WritesStatus, LockHolding
    <3>3. KeepsLock(s1, s3, j)
      BY <3>1, <3>2 DEF KeepsLock
    <3> QED
      BY <1>1, <3>3 DEF Quiet, KeepsLock, Status
  <2>4. CASE Status(s3, j) \notin LockHolding
    <3>1. Status(s3, j) # "new"
      BY <2>1, <2>2 DEF LoopStatus
    <3> QED
      BY <1>1, <2>4, <3>1, LocksLost
  <2> QED
    BY <2>3, <2>4
<1> QED
  BY <1>2, <1>3

\* updateJob with a patch that leaves the lock alone, overriding or not.
LEMMA PatchQuiet ==
    ASSUME NEW s \in Store, NEW j \in Jobs, NEW p \in Patches, p.lock = "same",
           GoodStore(UpdateJob(s, j, p))
    PROVE  \A k \in Jobs : KeepsLock(s, UpdateJob(s, j, p), k)
<1> DEFINE s2  == UpdateJob(s, j, p)
           new == PatchedJob(s, j, p)
<1>1. CASE j \notin InStore(s) \/ UpdateThrows(s, j, p)
  BY <1>1 DEF UpdateJob, KeepsLock
<1>2. CASE j \in InStore(s) /\ ~UpdateThrows(s, j, p)
  <2>1. \A k \in Jobs : s2.job[k] = IF k = j THEN new ELSE s.job[k]
    BY <1>2 DEF UpdateJob, Store
  <2>2. new.lock = IF new.status \in LockHolding THEN s.job[j].lock ELSE None
    BY DEF PatchedJob, Normalize
  <2>3. new.status \in {p.status, s.job[j].status} /\ (p.status = "same" => new.status = s.job[j].status)
    BY DEF PatchedJob, Normalize
  <2>4. new.status # "new"
    BY <1>2, <2>3 DEF InStore, Status, Patches, Present, Active, Terminal
  <2> HIDE DEF new, s2
  <2>5. KeepsLock(s, s2, j)
    BY <2>1, <2>2, <2>4 DEF KeepsLock, Status, LockHolding
  <2> QED
    BY <2>1, <2>5 DEF KeepsLock, Status, s2
<1> QED
  BY <1>1, <1>2

\* createJob.
LEMMA CreateQuiet ==
    ASSUME NEW s \in Store, NEW j \in Jobs, NEW l \in Locks, Status(s, j) = "new",
           GoodStore(CreateJob(s, j, l))
    PROVE  Quiet(s, CreateJob(s, j, l))
<1> DEFINE new == [status |-> "queued", lock |-> l, approval |-> FALSE]
           s1  == [s EXCEPT !.job[j] = new, !.newer = Touch(s.newer, j)]
           s2  == CreateJob(s, j, l)
<1>1. s2 = Compact(s1)
  BY DEF CreateJob
<1>2. s1 \in Store /\ \A k \in Jobs \ {j} : s1.job[k] = s.job[k]
  BY TouchType DEF Store, JobRecord, Present, Active
<1> HIDE DEF s1, s2
<1>3. \A k \in Jobs : s2.job[k] = s1.job[k] \/ s2.job[k] = MissingJob("gone")
  BY <1>1, <1>2, CompactKeeps
<1>4. \A k \in Jobs \ {j} : KeepsLock(s, s2, k)
  BY <1>2, <1>3 DEF KeepsLock, Status, MissingJob
<1> QED
  BY <1>4 DEF Quiet, ClaimsLock, s2

\* updateJob that puts a job back in the queue with the lock l, or throws.
LEMMA RequeueQuiet ==
    ASSUME NEW s, GoodStore(s), NEW j \in Jobs, NEW l \in Locks \cup {None}
    PROVE  LET p == [status |-> "queued", lock |-> l, approval |-> "same", override |-> TRUE]
           IN  Quiet(s, UpdateJob(s, j, p))
<1> DEFINE p   == [status |-> "queued", lock |-> l, approval |-> "same", override |-> TRUE]
           s2  == UpdateJob(s, j, p)
           new == PatchedJob(s, j, p)
<1>1. CASE j \notin InStore(s) \/ UpdateThrows(s, j, p)
  BY <1>1 DEF UpdateJob, Quiet, KeepsLock
<1>2. CASE j \in InStore(s) /\ ~UpdateThrows(s, j, p)
  <2>1. \A k \in Jobs : s2.job[k] = IF k = j THEN new ELSE s.job[k]
    BY <1>2 DEF UpdateJob, Store, GoodStore
  <2>2. /\ new.status = "queued"
        /\ new.lock = IF l = "same" THEN s.job[j].lock ELSE l
    BY DEF PatchedJob, KeepsHumanStop, Normalize, LockHolding, HumanStops
  <2>3. ASSUME NEW k \in Jobs \ {j} PROVE ~LocksClash(l, s.job[k].lock)
    <3>1. CASE Status(s, k) \in LockHolding
      <4>1. l \in Locks => Conflicting(s, l, j) = {}
        BY <1>2 DEF UpdateThrows
      <4> QED
        BY <3>1, <4>1, ClashIsOfLocks DEF Conflicting
    <3>2. CASE Status(s, k) \notin LockHolding
      <4>1. s.job[k].lock = None
        BY <3>2 DEF GoodStore, StoreConsistent, LocksReleased
      <4> QED
        BY <4>1, ClashIsOfLocks
    <3> QED
      BY <3>1, <3>2
  <2> HIDE DEF new, s2, p
  <2>4. KeepsLock(s, s2, j) \/ ClaimsLock(s, s2, j)
    <3>1. CASE l = "same"
      BY <2>1, <2>2, <3>1 DEF KeepsLock, Status
    <3>2. CASE l # "same"
      BY <2>1, <2>2, <2>3, <3>2 DEF ClaimsLock, Status
    <3> QED
      BY <3>1, <3>2
  <2> QED
    BY <2>1, <2>4 DEF Quiet, KeepsLock, Status, s2, p
<1> QED
  BY <1>1, <1>2

\* The panel's Deny.
LEMMA DenyQuiet ==
    ASSUME NEW p, GoodPanelDraft(p)
    PROVE  Quiet(p.store, DenyPanel(p).store)
<1> DEFINE clear   == [NoPatch EXCEPT !.approval = "clear"]
           cleared == IF p.store.focus = None THEN p ELSE UpdateThen(p, p.store.focus, clear)
           c       == [cleared EXCEPT !.approval = FALSE]
           q       == DenyPanel(p)
           j       == p.run.job
<1>1. clear \in Patches /\ ~clear.override /\ clear.status = "same" /\ clear.lock = "same"
  BY DEF NoPatch, Patches
<1>2. q = IF p.approval /\ p.run # NoRun THEN FinishPanel(c, "denied") ELSE p
  BY DEF DenyPanel
<1>3. PanelFollows(p, q) /\ GoodStore(q.store)
  BY DenyPanelFollows DEF PanelFollows, GoodPanelDraft
<1> HIDE DEF clear
<1>4. PanelFollows(p, cleared) /\ cleared.run = p.run
  BY <1>1, UpdateThenFollows, PanelFollowsItself
<1>5. \A k \in Jobs : KeepsLock(p.store, cleared.store, k) /\ Status(cleared.store, k) = Status(p.store, k)
  <2>1. CASE p.store.focus = None
    BY <2>1 DEF KeepsLock
  <2>2. CASE p.store.focus # None
    <3> DEFINE f    == p.store.focus
               next == UpdateJob(p.store, f, clear)
    <3>1. p.store \in Store /\ f \in Jobs
      BY <2>2 DEF GoodPanelDraft, Store
    <3>2. cleared.store = next
      BY <2>2 DEF UpdateThen, GoodPanelDraft
    <3>3. GoodStore(next)
      BY <1>4, <3>2 DEF PanelFollows, GoodPanelDraft
    <3>4. \A k \in Jobs : KeepsLock(p.store, next, k)
      BY <1>1, <3>1, <3>3, PatchQuiet
    <3>5. /\ \A k \in Jobs \ {f} : next.job[k] = p.store.job[k]
          /\ next = p.store \/ Status(next, f) = Status(p.store, f)
      BY <1>1, <3>1, UpdateJobWrites
    <3> HIDE DEF next, cleared
    <3> QED
      BY <3>1, <3>2, <3>4, <3>5 DEF Status
  <2> QED
    BY <2>1, <2>2
<1>6. CASE ~(p.approval /\ p.run # NoRun)
  BY <1>2, <1>6 DEF Quiet, KeepsLock
<1>7. CASE p.approval /\ p.run # NoRun
  <2> HIDE DEF cleared
  <2>1. GoodPanelDraft(c) /\ c.run = p.run /\ c.store = cleared.store
    BY <1>4 DEF PanelFollows, GoodPanelDraft
  <2> HIDE DEF c
  <2>2. q = FinishPanel(c, "denied") /\ "denied" \in Present
    BY <1>2, <1>7 DEF Present, Terminal
  <2>3. /\ j \in Jobs
        /\ \A k \in Jobs \ {j} : q.store.job[k] = c.store.job[k]
        /\ \/ q.store = c.store
           \/ Status(q.store, j) = StatusAfter(Status(c.store, j), "denied")
    BY <1>7, <2>1, <2>2, FinishPanelWrites
  <2> HIDE DEF q
  <2>4. CASE q.store = c.store
    BY <1>5, <2>1, <2>4 DEF Quiet, q
  <2>5. CASE Status(q.store, j) = StatusAfter(Status(c.store, j), "denied")
    <3>1. Status(q.store, j) \notin LockHolding \cup {"new"}
      BY <2>5 DEF StatusAfter, HumanStops, LockHolding
    <3>2. q.store.job[j].lock = None
      BY <1>3, <2>3, <3>1 DEF GoodStore, StoreConsistent, LocksReleased
    <3>3. KeepsLock(p.store, q.store, j)
      BY <3>1, <3>2 DEF KeepsLock, LockHolding
    <3>4. \A k \in Jobs \ {j} : KeepsLock(p.store, q.store, k)
      <4>1. \A k \in Jobs : KeepsLock(p.store, c.store, k)
        BY <1>5, <2>1
      <4> QED
        BY <2>3, <4>1 DEF KeepsLock, Status
    <3> QED
      BY <3>3, <3>4 DEF Quiet, q
  <2> QED
    BY <2>3, <2>4, <2>5
<1> QED
  BY <1>6, <1>7

-----------------------------------------------------------------------------
(* The steps of a run.                                                        *)

\* A step of a run changes no lock but its job's, which it keeps or gives up.
LEMMA RunStepQuiet ==
    ASSUME IInv, LocalInv, NEW r \in RunSlots, RunStep(r)
    PROVE  Quiet(store, store') /\ LocalInv' /\ UNCHANGED ticks
<1> DEFINE d == Draft(r)
<1>1. /\ runs[r].pc # "free" /\ GoodDraft(d) /\ d.run = runs[r] /\ d.store = store
      /\ runs \in [RunSlots -> Run] /\ d.run.job \in Jobs
      /\ runs[r].pc \in LoopPcs => d.run.local \in LoopStatus
  BY RunStepFrame, DraftGood DEF IInv, GoodRuns, GoodDraft, LocalInv, Draft
<1> HIDE DEF d
<1>2. ASSUME NEW e, Commit(r, e), Quiet(store, e.store),
             e.run.pc \in LoopPcs => e.run.local \in LoopStatus
      PROVE  Quiet(store, store') /\ LocalInv' /\ UNCHANGED ticks
  BY <1>1, <1>2 DEF Commit, LocalInv
<1>3. Quiet(store, store)
  BY DEF Quiet, KeepsLock
<1>4. ASSUME NEW c, GoodDraft(c), Quiet(store, c.store), NEW pc, Commit(r, GoTo(c, pc)),
             pc \in LoopPcs => c.run.local \in LoopStatus
      PROVE  Quiet(store, store') /\ LocalInv' /\ UNCHANGED ticks
  BY <1>2, <1>4, GoToKeepsRest
<1>5. ASSUME NEW c, GoodDraft(c), Quiet(store, c.store), NEW result,
             NEW e \in {Return(c, result), TellLater(c, result), ReportLater(c, result)},
             Commit(r, e)
      PROVE  Quiet(store, store') /\ LocalInv' /\ UNCHANGED ticks
  <2>1. e.store = c.store /\ e.run.pc \in {"finished", "telling", "reporting"}
    BY <1>5, ReturnKeepsRest
  <2>2. e.run.pc \notin LoopPcs
    BY <2>1 DEF LoopPcs
  <2> QED
    BY <1>2, <1>5, <2>1, <2>2
<1>6. {"failed", "cancelled", "blocked", "completed", "approval", "paused", "running"} \subseteq Present
  BY DEF Present, Active, Terminal
<1>7. ASSUME NEW st \in Present, Commit(r, Fail(d, st))
      PROVE  Quiet(store, store') /\ LocalInv' /\ UNCHANGED ticks
  <2> DEFINE e == Fail(d, st)
  <2>1. GoodStore(e.store) /\ e.run.pc = "finished"
    BY <1>1, <1>7, FailFollows DEF Follows, GoodDraft
  <2>2. WritesStatus(store, e.store, d.run.job, st)
    BY <1>1, <1>7, FailWrites
  <2> HIDE DEF e
  <2>3. Quiet(store, e.store) /\ e.run.pc \notin LoopPcs
    BY <1>1, <1>7, <2>1, <2>2, WritesQuiet DEF LoopPcs
  <2> QED
    BY <1>2, <1>7, <2>3 DEF e
<1>8. ASSUME NEW st \in Present
      PROVE  Quiet(store, Finish(d, st).store) /\ GoodDraft(Finish(d, st))
  <2> DEFINE e == Finish(d, st)
  <2>1. GoodDraft(e) /\ GoodStore(e.store)
    BY <1>1, <1>8, FinishFollows DEF Follows, GoodDraft
  <2>2. WritesStatus(store, e.store, d.run.job, st)
    BY <1>1, <1>8, FinishWrites DEF WritesDraft
  <2> HIDE DEF e
  <2>3. Quiet(store, e.store)
    BY <1>1, <1>8, <2>1, <2>2, WritesQuiet
  <2> QED
    BY <2>1, <2>3 DEF e
<1>9. /\ GoodDraft(Record(d)) /\ GoodStore(Record(d).store)
      /\ WritesStatus(store, Record(d).store, d.run.job, d.run.local)
      /\ Record(d).run.job = d.run.job
      /\ Record(d).run.local = StatusAfter(Status(store, d.run.job), d.run.local)
  BY <1>1, RecordFollows, RecordWrites DEF Follows, GoodDraft, WritesDraft
<1>10. /\ Quiet(store, Record(d).store)
       /\ runs[r].pc \in LoopPcs => Record(d).run.local \in LoopStatus
  <2>1. d.run.local \in Present
    BY <1>1 DEF GoodDraft, Run
  <2> QED
    BY <1>1, <1>9, <2>1, WritesQuiet DEF StatusAfter, HumanStops, LoopStatus
<1>11. ASSUME runs[r].pc \in LoopPcs, NEW st \in {"blocked", "approval"}
       PROVE  /\ Quiet(store, Finish(Record(d), st).store)
              /\ GoodDraft(Finish(Record(d), st))
  <2> DEFINE c == Record(d)
             e == Finish(c, st)
  <2>1. st \in Present
    BY <1>6, <1>11
  <2>2. GoodDraft(e) /\ GoodStore(e.store)
    BY <1>9, <2>1, FinishFollows DEF Follows, GoodDraft
  <2>3. WritesStatus(c.store, e.store, d.run.job, st)
    BY <1>9, <2>1, FinishWrites DEF WritesDraft
  <2> HIDE DEF e
  <2>4. Quiet(store, e.store)
    BY <1>1, <1>9, <1>11, <2>2, <2>3, WritesQuietTwice
  <2> QED
    BY <2>2, <2>4 DEF e
<1>12. LoopPcs = {"top", "observing", "deciding", "checking", "acting", "verifying"}
  BY DEF LoopPcs
<1>13. CASE RunRejected(r)
  BY <1>1, <1>3, <1>5, <1>13 DEF RunRejected, d
<1>14. CASE BeginTurn(r)
  <2> DEFINE c == UpdateOwnJob(d, StatusPatch("running"))
  <2>1. /\ WritesStatus(store, c.store, d.run.job, "running") /\ GoodDraft(c)
        /\ c.run = d.run
    BY <1>1, <1>6, StatusPatchPlain, UpdateOwnJobWrites, UpdateOwnJobFollows DEF Follows
  <2>2. Commit(r, GoTo(c, "observing")) /\ runs[r].pc \in LoopPcs
    BY <1>12, <1>14 DEF BeginTurn, d
  <2> HIDE DEF c
  <2>3. Quiet(store, c.store)
    BY <1>1, <1>6, <2>1, WritesQuiet DEF GoodDraft
  <2> QED
    BY <1>1, <1>4, <2>1, <2>2, <2>3
<1>15. CASE StepLimit(r)
  BY <1>5, <1>6, <1>8, <1>15 DEF StepLimit, d
<1>16. CASE Observe(r)
  BY <1>1, <1>3, <1>4, <1>6, <1>7, <1>12, <1>16 DEF Observe, d
<1>17. CASE ObserveLost(r)
  BY <1>6, <1>7, <1>17 DEF ObserveLost, d
<1>18. CASE DecideDone(r)
  BY <1>5, <1>6, <1>8, <1>18 DEF DecideDone, d
<1>19. CASE DecideBlocked(r)
  <2>1. PICK c \in {d, Record(d)} : Commit(r, TellLater(Finish(c, "blocked"), "blocked"))
    BY <1>19 DEF DecideBlocked, d
  <2>2. runs[r].pc \in LoopPcs
    BY <1>12, <1>19 DEF DecideBlocked
  <2> QED
    BY <1>5, <1>6, <1>8, <1>11, <2>1, <2>2
<1>20. CASE DecideUnproven(r)
  BY <1>5, <1>11, <1>12, <1>20 DEF DecideUnproven, d
<1>21. CASE DecideFailed(r)
  BY <1>6, <1>7, <1>21 DEF DecideFailed, d
<1>22. CASE DecideAction(r)
  BY <1>4, <1>9, <1>10, <1>12, <1>22 DEF DecideAction, d
<1>23. CASE CheckStop(r)
  <2>1. HumanStops \subseteq Present
    BY <1>6 DEF HumanStops
  <2> QED
    BY <1>1, <1>3, <1>4, <1>7, <1>12, <1>23, <2>1 DEF CheckStop, d
<1>24. CASE Act(r)
  BY <1>1, <1>3, <1>4, <1>12, <1>24 DEF Act, d
<1>25. CASE ActFails(r)
  BY <1>6, <1>7, <1>25 DEF ActFails, d
<1>26. CASE VerifyRetries(r)
  <2> DEFINE c == GoTo(d, "checking")
             e == [c EXCEPT !.run.retries = @ + 1]
  <2>1. Commit(r, e) /\ runs[r].pc \in LoopPcs
    BY <1>12, <1>26 DEF VerifyRetries, d
  <2>2. c.store = store /\ c.run.local = d.run.local
    BY <1>1, GoToKeepsRest
  <2>3. e.store = c.store /\ e.run.local = c.run.local
    BY <1>1, GoToFollows DEF Follows, GoodDraft, Run, RunPcs
  <2> HIDE DEF e, c
  <2> QED
    BY <1>1, <1>2, <1>3, <2>1, <2>2, <2>3
<1>27. CASE VerifyDone(r)
  <2> DEFINE c == GoTo(Record(d), "top")
             e == [c EXCEPT !.run.step = @ + 1, !.run.retries = 0]
  <2>1. Commit(r, e) /\ runs[r].pc \in LoopPcs
    BY <1>12, <1>27 DEF VerifyDone, d
  <2>2. c.store = Record(d).store /\ c.run.local = Record(d).run.local /\ GoodDraft(c)
    BY <1>9, GoToKeepsRest, GoToFollows DEF Follows, RunPcs
  <2> HIDE DEF c
  <2>3. e.store = c.store /\ e.run.local = c.run.local
    BY <2>2 DEF GoodDraft, Run
  <2> HIDE DEF e
  <2> QED
    BY <1>2, <1>10, <2>1, <2>2, <2>3
<1>28. CASE VerifyFails(r)
  BY <1>5, <1>11, <1>12, <1>28 DEF VerifyFails, d
<1>29. CASE VerifyNeedsApproval(r)
  <2>1. "asking" \notin LoopPcs
    BY <1>12
  <2> QED
    BY <1>4, <1>11, <1>12, <1>29, <2>1 DEF VerifyNeedsApproval, d
<1>30. CASE AskApproval(r)
  <2> DEFINE ask == [StatusPatch("approval") EXCEPT !.approval = "set"]
             b   == UpdateOwnJob(d, ask)
             c   == [b EXCEPT !.run.asked = TRUE]
  <2>1. ask \in Patches /\ ~ask.override /\ ask.lock = "same" /\ ask.status = "approval"
    BY DEF StatusPatch, NoPatch, Patches, Present, Active
  <2>2. Commit(r, ReportLater(Sync(c), "approval"))
    BY <1>30 DEF AskApproval, d
  <2> HIDE DEF ask
  <2>3. GoodDraft(b) /\ WritesStatus(store, b.store, d.run.job, "approval")
    BY <1>1, <1>6, <2>1, UpdateOwnJobFollows, UpdateOwnJobWrites DEF Follows
  <2>4. Quiet(store, b.store)
    BY <1>1, <1>6, <2>3, WritesQuiet DEF GoodDraft
  <2> HIDE DEF b
  <2>5. GoodDraft(c) /\ c.store = b.store
    BY <2>3 DEF GoodDraft, Run
  <2> HIDE DEF c
  <2>6. GoodDraft(Sync(c)) /\ Sync(c).store = c.store
    BY <2>5, SyncFollows, SyncWrites DEF Follows
  <2> QED
    BY <1>5, <2>2, <2>4, <2>5, <2>6
<1>31. CASE Report(r)
  <2>1. "finished" \notin LoopPcs
    BY <1>12
  <2> QED
    BY <1>4, <1>9, <1>10, <1>31, <2>1 DEF Report, d
<1>32. CASE ReportSkipped(r)
  <2>1. "finished" \notin LoopPcs
    BY <1>12
  <2> QED
    BY <1>1, <1>3, <1>4, <1>32, <2>1 DEF ReportSkipped, d
<1>33. CASE ReportFails(r)
  BY <1>6, <1>7, <1>33 DEF ReportFails, d
<1> QED
  BY <1>13, <1>14, <1>15, <1>16, <1>17, <1>18, <1>19, <1>20, <1>21, <1>22, <1>23, <1>24,
     <1>25, <1>26, <1>27, <1>28, <1>29, <1>30, <1>31, <1>32, <1>33 DEF RunStep, LockedStep

-----------------------------------------------------------------------------
(* The steps of the human and of the commands.                                *)

\* Only the order of the list and the focus may have changed.
LEMMA SameJobsQuiet ==
    ASSUME NEW s, NEW s2, s2.job = s.job
    PROVE  Quiet(s, s2)
BY DEF Quiet, KeepsLock, Status

LEMMA ActivateQuiet ==
    ASSUME NEW s \in Store, NEW j
    PROVE  Quiet(s, ActivateJob(s, j))
<1>1. ActivateJob(s, j).job = s.job
  BY DEF ActivateJob, Store
<1> QED
  BY <1>1, SameJobsQuiet

\* The buttons of the panel.
LEMMA PanelTurnQuiet ==
    ASSUME IInv, IInv', (\E j \in Jobs : Pause(j) \/ Cancel(j)) \/ Stop \/ Deny \/ ClearDone
    PROVE  Quiet(store, store') /\ UNCHANGED <<ticks, runs>>
<1>1. GoodPanelDraft(Panel) /\ Panel.store = store /\ GoodStore(store') /\ store \in Store
  BY PanelGood DEF IInv, GoodStore
<1>2. ASSUME NEW j \in Jobs, NEW q \in {PausePanel(Panel, j), CancelPanel(Panel, j)},
             CommitPanel(q)
      PROVE  Quiet(store, store')
  <2>1. StopsOnly(store, store')
    BY <1>1, <1>2, StopPanelMoves DEF CommitPanel
  <2>2. \A k \in Jobs : \/ store'.job[k] = store.job[k]
                        \/ Status(store', k) \notin LockHolding /\ Status(store', k) # "new"
    BY <2>1 DEF StopsOnly, HumanStops, LockHolding
  <2> QED
    BY <1>1, <2>2, LocksLost
<1>3. CASE \E j \in Jobs : Pause(j) \/ Cancel(j)
  BY <1>2, <1>3 DEF Pause, Cancel
<1>4. CASE Stop
  <2>1. PICK j \in Jobs : CommitPanel(CancelPanel(Panel, j)) /\ UNCHANGED <<ticks, runs>>
    BY <1>4 DEF Stop, InStore
  <2> QED
    BY <1>2, <2>1
<1>5. CASE Deny
  BY <1>1, <1>5, DenyQuiet DEF Deny, CommitPanel
<1>6. CASE ClearDone
  <2>1. \A k \in Jobs : store'.job[k] = store.job[k] \/ Status(store', k) = "gone"
    BY <1>1, <1>6, ClearCompletedJobsWrites DEF ClearDone
  <2>2. Quiet(store, store')
    BY <1>1, <2>1, LocksLost DEF LockHolding
  <2> QED
    BY <1>6, <2>2 DEF ClearDone
<1> QED
  BY <1>3, <1>4, <1>5, <1>6

\* Commands that give a job the focus, show it, and put it in the queue.
LEMMA CommandQuiet ==
    ASSUME IInv, IInv', NEW j \in Jobs, Human(j) \/ CommandStep(j),
           ~Pause(j), ~Cancel(j), ~StartTick(j)
    PROVE  Quiet(store, store') /\ UNCHANGED <<ticks, runs>>
<1>1. store \in Store /\ GoodStore(store) /\ GoodStore(store') /\ cmd[j] \in Command
  BY DEF IInv, GoodStore, GoodCmds
<1>2. CASE Focus(j) \/ Resume(j) \/ Continue(j) \/ DenyJob(j)
  <2>1. PICK what, composer : BeginFocus(j, what, composer)
    BY <1>2 DEF Focus, Resume, Continue, DenyJob
  <2> QED
    BY <1>1, <2>1, ActivateQuiet DEF BeginFocus
<1>3. CASE Control(j) \/ FindTab(j) \/ FocusFails(j) \/ GiveUp(j)
  BY <1>3, SameJobsQuiet DEF Control, FindTab, FocusFails, GiveUp, runVars
<1>4. CASE Show(j)
  <2> DEFINE seen  == cmd[j].seen
             shown == [store |-> store, approval |-> seen.approval,
                       run |-> [job |-> j, status |-> seen.status, lock |-> seen.lock]]
             queue == [StatusPatch("queued") EXCEPT !.override = TRUE]
             resumed == UpdateThen(shown, j, queue)
  <2>1. /\ CommitPanel(CASE cmd[j].what = "resume" -> resumed
                         [] cmd[j].what = "deny"   -> DenyPanel(shown)
                         [] OTHER                  -> shown)
        /\ UNCHANGED <<ticks, runs>> /\ cmd[j].pc = "showing"
    BY <1>4 DEF Show
  <2>2. GoodPanelDraft(shown) /\ shown.store = store
    <3>1. seen \in JobRecord /\ seen.status \in Present
      BY <2>1 DEF IInv, GoodCmds, GoodCommand, Command
    <3>2. shown.run \in PanelRun /\ shown.run.job \in Jobs /\ seen.approval \in BOOLEAN
      BY <3>1 DEF PanelRun, JobRecord
    <3> QED
      BY <1>1, <3>2 DEF GoodPanelDraft, GoodPanelRun
  <2>3. queue \in Patches /\ queue.lock = "same"
    BY DEF StatusPatch, NoPatch, Patches, Present, Active
  <2> HIDE DEF queue
  <2>4. resumed.store = UpdateJob(store, j, queue)
    BY <2>2 DEF UpdateThen, GoodPanelDraft
  <2> HIDE DEF shown, resumed
  <2>5. \/ store' = resumed.store \/ store' = DenyPanel(shown).store \/ store' = store
    BY <2>1, <2>2 DEF CommitPanel
  <2>6. CASE store' = resumed.store
    BY <1>1, <2>1, <2>3, <2>4, <2>6, PatchQuiet DEF Quiet
  <2>7. CASE store' = DenyPanel(shown).store
    BY <2>1, <2>2, <2>7, DenyQuiet
  <2>8. CASE store' = store
    BY <2>1, <2>8, SameJobsQuiet
  <2> QED
    BY <2>5, <2>6, <2>7, <2>8
<1>5. ASSUME NEW l \in Locks, FinishStale(j, l)
      PROVE  Quiet(store, store') /\ UNCHANGED <<ticks, runs>>
  <2> DEFINE k     == panelRun.job
             st    == panelRun.status
             patch == [StatusPatch(st) EXCEPT !.lock = None]
  <2>1. k \in Jobs /\ st \in Terminal
    BY <1>5 DEF FinishStale, Stale, IInv, GoodPanel, GoodPanelRun
  <2>2. patch \in Patches /\ ~patch.override /\ patch.status = st
    BY <2>1 DEF StatusPatch, NoPatch, Patches, Present
  <2>3. store' = UpdateJob(store, k, patch) /\ UNCHANGED <<ticks, runs>>
    BY <1>5 DEF FinishStale
  <2> HIDE DEF patch
  <2>4. /\ \A i \in Jobs \ {k} : store'.job[i] = store.job[i]
        /\ \/ store' = store
           \/ Status(store', k) = StatusAfter(Status(store, k), st)
    BY <1>1, <2>1, <2>2, <2>3, UpdateJobWrites DEF Terminal
  <2>5. \/ store' = store
        \/ Status(store', k) \notin LockHolding /\ Status(store', k) # "new"
    BY <2>1, <2>4 DEF StatusAfter, HumanStops, Terminal, LockHolding
  <2>6. Quiet(store, store')
    BY <1>1, <2>4, <2>5, LocksLost
  <2> QED
    BY <2>3, <2>6
<1>6. ASSUME NEW l \in Locks, Create(j, l)
      PROVE  Quiet(store, store') /\ UNCHANGED <<ticks, runs>>
  <2>1. Status(store, j) = "new"
    BY <1>6 DEF Create, ChoosesLock, IInv, CreatesNew
  <2> QED
    BY <1>1, <1>6, <2>1, CreateQuiet DEF Create
<1>7. ASSUME NEW l \in Locks, Restart(j, l)
      PROVE  Quiet(store, store') /\ UNCHANGED <<ticks, runs>>
  BY <1>1, <1>7, ActivateQuiet DEF Restart
<1>8. CASE Requeue(j)
  <2>1. cmd[j].lock \in Locks \cup {None}
    BY <1>1 DEF Command
  <2> QED
    BY <1>1, <1>8, <2>1, RequeueQuiet DEF Requeue
<1> QED
  BY <1>2, <1>3, <1>4, <1>5, <1>6, <1>7, <1>8 DEF Human, CommandStep

-----------------------------------------------------------------------------
(* The steps of the ticks.                                                    *)

\* A step puts at most one job to work, and keeps apart what was apart.
Serves == LInv' /\ (Calm(store, store') \/ \E j \in Jobs : Granted(store, store', j))

\* A quiet step that leaves the ticks alone.
LEMMA QuietServes ==
    ASSUME LInv, IInv', LocalInv', FromTheQueue, Quiet(store, store'), UNCHANGED ticks
    PROVE  Serves
<1>1. Calm(store, store')
  BY DEF FromTheQueue, Calm
<1>2. Apart(store', AllPending(ticks'))
  BY <1>1, CalmKeeps DEF LInv
<1> QED
  BY <1>1, <1>2 DEF Serves, LInv

\* The loop of tick(), over what it may start beside the jobs of other ticks.
LEMMA AdvanceTickServes ==
    ASSUME IInv, IInv', LocalInv', FromTheQueue, NEW t \in TickSlots, NEW ex,
           NEW tick \in Tick, AdvanceTick(t, store, ex, tick),
           NEW js, Apart(store, js), Rest(tick.todo) \subseteq js,
           \A u \in TickSlots \ {t} : ticks'[t].pc # "idle" => Pending(ticks[u]) \subseteq js,
           Apart(store, AllPending([ticks EXCEPT ![t] = IdleTick]))
    PROVE  Serves
<1>1. store \in Store /\ ticks \in [TickSlots -> Tick]
  BY DEF IInv, GoodStore, GoodTicks
<1>2. CASE store' = store /\ ticks' = [ticks EXCEPT ![t] = IdleTick]
  <2>1. Calm(store, store')
    BY <1>2, SameJobsQuiet DEF Calm
  <2> QED
    BY <1>2, <2>1 DEF Serves, LInv
<1>3. ASSUME NEW i \in DOMAIN tick.todo, NEW new \in Tick,
             Starts(store, tick.todo[i], store', new),
             new.todo = SubSeq(tick.todo, i + 1, Len(tick.todo)),
             ticks' = [ticks EXCEPT ![t] = new]
      PROVE  Serves
  <2> DEFINE j == tick.todo[i]
  <2>1. tick.todo \in Seq(Jobs)
    BY DEF Tick
  <2>2. Rest(new.todo) \subseteq js /\ j \in js
    BY <1>3, <2>1, RestOfSubSeq
  <2>3. new.job = j /\ new.pc # "idle"
    BY <1>3 DEF Starts
  <2> HIDE DEF j
  <2>4. Pending(new) \subseteq js
    BY <2>2, <2>3 DEF Pending
  <2>5. \A u \in TickSlots : Pending(ticks'[u]) \subseteq js
    BY <1>1, <1>3, <2>3, <2>4
  <2>6. AllPending(ticks') \subseteq js
    BY <2>5 DEF AllPending
  <2>7. j \in AtWork(store') \ AtWork(store) => store.job[j].lock # None
    BY DEF FromTheQueue
  <2>8. Works(store, store', AllPending(ticks'))
    BY <1>1, <1>3, <2>2, <2>6, <2>7, StartWorks DEF j
  <2> QED
    BY <2>8 DEF Serves, LInv, Works
<1>4. CASE \E i \in DOMAIN tick.todo, new \in Tick :
             /\ tick.todo[i] \notin ex
             /\ Starts(store, tick.todo[i], store', new)
             /\ new.todo = SubSeq(tick.todo, i + 1, Len(tick.todo))
             /\ new.composer = tick.composer
             /\ ticks' = [ticks EXCEPT ![t] = new]
  BY <1>3, <1>4
<1> QED
  BY <1>1, <1>2, <1>4, AdvanceTickStarts

\* Fewer jobs are apart when more of them are.
LEMMA ApartFewer ==
    ASSUME NEW s, NEW js, Apart(s, js), NEW js2 \in SUBSET js
    PROVE  Apart(s, js2)
<1>1. Calm(s, s)
  BY SameJobsQuiet DEF Calm
<1> QED
  BY <1>1, CalmKeeps

\* A tick that goes idle has nothing left to start.
LEMMA IdleHasLess ==
    ASSUME ticks \in [TickSlots -> Tick], NEW t \in TickSlots
    PROVE  AllPending([ticks EXCEPT ![t] = IdleTick]) \subseteq AllPending(ticks)
BY IdleIsNotPending DEF AllPending

\* A call of tick(), by a command or after a run.
LEMMA BeginTickServes ==
    ASSUME LInv, IInv', LocalInv', TicksTakeTurns, FromTheQueue, NEW t \in TickSlots, NEW ex,
           NEW byComposer \in BOOLEAN, BeginTick(t, store, ex, byComposer)
    PROVE  Serves
<1>1. PICK q \in Snapshots :
        /\ IsRunnableQueue(store, q)
        /\ AdvanceTick(t, store, ex, [IdleTick EXCEPT !.todo = q, !.composer = byComposer])
  BY DEF BeginTick
<1> DEFINE first == [IdleTick EXCEPT !.todo = q, !.composer = byComposer]
<1>2. first \in Tick /\ first.todo = q /\ AdvanceTick(t, store, ex, first)
  BY <1>1, FirstTick DEF IdleTick
<1> HIDE DEF first
<1>3. Apart(store, Rest(q))
  BY <1>1, SnapshotFits, ApartFewer DEF LInv
<1>4. \A u \in TickSlots \ {t} : ticks'[t].pc # "idle" => Pending(ticks[u]) \subseteq Rest(q)
  BY DEF TicksTakeTurns, BeginTick
<1>5. Apart(store, AllPending([ticks EXCEPT ![t] = IdleTick]))
  BY IdleHasLess, ApartFewer DEF LInv, IInv, GoodTicks
<1> QED
  BY <1>2, <1>3, <1>4, <1>5, AdvanceTickServes DEF LInv

\* A tick goes on after the job it started was handed to a run.
LEMMA LaunchServes ==
    ASSUME LInv, IInv', FromTheQueue, NEW t \in TickSlots, TickLaunches(t)
    PROVE  Serves
<1> DEFINE next == [ticks[t] EXCEPT !.lock = None]
           js   == AllPending(ticks)
<1>1. ticks[t] \in Tick /\ ticks \in [TickSlots -> Tick] /\ runs \in [RunSlots -> Run]
  BY DEF LInv, IInv, GoodTicks, GoodRuns
<1>2. next \in Tick /\ next.todo = ticks[t].todo
  BY <1>1 DEF Tick
<1>3. AdvanceTick(t, store, executing', next)
  BY DEF TickLaunches
<1> HIDE DEF next
<1>4. LocalInv'
  <2>1. PICK r \in RunSlots :
          runs' = [runs EXCEPT ![r] = [FreeRun EXCEPT !.pc = "top", !.job = ticks[t].job,
                                                      !.lock = ticks[t].lock]]
    BY DEF TickLaunches
  <2>2. runs'[r].local = "running" /\ \A q \in RunSlots \ {r} : runs'[q] = runs[q]
    BY <1>1, <2>1 DEF FreeRun
  <2> QED
    BY <2>2 DEF LInv, LocalInv, LoopStatus
<1>5. Rest(next.todo) \subseteq js /\ \A u \in TickSlots : Pending(ticks[u]) \subseteq js
  BY <1>2 DEF AllPending, Pending
<1>6. Apart(store, AllPending([ticks EXCEPT ![t] = IdleTick]))
  BY <1>1, IdleHasLess, ApartFewer DEF LInv
<1> HIDE DEF js
<1>7. Apart(store, js)
  BY DEF LInv, js
<1> QED
  BY <1>2, <1>3, <1>4, <1>5, <1>6, <1>7, AdvanceTickServes DEF LInv

\* The first job of a panel, after its activation.
LEMMA ActivatedServes ==
    ASSUME LInv, IInv', FromTheQueue, NEW t \in TickSlots, TickActivated(t)
    PROVE  Serves
<1> DEFINE after == MarkRunning(store, ticks[t])
           j     == ticks[t].job
<1>1. /\ ticks[t] \in Tick /\ j \in Jobs /\ store \in Store /\ GoodStore(store')
      /\ ticks[t].pc = "activating" /\ ticks \in [TickSlots -> Tick]
  BY DEF TickActivated, LInv, IInv, GoodTicks, GoodTick, GoodStore
<1>2. store' = after.store /\ \A u \in TickSlots : ticks'[u] = IF u = t THEN after.tick ELSE ticks[u]
  BY <1>1 DEF TickActivated
<1>3. \/ after.store = store /\ after.tick = IdleTick
      \/ /\ WritesStatus(store, after.store, j, "running")
         /\ after.tick.pc = "starting" /\ after.tick.todo = ticks[t].todo
  BY <1>1, MarkRunningWrites
<1> HIDE DEF after
<1>4. LocalInv'
  BY DEF TickActivated, LInv, LocalInv
<1>5. AllPending(ticks') \subseteq AllPending(ticks)
  <2>1. Pending(after.tick) \subseteq Pending(ticks[t])
    BY <1>3, IdleIsNotPending DEF Pending
  <2> QED
    BY <1>2, <2>1 DEF AllPending
<1>6. Quiet(store, store')
  <2>1. "running" \in Present
    BY DEF Present, Active
  <2> QED
    BY <1>1, <1>2, <1>3, <2>1, SameJobsQuiet, WritesQuiet
<1>7. CASE AtWork(store') \subseteq AtWork(store)
  <2>1. Calm(store, store')
    BY <1>6, <1>7 DEF Calm
  <2>2. Apart(store', AllPending(ticks'))
    BY <1>5, <2>1, CalmKeeps DEF LInv
  <2> QED
    BY <1>4, <2>1, <2>2 DEF Serves, LInv
<1>8. CASE ~(AtWork(store') \subseteq AtWork(store))
  <2>1. PICK k \in AtWork(store') : k \notin AtWork(store)
    BY <1>8
  <2>2. WritesStatus(store, store', j, "running")
    BY <1>2, <1>3, <2>1
  <2>3. k = j
    BY <2>1, <2>2, WorkingJobs DEF WritesStatus, Status
  <2>4. /\ Status(store, j) = "queued" /\ store.job[j].lock # None
        /\ Status(store', j) \in {"running", "approval"}
    BY <1>1, <2>1, <2>3, WorkingJobs DEF FromTheQueue
  <2>5. /\ store'.job[j].lock = store.job[j].lock
        /\ \A i \in Jobs \ {j} : store'.job[i] = store.job[i]
    BY <2>2, <2>4 DEF WritesStatus, LockHolding
  <2>6. j \in AllPending(ticks)
    BY <1>1 DEF AllPending, Pending
  <2>7. Granted(store, store', j) /\ Apart(store', AllPending(ticks'))
    BY <1>1, <1>5, <2>4, <2>5, <2>6, GrantedKeeps DEF LInv
  <2> QED
    BY <1>1, <1>4, <2>7 DEF Serves, LInv
<1> QED
  BY <1>7, <1>8

\* The panel is closed: nothing is at work or pending afterwards.
LEMMA ReloadServes ==
    ASSUME LInv, IInv', Reload
    PROVE  Serves
<1>1. /\ store' = RecoverJobs(store) /\ store \in Store /\ GoodStore(store')
      /\ \A t \in TickSlots : ticks'[t] = IdleTick
      /\ \A r \in RunSlots : runs'[r] = FreeRun
  BY DEF Reload, LInv, IInv, GoodStore
<1>2. \A j \in Jobs : \/ store'.job[j] = store.job[j] /\ Status(store, j) \notin {"running", "approval"}
                      \/ Status(store', j) = "paused"
  BY <1>1, RecoverJobsWrites
<1>3. Quiet(store, store')
  BY <1>1, <1>2, LocksLost DEF LockHolding
<1>4. Calm(store, store')
  BY <1>2, <1>3, WorkingJobs DEF Calm, Status
<1>5. LocalInv'
  BY <1>1 DEF LocalInv, FreeRun, LoopPcs
<1>6. AllPending(ticks') = {}
  BY <1>1, IdleIsNotPending DEF AllPending
<1>7. Apart(store', AllPending(ticks'))
  BY <1>4, <1>6, CalmKeeps DEF LInv
<1> QED
  BY <1>4, <1>5, <1>7 DEF Serves, LInv

\* The result of an execution is written, if it has to be.
LEMMA SettleServes ==
    ASSUME LInv, IInv', FromTheQueue, NEW r \in RunSlots, Settle(r)
    PROVE  Serves
<1> DEFINE run == runs[r]
           j   == run.job
<1>1. /\ run \in Run /\ j \in Jobs /\ run.result # "none" /\ runs \in [RunSlots -> Run]
      /\ store \in Store /\ GoodStore(store')
  BY DEF Settle, LInv, IInv, GoodRuns, GoodRun, GoodStore
<1>2. run.result \in {"completed", "approval", "blocked", "rejected"}
  BY <1>1 DEF Run, Results
<1>3. \/ store' = store
      \/ \E st \in Present : store' = UpdateJob(store, j, StatusPatch(st))
  BY <1>2 DEF Settle, SettledStore, Present, Active, Terminal
<1>4. ASSUME NEW st \in Present, store' = UpdateJob(store, j, StatusPatch(st))
      PROVE  Quiet(store, store')
  <2>1. StatusPatch(st) \in Patches /\ StatusPatch(st).lock = "same"
    BY PatchType DEF StatusPatch, NoPatch
  <2> QED
    BY <1>1, <1>4, <2>1, PatchQuiet DEF Quiet
<1>5. Quiet(store, store')
  BY <1>3, <1>4, SameJobsQuiet
<1>6. LocalInv'
  <2>1. runs' = [runs EXCEPT ![r].pc = "settled"]
    BY DEF Settle
  <2>2. runs'[r].pc = "settled" /\ \A q \in RunSlots \ {r} : runs'[q] = runs[q]
    BY <1>1, <2>1 DEF Run
  <2> QED
    BY <2>2 DEF LInv, LocalInv, LoopPcs
<1>7. UNCHANGED ticks
  BY DEF Settle
<1> QED
  BY <1>5, <1>6, <1>7, QuietServes

\* The entry of an execution is deleted, and the queue drained.
LEMMA RetireServes ==
    ASSUME LInv, IInv', TicksTakeTurns, FromTheQueue, NEW r \in RunSlots, NEW t \in TickSlots,
           Retire(r, t)
    PROVE  Serves
<1>1. BeginTick(t, store, executing \ {runs[r].job}, FALSE)
  BY DEF Retire
<1>2. LocalInv'
  <2>1. runs' = [runs EXCEPT ![r] = FreeRun] /\ FreeRun.pc \notin LoopPcs
    BY DEF Retire, FreeRun, LoopPcs
  <2> QED
    BY <2>1 DEF LInv, LocalInv, IInv, GoodRuns
<1> QED
  BY <1>1, <1>2, BeginTickServes

\* A command that starts what it can.
LEMMA CommandTickServes ==
    ASSUME LInv, IInv', TicksTakeTurns, FromTheQueue, RunJobs \/ \E j \in Jobs : StartTick(j)
    PROVE  Serves
<1>1. UNCHANGED runs
  BY DEF RunJobs, StartTick
<1>2. LocalInv'
  BY <1>1 DEF LInv, LocalInv
<1>3. \E t \in TickSlots, byComposer \in BOOLEAN : BeginTick(t, store, executing, byComposer)
  <2>1. CASE RunJobs
    BY <2>1 DEF RunJobs
  <2>2. ASSUME NEW j \in Jobs, StartTick(j)
        PROVE  \E t \in TickSlots, byComposer \in BOOLEAN : BeginTick(t, store, executing, byComposer)
    <3>1. cmd[j].composer \in BOOLEAN
      BY DEF LInv, IInv, GoodCmds, Command
    <3> QED
      BY <2>2, <3>1 DEF StartTick
  <2> QED
    BY <2>1, <2>2
<1> QED
  BY <1>2, <1>3, BeginTickServes

\* Every step of the panel that keeps to the two conditions.
LEMMA NextServes ==
    ASSUME LInv, [Next]_vars, [TicksTakeTurns /\ FromTheQueue]_vars
    PROVE  Serves
<1>1. IInv /\ IInv' /\ LocalInv
  BY NextGood DEF LInv
<1>2. TicksTakeTurns /\ FromTheQueue
  <2>1. CASE UNCHANGED vars
    <3>1. ticks' = ticks /\ store' = store
      BY <2>1 DEF vars
    <3> QED
      BY <3>1 DEF TicksTakeTurns, FromTheQueue
  <2> QED
    BY <2>1
<1>3. ASSUME Quiet(store, store'), UNCHANGED <<ticks, runs>> PROVE Serves
  <2>1. LocalInv'
    BY <1>1, <1>3 DEF LocalInv
  <2> QED
    BY <1>1, <1>2, <1>3, <2>1, QuietServes
<1>4. CASE UNCHANGED vars
  BY <1>3, <1>4, SameJobsQuiet DEF vars
<1>5. CASE RunJobs \/ \E j \in Jobs : StartTick(j)
  BY <1>1, <1>2, <1>5, CommandTickServes
<1>6. CASE Reload
  BY <1>1, <1>6, ReloadServes
<1>7. CASE (\E j \in Jobs : Pause(j) \/ Cancel(j)) \/ Stop \/ Deny \/ ClearDone
  BY <1>1, <1>3, <1>7, PanelTurnQuiet
<1>8. ASSUME NEW j \in Jobs, Human(j) \/ CommandStep(j) PROVE Serves
  BY <1>1, <1>3, <1>5, <1>7, <1>8, CommandQuiet
<1>9. ASSUME NEW t \in TickSlots, TickStep(t) PROVE Serves
  BY <1>1, <1>2, <1>9, ActivatedServes, LaunchServes DEF TickStep
<1>10. ASSUME NEW r \in RunSlots, SettleStep(r) PROVE Serves
  BY <1>1, <1>2, <1>10, SettleServes, RetireServes DEF SettleStep
<1>11. ASSUME NEW r \in RunSlots, RunStep(r) PROVE Serves
  <2>1. Quiet(store, store') /\ LocalInv' /\ UNCHANGED ticks
    BY <1>1, <1>11, RunStepQuiet
  <2> QED
    BY <1>1, <1>2, <2>1, QuietServes
<1> QED
  BY <1>4, <1>5, <1>6, <1>7, <1>8, <1>9, <1>10, <1>11 DEF Next

LEMMA InitServes ==
    ASSUME Init
    PROVE  LInv
<1>1. /\ store = EmptyStore /\ \A t \in TickSlots : ticks[t] = IdleTick
      /\ \A r \in RunSlots : runs[r] = FreeRun
  BY DEF Init, SchedulerInit
<1>2. \A j \in Jobs : Status(store, j) = "new"
  BY <1>1 DEF EmptyStore, MissingJob, Status
<1>3. AtWork(store) = {}
  BY <1>2, WorkingJobs
<1>4. AllPending(ticks) = {}
  BY <1>1, IdleIsNotPending DEF AllPending
<1>5. Cardinality(AtWork(store) \cup AllPending(ticks)) <= MaxConcurrent
  <2>1. AtWork(store) \cup AllPending(ticks) = {}
    BY <1>3, <1>4
  <2> QED
    BY <2>1, SchedulerAssumption, FS_EmptySet
<1>6. Apart(store, AllPending(ticks))
  BY <1>3, <1>4, <1>5 DEF Apart
<1>7. LocalInv
  BY <1>1 DEF LocalInv, FreeRun, LoopPcs
<1> QED
  BY <1>6, <1>7, InitGood DEF LInv

-----------------------------------------------------------------------------
(* The lock table.                                                            *)

HeldBy(s) == {<<j, s.job[j].lock>> : j \in Holding(s)}

\* Every job at work holds its lock.
LEMMA HoldingIsWork ==
    ASSUME NEW s, NEW js, Apart(s, js)
    PROVE  Holding(s) = AtWork(s)
BY LocksAssumption DEF Holding, AtWork, Apart

\* A calm step gives locks back, or does nothing to them.
LEMMA CalmReleases ==
    ASSUME NEW s, NEW s2, NEW js, NEW js2, Apart(s, js), Apart(s2, js2), Calm(s, s2)
    PROVE  \/ HeldBy(s2) = HeldBy(s)
           \/ \E given \in SUBSET HeldBy(s) : given # {} /\ HeldBy(s2) = HeldBy(s) \ given
<1>1. Holding(s) = AtWork(s) /\ Holding(s2) = AtWork(s2)
  BY HoldingIsWork
<1>2. ASSUME NEW j \in AtWork(s2) PROVE j \in AtWork(s) /\ s2.job[j].lock = s.job[j].lock
  <2>1. j \in AtWork(s) /\ j \in Jobs
    BY WorkingJobs DEF Calm
  <2>2. Status(s, j) \in {"running", "approval"} /\ Status(s2, j) \in {"running", "approval"}
    BY <2>1, WorkingJobs
  <2> QED
    BY <2>1, <2>2 DEF Calm, Quiet, KeepsLock, ClaimsLock
<1>3. HeldBy(s2) \subseteq HeldBy(s)
  BY <1>1, <1>2 DEF HeldBy
<1>4. CASE HeldBy(s2) # HeldBy(s)
  <2>1. /\ HeldBy(s) \ HeldBy(s2) \in SUBSET HeldBy(s) /\ HeldBy(s) \ HeldBy(s2) # {}
        /\ HeldBy(s2) = HeldBy(s) \ (HeldBy(s) \ HeldBy(s2))
    BY <1>3, <1>4
  <2> QED
    BY <2>1
<1> QED
  BY <1>4

\* A start takes a lock that clashes with none in use.
LEMMA GrantedTakes ==
    ASSUME NEW s, NEW s2, NEW js, NEW js2, Apart(s, js), Apart(s2, js2),
           NEW j \in Jobs, Granted(s, s2, j)
    PROVE  \E l \in Locks : /\ \A g \in HeldBy(s) : g[1] # j /\ <<l, g[2]>> \notin Clash
                            /\ HeldBy(s2) = HeldBy(s) \cup {<<j, l>>}
<1> DEFINE l == s.job[j].lock
<1>1. Holding(s) = AtWork(s) /\ Holding(s2) = AtWork(s2)
  BY HoldingIsWork
<1>2. AtWork(s2) = AtWork(s) \cup {j} /\ j \notin AtWork(s)
  BY WorkingJobs DEF Granted, Status
<1>3. \A k \in AtWork(s) : s2.job[k].lock = s.job[k].lock
  BY <1>2, WorkingJobs DEF Granted
<1>4. s2.job[j].lock = l /\ l \in Locks
  BY DEF Granted
<1>5. HeldBy(s2) = HeldBy(s) \cup {<<j, l>>}
  <2> HIDE DEF l
  <2> QED
    BY <1>1, <1>2, <1>3, <1>4 DEF HeldBy
<1>6. \A g \in HeldBy(s) : g[1] # j /\ <<l, g[2]>> \notin Clash
  BY <1>1, <1>2 DEF HeldBy, Granted, LocksClash
<1> QED
  BY <1>4, <1>5, <1>6

-----------------------------------------------------------------------------
(* The theorems.                                                              *)

LEMMA LInvHolds == Spec /\ [][TicksTakeTurns /\ FromTheQueue]_vars => []LInv
<1>1. Init => LInv
  BY InitServes
<1>2. LInv /\ [Next]_vars /\ [TicksTakeTurns /\ FromTheQueue]_vars => LInv'
  BY NextServes DEF Serves
<1> QED
  BY <1>1, <1>2, PTL DEF Spec

\* As long as ticks take turns and only queued jobs with a lock go to work, jobs
\* at work hold page locks, no two of which cover the same tab, site or url,
\* whatever the human, the runs and the other ticks do meanwhile
\* (browserJobSchedulerState).
THEOREM PageLocksHold ==
    Spec /\ [][TicksTakeTurns /\ FromTheQueue]_vars => []PageLocksSerialize
<1>1. LInv => PageLocksSerialize
  <2> SUFFICES ASSUME Apart(store, AllPending(ticks)), NEW j \in Jobs, Working(j)
               PROVE  /\ store.job[j].lock # None
                      /\ \A k \in Jobs \ {j} :
                            Working(k) => ~LocksClash(store.job[j].lock, store.job[k].lock)
    BY DEF PageLocksSerialize, LInv
  <2> QED
    BY WorkingJobs, LocksAssumption DEF Apart, Working
<1> QED
  BY <1>1, LInvHolds, PTL

\* Under the same conditions never more jobs are at work than the scheduler may
\* run at once (browserJobSchedulerState, the check of tick()).
THEOREM CapacityHolds ==
    Spec /\ [][TicksTakeTurns /\ FromTheQueue]_vars => []WithinCapacity
<1>1. LInv => WithinCapacity
  <2>1. AtWork(store) = {j \in Jobs : Working(j)}
    BY DEF AtWork, WithStatus, Working
  <2>2. LInv => Apart(store, {})
    BY ApartFewer DEF LInv
  <2> QED
    BY <2>1, <2>2 DEF Apart, WithinCapacity
<1> QED
  BY <1>1, LInvHolds, PTL

\* Under the same conditions the locks of the jobs at work are those of a lock
\* table: they are granted one at a time, never against one in use, stay as
\* they are, and are given back (the refinement of PageLockTable).
THEOREM LocksAreATable ==
    Spec /\ [][TicksTakeTurns /\ FromTheQueue]_vars => LockTableSpec
<1>1. Init => LockTable!Init
  <2>1. Init => Holding(store) = {}
    BY DEF Init, SchedulerInit, EmptyStore, MissingJob, Holding, WithStatus, Status
  <2> QED
    BY <2>1 DEF LockTable!Init
<1>2. LInv /\ [Next]_vars /\ [TicksTakeTurns /\ FromTheQueue]_vars
        => [LockTable!Next]_(HeldBy(store))
  <2> SUFFICES ASSUME LInv, [Next]_vars, [TicksTakeTurns /\ FromTheQueue]_vars
               PROVE  LockTable!Next \/ HeldBy(store') = HeldBy(store)
    BY DEF HeldBy
  <2>1. Serves /\ Apart(store, AllPending(ticks)) /\ Apart(store', AllPending(ticks'))
    BY NextServes DEF Serves, LInv
  <2>2. CASE Calm(store, store')
    BY <2>1, <2>2, CalmReleases DEF LockTable!Next, LockTable!Release, HeldBy
  <2>3. ASSUME NEW j \in Jobs, Granted(store, store', j) PROVE LockTable!Next
    BY <2>1, <2>3, GrantedTakes DEF LockTable!Next, LockTable!Grant, HeldBy
  <2> QED
    BY <2>1, <2>2, <2>3 DEF Serves
<1> QED
  BY <1>1, <1>2, LInvHolds, PTL DEF Spec, LockTableSpec, LockTable!Spec, HeldBy
=============================================================================
