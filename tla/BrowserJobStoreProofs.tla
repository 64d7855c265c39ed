------------------------ MODULE BrowserJobStoreProofs ------------------------
(***************************************************************************)
(* Lemmas about the operations of BrowserJobStore, for any set of jobs and *)
(* locks and any clash relation: each of them maps a store to a store,     *)
(* keeps StoreConsistent, and keeps the human's stops.                     *)
(***************************************************************************)
EXTENDS BrowserJobStore, FiniteSetTheorems, TLAPS

\* A store as the lemmas assume and conclude it.
GoodStore(s) == s \in Store /\ StoreConsistent(s)

-----------------------------------------------------------------------------
(* The helpers.                                                               *)

\* First returns one of the jobs it is given, or none.
LEMMA FirstIsMember ==
    ASSUME NEW s, NEW js
    PROVE  First(s, js) \in js \cup {None}
BY DEF First

\* normalizeBrowserJob yields a record that holds no lock and waits for no
\* approval unless its status allows it.
LEMMA NormalizeSettles ==
    ASSUME NEW r \in JobRecord
    PROVE  /\ Normalize(r) \in JobRecord
           /\ Normalize(r).status = r.status
           /\ Normalize(r).lock # None => r.status \in LockHolding
           /\ Normalize(r).approval => r.status = "approval"
BY DEF Normalize, JobRecord

\* The patch of a job of the list is a normalized record of a job of the list.
LEMMA PatchedJobSettles ==
    ASSUME NEW s \in Store, NEW j \in InStore(s), NEW p \in Patches
    PROVE  LET new == PatchedJob(s, j, p)
           IN  /\ new \in JobRecord
               /\ new.status \in Present
               /\ new.lock # None => new.status \in LockHolding
               /\ new.approval => new.status = "approval"
<1> DEFINE old == s.job[j]
           st  == IF p.status = "same" \/ KeepsHumanStop(s, j, p) THEN old.status ELSE p.status
           r   == [status   |-> st,
                   lock     |-> IF p.lock = "same" THEN old.lock ELSE p.lock,
                   approval |-> p.approval = "set" \/ (p.approval = "same" /\ old.approval)]
<1>1. old \in JobRecord /\ old.status \in Present
  BY DEF Store, InStore, Status
<1>2. p.status \in Present \cup {"same"} /\ p.lock \in Locks \cup {None, "same"}
  BY DEF Patches
<1>3. r.status \in Present /\ r.lock \in Locks \cup {None} /\ r.approval \in BOOLEAN
  BY <1>1, <1>2 DEF JobRecord
<1>4. r \in JobRecord
  BY <1>3 DEF JobRecord
<1>5. PatchedJob(s, j, p) = Normalize(r)
  BY DEF PatchedJob
<1> QED
  BY <1>3, <1>4, <1>5, NormalizeSettles

-----------------------------------------------------------------------------
(* Sorting.                                                                   *)

\* Moving one job to the front leaves the order of the others and stays total.
LEMMA TouchSorts ==
    ASSUME NEW s \in Store, NEW j \in Jobs, ListSorted(s),
           NEW s2 \in Store, s2.newer = Touch(s.newer, j),
           InStore(s2) \subseteq InStore(s) \cup {j}
    PROVE  ListSorted(s2)
<1>1. \A k, m \in Jobs : Newer(s2, k, m) <=>
          \/ k = j /\ m # j
          \/ k # j /\ m # j /\ Newer(s, k, m)
  BY DEF Newer, Touch
<1>2. InStore(s2) \subseteq Jobs /\ InStore(s) \subseteq Jobs
  BY DEF InStore
<1> QED
  BY <1>1, <1>2 DEF ListSorted

\* A list that only loses jobs stays sorted.
LEMMA CutSorts ==
    ASSUME NEW s \in Store, ListSorted(s),
           NEW s2 \in Store, s2.newer = s.newer, InStore(s2) \subseteq InStore(s)
    PROVE  ListSorted(s2)
BY DEF ListSorted, Newer

\* Touch orders jobs.
LEMMA TouchType ==
    ASSUME NEW newer \in SUBSET (Jobs \X Jobs), NEW j \in Jobs
    PROVE  Touch(newer, j) \in SUBSET (Jobs \X Jobs)
BY DEF Touch

-----------------------------------------------------------------------------
(* Every operation maps a good store to a good store.                         *)

\* A session starts with a good store.
LEMMA EmptyStoreGood == GoodStore(EmptyStore)
<1>1. \A j \in Jobs : EmptyStore.job[j] = MissingJob("new")
  BY DEF EmptyStore
<1>2. MissingJob("new") \in JobRecord
  BY DEF MissingJob, JobRecord, Missing
<1>3. EmptyStore \in Store
  BY <1>2 DEF EmptyStore, Store
<1>4. InStore(EmptyStore) = {}
  BY <1>1 DEF InStore, Status, MissingJob, Present, Active, Terminal
<1>5. LocksReleased(EmptyStore) /\ ApprovalsAwaited(EmptyStore)
  BY <1>1 DEF LocksReleased, ApprovalsAwaited, MissingJob
<1>6. FocusInStore(EmptyStore)
  BY DEF FocusInStore, EmptyStore
<1>7. ListSorted(EmptyStore)
  BY <1>4 DEF ListSorted
<1> QED
  BY <1>3, <1>5, <1>6, <1>7 DEF GoodStore, StoreConsistent

\* updateJob.
LEMMA UpdateJobGood ==
    ASSUME NEW s, GoodStore(s), NEW j, NEW p \in Patches
    PROVE  GoodStore(UpdateJob(s, j, p))
<1>1. CASE j \notin InStore(s) \/ UpdateThrows(s, j, p)
  BY <1>1 DEF UpdateJob
<1>2. CASE j \in InStore(s) /\ ~UpdateThrows(s, j, p)
  <2> DEFINE new == PatchedJob(s, j, p)
             s2  == UpdateJob(s, j, p)
  <2>1. s \in Store /\ StoreConsistent(s)
    BY DEF GoodStore
  <2>2. j \in Jobs
    BY <1>2 DEF InStore
  <2>3. /\ new \in JobRecord /\ new.status \in Present
        /\ new.lock # None => new.status \in LockHolding
        /\ new.approval => new.status = "approval"
    BY <1>2, <2>1, PatchedJobSettles
  <2>4. s2 = [job   |-> [s.job EXCEPT ![j] = new],
              newer |-> Touch(s.newer, j),
              focus |-> HandedFocus(s, j, new.status)]
    BY <1>2 DEF UpdateJob
  <2> HIDE DEF new, s2
  <2>5. HandedFocus(s, j, new.status) \in {s.focus} \cup (WithStatus(s, Active) \ {j})
    <3>1. FirstActive(s, Jobs \ {j}) \in (WithStatus(s, Active) \ {j}) \cup {None}
      BY FirstIsMember DEF FirstActive, WithStatus
    <3> QED
      BY <3>1 DEF HandedFocus
  <2>6. WithStatus(s, Active) \subseteq InStore(s)
    BY DEF WithStatus, InStore, Present
  <2>7. s2 \in Store
    <3>1. s2.job \in [Jobs -> JobRecord]
      BY <2>1, <2>2, <2>3, <2>4 DEF Store
    <3>2. s2.newer \in SUBSET (Jobs \X Jobs)
      BY <2>1, <2>2, <2>4, TouchType DEF Store
    <3>3. s2.focus \in Jobs \cup {None}
      BY <2>1, <2>4, <2>5 DEF Store, WithStatus
    <3> QED
      BY <2>4, <3>1, <3>2, <3>3 DEF Store
  <2>8. \A k \in Jobs : s2.job[k] = IF k = j THEN new ELSE s.job[k]
    BY <2>1, <2>2, <2>4 DEF Store
  <2>9. InStore(s2) = InStore(s)
    BY <1>2, <2>2, <2>3, <2>8 DEF InStore, Status
  <2>10. LocksReleased(s2) /\ ApprovalsAwaited(s2)
    BY <2>1, <2>3, <2>8 DEF StoreConsistent, LocksReleased, ApprovalsAwaited, Status
  <2>11. FocusInStore(s2)
    BY <2>1, <2>4, <2>5, <2>6, <2>9 DEF StoreConsistent, FocusInStore
  <2>12. ListSorted(s2)
    BY <2>1, <2>2, <2>4, <2>7, <2>9, TouchSorts DEF StoreConsistent
  <2> QED
    BY <2>7, <2>10, <2>11, <2>12 DEF GoodStore, StoreConsistent, s2
<1> QED
  BY <1>1, <1>2

\* compact leaves the jobs it keeps as they are, and no focus on a job it cuts.
LEMMA CompactKeeps ==
    ASSUME NEW s \in Store
    PROVE  /\ Compact(s) \in Store
           /\ Compact(s).newer = s.newer
           /\ Compact(s).focus # None => Compact(s).focus = s.focus
           /\ \A j \in Jobs : \/ Compact(s).job[j] = s.job[j] /\ (Compact(s).focus = j \/ s.focus # j)
                              \/ /\ Compact(s).job[j] = MissingJob("gone") /\ Compact(s).focus # j
                                 /\ j \in InStore(s)
<1> DEFINE newerThan(j) == {k \in InStore(s) : Newer(s, k, j)}
           cut == {j \in InStore(s) : Cardinality(newerThan(j)) >= MaxJobs}
<1> HIDE DEF newerThan
<1>1. Compact(s) = [s EXCEPT !.job   = [j \in Jobs |-> IF j \in cut THEN MissingJob("gone")
                                                                    ELSE s.job[j]],
                             !.focus = IF s.focus \in cut THEN None ELSE s.focus]
  BY DEF Compact, newerThan
<1>2. cut \subseteq Jobs /\ cut \subseteq InStore(s)
  BY DEF InStore
<1> HIDE DEF cut
<1>3. MissingJob("gone") \in JobRecord
  BY DEF MissingJob, JobRecord, Missing
<1>4. /\ s = [job |-> s.job, newer |-> s.newer, focus |-> s.focus]
      /\ s.job \in [Jobs -> JobRecord] /\ s.newer \in SUBSET (Jobs \X Jobs)
      /\ s.focus \in Jobs \cup {None}
  BY DEF Store
<1>5. /\ Compact(s).job = [j \in Jobs |-> IF j \in cut THEN MissingJob("gone") ELSE s.job[j]]
      /\ Compact(s).newer = s.newer
      /\ Compact(s).focus = IF s.focus \in cut THEN None ELSE s.focus
      /\ Compact(s) = [job |-> Compact(s).job, newer |-> s.newer, focus |-> Compact(s).focus]
  BY <1>1, <1>4
<1>6. Compact(s) \in Store
  BY <1>3, <1>4, <1>5 DEF Store
<1>7. \A j \in Jobs : Compact(s).job[j] = IF j \in cut THEN MissingJob("gone") ELSE s.job[j]
  BY <1>5
<1>8. \A j \in Jobs : j # None
  BY JobsAssumption
<1> QED
  BY <1>2, <1>5, <1>6, <1>7, <1>8

\* createJob.
LEMMA CreateJobGood ==
    ASSUME NEW s, GoodStore(s), NEW j \in Jobs, NEW l \in Locks
    PROVE  GoodStore(CreateJob(s, j, l))
<1> DEFINE new == [status |-> "queued", lock |-> l, approval |-> FALSE]
           s1  == [s EXCEPT !.job[j] = new, !.newer = Touch(s.newer, j)]
           s2  == CreateJob(s, j, l)
<1>1. s \in Store /\ StoreConsistent(s)
  BY DEF GoodStore
<1>2. s2 = Compact(s1)
  BY DEF CreateJob
<1>3. new \in JobRecord
  BY DEF JobRecord, Present, Active
<1>4. /\ s1 \in Store
      /\ s1.newer = Touch(s.newer, j)
      /\ s1.focus = s.focus
      /\ \A k \in Jobs : s1.job[k] = IF k = j THEN new ELSE s.job[k]
  BY <1>1, <1>3, TouchType DEF Store
<1> HIDE DEF s1, s2
<1>5. InStore(s1) = InStore(s) \cup {j}
  BY <1>4 DEF InStore, Status, Present, Active
<1>6. ListSorted(s1)
  BY <1>1, <1>4, <1>5, TouchSorts DEF StoreConsistent
<1>7. /\ s2 \in Store
      /\ s2.newer = s1.newer
      /\ s2.focus # None => s2.focus = s1.focus
      /\ \A k \in Jobs : \/ s2.job[k] = s1.job[k] /\ (s2.focus = k \/ s1.focus # k)
                         \/ s2.job[k] = MissingJob("gone") /\ s2.focus # k
  BY <1>2, <1>4, CompactKeeps
<1>8. MissingJob("gone").status \notin Present /\ MissingJob("gone").lock = None
        /\ MissingJob("gone").approval = FALSE
  BY DEF MissingJob, Present, Active, Terminal
<1>9. InStore(s2) \subseteq InStore(s1)
  BY <1>7, <1>8 DEF InStore, Status
<1>10. ListSorted(s2)
  BY <1>4, <1>6, <1>7, <1>9, CutSorts
<1>11. LocksReleased(s2) /\ ApprovalsAwaited(s2)
  BY <1>1, <1>4, <1>7, <1>8
  DEF StoreConsistent, LocksReleased, ApprovalsAwaited, Status, LockHolding
<1>12. FocusInStore(s2)
  <2>1. CASE s2.focus = None
    BY <2>1 DEF FocusInStore
  <2>2. CASE s2.focus # None
    <3>1. s2.focus = s.focus /\ s2.focus \in InStore(s1)
      BY <1>1, <1>4, <1>5, <1>7, <2>2 DEF StoreConsistent, FocusInStore
    <3>2. s2.focus \in Jobs /\ s2.job[s2.focus] = s1.job[s2.focus]
      BY <1>7, <3>1 DEF InStore
    <3> QED
      BY <3>1, <3>2 DEF FocusInStore, InStore, Status
  <2> QED
    BY <2>1, <2>2
<1> QED
  BY <1>7, <1>10, <1>11, <1>12 DEF GoodStore, StoreConsistent, s2

\* activateJob.
LEMMA ActivateJobGood ==
    ASSUME NEW s, GoodStore(s), NEW j
    PROVE  GoodStore(ActivateJob(s, j))
<1> DEFINE s2 == ActivateJob(s, j)
<1>1. s \in Store /\ StoreConsistent(s)
  BY DEF GoodStore
<1>2. InStore(s) \subseteq Jobs
  BY DEF InStore
<1>3. /\ s2 \in Store /\ s2.job = s.job /\ s2.newer = s.newer
      /\ s2.focus = IF j \in InStore(s) THEN j ELSE None
  BY <1>1, <1>2 DEF ActivateJob, Store
<1> HIDE DEF s2
<1>4. InStore(s2) = InStore(s)
  BY <1>3 DEF InStore, Status
<1>5. LocksReleased(s2) /\ ApprovalsAwaited(s2)
  BY <1>1, <1>3 DEF StoreConsistent, LocksReleased, ApprovalsAwaited, Status
<1>6. FocusInStore(s2)
  BY <1>3, <1>4 DEF FocusInStore
<1>7. ListSorted(s2)
  BY <1>1, <1>3, <1>4, CutSorts DEF StoreConsistent
<1> QED
  BY <1>3, <1>5, <1>6, <1>7 DEF GoodStore, StoreConsistent, s2

\* clearCompletedJobs.
LEMMA ClearCompletedJobsGood ==
    ASSUME NEW s, GoodStore(s)
    PROVE  GoodStore(ClearCompletedJobs(s))
<1> DEFINE cleared == WithStatus(s, Clearable) \ {s.focus}
           s2 == ClearCompletedJobs(s)
<1>1. s \in Store /\ StoreConsistent(s)
  BY DEF GoodStore
<1>2. MissingJob("gone") \in JobRecord /\ MissingJob("gone").status \notin Present
        /\ MissingJob("gone").lock = None /\ MissingJob("gone").approval = FALSE
  BY DEF MissingJob, JobRecord, Missing, Present, Active, Terminal
<1>3. /\ s2 \in Store /\ s2.newer = s.newer /\ s2.focus = s.focus
      /\ \A k \in Jobs : s2.job[k] = IF k \in cleared THEN MissingJob("gone") ELSE s.job[k]
  BY <1>1, <1>2 DEF ClearCompletedJobs, Store
<1> HIDE DEF s2
<1>4. InStore(s2) = InStore(s) \ cleared
  BY <1>2, <1>3 DEF InStore, Status
<1>5. LocksReleased(s2) /\ ApprovalsAwaited(s2)
  BY <1>1, <1>2, <1>3 DEF StoreConsistent, LocksReleased, ApprovalsAwaited, Status
<1>6. FocusInStore(s2)
  BY <1>1, <1>3, <1>4 DEF StoreConsistent, FocusInStore
<1>7. ListSorted(s2)
  BY <1>1, <1>3, <1>4, CutSorts DEF StoreConsistent
<1> QED
  BY <1>3, <1>5, <1>6, <1>7 DEF GoodStore, StoreConsistent, s2

\* recoverInterruptedJobs: recovered jobs are sorted before the others.
LEMMA RecoverJobsGood ==
    ASSUME NEW s, GoodStore(s)
    PROVE  GoodStore(RecoverJobs(s))
<1> DEFINE cut == WithStatus(s, {"running", "approval"})
           rec(j) == Normalize([s.job[j] EXCEPT !.status = "paused"])
           s2  == RecoverJobs(s)
<1>1. s \in Store /\ StoreConsistent(s)
  BY DEF GoodStore
<1>2. \A j \in Jobs : /\ rec(j) \in JobRecord /\ rec(j).status = "paused"
                      /\ rec(j).lock = None /\ rec(j).approval = FALSE
  <2> SUFFICES ASSUME NEW j \in Jobs
               PROVE  /\ rec(j) \in JobRecord /\ rec(j).status = "paused"
                      /\ rec(j).lock = None /\ rec(j).approval = FALSE
    OBVIOUS
  <2> DEFINE r == [s.job[j] EXCEPT !.status = "paused"]
  <2>1. r \in JobRecord /\ r.status = "paused"
    BY <1>1 DEF Store, JobRecord, Present, Active
  <2> HIDE DEF r
  <2>2. /\ Normalize(r) \in JobRecord /\ Normalize(r).status = "paused"
        /\ Normalize(r).lock = None /\ ~Normalize(r).approval
    BY <2>1, NormalizeSettles DEF LockHolding
  <2> QED
    BY <2>2 DEF r, JobRecord
<1> HIDE DEF rec
<1>3. cut \subseteq Jobs /\ cut \subseteq InStore(s)
  BY DEF WithStatus, InStore, Present, Active
<1>4. /\ s2 = [job   |-> s2.job, newer |-> s2.newer, focus |-> s2.focus]
      /\ s2.job = [j \in Jobs |-> IF j \in cut THEN rec(j) ELSE s.job[j]]
      /\ s2.newer = {p \in s.newer : p[1] \in cut \/ p[2] \notin cut} \cup (cut \X (Jobs \ cut))
      /\ s2.focus = IF s.focus \in WithStatus(s, Active) THEN s.focus ELSE FirstActive(s, Jobs)
  BY DEF RecoverJobs, rec
<1> HIDE DEF s2
<1>5. s2.focus \in WithStatus(s, Active) \cup {None}
  <2>1. FirstActive(s, Jobs) \in WithStatus(s, Active) \cup {None}
    BY FirstIsMember DEF FirstActive
  <2> QED
    BY <1>4, <2>1
<1>6. s2 \in Store
  <2>1. s2.job \in [Jobs -> JobRecord]
    BY <1>1, <1>2, <1>4 DEF Store
  <2>2. s2.newer \in SUBSET (Jobs \X Jobs)
    BY <1>1, <1>3, <1>4 DEF Store
  <2>3. s2.focus \in Jobs \cup {None}
    BY <1>5 DEF WithStatus
  <2> QED
    BY <1>4, <2>1, <2>2, <2>3 DEF Store
<1>7. \A j \in Jobs : s2.job[j] = IF j \in cut THEN rec(j) ELSE s.job[j]
  BY <1>4
<1> HIDE DEF cut
<1>8. InStore(s2) = InStore(s)
  BY <1>2, <1>3, <1>7 DEF InStore, Status, Present, Active
<1>9. LocksReleased(s2) /\ ApprovalsAwaited(s2)
  BY <1>1, <1>2, <1>7 DEF StoreConsistent, LocksReleased, ApprovalsAwaited, Status
<1>10. FocusInStore(s2)
  BY <1>5, <1>8 DEF FocusInStore, WithStatus, InStore, Present
<1>11. ListSorted(s2)
  <2>1. \A j, k \in Jobs : Newer(s2, j, k) <=>
            \/ Newer(s, j, k) /\ (j \in cut \/ k \notin cut)
            \/ j \in cut /\ k \notin cut
    BY <1>3, <1>4 DEF Newer
  <2>2. InStore(s) \subseteq Jobs
    BY DEF InStore
  <2> QED
    BY <1>1, <1>8, <2>1, <2>2 DEF StoreConsistent, ListSorted
<1> QED
  BY <1>6, <1>9, <1>10, <1>11 DEF GoodStore, StoreConsistent, s2

-----------------------------------------------------------------------------
(* Every operation keeps the human's stops, but for an overriding patch.      *)

\* Of the jobs js, those not created yet stay so, and those a human stopped
\* stay stopped or leave the list for good.
KeepsStops(s, s2, js) ==
    \A j \in js :
        /\ Status(s, j) = "new" => Status(s2, j) = "new"
        /\ Status(s, j) \in HumanStops \cup {"gone"} => Status(s2, j) \in HumanStops \cup {"gone"}

LEMMA KeepsStopsTransitive ==
    ASSUME NEW s1, NEW s2, NEW s3, NEW js, KeepsStops(s1, s2, js), KeepsStops(s2, s3, js)
    PROVE  KeepsStops(s1, s3, js)
BY DEF KeepsStops

\* updateJob without allowHumanStopOverride.
LEMMA UpdateJobKeepsStops ==
    ASSUME NEW s \in Store, NEW j, NEW p \in Patches
    PROVE  /\ KeepsStops(s, UpdateJob(s, j, p), Jobs \ {j})
           /\ ~p.override => KeepsStops(s, UpdateJob(s, j, p), Jobs)
<1> DEFINE new == PatchedJob(s, j, p)
           s2  == UpdateJob(s, j, p)
<1>1. CASE j \notin InStore(s) \/ UpdateThrows(s, j, p)
  BY <1>1 DEF UpdateJob, KeepsStops
<1>2. CASE j \in InStore(s) /\ ~UpdateThrows(s, j, p)
  <2>1. \A k \in Jobs : s2.job[k] = IF k = j THEN new ELSE s.job[k]
    BY <1>2 DEF UpdateJob, Store
  <2>2. new.status = IF p.status = "same" \/ KeepsHumanStop(s, j, p)
                     THEN s.job[j].status ELSE p.status
    BY DEF PatchedJob, Normalize
  <2>3. j \in Jobs /\ Status(s, j) \in Present
    BY <1>2 DEF InStore
  <2> HIDE DEF new, s2
  <2>4. KeepsStops(s, s2, Jobs \ {j})
    BY <2>1 DEF KeepsStops, Status
  <2>5. ASSUME ~p.override PROVE KeepsStops(s, s2, {j})
    BY <2>1, <2>2, <2>3, <2>5
    DEF KeepsStops, Status, KeepsHumanStop, HumanStops, Present, Active, Terminal
  <2> QED
    BY <2>4, <2>5 DEF KeepsStops, s2
<1> QED
  BY <1>1, <1>2

\* createJob, of every other job.
LEMMA CreateJobKeepsStops ==
    ASSUME NEW s \in Store, NEW j \in Jobs, NEW l \in Locks
    PROVE  KeepsStops(s, CreateJob(s, j, l), Jobs \ {j})
<1> DEFINE new == [status |-> "queued", lock |-> l, approval |-> FALSE]
           s1  == [s EXCEPT !.job[j] = new, !.newer = Touch(s.newer, j)]
<1>1. CreateJob(s, j, l) = Compact(s1)
  BY DEF CreateJob
<1>2. s1 \in Store /\ \A k \in Jobs \ {j} : s1.job[k] = s.job[k]
  BY TouchType DEF Store, JobRecord, Present, Active
<1> HIDE DEF s1
<1>3. \A k \in Jobs : \/ Compact(s1).job[k] = s1.job[k]
                      \/ Compact(s1).job[k] = MissingJob("gone") /\ Status(s1, k) \in Present
  BY <1>2, CompactKeeps DEF InStore
<1> QED
  BY <1>1, <1>2, <1>3
  DEF KeepsStops, Status, MissingJob, Present, Active, Terminal

\* activateJob.
LEMMA ActivateJobKeepsStops ==
    ASSUME NEW s \in Store, NEW j
    PROVE  KeepsStops(s, ActivateJob(s, j), Jobs)
BY DEF ActivateJob, Store, KeepsStops, Status

\* clearCompletedJobs.
LEMMA ClearCompletedJobsKeepsStops ==
    ASSUME NEW s \in Store
    PROVE  KeepsStops(s, ClearCompletedJobs(s), Jobs)
<1>1. \A j \in Jobs : \/ Status(ClearCompletedJobs(s), j) = Status(s, j)
                      \/ /\ Status(ClearCompletedJobs(s), j) = "gone"
                         /\ Status(s, j) \in Clearable
  BY DEF ClearCompletedJobs, Store, Status, WithStatus, MissingJob
<1> QED
  BY <1>1 DEF KeepsStops, Clearable

\* recoverInterruptedJobs.
LEMMA RecoverJobsKeepsStops ==
    ASSUME NEW s \in Store
    PROVE  KeepsStops(s, RecoverJobs(s), Jobs)
<1>1. \A j \in Jobs : \/ Status(RecoverJobs(s), j) = Status(s, j)
                      \/ Status(s, j) \in {"running", "approval"}
  BY DEF RecoverJobs, Status, WithStatus
<1> QED
  BY <1>1 DEF KeepsStops, HumanStops

-----------------------------------------------------------------------------
(* What the operations write, job by job.                                     *)

\* No job is newer than itself.
Irreflexive(s) == \A j \in Jobs : ~Newer(s, j, j)

\* What every operation but the recovery keeps: whether there is a focus at
\* all, and a job not being newer than itself.
KeepsFrame(s, s2) ==
    /\ s2.focus = None <=> s.focus = None
    /\ Irreflexive(s) => Irreflexive(s2)

\* The status left by writing st over found, human stops being preserved.
StatusAfter(found, st) == IF found \in HumanStops /\ st \notin HumanStops THEN found ELSE st

\* Only the job j changes, and a lock-holding status leaves it the lock it had.
WritesStatus(s, s2, j, st) ==
    /\ KeepsFrame(s, s2)
    /\ \A k \in Jobs \ {j} : s2.job[k] = s.job[k]
    /\ Status(s2, j) = IF j \in InStore(s) THEN StatusAfter(Status(s, j), st) ELSE Status(s, j)
    /\ Status(s2, j) \in LockHolding => s2.job[j].lock = s.job[j].lock

\* updateJob, with any patch that does not override a human stop.
LEMMA UpdateJobWrites ==
    ASSUME NEW s \in Store, NEW j \in Jobs, NEW p \in Patches, ~p.override
    PROVE  LET s2 == UpdateJob(s, j, p)
           IN  /\ KeepsFrame(s, s2)
               /\ \A k \in Jobs \ {j} : s2.job[k] = s.job[k]
               /\ \/ s2 = s /\ (j \notin InStore(s) \/ p.lock \in Locks)
                  \/ /\ j \in InStore(s)
                     /\ Status(s2, j) = IF p.status = "same" THEN Status(s, j)
                                        ELSE StatusAfter(Status(s, j), p.status)
                     /\ p.lock = "same" /\ Status(s2, j) \in LockHolding
                            => s2.job[j].lock = s.job[j].lock
<1> DEFINE s2  == UpdateJob(s, j, p)
           new == PatchedJob(s, j, p)
<1>1. CASE j \notin InStore(s) \/ UpdateThrows(s, j, p)
  BY <1>1 DEF UpdateJob, UpdateThrows, KeepsFrame
<1>2. CASE j \in InStore(s) /\ ~UpdateThrows(s, j, p)
  <2>1. s2 = [job   |-> [s.job EXCEPT ![j] = new],
              newer |-> Touch(s.newer, j),
              focus |-> HandedFocus(s, j, new.status)]
    BY <1>2 DEF UpdateJob
  <2>2. new.status = IF p.status = "same" \/ KeepsHumanStop(s, j, p)
                     THEN Status(s, j) ELSE p.status
    BY DEF PatchedJob, Normalize, Status
  <2>3. p.lock = "same" /\ new.status \in LockHolding => new.lock = s.job[j].lock
    BY DEF PatchedJob, Normalize
  <2> HIDE DEF new, s2
  <2>4. \A k \in Jobs : s2.job[k] = IF k = j THEN new ELSE s.job[k]
    BY <2>1 DEF Store
  <2>5. s2.focus = None <=> s.focus = None
    BY <2>1, JobsAssumption DEF HandedFocus
  <2>6. Irreflexive(s) => Irreflexive(s2)
    BY <2>1 DEF Irreflexive, Newer, Touch
  <2>7. Status(s2, j) = IF p.status = "same" THEN Status(s, j)
                        ELSE StatusAfter(Status(s, j), p.status)
    BY <2>2, <2>4 DEF Status, StatusAfter, KeepsHumanStop
  <2> QED
    BY <1>2, <2>3, <2>4, <2>5, <2>6, <2>7 DEF KeepsFrame, Status, s2
<1> QED
  BY <1>1, <1>2

\* updateJob with nothing but a status.
LEMMA StatusPatchWrites ==
    ASSUME NEW s \in Store, NEW j \in Jobs, NEW p \in Patches, ~p.override,
           p.lock = "same", p.status \in Present
    PROVE  WritesStatus(s, UpdateJob(s, j, p), j, p.status)
<1> DEFINE s2 == UpdateJob(s, j, p)
<1>1. p.status # "same"
  BY DEF Present, Active, Terminal
<1>2. /\ KeepsFrame(s, s2)
      /\ \A k \in Jobs \ {j} : s2.job[k] = s.job[k]
      /\ \/ s2 = s /\ j \notin InStore(s)
         \/ /\ j \in InStore(s) /\ Status(s2, j) = StatusAfter(Status(s, j), p.status)
            /\ Status(s2, j) \in LockHolding => s2.job[j].lock = s.job[j].lock
  BY <1>1, UpdateJobWrites, LocksAssumption
<1> HIDE DEF s2
<1>3. WritesStatus(s, s2, j, p.status)
  BY <1>2 DEF WritesStatus
<1> QED
  BY <1>3 DEF s2

\* compact cuts nothing off a list that cannot be too long.
LEMMA CompactCutsNothing ==
    ASSUME NEW s \in Store, Irreflexive(s), Cardinality(Jobs) <= MaxJobs
    PROVE  Compact(s) = s
<1> DEFINE newerThan(j) == {k \in InStore(s) : Newer(s, k, j)}
           cut == {j \in InStore(s) : Cardinality(newerThan(j)) >= MaxJobs}
<1>1. IsFiniteSet(Jobs) /\ MaxJobs \in Nat
  BY JobsAssumption, MaxJobsAssumption
<1>2. ASSUME NEW j \in InStore(s) PROVE ~(Cardinality(newerThan(j)) >= MaxJobs)
  <2>1. j \in Jobs /\ newerThan(j) \subseteq Jobs \ {j}
    BY DEF InStore, Irreflexive
  <2>2. /\ IsFiniteSet(Jobs \ {j}) /\ Cardinality(Jobs \ {j}) = Cardinality(Jobs) - 1
        /\ Cardinality(Jobs) \in Nat
    BY <1>1, <2>1, FS_RemoveElement, FS_CardinalityType
  <2> HIDE DEF newerThan
  <2>3. Cardinality(newerThan(j)) <= Cardinality(Jobs \ {j}) /\ IsFiniteSet(newerThan(j))
    BY <2>1, <2>2, FS_Subset
  <2>4. Cardinality(newerThan(j)) \in Nat
    BY <2>3, FS_CardinalityType
  <2> QED
    BY <1>1, <2>2, <2>3, <2>4
<1>3. cut = {}
  BY <1>2
<1> HIDE DEF newerThan
<1>4. Compact(s) = [s EXCEPT !.job   = [j \in Jobs |-> IF j \in cut THEN MissingJob("gone")
                                                                    ELSE s.job[j]],
                             !.focus = IF s.focus \in cut THEN None ELSE s.focus]
  BY DEF Compact, newerThan
<1> HIDE DEF cut
<1>5. [j \in Jobs |-> IF j \in cut THEN MissingJob("gone") ELSE s.job[j]] = s.job
  BY <1>3 DEF Store
<1> QED
  BY <1>3, <1>4, <1>5 DEF Store

\* createJob.
LEMMA CreateJobWrites ==
    ASSUME NEW s \in Store, Irreflexive(s), Cardinality(Jobs) <= MaxJobs,
           NEW j \in Jobs, NEW l \in Locks
    PROVE  LET s2 == CreateJob(s, j, l)
           IN  /\ KeepsFrame(s, s2)
               /\ \A k \in Jobs \ {j} : s2.job[k] = s.job[k]
               /\ Status(s2, j) = "queued" /\ s2.job[j].lock = l
<1> DEFINE new == [status |-> "queued", lock |-> l, approval |-> FALSE]
           s1  == [s EXCEPT !.job[j] = new, !.newer = Touch(s.newer, j)]
<1>1. new \in JobRecord
  BY DEF JobRecord, Present, Active
<1>2. s1 \in Store
  BY <1>1, TouchType DEF Store
<1>3. Irreflexive(s1) /\ s1.focus = s.focus
  BY DEF Irreflexive, Newer, Touch, Store
<1>4. \A k \in Jobs : s1.job[k] = IF k = j THEN new ELSE s.job[k]
  BY DEF Store
<1>5. CreateJob(s, j, l) = Compact(s1)
  BY DEF CreateJob
<1> HIDE DEF s1
<1>6. CreateJob(s, j, l) = s1
  BY <1>2, <1>3, <1>5, CompactCutsNothing
<1> QED
  BY <1>3, <1>4, <1>6 DEF KeepsFrame, Status

\* activateJob, of a job of the list.
LEMMA ActivateJobWrites ==
    ASSUME NEW s \in Store, NEW j \in InStore(s)
    PROVE  LET s2 == ActivateJob(s, j)
           IN  s2.job = s.job /\ s2.newer = s.newer /\ s2.focus = j /\ s2.focus # None
BY JobsAssumption DEF ActivateJob, Store, InStore

\* clearCompletedJobs.
LEMMA ClearCompletedJobsWrites ==
    ASSUME NEW s \in Store
    PROVE  LET s2 == ClearCompletedJobs(s)
           IN  /\ KeepsFrame(s, s2)
               /\ \A j \in Jobs : \/ s2.job[j] = s.job[j]
                                  \/ Status(s, j) \in Clearable /\ Status(s2, j) = "gone"
BY DEF ClearCompletedJobs, Store, Status, WithStatus, MissingJob, KeepsFrame, Irreflexive, Newer

\* loadBrowserJobs: nothing is running or waits for an approval.
LEMMA RecoverJobsWrites ==
    ASSUME NEW s \in Store
    PROVE  LET s2 == RecoverJobs(s)
           IN  /\ Irreflexive(s) => Irreflexive(s2)
               /\ \A j \in Jobs :
                     \/ s2.job[j] = s.job[j] /\ Status(s, j) \notin {"running", "approval"}
                     \/ Status(s, j) \in {"running", "approval"} /\ Status(s2, j) = "paused"
<1> DEFINE cut == WithStatus(s, {"running", "approval"})
           s2  == RecoverJobs(s)
<1>1. /\ s2.job = [j \in Jobs |-> IF j \in cut THEN Normalize([s.job[j] EXCEPT !.status = "paused"])
                                  ELSE s.job[j]]
      /\ s2.newer = {p \in s.newer : p[1] \in cut \/ p[2] \notin cut} \cup (cut \X (Jobs \ cut))
  BY DEF RecoverJobs
<1>2. \A j \in Jobs : Normalize([s.job[j] EXCEPT !.status = "paused"]).status = "paused"
  BY DEF Normalize, Store, JobRecord
<1>3. \A j \in Jobs : j \in cut <=> Status(s, j) \in {"running", "approval"}
  BY DEF WithStatus
<1> HIDE DEF cut, s2
<1>4. Irreflexive(s) => Irreflexive(s2)
  BY <1>1 DEF Irreflexive, Newer
<1>5. \A j \in Jobs : \/ s2.job[j] = s.job[j] /\ Status(s, j) \notin {"running", "approval"}
                      \/ Status(s, j) \in {"running", "approval"} /\ Status(s2, j) = "paused"
  BY <1>1, <1>2, <1>3 DEF Status
<1> QED
  BY <1>4, <1>5 DEF s2
=============================================================================
