--------------------------- MODULE BrowserJobStore ---------------------------
(***************************************************************************)
(* The durable store of Agent Control browser jobs                         *)
(* (lib/browser-job-store.js).  The store is one value: every method of    *)
(* the code changes it synchronously, before its first await, so a method  *)
(* is an operator from a store (and arguments) to the next store, and a    *)
(* handler that calls several methods in one turn composes the operators.  *)
(*                                                                         *)
(* Abstracted: goal, steps, summary, artifacts and timing of a job; the    *)
(* monitor's collapsed flag.  A page lock is a value of Locks, and Clash   *)
(* says which of them cover the same tab, site or url.  "updatedAt" is     *)
(* kept as the order it sorts the jobs in: a later write counts as newer.  *)
(* persist() writes the whole store in the same turn as the change.        *)
(***************************************************************************)
EXTENDS Naturals, FiniteSets

CONSTANTS
    Jobs,       \* identities of the jobs a session can create
    Locks,      \* page locks a job can ask for
    Clash,      \* pairs of locks on the same tab, site or url
    MaxJobs,    \* jobs the store keeps (40 in the code)
    None        \* no job, no lock

ASSUME JobsAssumption == IsFiniteSet(Jobs) /\ None \notin Jobs
ASSUME LocksAssumption == None \notin Locks /\ "same" \notin Locks
ASSUME ClashAssumption ==
    /\ Clash \subseteq Locks \X Locks
    /\ \A l \in Locks : <<l, l>> \in Clash
    /\ \A l, m \in Locks : <<l, m>> \in Clash => <<m, l>> \in Clash
ASSUME MaxJobsAssumption == MaxJobs \in Nat \ {0}

Active      == {"queued", "running", "paused", "approval"}
Terminal    == {"completed", "blocked", "denied", "cancelled", "failed"}
LockHolding == {"queued", "running", "approval"}
Clearable   == {"completed", "cancelled", "denied"}
HumanStops  == {"cancelled", "paused"}
Present     == Active \cup Terminal

\* "new": not created yet.  "gone": cleared from the list or cut off its end.
Missing == {"new", "gone"}

JobRecord == [status   : Present \cup Missing,
              lock     : Locks \cup {None},
              approval : BOOLEAN]

Store == [job   : [Jobs -> JobRecord],
          newer : SUBSET (Jobs \X Jobs),
          focus : Jobs \cup {None}]

MissingJob(st) == [status |-> st, lock |-> None, approval |-> FALSE]

EmptyStore == [job   |-> [j \in Jobs |-> MissingJob("new")],
               newer |-> {},
               focus |-> None]

Status(s, j)  == s.job[j].status
InStore(s)    == {j \in Jobs : Status(s, j) \in Present}
WithStatus(s, statuses) == {j \in Jobs : Status(s, j) \in statuses}
Newer(s, j, k) == <<j, k>> \in s.newer

\* The first of a set of jobs in the store's list: the last one written.
First(s, js) ==
    LET newest == {j \in js : \A k \in js \ {j} : ~Newer(s, k, j)}
    IN  IF newest = {} THEN None ELSE CHOOSE j \in newest : TRUE

FirstActive(s, js) == First(s, js \cap WithStatus(s, Active))

\* updatedAt := now(), then the sort of compact(): the job moves to the front.
Touch(newer, j) ==
    {p \in newer : p[1] # j /\ p[2] # j} \cup {<<j, k>> : k \in Jobs \ {j}}

\* normalizeBrowserJob: a lock only on a lock-holding job, a pending approval
\* only on a job that waits for one.
Normalize(r) ==
    [r EXCEPT !.lock     = IF r.status \in LockHolding THEN @ ELSE None,
              !.approval = @ /\ r.status = "approval"]

LocksClash(l, m) == <<l, m>> \in Clash

\* The other jobs whose lock clashes with l (conflictingActiveJobForLock).
Conflicting(s, l, j) ==
    {k \in Jobs \ {j} : /\ Status(s, k) \in LockHolding
                        /\ LocksClash(l, s.job[k].lock)}

\* A slip of Compact: the focus stays on a job that was cut off.
CompactKeepsFocus(s) ==
    LET newerThan(j) == {k \in InStore(s) : Newer(s, k, j)}
        cut == {j \in InStore(s) : Cardinality(newerThan(j)) >= MaxJobs}
    IN  [s EXCEPT !.job = [j \in Jobs |-> IF j \in cut THEN MissingJob("gone") ELSE @[j]]]

\* compact: only the MaxJobs newest stay; the focus does not outlive its job.
Compact(s) ==
    LET newerThan(j) == {k \in InStore(s) : Newer(s, k, j)}
        cut == {j \in InStore(s) : Cardinality(newerThan(j)) >= MaxJobs}
    IN  [s EXCEPT !.job   = [j \in Jobs |-> IF j \in cut THEN MissingJob("gone") ELSE @[j]],
                  !.focus = IF @ \in cut THEN None ELSE @]

-----------------------------------------------------------------------------
(* The patch of updateJob.  A field the caller leaves out is "same".          *)

Patches == [status   : Present \cup {"same"},
            lock     : Locks \cup {None, "same"},
            approval : {"set", "clear", "same"},
            override : BOOLEAN]

NoPatch == [status |-> "same", lock |-> "same", approval |-> "same", override |-> FALSE]

StatusPatch(st) == [NoPatch EXCEPT !.status = st]

\* A lock another job holds makes updateJob throw before it changes anything.
UpdateThrows(s, j, p) == p.lock \in Locks /\ Conflicting(s, p.lock, j) # {}

\* A slip of KeepsHumanStop: a paused job is overwritten by its run.
KeepsCancelOnly(s, j, p) ==
    /\ Status(s, j) = "cancelled"
    /\ p.status \notin HumanStops \cup {"same"}
    /\ ~p.override

\* A human stop is kept unless the caller may override it.
KeepsHumanStop(s, j, p) ==
    /\ Status(s, j) \in HumanStops
    /\ p.status \notin HumanStops \cup {"same"}
    /\ ~p.override

\* A slip of PatchedJob: a status the patch leaves out is written as it is.
PatchedJobLiteral(s, j, p) ==
    LET old == s.job[j]
    IN  Normalize([status   |-> IF KeepsHumanStop(s, j, p) THEN old.status ELSE p.status,
                   lock     |-> IF p.lock = "same" THEN old.lock ELSE p.lock,
                   approval |-> p.approval = "set" \/ (p.approval = "same" /\ old.approval)])

PatchedJob(s, j, p) ==
    LET old == s.job[j]
        st  == IF p.status = "same" \/ KeepsHumanStop(s, j, p) THEN old.status ELSE p.status
    IN  Normalize([status   |-> st,
                   lock     |-> IF p.lock = "same" THEN old.lock ELSE p.lock,
                   approval |-> p.approval = "set" \/ (p.approval = "same" /\ old.approval)])

\* A focused job that ends hands the focus to another active job, if any.
HandedFocus(s, j, st) ==
    IF s.focus = j /\ st \in Terminal /\ FirstActive(s, Jobs \ {j}) # None
    THEN FirstActive(s, Jobs \ {j})
    ELSE s.focus

UpdateJob(s, j, p) ==
    IF j \notin InStore(s) \/ UpdateThrows(s, j, p)
    THEN s
    ELSE LET new == PatchedJob(s, j, p)
         IN  [job   |-> [s.job EXCEPT ![j] = new],
              newer |-> Touch(s.newer, j),
              focus |-> HandedFocus(s, j, new.status)]

-----------------------------------------------------------------------------
(* The other operations.                                                      *)

\* createJob with status "queued" and activate: false, the only call made.
CreateJob(s, j, l) ==
    Compact([s EXCEPT !.job[j] = [status |-> "queued", lock |-> l, approval |-> FALSE],
                      !.newer  = Touch(@, j)])

ActivateJob(s, j) == [s EXCEPT !.focus = IF j \in InStore(s) THEN j ELSE None]

\* clearCompletedJobs: the focused job stays although it is settled.
ClearCompletedJobs(s) ==
    LET cleared == WithStatus(s, Clearable) \ {s.focus}
    IN  [s EXCEPT !.job = [j \in Jobs |-> IF j \in cleared THEN MissingJob("gone") ELSE @[j]]]

\* A slip of RecoverJobs: only approvals are recovered.
RecoverApprovals(s) ==
    LET cut == WithStatus(s, {"approval"})
    IN  [s EXCEPT !.job = [j \in Jobs |->
                             IF j \in cut THEN Normalize([s.job[j] EXCEPT !.status = "paused"])
                                          ELSE s.job[j]]]

\* loadBrowserJobs: hydrate, then recoverInterruptedJobs from running and
\* approval to paused.  The recovered jobs keep their order and move to the
\* front, and the focus goes to an active job or to none.
RecoverJobs(s) ==
    LET cut == WithStatus(s, {"running", "approval"})
        focus == IF s.focus \in WithStatus(s, Active) THEN s.focus ELSE FirstActive(s, Jobs)
    IN  [job   |-> [j \in Jobs |->
                       IF j \in cut THEN Normalize([s.job[j] EXCEPT !.status = "paused"])
                                    ELSE s.job[j]],
         newer |-> {p \in s.newer : p[1] \in cut \/ p[2] \notin cut}
                      \cup (cut \X (Jobs \ cut)),
         focus |-> focus]

-----------------------------------------------------------------------------
(* What the store keeps true of every job, whoever calls it.                  *)

\* Only queued, running and approval jobs hold a lock (normalizeBrowserJob).
LocksReleased(s) == \A j \in Jobs : s.job[j].lock # None => Status(s, j) \in LockHolding

\* Only a job in approval has a pending approval (normalizeBrowserJob).
ApprovalsAwaited(s) == \A j \in Jobs : s.job[j].approval => Status(s, j) = "approval"

\* The focus is a job of the list, or none.
FocusInStore(s) == s.focus # None => s.focus \in InStore(s)

\* updatedAt sorts the jobs of the list.
ListSorted(s) ==
    /\ \A j, k \in InStore(s) : j # k => (Newer(s, j, k) <=> ~Newer(s, k, j))
    /\ \A i, j, k \in InStore(s) :
          i # k /\ Newer(s, i, j) /\ Newer(s, j, k) => Newer(s, i, k)

StoreConsistent(s) ==
    /\ LocksReleased(s)
    /\ ApprovalsAwaited(s)
    /\ FocusInStore(s)
    /\ ListSorted(s)
=============================================================================
