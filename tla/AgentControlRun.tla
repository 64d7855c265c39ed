--------------------------- MODULE AgentControlRun ---------------------------
(***************************************************************************)
(* One execution of a browser job: the observe-decide-act-verify loop of   *)
(* lib/agent-control-runner.js with the callbacks that                     *)
(* lib/side-panel-scheduled-browser-job-runner.js gives it, under the      *)
(* browser action lock of lib/side-panel-browser-action-lock.js.           *)
(*                                                                         *)
(* A step of the model runs from one await to the next one after which     *)
(* something another actor can change is read.  The model request, the     *)
(* page and its result are choices.  Abstracted: the history of a run, its *)
(* step records, task consent, the overlay and the text of messages and    *)
(* reports; waiting runs take the action lock in any order (it is first    *)
(* come, first served).                                                    *)
(***************************************************************************)
EXTENDS BrowserJobScheduler

CONSTANTS
    MaxSteps,   \* bound: turns of a loop (12 in the code)
    MaxRetries  \* bound: retries of an action in a turn (2 in the code)

ASSUME RunAssumption == MaxSteps \in Nat \ {0} /\ MaxRetries \in Nat

VARIABLES
    actor,          \* the run that holds the action lock across an await, or None
    panelRun,       \* currentControlRun: the run the panel shows, or NoRun
    panelApproval   \* the panel's pendingApproval is set

runVars == <<store, executing, ticks, runs, actor, panelRun, panelApproval>>

PanelRun == [job    : Jobs \cup {None},
             status : Present,
             lock   : Locks \cup {None}]

NoRun == [job |-> None, status |-> "completed", lock |-> None]

RunTypeOK ==
    /\ actor \in RunSlots \cup {None}
    /\ panelRun \in PanelRun
    /\ panelApproval \in BOOLEAN

RunInit ==
    /\ actor = None
    /\ panelRun = NoRun
    /\ panelApproval = FALSE

-----------------------------------------------------------------------------
(* A draft is what a run may write, between two of the calls it makes in one  *)
(* turn: the store, its own record, and what the panel shows.                 *)

Draft(r) == [store |-> store, run |-> runs[r], panel |-> panelRun, approval |-> panelApproval]

Commit(r, d) ==
    /\ store' = d.store
    /\ runs' = [runs EXCEPT ![r] = d.run]
    /\ panelRun' = d.panel
    /\ panelApproval' = d.approval
    /\ UNCHANGED <<executing, ticks>>

GoTo(d, pc) == [d EXCEPT !.run.pc = pc]

UpdateOwnJob(d, patch) == [d EXCEPT !.store = UpdateJob(@, d.run.job, patch)]

\* syncFocusedLocalRun: the panel shows the private copy of the focused job.
Sync(d) ==
    IF d.store.focus = d.run.job
    THEN [d EXCEPT !.panel = [job |-> d.run.job, status |-> d.run.local, lock |-> d.run.lock],
                   !.approval = d.run.asked]
    ELSE d

\* persistLocalRun({ status }): a human stop found in the store is taken over
\* into the private copy, and the copy is written back.
Persist(d, st) ==
    LET found == Status(d.store, d.run.job)
        local == IF found \in HumanStops /\ st \notin HumanStops THEN found ELSE st
    IN  UpdateOwnJob([d EXCEPT !.run.local = local], StatusPatch(local))

\* A slip of Record: without a status in the patch the job is "running".
RecordRunning(d) == Sync(Persist(d, "running"))

\* appendControlStep, updateControlStep and updateControlRunArtifacts: the copy
\* is written with the status it has.
Record(d) == Sync(Persist(d, d.run.local))

\* finishControlRun.
Finish(d, st) == Sync(Persist(d, st))

\* The loop returns its result.
Return(d, result) == [GoTo(d, "finished") EXCEPT !.run.result = result]

\* It does so once the report of the run is in the archive.
ReportLater(d, result) == [GoTo(d, "reporting") EXCEPT !.run.result = result]

\* The same where the message comes last, or a report that leaves no artifact.
TellLater(d, result) == [GoTo(d, "telling") EXCEPT !.run.result = result]

\* The catch block of the loop: finish, then write the status once more.
Fail(d, st) == Return(UpdateOwnJob(Finish(d, st), StatusPatch(st)), "blocked")

-----------------------------------------------------------------------------
(* The loop.                                                                  *)

\* Opening the run's message failed: the execution is rejected.
RunRejected(r) ==
    /\ runs[r].pc = "top" /\ runs[r].step = 0
    /\ Commit(r, Return(Draft(r), "rejected"))
    /\ UNCHANGED actor

\* A new turn marks the job running.
BeginTurn(r) ==
    /\ runs[r].pc = "top" /\ runs[r].step < MaxSteps
    /\ Commit(r, GoTo(UpdateOwnJob(Draft(r), StatusPatch("running")), "observing"))
    /\ UNCHANGED actor

StepLimit(r) ==
    /\ runs[r].pc = "top" /\ runs[r].step = MaxSteps
    /\ Commit(r, TellLater(Finish(Draft(r), "blocked"), "blocked"))
    /\ UNCHANGED actor

\* Under the action lock the job's tab is activated, which throws for a
\* cancelled job, and the page is read.
Observe(r) ==
    /\ runs[r].pc = "observing" /\ actor = None
    /\ Commit(r, IF Status(store, runs[r].job) = "cancelled"
                 THEN Fail(Draft(r), "cancelled") ELSE GoTo(Draft(r), "deciding"))
    /\ UNCHANGED actor

\* The tab the job locked is gone or no longer readable.
ObserveLost(r) ==
    /\ runs[r].pc = "observing" /\ actor = None /\ runs[r].lock # None
    /\ Commit(r, Fail(Draft(r), "failed"))
    /\ UNCHANGED actor

\* The model decided: the goal is reached and the evidence shows it.
DecideDone(r) ==
    /\ runs[r].pc = "deciding"
    /\ Commit(r, TellLater(Finish(Draft(r), "completed"), "completed"))
    /\ UNCHANGED actor

\* It needs the human, or repeats an action that changed nothing (which is
\* recorded as a step first).
DecideBlocked(r) ==
    /\ runs[r].pc = "deciding"
    /\ \E d \in {Draft(r), Record(Draft(r))} :
          Commit(r, TellLater(Finish(d, "blocked"), "blocked"))
    /\ UNCHANGED actor

\* It claims to be done without evidence: blocked, with a report to save.
DecideUnproven(r) ==
    /\ runs[r].pc = "deciding"
    /\ Commit(r, ReportLater(Finish(Record(Draft(r)), "blocked"), "blocked"))
    /\ UNCHANGED actor

DecideFailed(r) ==
    /\ runs[r].pc = "deciding"
    /\ Commit(r, Fail(Draft(r), "failed"))
    /\ UNCHANGED actor

\* It proposes an action: recorded, and then it waits for the action lock.
DecideAction(r) ==
    /\ runs[r].pc = "deciding"
    /\ Commit(r, GoTo(Record(Draft(r)), "checking"))
    /\ UNCHANGED actor

\* executeQueuedJobStep up to the await of activateJobTab: a stopped job makes
\* it throw, otherwise the run keeps the action lock.
CheckStop(r) ==
    /\ runs[r].pc = "checking" /\ actor = None
    /\ LET found == Status(store, runs[r].job)
       IN  IF found \in HumanStops
           THEN Commit(r, Fail(Draft(r), found)) /\ UNCHANGED actor
           ELSE Commit(r, GoTo(Draft(r), "acting")) /\ actor' = r

\* executeQueuedJobStep from there on: the page is acted on, the lock released.
Act(r) ==
    /\ runs[r].pc = "acting" /\ actor = r
    /\ Commit(r, GoTo(Draft(r), "verifying"))
    /\ actor' = None

ActFails(r) ==
    /\ runs[r].pc = "acting" /\ actor = r
    /\ Commit(r, Fail(Draft(r), "failed"))
    /\ actor' = None

\* A slip of VerifyRetries: the retries are not counted.
VerifyRetriesForever(r) ==
    /\ runs[r].pc = "verifying"
    /\ Commit(r, GoTo(Draft(r), "checking"))
    /\ UNCHANGED actor

\* The action is tried once more (task consent, or a more precise target).
VerifyRetries(r) ==
    /\ runs[r].pc = "verifying" /\ runs[r].retries < MaxRetries
    /\ Commit(r, [GoTo(Draft(r), "checking") EXCEPT !.run.retries = @ + 1])
    /\ UNCHANGED actor

VerifyDone(r) ==
    /\ runs[r].pc = "verifying"
    /\ Commit(r, [GoTo(Record(Draft(r)), "top") EXCEPT !.run.step = @ + 1, !.run.retries = 0])
    /\ UNCHANGED actor

\* The action failed, or it needs an approval no panel button may give.
VerifyFails(r) ==
    /\ runs[r].pc = "verifying"
    /\ \E result \in {"blocked", "approval"} :
          Commit(r, ReportLater(Finish(Record(Draft(r)), "blocked"), result))
    /\ UNCHANGED actor

\* A public submit: the job waits for the human's approval.
VerifyNeedsApproval(r) ==
    /\ runs[r].pc = "verifying"
    /\ Commit(r, GoTo(Finish(Record(Draft(r)), "approval"), "asking"))
    /\ UNCHANGED actor

\* setPendingApproval, after the await of the message.
AskApproval(r) ==
    /\ runs[r].pc = "asking"
    /\ LET ask == [StatusPatch("approval") EXCEPT !.approval = "set"]
           d   == [UpdateOwnJob(Draft(r), ask) EXCEPT !.run.asked = TRUE]
       IN  Commit(r, ReportLater(Sync(d), "approval"))
    /\ UNCHANGED actor

\* The report came back from the archive: the artifact is recorded with the
\* private copy's status, whatever became of the job since.
Report(r) ==
    /\ runs[r].pc = "reporting"
    /\ Commit(r, GoTo(Record(Draft(r)), "finished"))
    /\ UNCHANGED actor

\* No artifact to record.
ReportSkipped(r) ==
    /\ runs[r].pc \in {"telling", "reporting"}
    /\ Commit(r, GoTo(Draft(r), "finished"))
    /\ UNCHANGED actor

\* The message or the report throws: the catch block takes over.
ReportFails(r) ==
    /\ runs[r].pc \in {"asking", "telling", "reporting"}
    /\ Commit(r, Fail(Draft(r), "failed"))
    /\ UNCHANGED actor

\* The steps that need the action lock, and the others.
LockedStep(r) == Observe(r) \/ ObserveLost(r) \/ CheckStop(r)

RunStep(r) ==
    \/ RunRejected(r) \/ BeginTurn(r) \/ StepLimit(r)
    \/ LockedStep(r)
    \/ DecideDone(r) \/ DecideBlocked(r) \/ DecideUnproven(r) \/ DecideFailed(r)
    \/ DecideAction(r)
    \/ Act(r) \/ ActFails(r)
    \/ VerifyRetries(r) \/ VerifyDone(r) \/ VerifyFails(r) \/ VerifyNeedsApproval(r)
    \/ AskApproval(r)
    \/ Report(r) \/ ReportSkipped(r) \/ ReportFails(r)
=============================================================================
