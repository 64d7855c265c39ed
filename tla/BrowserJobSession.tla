-------------------------- MODULE BrowserJobSession --------------------------
(***************************************************************************)
(* A side panel at work: the job store, the scheduler and the runs         *)
(* together with the human, who creates jobs, pauses, resumes, continues,  *)
(* cancels, focuses and clears them, answers approvals and reloads the     *)
(* panel (lib/app-command-handlers.js, lib/side-panel-browser-job-         *)
(* controller.js, lib/side-panel-control-command-controller.js,            *)
(* lib/control-run-state.js, lib/control-approval-actions.js).             *)
(*                                                                         *)
(* A command that awaits is kept in cmd, one at a time for each job (the   *)
(* model's bound).  Commands typed into the composer and the buttons that  *)
(* go through runBusyUiAction are refused while one of them is busy; the   *)
(* other buttons are not.  Abstracted: names that match several jobs,      *)
(* permissions and preflight (a command may give up), task consent.        *)
(***************************************************************************)
EXTENDS AgentControlRun

CONSTANT Commands   \* the commands this human uses

CommandNames == {"control", "pause", "resume", "continue", "cancel", "deny",
                 "focus", "clear", "jobs run", "reload"}

ASSUME CommandsAssumption == Commands \subseteq CommandNames

VARIABLE cmd    \* the command in flight on each job

vars == <<store, executing, ticks, runs, actor, panelRun, panelApproval, cmd>>

\* what: what to do once the job has the focus.  seen: the job as it was when
\* it got the focus.  lock: the page lock chosen for a job that is (re)queued.
Command == [pc       : {"idle", "focusing", "showing", "preparing", "restarting", "ticking"},
            what     : {"none", "create", "focus", "resume", "continue", "deny"},
            seen     : JobRecord,
            lock     : Locks \cup {None},
            composer : BOOLEAN]

NoCommand == [pc |-> "idle", what |-> "none", seen |-> MissingJob("new"),
              lock |-> None, composer |-> FALSE]

TypeOK == SchedulerTypeOK /\ RunTypeOK /\ cmd \in [Jobs -> Command]

Init == SchedulerInit /\ RunInit /\ cmd = [j \in Jobs |-> NoCommand]

\* turnBusy: a composer command or a busy button has not returned yet.
Busy ==
    \/ \E j \in Jobs : cmd[j].pc # "idle" /\ cmd[j].composer
    \/ \E t \in TickSlots : ticks[t].pc # "idle" /\ ticks[t].composer

-----------------------------------------------------------------------------
(* finishControlRun of the panel, and the handlers that call it.  They act on *)
(* the run the panel shows, which need not be the job the human meant.        *)

Panel == [store |-> store, run |-> panelRun, approval |-> panelApproval]

CommitPanel(p) ==
    /\ store' = p.store
    /\ panelRun' = p.run
    /\ panelApproval' = p.approval

\* A human stop in the store is kept.  The patch carries the run's page lock, so
\* another job's claim on that lock makes the update throw: nobody catches it.
FinishPanel(p, st) ==
    LET found == Status(p.store, p.run.job)
        kept  == IF found \in HumanStops /\ st \notin HumanStops THEN found ELSE st
        patch == [status |-> kept, lock |-> p.run.lock, approval |-> "clear", override |-> FALSE]
    IN  [p EXCEPT !.run.status = kept, !.store = UpdateJob(@, p.run.job, patch)]

UpdateThen(p, j, patch) == [p EXCEPT !.store = UpdateJob(@, j, patch)]

\* pauseBrowserJob.
PausePanel(p, j) ==
    LET finishes == /\ j = p.store.focus /\ p.run # NoRun
                    /\ Status(p.store, j) = "running"
    IN  UpdateThen(IF finishes THEN FinishPanel(p, "paused") ELSE p, j, StatusPatch("paused"))

\* cancelBrowserJob.
CancelPanel(p, j) ==
    LET finishes == /\ j = p.store.focus /\ p.run # NoRun
                    /\ p.run.status \notin Terminal
    IN  UpdateThen(IF finishes THEN FinishPanel(p, "cancelled") ELSE p, j, StatusPatch("cancelled"))

\* denyPendingControlStep: the approval of the focused job is cleared, and the
\* run the panel shows is finished.
DenyPanel(p) ==
    LET cleared == IF p.store.focus = None THEN p
                   ELSE UpdateThen(p, p.store.focus, [NoPatch EXCEPT !.approval = "clear"])
    IN  IF p.approval /\ p.run # NoRun
        THEN FinishPanel([cleared EXCEPT !.approval = FALSE], "denied")
        ELSE p

-----------------------------------------------------------------------------
(* Commands that take one turn.                                               *)

\* /pause and the card's button.
Pause(j) ==
    /\ "pause" \in Commands /\ ~Busy /\ j \in InStore(store)
    /\ CommitPanel(PausePanel(Panel, j))
    /\ UNCHANGED <<executing, ticks, runs, actor, cmd>>

\* /cancel and the card's button.
Cancel(j) ==
    /\ "cancel" \in Commands /\ ~Busy /\ j \in InStore(store)
    /\ CommitPanel(CancelPanel(Panel, j))
    /\ UNCHANGED <<executing, ticks, runs, actor, cmd>>

\* The Stop buttons of the panel and of the page: the shown run's job, else the
\* focused one, else the first one.
Stop ==
    LET j == IF panelRun # NoRun THEN panelRun.job
             ELSE IF store.focus # None THEN store.focus ELSE First(store, InStore(store))
    IN  /\ "cancel" \in Commands /\ j \in InStore(store)
        /\ CommitPanel(CancelPanel(Panel, j))
        /\ UNCHANGED <<executing, ticks, runs, actor, cmd>>

\* The Deny button of the approval card.
Deny ==
    /\ "deny" \in Commands /\ panelApproval /\ panelRun # NoRun
    /\ CommitPanel(DenyPanel(Panel))
    /\ UNCHANGED <<executing, ticks, runs, actor, cmd>>

\* The Clear done button.
ClearDone ==
    /\ "clear" \in Commands
    /\ store' = ClearCompletedJobs(store)
    /\ UNCHANGED <<executing, ticks, runs, actor, panelRun, panelApproval, cmd>>

\* /jobs run.
RunJobs ==
    /\ "jobs run" \in Commands /\ ~Busy
    /\ \E t \in TickSlots : BeginTick(t, store, executing, TRUE)
    /\ UNCHANGED <<executing, runs, actor, panelRun, panelApproval, cmd>>

\* The panel is closed and opened again: only the store survives.
Reload ==
    /\ "reload" \in Commands
    /\ store' = RecoverJobs(store)
    /\ executing' = {}
    /\ ticks' = [t \in TickSlots |-> IdleTick]
    /\ runs' = [r \in RunSlots |-> FreeRun]
    /\ actor' = None
    /\ panelRun' = NoRun
    /\ panelApproval' = FALSE
    /\ cmd' = [j \in Jobs |-> NoCommand]

-----------------------------------------------------------------------------
(* Commands that give a job the focus first (focusBrowserJobRun).             *)

BeginFocus(j, what, composer) ==
    /\ cmd[j].pc = "idle" /\ j \in InStore(store) /\ (composer => ~Busy)
    /\ store' = ActivateJob(store, j)
    /\ cmd' = [cmd EXCEPT ![j] = [NoCommand EXCEPT !.pc = "focusing", !.what = what,
                                    !.seen = store.job[j], !.composer = composer]]
    /\ UNCHANGED <<executing, ticks, runs, actor, panelRun, panelApproval>>

\* /jobs focus, and the card's button, which does not look at turnBusy.
Focus(j) ==
    /\ "focus" \in Commands
    /\ \E composer \in BOOLEAN : BeginFocus(j, "focus", composer)

Resume(j) ==
    /\ "resume" \in Commands /\ Status(store, j) \in {"paused", "queued", "failed"}
    /\ BeginFocus(j, "resume", TRUE)

\* /continue, and the card's button, which does not look at turnBusy but is not
\* offered for a job in approval.
Continue(j) ==
    /\ "continue" \in Commands /\ Status(store, j) # "running"
    /\ \E composer \in BOOLEAN :
          /\ composer \/ Status(store, j) # "approval"
          /\ BeginFocus(j, "continue", composer)

\* The card's Deny button.
DenyJob(j) ==
    /\ "deny" \in Commands /\ store.job[j].approval
    /\ BeginFocus(j, "deny", TRUE)

\* activateJobTab looks for a cancelled job before it awaits the tab.
FindTab(j) ==
    /\ cmd[j].pc = "focusing" /\ Status(store, j) # "cancelled"
    /\ cmd' = [cmd EXCEPT ![j].pc = "showing"]
    /\ UNCHANGED runVars

FocusFails(j) ==
    /\ \/ cmd[j].pc = "focusing" /\ Status(store, j) = "cancelled"
       \/ cmd[j].pc = "showing" /\ cmd[j].seen.lock # None
    /\ cmd' = [cmd EXCEPT ![j] = NoCommand]
    /\ UNCHANGED runVars

\* The panel shows the job as it was seen, and the command goes on.
Show(j) ==
    /\ cmd[j].pc = "showing"
    /\ LET seen  == cmd[j].seen
           shown == [store |-> store, approval |-> seen.approval,
                     run |-> [job |-> j, status |-> seen.status, lock |-> seen.lock]]
           queue == [StatusPatch("queued") EXCEPT !.override = TRUE]
       IN  CommitPanel(CASE cmd[j].what = "resume" -> UpdateThen(shown, j, queue)
                         [] cmd[j].what = "deny"   -> DenyPanel(shown)
                         [] OTHER                  -> shown)
    /\ cmd' = [cmd EXCEPT ![j] = IF cmd[j].what \in {"resume", "continue"}
                                 THEN [@ EXCEPT !.pc = "preparing", !.seen = MissingJob("new")]
                                 ELSE NoCommand]
    /\ UNCHANGED <<executing, ticks, runs, actor>>

-----------------------------------------------------------------------------
(* /control for a new job, and the rest of /resume and /continue              *)
(* (runControlCommand and createBrowserJob).                                  *)

Control(j) ==
    /\ "control" \in Commands /\ ~Busy
    /\ cmd[j].pc = "idle" /\ Status(store, j) = "new"
    /\ cmd' = [cmd EXCEPT ![j] = [NoCommand EXCEPT !.pc = "preparing", !.what = "create",
                                                   !.composer = TRUE]]
    /\ UNCHANGED runVars

\* No target, no permission, or a preflight the human does not approve.
GiveUp(j) ==
    /\ cmd[j].pc = "preparing" /\ cmd[j].lock = None
    /\ cmd' = [cmd EXCEPT ![j] = NoCommand]
    /\ UNCHANGED runVars

\* prepareBrowserJobPageLock: the job in the way of lock l is the one the panel
\* shows as finished already.
Stale(j, l) ==
    /\ panelRun # NoRun
    /\ panelRun.status \in Terminal
    /\ First(store, Conflicting(store, l, j)) = panelRun.job

FinishStale(j, l) ==
    /\ cmd[j].pc = "preparing" /\ cmd[j].lock = None /\ Stale(j, l)
    /\ store' = UpdateJob(store, panelRun.job,
                          [StatusPatch(panelRun.status) EXCEPT !.lock = None])
    /\ cmd' = [cmd EXCEPT ![j].lock = l]
    /\ UNCHANGED <<executing, ticks, runs, actor, panelRun, panelApproval>>

\* The page lock of the command: chosen now, or before FinishStale.
ChoosesLock(j, l) ==
    /\ cmd[j].pc = "preparing"
    /\ IF cmd[j].lock = None THEN ~Stale(j, l) ELSE cmd[j].lock = l

Create(j, l) ==
    /\ ChoosesLock(j, l) /\ cmd[j].what = "create"
    /\ store' = CreateJob(store, j, l)
    /\ cmd' = [cmd EXCEPT ![j].pc = "ticking", ![j].lock = None]
    /\ UNCHANGED <<executing, ticks, runs, actor, panelRun, panelApproval>>

Restart(j, l) ==
    /\ ChoosesLock(j, l) /\ cmd[j].what # "create"
    /\ store' = ActivateJob(store, j)
    /\ cmd' = [cmd EXCEPT ![j].pc = "restarting", ![j].lock = l]
    /\ UNCHANGED <<executing, ticks, runs, actor, panelRun, panelApproval>>

\* The job is queued with the lock, or the lock is another job's: the update
\* throws, the command ends with a message, the job stays as it was.
Requeue(j) ==
    /\ cmd[j].pc = "restarting"
    /\ LET patch == [status |-> "queued", lock |-> cmd[j].lock, approval |-> "same", override |-> TRUE]
       IN  /\ store' = UpdateJob(store, j, patch)
           /\ cmd' = [cmd EXCEPT ![j] = IF UpdateThrows(store, j, patch) THEN NoCommand
                                        ELSE [@ EXCEPT !.pc = "ticking", !.lock = None]]
    /\ UNCHANGED <<executing, ticks, runs, actor, panelRun, panelApproval>>

\* After the message "will run when capacity and page-lock rules allow it".
StartTick(j) ==
    /\ cmd[j].pc = "ticking"
    /\ \E t \in TickSlots : BeginTick(t, store, executing, cmd[j].composer)
    /\ cmd' = [cmd EXCEPT ![j] = NoCommand]
    /\ UNCHANGED <<executing, runs, actor, panelRun, panelApproval>>

-----------------------------------------------------------------------------
(* The specification.                                                         *)

Human(j) ==
    \/ Pause(j) \/ Cancel(j) \/ Focus(j) \/ Resume(j) \/ Continue(j) \/ DenyJob(j)
    \/ Control(j)

CommandStep(j) ==
    \/ FindTab(j) \/ FocusFails(j) \/ Show(j)
    \/ GiveUp(j) \/ Requeue(j) \/ StartTick(j)
    \/ \E l \in Locks : FinishStale(j, l) \/ Create(j, l) \/ Restart(j, l)

TickStep(t) == TickActivated(t) \/ TickLaunches(t)

SettleStep(r) == Settle(r) \/ \E t \in TickSlots : Retire(r, t)

Next ==
    \/ \E j \in Jobs : Human(j) \/ CommandStep(j)
    \/ Stop \/ Deny \/ ClearDone \/ RunJobs \/ Reload
    \/ \E t \in TickSlots : TickStep(t) /\ UNCHANGED <<actor, panelRun, panelApproval, cmd>>
    \/ \E r \in RunSlots :
          \/ SettleStep(r) /\ UNCHANGED <<actor, panelRun, panelApproval, cmd>>
          \/ RunStep(r) /\ UNCHANGED cmd

Spec == Init /\ [][Next]_vars

\* What the browser keeps going by itself: commands that were started, ticks,
\* runs and their settlement.  The action lock is first come, first served.
Fairness ==
    /\ \A j \in Jobs : WF_vars(CommandStep(j))
    /\ \A t \in TickSlots :
          WF_vars(TickStep(t) /\ UNCHANGED <<actor, panelRun, panelApproval, cmd>>)
    /\ \A r \in RunSlots :
          /\ WF_vars(SettleStep(r) /\ UNCHANGED <<actor, panelRun, panelApproval, cmd>>)
          /\ WF_vars(RunStep(r) /\ UNCHANGED cmd)
          /\ SF_vars(LockedStep(r) /\ UNCHANGED cmd)

FairSpec == Spec /\ Fairness
=============================================================================
