# ResonantOS in TLA+

This directory models the parts of the browser-first ResonantOS that keep state
under concurrency or failure:

* the **browser jobs** of the Chromium extension's side panel - queued by
  `/control`, started by a scheduler under page locks, executed by an
  observe-decide-act-verify loop, paused, cancelled, denied and restarted by a
  human, recovered when the panel is reopened;
* the **memory source move** of the bridge - a folder moved into managed Memory
  call by call, with a ledger, an automatic rollback and a rollback command;
* the **archive review** - requests, drafts, verifications and revisions kept as
  files that name each other, written by handlers that overlap;
* the **preference sync** - the contexts of several machines over one bridge that
  coalesces writes to one file;
* the **chats** - the side panel and the main workspace, each with a store of its
  own, over one storage.

TLC checks small instances; the type invariants and most of the safety
properties are theorems, for every value of the constants, checked by TLAPS.

Paths below are relative to `src/baseline/browser-first/`, but for those that
begin with `src/`; `ext/` stands for `resonantos-side-panel-extension/src/lib/`.

## The system

| Component | State it keeps | Operations | Hard behaviour |
| --- | --- | --- | --- |
| Browser job store, `ext/browser-job-store.js` | the list of jobs (status, page lock, pending approval), the focused job | create, update, activate, clear, hydrate, recover | many writers with stale copies; human stops must win; 40 jobs at most |
| Scheduler, `ext/browser-job-scheduler.js` | the map of executions | `tick`, `startJob`, `settleJob` | a tick works through a snapshot over several awaits; ticks overlap |
| Scheduled run, `ext/side-panel-scheduled-browser-job-runner.js`, `ext/agent-control-runner.js` | a private copy of the job, the pending approval | loop over observe, decide, act, verify; report | the copy is written back late; the human acts between any two awaits |
| Action lock, `ext/side-panel-browser-action-lock.js` | a queue of tasks | `withBrowserActionLock` | one tab is operated at a time |
| Human commands, `ext/app-command-handlers.js`, `ext/side-panel-control-command-controller.js`, `ext/side-panel-browser-job-controller.js`, `ext/control-run-state.js`, `ext/control-approval-actions.js` | the run the panel shows, its pending approval, `turnBusy` | control, pause, resume, continue, cancel, stop, deny, focus, clear, jobs run, reload | checks before awaits, commands on "the focused run" |
| Main workspace and settings, `ext/main-workspace-browser-job-controller.js`, `ext/settings/browser-control-section.js` | none of their own | cancel, clear jobs in the persisted list | lost updates between surfaces |
| Planning, preflight, consent, permissions | consents, permissions, one decision slot | allow, refuse, consume once | a decision used by another job |
| Page observation and actions, `content.js`, `ext/browser-page-actions.js` | the DOM | read, click, type | page I/O |
| Memory source move, `host/memory-source-move.mjs` | files, manifest, ledger | preflight, move, automatic rollback, rollback | crash between two file operations, partial rollback |
| Memory intake, versioning, wiki, search, `host/memory-*.mjs` | files under the memory root | ingest, version, lint, search | parsing, one request at a time |
| Archive review, `host/archive-review-service.mjs` and its policies | requests, drafts, verifications, promotions as files | transition, draft, verify, revise, promote, restore | a protocol over files, human-only gates |
| Preference sync, `ext/prefs-sync.js`, `host/extension-prefs-host-service.mjs` | timers, one push in flight, one delayed write | hydrate, push, flush | lost or reordered pushes |
| Chat sessions and sync, `ext/chat-session-store.js`, `ext/chat-sync.js` | sessions in shared storage | write, rehydrate | two surfaces, one set of keys |
| Bridge, providers, add-on delegation, runtimes, diagnostics, `host/*.mjs` | tokens, processes, configuration | HTTP requests | I/O |
| Desktop shell, `src/baseline/src/` | - | - | historical |

What makes each correct: the store never lets a late write undo a human stop and
keeps locks, approvals, focus and order consistent; the scheduler runs a job
once, within its capacity, never two on one page, and leaves no runnable job
behind; a run ends, and what it writes late does not revive a job that ended; a
command changes the job it was given. A move loses no file whatever fails; a
draft's verdict is that of a record about it, and no file names a missing one;
a push of the preferences that was asked for is made, and the bridge's file
follows the order of what it accepted; the chats, folders
and projects of two surfaces stay one sound tree, and no write takes a chat or
message it was not asked to. `PROJECT.json` lists the components with what is modelled
of them, and the hazards at their lines.

How they interact. The five parts share no state with each other but the
storage area and the bridge process: chats and jobs lie under different keys,
a move and a review touch different files. So each has a specification of its
own, and the composition happens inside the parts:

* Browser jobs: the panel's handlers, the ticks and the runs are asynchronous
  functions of one JavaScript thread. They share the store, the panel's
  `currentControlRun` and `pendingApproval`, and the scheduler's map, and call
  each other directly.
* Source move: the human saves files and settings while the host moves them; the
  move, its ledger and the settings entry meet in the rollback.
* Archive review: handlers of the bridge share nothing but files.
* Preferences: the contexts of a machine share its storage and reach the other
  machines only through the bridge's document. They are meant to hear of changes
  through `storage.onChanged`, and do not (see Disagreements).
* Chats: a surface hears of the other's writes through the storage's event, and
  recognises its own by a writer token.

Between two awaits a function runs alone, so the models take one step from one
await to the next at which something another function may have changed is read
or written.

## Modules

### Browser jobs

* `BrowserJobStore`: the store as a value; each method is an operator from a
  store to the next one. `store.job[j]` is the record of `normalizeBrowserJob`
  reduced to status, lock and "has a pending approval"; `newer` is the order of
  `updatedAt` that sorts the list (a later write counts as newer; the code has
  milliseconds); `focus` is `activeJobId`. `InStore` are the jobs of the list.
  A method changes memory and issues the write of storage in the same turn, so
  the stored list is the store.
* `BrowserJobScheduler`: `executing` is the map `running`, `ticks[t]` a call of
  `tick()` (its snapshot, and the await of `startJob` it is at), `runs[r]` an
  execution. `BeginTick`, `TickActivated`, `TickLaunches` are what `tick` and
  `startJob` do between two awaits: the loop goes on to the next job that can be
  started (`AdvanceTick`) in the turn that launched the one before. `Settle` and
  `Retire` are the turns of `settleJob`.
  `IsRunnableQueue` describes the result of `browserJobSchedulerState` without
  its loop: the queue it returns is the only one that satisfies it.
* `AgentControlRun`: the loop with the callbacks of the scheduled runner; `pc`
  names the await a run is at. What a run writes in one turn is composed from
  `Record` (step and artifact callbacks), `Finish` and `Fail` on a draft of
  store, private copy and panel. A run that was finished in the loop still tells
  the chat and the archive (`TellLater`); if that throws, the catch block finishes
  it once more, as failed (`ReportFails`). `actor` is the run that holds the action lock
  over the await of `activateJobTab`; observations need the lock but finish
  within a step.
* `BrowserJobSession`: the human and the panel, and the whole specification
  `Spec`/`FairSpec`. `cmd[j]` is the command in flight on a job. `Busy` is
  `turnBusy`. `Commands` restricts which commands the human of a run uses.
* `PageLockTable`: the abstract specification of page locks: locks are granted
  one at a time, never one that clashes with a lock held, and given back.
* `BrowserJobProperties`: what is checked, in words and formulas.
* `MCBrowserJobs`: clash relations and symmetry for TLC.
* `BrowserJobStoreProofs`, `BrowserJobProofs`, `BrowserJobRunProofs`,
  `BrowserJobLockProofs`: lemmas and theorems about the store, about every
  session, about executions, and about locks and capacity; each extends the one
  before.

Abstractions of the browser jobs:

* Goal, steps, history, summary, artifacts, timing, messages and overlay are left
  out; no status, lock or focus depends on them.
* A page lock is an opaque value; `Clash` is any reflexive and symmetric relation
  (the code compares tab, site and url, which is not transitive).
* The message of the catch block itself does not throw.
* The planner's decision, the result of an action, the need of an approval, a
  lost tab, a failing report are choices of the run. Permissions and preflight
  are the choice to give up a command.
* `findJob` by a name that matches several jobs is a choice of the human; a
  command is given for one job.
* The composer runs one command at a time. A prompt from the main workspace may
  slip in between the check and the set of `turnBusy`
  (`ext/side-panel-lifecycle-controller.js:80`): not modelled.
* Approving a step never executes it: the only approvals that reach a scheduled
  job are for public submits, which `approvePendingControlStep` refuses.
* A waiting run takes the action lock in any order; the code is first come,
  first served, which the fairness condition accounts for.
* The panel starts hydrated and is alone with its storage.

### Memory source move

* `MemorySourceMove` follows `host/memory-source-move.mjs` and the handlers of
  `host/memory-source-settings-service.mjs` that call it. `src` and `dst` are the
  bytes each file has in the source folder and in Memory, `srcDirs` and `dstDirs`
  the folders that exist, `ledger` and `manifest` the files `move-ledger.jsonl`
  and `manifest.json`, `source` the entry in the settings, `op` the running
  operation: `op.pc` is the next step it makes. `Preflight` and `ExecuteMove` are
  the checks before the first change; `MakeDestination` to `RegisterSource` the
  steps of `executeMoveImport`; `RemoveCopy`, `PutBack` and `LeaveFailed` its
  catch; `RestoreFile` to `DeregisterSource` the rollback, automatic or by
  command. `SaveInSource` and `SaveInMemory` are the human's saves at any
  instant, `Crash` the death of the host or a call that throws out of the
  operation (both leave the same disk). The failures the code catches and goes on
  from are `CaughtFailure`: a call in the try of a file (`FileCallFails`), the
  removal of a copy or the restore inside the catch (`FailedFileStays`), a folder
  of the emptied source (`SourceFolderStays`), a file, folder or root of the
  rollback (`RestoreFileFails`, `RestoreVerifyFails`, `RestoreFolderFails`,
  `RestoreRootFails`) and the manifest of a rollback command
  (`WriteOutcomeFails`). `volume` says whether Memory is on the volume of the source: if
  not, the rename becomes copy, verify, unlink.
* `MemorySourceMoveProperties`, `MemorySourceMoveProofs`, `MCMemorySourceMove`.

Abstractions: bytes are numbered by the save that wrote them, so equal numbers
are equal hashes; folders nest one level; files are taken in any order; a write
of a file is whole or not made; calls that no save and no death in between sets
apart are one step (the check of a file and the mkdir for it, the mkdir and the
rmdir of one folder in a rollback, the removal of the emptied source); one move
is followed, with any number of rollbacks; symlinks, the limits of the
traversal, audit and history are left out. `SaveSource` drops the ledger path of
an entry, as `normalizeSource` does. A crash between the `mkdir` of the
destination and the making of the ledger blocks later moves of this source and
cannot be rolled back, and so does it in the model; between the making of the
ledger and its boundary line a rollback goes by the manifest.

### Archive review

* `ArchiveReview` follows `host/archive-review-service.mjs`. `request`, `draft` and
  `verification` are the front matters of the files, `call[c]` what a handler
  holds over its awaits: the file it works on, the text it read of it, the file it
  has made. Each handler is one action per file: `ReadFor...` reads, `Write...`
  makes the new file, `LinkDraft`, `ReportVerdict` and `RetireDraft` write the
  file that was read back whole. `Throw` ends a call where it stands, `Crash` all
  of them. Between a read and the write-back of a call, any other call may do any
  of its steps.
* `ArchiveReviewProperties`, `ArchiveReviewProofs`, `MCArchiveReview`.

Abstractions: the pages' contents, the audit and the intake file; the verdicts of
rules and model are choices. One file write is one step. The human gate of a
transition is modelled as it is: the call site passes `toStatus`
(`host/archive-review-service.mjs:277`), the policy reads `nextStatus`
(`host/archive-review-policy.mjs:27`), so it never refuses. Promotion is an
operator (`Promotable`) and not an action: the handler writes nothing before the
policy accepts, and it accepts none of the arguments the handler can pass.

### Preference sync

* `PrefsSync` follows `ext/prefs-sync.js` (one `sync[c]` and `pull[c]` per context)
  and `host/extension-prefs-host-service.mjs` (`host`, `disk`). `TimerFires`,
  `ReadForPush`, `Accept`, `PushEnds` are the push; `Get`, `ReadForPull`,
  `TakeRemote`, `PullEnds` the hydrate, one awaited write of a key per step;
  `HostTimer`, `BeginWrite`, `EndWrite`, `WriteFails` the coalescing timer and
  the write chain. `Edit` changes the storage and schedules nothing: no context
  hears of it. `asked` is a history variable: a push was wanted, by a button or
  by the end of a hydrate, and nobody has read the storage since. `PushNow` and `PullNow` are the settings' buttons. `Close` and
  `HostStops` lose what a context or the bridge had in memory; nothing calls
  `flushPendingWrites`. `held` is the document that waits for the timer. Accepted
  documents are numbered in `host.accepted`, so that their order can be stated.
* `PrefsSyncProperties`, `PrefsSyncProofs`, `MCPrefsSync`.

Abstractions: a value is the number of the input that made it. No synced value
carries an `updatedAt` (the normalisers drop it), so `shouldTakeRemote` is
"remote is there and here is nothing". A read of the local storage that fails
(`Read`) finds no values, a write that fails changes none, as in the code. A
context has one hydrate at a time (a second press of the button waits for the end
of the first; in the code the two would overlap, as the hydrates of two contexts
of one machine may). The
bridge replaces the whole document and merges nothing.

### Chats

* `ChatSessionStore` is `ext/chat-session-store.js` as operators on what one
  surface holds: chats with project, folder and transcript, projects, folders,
  the active chat. Chats are numbered in the order of creation, which is the
  order of the list. `Cleaned`, `Ensured` and `Hydrated` are what `hydrate` makes
  of the text it read.
* `ChatSurfaces` puts two of them over one storage. `Write` is `persist`: memory,
  storage and the notice to the other surface in one step. `Read` and `Assign`
  are the two ends of a hydrate, `due` what a surface still has to take in (the
  listener of `ext/chat-sync.js`). A surface is `stale` when it holds less than it
  should and nothing tells it: a hydrate put an older read over a write of its
  own, its `set` was refused (`SetFails`, which `persist` swallows), or its `get`
  was (a `Read` that failed counts as an empty storage). `Ask`, `Answer`, `Fail`, `Notice`, `EndTurn` are the turn of
  `ext/chat-turn-controller.js`, each of which goes to the chat that is active
  by then. `Edit` are the commands of both surfaces, `Organise` those of the main
  workspace's rail and settings.
* `ChatProperties`, `ChatProofs`, `MCChat`.

Abstractions: names, pins, unread marks, expansion and attachments change nothing
that is kept, so they are one action (`Touch`) that writes the whole store back.
Events that wait together are taken in by one read. Whether the calls of a
surface may be refused belongs to its budget. Notices of other subsystems,
slash commands and the list of forks are left out. Project and folder ids are
never used twice.

Definitions introduced as a "slip" are mutated forms of another one, kept to show
that the properties notice such a mistake; no specification uses them. They
appear in every part.

## Runs

| Run | Instance | Shows |
| --- | --- | --- |
| `page_locks` | 3 jobs, a site and three of its pages, 1 tick, capacity 2; control, reload | `PageLocksSerialize`, `WithinCapacity`, and that the locks implement `PageLockTable` (`LockTableSpec`) |
| `executions` | 2 jobs, 2 pages, 2 ticks, capacity 2; control, cancel, clear, deny, reload, jobs run | `TypeOK`, `OneRunPerJob`, `RunningIsDriven`, `SettledStays` |
| `human_commands` | 2 jobs in a store that keeps 1, capacity 1; control, pause, resume, continue, focus | `StoreInvariant`, `HumanStopSticks`, with jobs evicted under their runs |
| `liveness` | 2 jobs on one page, 2 ticks, 1 retry, fair; control | `RunsEnd`, `QueuedJobsStart` |
| `source_move` | 2 files, one in a folder; an empty folder; Memory on either volume; 2 saves, 2 crashes or failures; fair | `TypeOK`, `RestoredMeansBack`, `AtMostOneUnledgered`, `RegisteredIsRecoverable`, `NothingLost`, `RollbackRestoresOnOneVolume`, `OperationsEnd` |
| `archive_review` | 1 request, 3 drafts, 2 verifier records, 2 calls at once | `TypeOK`, `ReferencesResolve`, `VerdictIsRecorded`, `RevisionsArePaired`, `HistoryIsKept` |
| `prefs_sync` | 2 machines with one context each, 1 key, 2 inputs, 2 faults; fair | `TypeOK`, `WishesAreSent`, `QuietHostIsCurrent`, `DiskFollowsAcceptance`, `SyncSettles` |
| `chat` | 2 surfaces, 3 chats, 1 project, 1 folder, 1 turn, 2 reads in flight, up to 4 edits | `TypeOK`, `TreeIsSound`, `Lockstep`, `InStepKeepsAll` |

### Bounds, and why they are enough

* Browser jobs: `TickSlots` and `RunSlots` are ticks and executions in flight at
  once (a command that would need another tick waits), `MaxSteps = 1` the turns of
  a loop (12 in the code), `MaxRetries` at most 1 (2 in the code). One turn already
  contains every kind of step of a run in every order with the human's steps; a
  second turn repeats it from the same store states. Two jobs are enough for a
  conflict of pages; three are used where a slot is freed while two others
  compete for it. In `page_locks` one lock covers a site and each of the others a
  page of it, so that two or three jobs may have locks apart, or one of them the
  lock in everybody's way; the pages are symmetric too. Jobs are symmetric in the safety runs: no definition
  distinguishes them.
* Source move: two faults allow a failure inside the move and a crash inside the
  rollback it causes, or a crash in each of two operations. Two files are needed
  for a file already in the ledger beside the one in hand; two saves for a new
  file at the old path and an edit in Memory.
* Archive review: two calls are the least that can overlap; three drafts give two
  revisions of one draft, or a draft and a revision of a revision; two records
  give two verdicts on one draft. The theorems hold for any number of calls.
* Preferences: two machines give two documents that compete for the file; two
  inputs an edit during a push or two competing edits. Larger instances have
  passed as well: two keys (307,000 states), and three contexts, two of them on one
  machine, with one fault (681,000).
* Chats: `Budgets` lists which surface opens, edits and talks how often, one entry
  per interesting split: an edit here during a turn there, edits on both sides,
  and one surface alone with more of each; in most of them the storage may refuse
  the calls of one surface. The storage starts blank or with an answered chat filed
  in a folder, which is the only start of the largest split (an edit during a turn,
  1.8 of 2.5 million states). `MaxPulls = 2` lets an older read arrive after a
  newer event.

Deadlock is checked in the archive review, whose handlers can always be called.
The other systems really rest: a session without work and without a command of
the human, a move that was made and rolled back, contexts and a bridge with
nothing to send, chats nobody edits (and the bounded inputs, saves and edits of an
instance run out).

### Disagreements

Four runs end in a counterexample, each against something the repository says:

| Run | Statement | What the code does |
| --- | --- | --- |
| `overlapping_ticks` | "Page locks serialize conflicting mutation" (`src/baseline/docs/reference/CAPABILITY_MATRIX.md:22`) | `tick` goes through the snapshot it took before its awaits, and `startJob` only looks at the job's own status again: the tick of a newer command has meanwhile started a job on the page of one that waits in the snapshot. Four jobs, capacity 2, control and reload: two jobs run on one page, and three under a capacity of two. |
| `prefs_changes_sent` | "if one of the synced keys changed, POST the merged document back to the bridge" (`ext/prefs-sync.js:15-16`) | No caller passes a storage, so `install` listens on `chrome.storage.local.onChanged`; its listeners get the changes and no area, and line 224 returns. An edit stays on the machine until a button or a hydrate pushes. 2 machines, 1 edit, no fault, fair. |
| `prefs_newer_wins` | "Whichever is newer wins." (`ext/prefs-sync.js:12`) | `hydrate` compares with local values it read before its awaited writes; an edit in between is replaced by the bridge's older value. |
| `chat_continuing` | "continue a chat after a reload \| prior context preserved" (`src/baseline/docs/augmentor-tester-runbook.md:45`) | The panel's listeners are bound before its store is hydrated: a question asked at once is appended to an empty store, which is written over the stored chats. |

More statements do not hold and have a definition in the property modules, but
no run, and the first of the table fails in a second way:

* `PageLocksSerialize` with `/continue`: the command checks the status
  (`ext/app-command-handlers.js:587`), awaits, and then queues a job the scheduler
  has started meanwhile; while it counts as queued, another job is started on
  its page, and its run then marks it running again. Two jobs on one page, one
  tick, capacity 2, control and continue.
* `DeniedStays`, against "The task remains stopped." (`ext/agent-control-runner.js:943`):
  the archive report of the run that asked arrives after the denial and writes
  the private copy's status, "approval". One job, capacity 2, control and deny.
* `BlockedKept`, against `ext/browser-job-store.js:5` (blocked jobs "usually still
  need a human" and are not silently discarded): a run that ends as blocked
  hands the focus over before the panel is told, and cancelling the newly
  focused job also finishes the run the panel still shows. Two jobs, capacity 2,
  control, pause, cancel.
* `VerifiedIsPromotable`, against "Approved artifacts become eligible for
  promotion" (`src/baseline/docs/architecture/ADR-012-living-archive-approval-policy.md:52`):
  the handler passes nested records (`host/archive-review-service.mjs:669`), the
  policy reads flat fields (`host/archive-promotion-policy.mjs:11`), so every
  promotion is refused. One request, one draft, one record, one call.
* `RollbackRestores`, against
  `src/baseline/docs/architecture/ADR-011-living-archive-host-service.md:190` (moves may copy across volumes and support
  rollback from the ledger): the rename back (`host/memory-source-move.mjs:324`)
  has no fallback, so that across volumes the first file ends the rollback.
  The instance of `source_move`.

And `QueuedJobsStart` fails once the human cancels (two jobs, capacity 1, control
and cancel): cancelling a job in approval frees slot and page, and nothing ticks
the scheduler, against "will run when capacity and page-lock rules allow it"
(`ext/side-panel-control-command-controller.js:227`).

### Where the properties hold

For the browser jobs, the instance of a run says with which commands its
properties hold, and the restriction is a fact about the code, not a
convenience:

* `PageLocksSerialize`, `WithinCapacity` and `LockTableSpec` break in two ways, and
  the theorems say that these are all there are: in a session with any commands
  and any number of ticks they hold as long as no step is one of the two.
  The first is a tick that begins while another has jobs left to start
  (`TicksTakeTurns` excludes it): what fitted when the older snapshot was taken
  need not fit when its next job is started (`overlapping_ticks`). The second is
  a job put to work past the queue (`FromTheQueue` excludes it): by the late
  report of a run whose approval was denied, which puts the job back to approval
  although its lock was given away; by the record of an old run that takes a job
  requeued by `/continue` or `/resume` for its own; or by a tick that starts a job
  which `/resume` has queued and not yet given a lock. The run `page_locks`, with
  one tick at a time, control and reload, has neither step. The two conditions
  have also been checked with two ticks: two jobs and every command with one
  place, three jobs with control, pause, resume, cancel and deny with two places
  (more than ten million states each, not exhausted), three jobs on a site and
  its pages with control and deny (2.9 million states). Without either of the two
  conditions TLC finds a violation.
* `OneRunPerJob` does not hold with `/resume` or `/continue`: a job requeued while
  `startJob` awaits can be started by a second tick, and the map then has one
  entry for two executions. Neither do `RunningIsDriven` and `SettledStays`,
  because the old execution settles, or reports, while the new one works.
* With more jobs than the list keeps (40) and overlapping ticks, `OneRunPerJob`,
  `WithinCapacity` and `SettledStays` can fail: an eviction can leave the panel
  without a focus, and then the await of `activateJob` separates the check of the
  status from its write. A denial does not break the capacity: the late report
  comes from an execution the map still counts (checked with three jobs, two
  ticks, capacity one, and deny). The
  supervisor's own limit on executions is exceeded by requeued jobs and by
  pauses, since a paused job's run goes on to its next check.
* `SettledStays` does not hold with every command: a Deny that acts on an approval
  of an execution that is over can change a job that was restarted.
* `HumanStopSticks`, `StoreInvariant` and `TypeOK` hold with every command, and
  are proved.
* A denial may be lost altogether: `finishControlRun` repeats the page lock in its
  update, which throws if another job has claimed the page.

Elsewhere the exceptions are part of the property:

* `NothingLost` leaves out a file saved in the instant between a check and the call
  that relies on it (`raced`): no check of the code can see such a save.
* `RestoredMeansBack` is about an outcome that was written down. A rollback after a
  partial one never reports "restored": what the first one put back is skipped as
  missing in the destination.
* `QuietHostIsCurrent` leaves out a document that a stop or a failed write took,
  although the bridge had acknowledged it.
* `Lockstep` and `InStepKeepsAll` leave out a `stale` surface, whose last hydrate
  was overtaken by its own write or whose storage call was refused: until its
  next read it may hold less than the storage, and its next write erases the
  difference - after a refused read at the start, all chats.
* `SyncSettles` and `WishesAreSent` are about pushes that were asked for. A push
  that read its storage in vain counts: it posts an empty document.

### Fairness

* Browser jobs: `Fairness` lets the browser finish what it has begun. The commands
  in flight, each tick, each run and its settlement are weakly fair, since their
  awaits are storage writes, tab queries and requests that return or reject (the
  bridge client has timeouts). A task that waits for the action lock is strongly
  fair, since the lock's promise chain is first come, first served. No command
  has to be given. `RunsEnd` also rests on the bound of retries, which the loop
  has (at most one consent retry and one with a more precise target in a turn).
* Source move: a call on the file system is answered, so the host's steps are
  weakly fair. No fault, save or command is.
* Preferences: timers fire, requests are answered or fail, promises settle: each
  context's steps and the bridge's are weakly fair. Nobody has to edit, press,
  open, close, fail or stop.
* Archive review and chats state no liveness: each call ends at its own last write
  and waits for nobody, and nothing retries.

## Proofs

The theorems of the last two modules on browser jobs have hypotheses, each the
border of a behaviour that breaks the property and is described above. Those on
executions restrict the instance, with any number of ticks that overlap:

* `NoRestart`: the human uses neither `/resume` nor `/continue`.
* `NoEviction`: the list keeps every job of the session (the code keeps 40).

(`NoDeny`, the human denies no approval, appears inside their invariant: with it
a job that waits for its approval counts as driven.)
Those on locks and capacity restrict no command, no limit and no number of ticks;
they are about the sessions whose steps all satisfy

* `TicksTakeTurns`: a tick that begins finds no other with jobs left to start;
* `FromTheQueue`: a job that goes to work was queued, with a page lock, and is put
  to work by a tick.

The panel guarantees neither; the theorems say that nothing else can break its
locks: denials, restarts, evictions, reloads, pauses and cancels, late records and
ticks that overlap once their snapshots are used up are all harmless without
these two. The runs `executions` and `page_locks` are instances of the theorems.

Assumptions: the named `ASSUME`s of the modules - `None`, `Absent` and `Root` are
no members of the other sets, bounds are natural numbers, `Clash` is reflexive
and symmetric, files have folders and contexts machines, the stored chats to
begin with are sound. Every run evaluates those of its modules.

| Theorem | States | Inductive invariant |
| --- | --- | --- |
| `TypeCorrect`, `StoreConsistentAlways`, `HumanStopsStick` (`BrowserJobProofs`) | `TypeOK`, `StoreInvariant`, `HumanStopSticks` | `IInv` |
| `RunsAreUnique`, `NoOrphans`, `EndedStaysEnded` (`BrowserJobRunProofs`) | `OneRunPerJob`, `RunningIsDriven`, `SettledStays`, if `NoRestart` and `NoEviction` | `IInv /\ DInv` |
| `PageLocksHold`, `CapacityHolds`, `LocksAreATable` (`BrowserJobLockProofs`) | `PageLocksSerialize`, `WithinCapacity`, `LockTableSpec`, if every step `TicksTakeTurns` and is `FromTheQueue` | `LInv` |
| `MoveTypeCorrect`, `RestoredIsBack`, `LedgerMissesOne`, `RegisteredRecoverable`, `BytesAreKept` (`MemorySourceMoveProofs`) | `TypeOK`, `RestoredMeansBack`, `AtMostOneUnledgered`, `RegisteredIsRecoverable`, `NothingLost` | `MoveInv` |
| `RollbackRestoresThere` (`MemorySourceMoveProofs`) | `RollbackRestoresOnOneVolume` | `MoveInv /\ Straight` |
| `ReviewTypeCorrect`, `NoDanglingNames`, `VerdictsAreRecorded`, `RevisionsNameEachOther`, `FilesGrow` (`ArchiveReviewProofs`) | `TypeOK`, `ReferencesResolve`, `VerdictIsRecorded`, `RevisionsArePaired`, `HistoryIsKept` | `IInv` |
| `SyncTypeCorrect`, `EveryWishIsSent`, `QuietIsCurrent`, `FileFollowsAcceptance` (`PrefsSyncProofs`) | `TypeOK`, `WishesAreSent`, `QuietHostIsCurrent`, `DiskFollowsAcceptance` | `SyncInv` |
| `ChatTypeCorrect`, `TreeSound`, `SurfacesInLockstep` (`ChatProofs`) | `TypeOK`, `TreeIsSound`, `Lockstep` | `ChatInv` |
| `NothingLostInStep` (`ChatProofs`) | `InStepKeepsAll` | `LossInv`, which contains `ChatInv` |

Why the invariants are needed, and how they go:

* Browser jobs. Type correctness alone is not inductive: an operation on the store
  needs the list to be sorted (or cutting it would leave jobs unrelated by
  `newer`), and a step that creates a job needs to know that it is new. `IInv` is
  the conjunction of `GoodStore`, the types of ticks, runs, panel and commands,
  and `CreatesNew`: a command that creates job `j` is in flight only while `j` has
  never been in the store. (1) `BrowserJobStoreProofs` shows for every operation
  that it maps good stores to good stores and keeps the human stops
  (`KeepsStops`). (2) What a run, a tick or the panel does in one turn composes
  several operations; `Follows` says that a draft is reached by such operations
  only. (3) `NextGood` goes through the actions.
* Executions. The store alone does not say who works on a job, so `DInv` relates it
  to ticks and runs. Only `/control` queues a job, once; from there on the job has
  one driver, the tick that starts it and then the run this tick launched
  (`OneDriver`), and the phase of the driver bounds what the store, the run's
  private copy and the result can be (`TickOk`, `RunOk`): a run that waits for
  its report has a job that is not running, a settled one a job that is neither
  running nor queued. A tick that awaits `activateJob` is alone (`FirstAlone`),
  as it belongs to a command and nothing runs in a panel without focus: that is
  what makes the missing check after this await harmless. `Executes` says what
  the map holds; `OneComposer` that one command at a time keeps the composer
  busy. `Over` is a job no tick and no run will put to work, and every step keeps
  what is over (`StaysOver`), for which the record a command saw (`SeenOver`) and
  the run the panel shows (`PanelOver`) must not lag behind in a way that revives
  a job.
* Locks and capacity. A tick decides on the store of its snapshot and acts on that
  of a later turn. `Apart` says that the jobs at work and those left in the
  snapshots together fit the capacity, and that no two of them have locks that
  clash; `SnapshotFits` derives it for a new snapshot from `IsRunnableQueue`.
  A job's lock may only be kept, given up, or claimed by a job that is new or being
  queued against no other claim (`Quiet`), which is shown for every operation of
  the store, every handler of the panel and every step of a run; for the steps of
  a run it is needed that a run in its loop believes itself running or stopped
  (`LocalInv`), or a record would bring an ended job's lock back. `FromTheQueue`
  leaves two kinds of step: those that put no job to work (`Calm`), and the tick
  that puts a job of its snapshot to work (`Granted`). Both keep `Apart`, and with
  the same two cases the session implements `PageLockTable`: a calm step releases
  locks or does nothing to them, a granted one takes one.
* Source move. What is in Memory and in the ledger depends on how far the operation
  is. `Progress` ties `op.pc` to ledger, manifest and settings; `FilesPlaced` and
  `FoldersMade` say what a move has done so far; `Housed` that a file stands in a
  folder that exists, so that an empty root means nothing is left; `InHand` what
  holds of the one file between a check and the call that relies on it, unless it
  was raced. The outcome "restored" follows from the root being gone. That a
  rollback on one volume restores the move is an action property of its last
  step, which says nothing of what went before: `Straight` carries it, from the
  start, as long as nothing was saved and nothing failed (`Undisturbed`): where
  each file is at every step, that nothing is skipped, and that the file check of
  a move cannot fail.
* Archive review. A handler writes back text it read long ago, so the invariants of
  the files need one of the texts in hand: `Sound` judges each of them against the
  files of now. It is kept because files only grow: what an old text names is
  still there with the same request, superseded draft and verdict.
* Preferences. Two halves: a context that was asked for a push has not forgotten
  it (`Owed`: a timer, a read about to happen, or a mark that restarts the push
  when the one in flight ends, and no mark without one), and chain and held document are in order of acceptance,
  above the file (`InOrder`).
* Chats. `SoundAll`: every operation maps sound stores to sound stores, and the
  surfaces hand such stores to each other. `Recent`: the newest read of a surface
  that has nothing due and has not acted since is the storage as it is; so when
  it is assigned, the surface is in step. That no step loses a transcript cannot
  follow from `Lockstep`, which lets a surface in step hold what a hydrate makes
  of the storage with any number: were that the number of a chat of the storage,
  the new chat would replace it. `LossInv` adds that no number given out
  is in use (`AllNumbered`) and, directly, that a surface in step holds all the
  storage holds (`Complete`); a write then loses what the operation loses, and for
  each operation there is a lemma on the chats and messages it keeps (`Keeps`) and
  the numbers of those it makes (`Grows`).

Left to TLC: liveness (`RunsEnd`, `QueuedJobsStart`, `OperationsEnd`,
`SyncSettles`), which the prover does not handle. Every invariant and every
action property of a passing run is a theorem, those of the browser jobs under
the hypotheses above. The modules use no recursive operator; what a recursive
definition computes for every input could not be proved by induction with the
installed provers.

## Not modelled, and the plan

In the order of their value:

1. Several writers of the stored jobs: the main workspace's cancel, the settings'
   Clear jobs, a second panel, commands before the store is hydrated; and the
   prompt that bypasses `turnBusy`. `ChatSurfaces` shows how: two stores over one
   storage; the jobs differ in that the panel never reads again.
2. Proofs about executions with fewer hypotheses: what a restarted job (`/resume`,
   `/continue`) or an evicted one leaves standing of `OneRunPerJob`,
   `RunningIsDriven` and `SettledStays`, for any number of jobs.
3. Memory versioning and intake (`host/memory-*.mjs`) as a protocol over files like
   the review; the delegation lifecycle (`host/addon-delegation-service.mjs`).
4. Two requests of the memory settings at once, which read and write them whole.

Not modelled in the parts above: what promotion writes and the restore of a
promoted page (no state reaches them); two operations of the host on one source
at once; compaction of chats.

Not planned: page observation and DOM actions, providers, bridge routing, add-on
runtimes, diagnostics, rendering (I/O or stateless requests, whose outcome is a
choice where a model needs it); the historical desktop shell, scripts, assets and
documentation. They are most of the repository's lines: user interface, desktop
shell, self-tests and glue to processes, with no state a step of another actor
could meet.
