----------------------------- MODULE PrefsSync -----------------------------
(* The synced preferences: every extension context (background, side panel,  *)
(* new-tab workspace) of every machine runs one prefs-sync.js over the       *)
(* machine's chrome.storage.local, and all talk to one bridge, whose prefs   *)
(* service keeps one document on disk.  A value is the number of the user's  *)
(* input that made it, 0 is an absent key: no synced value carries an         *)
(* updatedAt (personalization-settings.js normalises it away).               *)
(* No context hears of a change: the callers give createPrefsSync no storage,*)
(* so install() listens on chrome.storage.local.onChanged, whose listeners   *)
(* get the changes and no area, and the listener returns at its first test.  *)
EXTENDS Naturals, Sequences

CONSTANTS
    Machines,   \* browsers with a storage of their own
    Contexts,   \* extension contexts, each with its own createPrefsSync
    MachineOf,  \* [Contexts -> Machines]
    Keys,       \* the synced keys
    MaxInputs,  \* bound: edits, and presses of "Pull from bridge" and "Push to bridge"
    MaxFaults   \* bound: failed requests, reads and writes, closed contexts, stops

ASSUME ContextsHaveMachines == MachineOf \in [Contexts -> Machines]
ASSUME BoundsAreNaturals == {MaxInputs, MaxFaults} \subseteq Nat

VARIABLES
    local,      \* chrome.storage.local of each machine, the synced keys
    sync,       \* per context: the push side of prefs-sync.js
    pull,       \* per context: the hydrate in progress
    host,       \* the prefs service: pending document, timer, write chain
    disk,       \* extension-prefs.json
    inputs, faults

vars == <<local, sync, pull, host, disk, inputs, faults>>

-----------------------------------------------------------------------------
Document == [Keys -> 0..MaxInputs]
Empty == [k \in Keys |-> 0]

(* A document the service accepted, with its place in the order of           *)
(* acceptance.                                                               *)
Numbered == [n : Nat, prefs : Document]

SyncState == [open : BOOLEAN, timer : BOOLEAN, pending : BOOLEAN, queued : BOOLEAN,
              at : {"idle", "reading", "posting", "answered"}, doc : Document,
              asked : BOOLEAN]
PullState == [at : {"idle", "getting", "got", "writing"}, remote : Document,
              todo : SUBSET Keys, wrote : BOOLEAN]
HostState == [held : Seq(Numbered), timer : BOOLEAN, chain : Seq(Numbered),
              writing : BOOLEAN, accepted : Nat, lost : Nat]

(* doc is what the last push read, at the start what the storage holds;      *)
(* asked, a history variable, says that nobody has read since the last wish. *)
Closed(doc) == [open |-> FALSE, timer |-> FALSE, pending |-> FALSE,
                queued |-> FALSE, at |-> "idle", doc |-> doc, asked |-> FALSE]

NoPull == [at |-> "idle", remote |-> Empty, todo |-> {}, wrote |-> FALSE]

(* A slip to check against: a wish made during a push is ignored.            *)
ScheduledWhenIdle(s) ==
    IF s.at = "idle" THEN [s EXCEPT !.pending = TRUE, !.timer = TRUE] ELSE s

(* schedulePush: at most one timer, and the wish is remembered.              *)
Scheduled(s) == [s EXCEPT !.pending = TRUE, !.timer = TRUE]

(* flush: behind a push in flight it only leaves a mark.                     *)
Flushed(s) ==
    IF s.at # "idle" THEN [s EXCEPT !.queued = TRUE]
                     ELSE [s EXCEPT !.at = "reading", !.pending = FALSE]

(* A slip to check against: the end of a push looks at nothing.              *)
EndedAndForgot(s) == [s EXCEPT !.at = "idle", !.queued = FALSE, !.pending = FALSE]

(* The finally block of flush: the marked push starts at once, a wish        *)
(* restarts the timer.                                                       *)
Ended(s) ==
    LET done == [s EXCEPT !.at = "idle"]
    IN  IF s.queued       THEN Flushed([done EXCEPT !.queued = FALSE])
        ELSE IF s.pending THEN Scheduled(done)
        ELSE done

Asked(s) == [s EXCEPT !.asked = TRUE]

(* shouldTakeRemote: a value without a timestamp is newer than anything.     *)
ShouldTakeRemote(remote, here) == remote # 0 /\ here = 0

(* readPrefsDocument: a missing, empty or broken file is an empty document.  *)
ReadDisk == IF disk.torn THEN Empty ELSE disk.prefs

Fail == faults < MaxFaults /\ faults' = faults + 1
Input == inputs < MaxInputs /\ inputs' = inputs + 1

-----------------------------------------------------------------------------
(* The contexts.                                                             *)

(* The user changes a synced setting of machine m.  No push is scheduled.    *)
Edit(m, k) ==
    /\ Input
    /\ local' = [local EXCEPT ![m][k] = inputs + 1]
    /\ UNCHANGED <<sync, pull, host, disk, faults>>

(* A context starts: install the listener, then hydrate.                     *)
Open(c) ==
    /\ ~sync[c].open
    /\ sync' = [sync EXCEPT ![c] = [Closed(local[MachineOf[c]]) EXCEPT !.open = TRUE]]
    /\ pull' = [pull EXCEPT ![c] = [NoPull EXCEPT !.at = "getting"]]
    /\ UNCHANGED <<local, host, disk, inputs, faults>>

(* The page is closed, or the service worker is stopped, whatever it does.   *)
Close(c) ==
    /\ Fail
    /\ sync[c].open
    /\ sync' = [sync EXCEPT ![c] = Closed(Empty)]
    /\ pull' = [pull EXCEPT ![c] = NoPull]
    /\ UNCHANGED <<local, host, disk, inputs>>

TimerFires(c) ==
    /\ sync[c].timer
    /\ sync' = [sync EXCEPT ![c] = Flushed([@ EXCEPT !.timer = FALSE])]
    /\ UNCHANGED <<local, pull, host, disk, inputs, faults>>

PushNow(c) ==
    /\ Input
    /\ sync[c].open
    /\ sync' = [sync EXCEPT ![c] = Flushed(Asked(@))]
    /\ UNCHANGED <<local, pull, host, disk, faults>>

(* readLocalValues: what the storage holds, and nothing when the read fails. *)
Read(m, failed) == IF failed THEN Empty ELSE local[m]
MayFail(failed) == IF failed THEN Fail ELSE UNCHANGED faults

(* A document read in vain is posted all the same, without the keys.         *)
ReadForPush(c) ==
    /\ sync[c].at = "reading"
    /\ \E failed \in BOOLEAN :
         /\ MayFail(failed)
         /\ sync' = [sync EXCEPT ![c] = [@ EXCEPT !.at = "posting", !.asked = FALSE,
                                                  !.doc = Read(MachineOf[c], failed)]]
    /\ UNCHANGED <<local, pull, host, disk, inputs>>

(* A slip to check against: a document that finds the timer set is dropped.  *)
AcceptFirst(c) ==
    /\ sync[c].at = "posting"
    /\ sync' = [sync EXCEPT ![c].at = "answered"]
    /\ host' = [host EXCEPT !.accepted = @ + 1, !.timer = TRUE,
                   !.held = IF host.timer THEN @ ELSE
                            <<[n |-> host.accepted + 1, prefs |-> sync[c].doc]>>]
    /\ UNCHANGED <<local, pull, disk, inputs, faults>>

(* The bridge takes the document: executeWriteExtensionPrefs, scheduleWrite. *)
Accept(c) ==
    /\ sync[c].at = "posting"
    /\ sync' = [sync EXCEPT ![c].at = "answered"]
    /\ host' = [host EXCEPT !.accepted = @ + 1, !.timer = TRUE,
                            !.held = <<[n |-> host.accepted + 1, prefs |-> sync[c].doc]>>]
    /\ UNCHANGED <<local, pull, disk, inputs, faults>>

PushEnds(c) ==
    /\ \/ sync[c].at = "answered" /\ UNCHANGED faults
       \/ sync[c].at = "posting" /\ Fail
    /\ sync' = [sync EXCEPT ![c] = Ended(@)]
    /\ UNCHANGED <<local, pull, host, disk, inputs>>

PullNow(c) ==
    /\ Input
    /\ sync[c].open
    /\ pull[c].at = "idle"
    /\ pull' = [pull EXCEPT ![c].at = "getting"]
    /\ UNCHANGED <<local, sync, host, disk, faults>>

(* The GET of a hydrate: the document on the disk, not the pending one.      *)
Get(c) ==
    /\ pull[c].at = "getting"
    /\ \/ /\ pull' = [pull EXCEPT ![c].at = "got", ![c].remote = ReadDisk]
          /\ UNCHANGED faults
       \/ /\ Fail
          /\ pull' = [pull EXCEPT ![c] = NoPull]
    /\ UNCHANGED <<local, sync, host, disk, inputs>>

(* After a read in vain every value of the bridge counts as newer, and       *)
(* hydrate pushes as it does when it has written.                            *)
ReadForPull(c) ==
    /\ pull[c].at = "got"
    /\ \E failed \in BOOLEAN :
         LET here == Read(MachineOf[c], failed)
         IN  /\ MayFail(failed)
             /\ pull' = [pull EXCEPT ![c].at = "writing", ![c].wrote = failed,
                            ![c].todo = {k \in Keys : ShouldTakeRemote(pull[c].remote[k], here[k])}]
    /\ UNCHANGED <<local, sync, host, disk, inputs>>

(* One awaited writeLocalValue.  What the key holds by now is not looked at, *)
(* and a failed write is ignored.                                            *)
TakeRemote(c, k) ==
    /\ pull[c].at = "writing"
    /\ k \in pull[c].todo
    /\ \/ local' = [local EXCEPT ![MachineOf[c]][k] = pull[c].remote[k]] /\ UNCHANGED faults
       \/ UNCHANGED local /\ Fail
    /\ pull' = [pull EXCEPT ![c].todo = @ \ {k}, ![c].wrote = TRUE]
    /\ UNCHANGED <<sync, host, disk, inputs>>

PullEnds(c) ==
    /\ pull[c].at = "writing"
    /\ pull[c].todo = {}
    /\ sync' = IF pull[c].wrote THEN [sync EXCEPT ![c] = Scheduled(Asked(@))] ELSE sync
    /\ pull' = [pull EXCEPT ![c] = NoPull]
    /\ UNCHANGED <<local, host, disk, inputs, faults>>

-----------------------------------------------------------------------------
(* The prefs service of the bridge.                                          *)

(* A slip to check against: pendingTimer is not cleared.                     *)
HostTimerUncleared ==
    /\ host.timer
    /\ host' = [host EXCEPT !.held = <<>>, !.chain = Append(@, host.held[1])]
    /\ UNCHANGED <<local, sync, pull, disk, inputs, faults>>

(* The 150 ms timer: the pending document joins the write chain.             *)
HostTimer ==
    /\ host.timer
    /\ host' = [host EXCEPT !.timer = FALSE, !.held = <<>>, !.chain = Append(@, host.held[1])]
    /\ UNCHANGED <<local, sync, pull, disk, inputs, faults>>

(* writeFile truncates the file, then fills it.                              *)
BeginWrite ==
    /\ ~host.writing
    /\ host.chain # <<>>
    /\ host' = [host EXCEPT !.writing = TRUE]
    /\ disk' = [disk EXCEPT !.torn = TRUE]
    /\ UNCHANGED <<local, sync, pull, inputs, faults>>

(* A slip to check against: writes run side by side, not in a chain.         *)
EndAnyWrite ==
    /\ host.writing
    /\ \E i \in DOMAIN host.chain :
         /\ host' = [host EXCEPT !.writing = FALSE,
                   !.chain = SubSeq(@, 1, i - 1) \o SubSeq(@, i + 1, Len(@))]
         /\ disk' = [torn |-> FALSE, n |-> host.chain[i].n, prefs |-> host.chain[i].prefs]
    /\ UNCHANGED <<local, sync, pull, inputs, faults>>

EndWrite ==
    /\ host.writing
    /\ host' = [host EXCEPT !.writing = FALSE, !.chain = Tail(@)]
    /\ disk' = [torn |-> FALSE, n |-> Head(host.chain).n, prefs |-> Head(host.chain).prefs]
    /\ UNCHANGED <<local, sync, pull, inputs, faults>>

(* The .catch of the chain: the error is logged and the document dropped.    *)
WriteFails ==
    /\ Fail
    /\ host.writing
    /\ host' = [host EXCEPT !.writing = FALSE, !.chain = Tail(@), !.lost = Head(host.chain).n]
    /\ UNCHANGED <<local, sync, pull, disk, inputs>>

(* The bridge process stops: nothing calls flushPendingWrites.               *)
HostStops ==
    /\ Fail
    /\ host' = [host EXCEPT !.timer = FALSE, !.held = <<>>, !.chain = <<>>,
                            !.writing = FALSE, !.lost = host.accepted]
    /\ UNCHANGED <<local, sync, pull, disk, inputs>>

-----------------------------------------------------------------------------
Init ==
    /\ local = [m \in Machines |-> Empty]
    /\ sync = [c \in Contexts |-> Closed(Empty)]
    /\ pull = [c \in Contexts |-> NoPull]
    /\ host = [held |-> <<>>, timer |-> FALSE, chain |-> <<>>, writing |-> FALSE,
               accepted |-> 0, lost |-> 0]
    /\ disk = [torn |-> FALSE, n |-> 0, prefs |-> Empty]
    /\ inputs = 0 /\ faults = 0

ContextStep(c) ==
    \/ TimerFires(c) \/ ReadForPush(c) \/ Accept(c) \/ PushEnds(c)
    \/ Get(c) \/ ReadForPull(c) \/ PullEnds(c)
    \/ \E k \in Keys : TakeRemote(c, k)

HostStep == HostTimer \/ BeginWrite \/ EndWrite

Next ==
    \/ \E m \in Machines, k \in Keys : Edit(m, k)
    \/ \E c \in Contexts : Open(c) \/ Close(c) \/ PushNow(c) \/ PullNow(c) \/ ContextStep(c)
    \/ HostStep \/ WriteFails \/ HostStops

Spec == Init /\ [][Next]_vars

(* Timers fire, promises settle, requests are answered: each context and the *)
(* host go on; nobody has to edit, press, fail or stop.                      *)
FairSpec ==
    /\ Spec
    /\ \A c \in Contexts : WF_vars(ContextStep(c))
    /\ WF_vars(HostStep)
=============================================================================
