---------------------------- MODULE ChatSurfaces ----------------------------
(* The side panel and the main workspace over the same chats.  Each surface  *)
(* has a chat-session-store of its own; both read and write the same keys of *)
(* the extension's storage, and each takes in what the other wrote when the  *)
(* storage reports it.  A write is one step: the store changes in memory and *)
(* issues the set at once, and the storage serves requests in order.  A call *)
(* of the storage may fail, and the store takes no notice of it.             *)
EXTENDS ChatSessionStore

CONSTANTS
    Panel,          \* the side panel
    Main,           \* the main workspace, with the settings
    Stored,         \* what the storage may hold to begin with
    Budgets,        \* bound: the openings, edits and turns of each surface, and
                    \* whether its calls of the storage may fail
    MaxPulls        \* bound: reads of the storage in flight in one surface

ASSUME SurfacesDiffer == Panel # Main

Allowance == [openings : Nat, edits : Nat, turns : Nat, fails : BOOLEAN]

ASSUME LimitsAreNaturals ==
    /\ MaxPulls \in Nat \ {0}
    /\ Budgets \subseteq [{Panel, Main} -> Allowance]
ASSUME StoredAreStores == Stored \subseteq Store

Surfaces == {Panel, Main}

VARIABLES
    mem,        \* what each surface holds
    stored,     \* what the storage holds
    up,         \* how far each surface is with starting
    due,        \* the hydrates a surface has to start, and why
    pulls,      \* its hydrates that wait for the storage
    stale,      \* its last write failed, or its last hydrate took in less than
                \* it had written
    turn,       \* the question it waits on
    made,       \* the newest chat's number
    used,       \* the project and folder ids used
    asked,      \* questions asked
    budget      \* what is left of it

vars == <<mem, stored, up, due, pulls, stale, turn, made, used, asked, budget>>

Pull == [snap : Store, boot : BOOLEAN, behind : BOOLEAN]
Turn == [n : 0..MaxTurns, at : {"idle", "waiting", "answered", "noticed"}]
NoTurn == [n |-> 0, at |-> "idle"]

Init ==
    /\ stored \in Stored
    /\ mem = [s \in Surfaces |-> Blank]
    /\ up = [s \in Surfaces |-> "closed"]
    /\ due = [s \in Surfaces |-> {}]
    /\ pulls = [s \in Surfaces |-> <<>>]
    /\ stale = [s \in Surfaces |-> FALSE]
    /\ turn = [s \in Surfaces |-> NoTurn]
    /\ made = First(Present(stored) \cup {0})
    /\ used = {p \in Projects : stored.projects[p] # "absent"}
              \cup {f \in Folders : stored.folders[f].there}
    /\ asked = 0
    /\ budget \in Budgets

-----------------------------------------------------------------------------
(* The surface holds the store m, which may have one chat more.              *)
Hold(s, m) ==
    /\ m.active \in Sessions
    /\ mem' = [mem EXCEPT ![s] = m]
    /\ made' = IF m.active > made THEN m.active ELSE made

(* A slip to check against: every surface takes the write for its own.       *)
ToldNobody(s) == due

(* The storage tells every open surface of a write; shouldSyncChatChange     *)
(* skips the writer.                                                         *)
Told(s) ==
    [t \in Surfaces |-> IF t # s /\ up[t] # "closed" THEN due[t] \cup {"change"} ELSE due[t]]

(* The storage takes the store m.                                            *)
Set(s, m) ==
    /\ stored' = m
    /\ due' = Told(s)
    /\ pulls' = [pulls EXCEPT ![s] = [j \in DOMAIN @ |-> [@[j] EXCEPT !.behind = TRUE]]]
    /\ stale' = [stale EXCEPT ![s] = FALSE]

(* The set is refused, which persist swallows.                               *)
SetFails(s) ==
    /\ budget[s].fails
    /\ stale' = [stale EXCEPT ![s] = TRUE]
    /\ UNCHANGED <<stored, due, pulls>>

(* persist: writes the active chat back and everything else with it.         *)
Write(s, changed) ==
    LET m == Written(changed, made + 1) IN Hold(s, m) /\ (Set(s, m) \/ SetFails(s))

(* A command the human gives on a surface.  The listeners are bound before   *)
(* the first hydrate, so a surface that is starting takes commands too.      *)
Commanded(s) ==
    /\ up[s] # "closed"
    /\ budget[s].edits > 0
    /\ budget' = [budget EXCEPT ![s].edits = @ - 1]
    /\ UNCHANGED <<up, turn, asked>>

Command(s, m) == Commanded(s) /\ Write(s, m) /\ UNCHANGED used

-----------------------------------------------------------------------------
(* A surface opens, and closes whatever it is doing.                         *)
Open(s) ==
    /\ up[s] = "closed"
    /\ budget[s].openings > 0
    /\ budget' = [budget EXCEPT ![s].openings = @ - 1]
    /\ up' = [up EXCEPT ![s] = "starting"]
    /\ due' = [due EXCEPT ![s] = {"boot"}]
    /\ UNCHANGED <<mem, stored, pulls, stale, turn, made, used, asked>>

Close(s) ==
    /\ up[s] # "closed"
    /\ up' = [up EXCEPT ![s] = "closed"]
    /\ mem' = [mem EXCEPT ![s] = Blank]
    /\ due' = [due EXCEPT ![s] = {}]
    /\ pulls' = [pulls EXCEPT ![s] = <<>>]
    /\ stale' = [stale EXCEPT ![s] = FALSE]
    /\ turn' = [turn EXCEPT ![s] = NoTurn]
    /\ UNCHANGED <<stored, made, used, asked, budget>>

(* hydrate asks the storage: at the start once the provider's models are     *)
(* known or given up, and for every change another surface made.  A refused  *)
(* get reads as an empty storage.                                            *)
Read(s, why, failed) ==
    /\ why \in due[s]
    /\ failed => budget[s].fails
    /\ Len(pulls[s]) < MaxPulls
    /\ due' = [due EXCEPT ![s] = @ \ {why}]
    /\ pulls' = [pulls EXCEPT ![s] =
                    Append(@, [snap |-> IF failed THEN Blank ELSE stored,
                               boot |-> why = "boot", behind |-> failed])]
    /\ UNCHANGED <<mem, stored, up, stale, turn, made, used, asked, budget>>

(* The answer replaces the whole memory; what it cleaned is not persisted.   *)
Assign(s) ==
    /\ pulls[s] # <<>>
    /\ LET pull == Head(pulls[s])
           m == Hydrated(pull.snap, made + 1)
       IN  /\ Hold(s, m)
           /\ stale' = [stale EXCEPT ![s] = pull.behind]
           /\ up' = [up EXCEPT ![s] = IF pull.boot THEN IF s = Main THEN "greeting" ELSE "up"
                                      ELSE @]
    /\ pulls' = [pulls EXCEPT ![s] = Tail(@)]
    /\ UNCHANGED <<stored, due, turn, used, asked, budget>>

(* The main workspace ends its start with ensureFreshSession: on a chat      *)
(* without messages, or a new one.  A deep link goes elsewhere.              *)
Greet(s) ==
    /\ up[s] = "greeting"
    /\ up' = [up EXCEPT ![s] = "up"]
    /\ LET m == Ensured(mem[s], made + 1) IN
       IF Log(m) = <<>>
       THEN Hold(s, m) /\ UNCHANGED <<stored, due, pulls, stale>>
       ELSE Write(s, CreateSession(m, made + 1))
    /\ UNCHANGED <<turn, used, asked, budget>>

FollowDeepLink(s) ==
    /\ up[s] = "greeting"
    /\ up' = [up EXCEPT ![s] = "up"]
    /\ UNCHANGED <<mem, stored, due, pulls, stale, turn, made, used, asked, budget>>

-----------------------------------------------------------------------------
(* A turn: the question, the provider's answer or its failure (the human's   *)
(* stop is one), a notice of another route, and the end, where the panel     *)
(* clears the attachments.  Each goes to the chat that is active by then.    *)
TakesTurn(s) ==
    /\ up[s] # "closed"
    /\ turn[s].at = "idle"
    /\ budget[s].turns > 0
    /\ budget' = [budget EXCEPT ![s].turns = @ - 1]

Ask(s) ==
    /\ TakesTurn(s)
    /\ asked < MaxTurns
    /\ Write(s, AddMessage(mem[s], made + 1, [turn |-> asked + 1, role |-> "user"]))
    /\ asked' = asked + 1
    /\ turn' = [turn EXCEPT ![s] = [n |-> asked + 1, at |-> "waiting"]]
    /\ UNCHANGED <<up, used>>

Say(s, role) ==
    Write(s, AddMessage(mem[s], made + 1, [turn |-> turn[s].n, role |-> role]))

Answer(s) ==
    /\ turn[s].at = "waiting"
    /\ Say(s, "assistant")
    /\ turn' = [turn EXCEPT ![s].at = "answered"]
    /\ UNCHANGED <<up, used, asked, budget>>

Fail(s) ==
    /\ turn[s].at = "waiting"
    /\ Say(s, "system")
    /\ turn' = [turn EXCEPT ![s] = NoTurn]
    /\ UNCHANGED <<up, used, asked, budget>>

Notice(s) ==
    /\ turn[s].at = "answered"
    /\ Say(s, "system")
    /\ turn' = [turn EXCEPT ![s].at = "noticed"]
    /\ UNCHANGED <<up, used, asked, budget>>

EndTurn(s) ==
    /\ turn[s].at \in {"answered", "noticed"}
    /\ turn' = [turn EXCEPT ![s] = NoTurn]
    /\ IF s = Panel THEN Write(s, mem[s])
       ELSE UNCHANGED <<mem, stored, made, due, pulls, stale>>
    /\ UNCHANGED <<up, used, asked, budget>>

(* Regenerating an answer prepares the transcript and asks again, unless the *)
(* surface waits on a turn already.                                          *)
Prepared(s, k, mode) ==
    IF mode = "overwrite" THEN Overwritten(mem[s], k) ELSE Branched(mem[s], k, made + 1)

Regenerate(s, k, mode) ==
    /\ k \in 1..Len(Log(mem[s]))
    /\ Questions(mem[s], k) # {}
    /\ \/ /\ TakesTurn(s)
          /\ turn' = [turn EXCEPT ![s] =
                [n |-> Log(mem[s])[First(Questions(mem[s], k))].turn, at |-> "waiting"]]
          /\ UNCHANGED <<up, asked>>
       \/ turn[s].at # "idle" /\ Commanded(s)
    /\ Write(s, Prepared(s, k, mode))
    /\ UNCHANGED used

RefuseRegeneration(s, k) ==
    /\ k \in 1..Len(Log(mem[s]))
    /\ Questions(mem[s], k) = {}
    /\ Command(s, AddMessage(mem[s], made + 1,
                             [turn |-> Log(mem[s])[k].turn, role |-> "system"]))

-----------------------------------------------------------------------------
(* Commands of both surfaces.                                                *)

(* A rename, a pin, an unread mark, an expansion, an attachment: nothing of  *)
(* what is kept here changes, and the whole store is written.                *)
Touch(s) == Command(s, mem[s])

NewChat(s) == Command(s, CreateSession(mem[s], made + 1))

(* The panel's tree and the rail list the live chats with messages, the      *)
(* settings every live chat.                                                 *)
Switch(s, i) ==
    /\ i \in Live(mem[s])
    /\ s = Panel => mem[s].sessions[i].log # <<>>
    /\ Command(s, SwitchSession(mem[s], i))

ForkMessage(s, k) ==
    /\ k \in 1..Len(Log(mem[s]))
    /\ Command(s, ForkFromMessage(mem[s], k, made + 1))

EraseMessage(s, k) ==
    /\ k \in 1..Len(Log(mem[s]))
    /\ Command(s, DeleteMessage(mem[s], k))

(* Commands of the main workspace's rail and settings.                       *)
ForkChat(i) ==
    /\ i \in Live(mem[Main])
    /\ Command(Main, ForkSession(mem[Main], i, made + 1))

ArchiveChat(i, archived) ==
    /\ i \in IF archived THEN Live(mem[Main]) ELSE Present(mem[Main]) \ Live(mem[Main])
    /\ Command(Main, SetSessionArchived(mem[Main], i, archived, made + 1))

EraseChat(i) ==
    /\ i \in Live(mem[Main])
    /\ Command(Main, DeleteSession(mem[Main], i, made + 1))

MoveChat(i, p) ==
    /\ i \in Live(mem[Main])
    /\ p # None => mem[Main].projects[p] = "live"
    /\ Command(Main, SetSessionProject(mem[Main], i, p))

(* The menu files a chat in a folder of its project, or takes it out.        *)
FileChat(i, f) ==
    /\ i \in Live(mem[Main])
    /\ IF f = None THEN mem[Main].sessions[i].folder # None
       ELSE /\ mem[Main].folders[f].there
            /\ mem[Main].folders[f].project = mem[Main].sessions[i].project
    /\ Command(Main, SetSessionFolder(mem[Main], i, f))

NewProject(p) ==
    /\ p \notin used
    /\ used' = used \cup {p}
    /\ Commanded(Main)
    /\ Write(Main, SetProject(mem[Main], p, "live"))

ArchiveProject(p, archived) ==
    /\ mem[Main].projects[p] = IF archived THEN "live" ELSE "archived"
    /\ Command(Main, SetProject(mem[Main], p, IF archived THEN "archived" ELSE "live"))

EraseProject(p) ==
    /\ mem[Main].projects[p] = "live"
    /\ Command(Main, DeleteProject(mem[Main], p))

NewFolder(f, p) ==
    /\ f \notin used
    /\ mem[Main].projects[p] = "live"
    /\ used' = used \cup {f}
    /\ Commanded(Main)
    /\ Write(Main, CreateFolder(mem[Main], f, p))

EraseFolder(f) ==
    /\ mem[Main].folders[f].there
    /\ Command(Main, DeleteFolder(mem[Main], f))

-----------------------------------------------------------------------------
Modes == {"branch", "overwrite"}

Sync(s) == Assign(s) \/ \E why \in {"boot", "change"}, failed \in BOOLEAN : Read(s, why, failed)

Talk(s) ==
    \/ Ask(s) \/ Answer(s) \/ Fail(s)
    \/ Notice(s) \/ EndTurn(s)
    \/ \E k \in 1..Len(Log(mem[s])) :
        RefuseRegeneration(s, k) \/ \E mode \in Modes : Regenerate(s, k, mode)

Edit(s) ==
    \/ Touch(s) \/ NewChat(s)
    \/ \E i \in Sessions : Switch(s, i)
    \/ \E k \in 1..Len(Log(mem[s])) : ForkMessage(s, k) \/ EraseMessage(s, k)

Organise ==
    \/ \E i \in Sessions :
        \/ ForkChat(i) \/ EraseChat(i)
        \/ \E archived \in BOOLEAN : ArchiveChat(i, archived)
        \/ \E p \in Projects \cup {None} : MoveChat(i, p)
        \/ \E f \in Folders \cup {None} : FileChat(i, f)
    \/ \E p \in Projects :
        \/ NewProject(p) \/ EraseProject(p)
        \/ \E archived \in BOOLEAN : ArchiveProject(p, archived)
        \/ \E f \in Folders : NewFolder(f, p)
    \/ \E f \in Folders : EraseFolder(f)

Next ==
    \/ \E s \in Surfaces : Open(s) \/ Close(s) \/ Sync(s) \/ Greet(s) \/ FollowDeepLink(s)
                           \/ Talk(s) \/ Edit(s)
    \/ Organise

Spec == Init /\ [][Next]_vars
=============================================================================
