-------------------------- MODULE ChatSessionStore --------------------------
(* chat-session-store.js: what one surface holds of the chats, and what each *)
(* operation of the store makes of it.  A chat's number is the order of its  *)
(* creation; the code keeps the list newest first, so the first chat of a    *)
(* list is the one with the greatest number.  The transcript in memory is    *)
(* the log of the active chat after every operation and is not kept twice.   *)
(* Names, pins, unread marks, expansion and attachments are left out.        *)
EXTENDS Integers, Sequences

CONSTANTS
    Projects,       \* project ids
    Folders,        \* folder ids
    None,           \* no project, no folder
    MaxSessions,    \* bound: chats ever created
    MaxTurns        \* bound: questions ever asked

ASSUME NoneIsNoId == None \notin Projects /\ None \notin Folders
ASSUME BoundsAreNaturals == MaxSessions \in Nat \ {0} /\ MaxTurns \in Nat

Sessions == 1..MaxSessions
Message == [turn : 0..MaxTurns, role : {"user", "assistant", "system"}]
Session == [state : {"absent", "live", "archived"}, project : Projects \cup {None},
            folder : Folders \cup {None}, log : Seq(Message)]
Folder == [there : BOOLEAN, project : Projects \cup {None}]
Store == [sessions : [Sessions -> Session], projects : [Projects -> {"absent", "live", "archived"}],
          folders : [Folders -> Folder], active : 0..MaxSessions]

NoSession == [state |-> "absent", project |-> None, folder |-> None, log |-> <<>>]
NoFolder == [there |-> FALSE, project |-> None]

(* The store before its first hydrate, and a storage never written.          *)
Blank == [sessions |-> [i \in Sessions |-> NoSession],
          projects |-> [p \in Projects |-> "absent"],
          folders |-> [f \in Folders |-> NoFolder], active |-> 0]

-----------------------------------------------------------------------------
Present(m) == {i \in Sessions : m.sessions[i].state # "absent"}
Live(m) == {i \in Sessions : m.sessions[i].state = "live"}

(* The first of a list of chats: the newest.                                 *)
First(S) == CHOOSE i \in S : \A j \in S : j <= i

Log(m) == IF m.active \in Sessions THEN m.sessions[m.active].log ELSE <<>>

(* normalizeSession: a new chat with number n, made the active one.          *)
Opened(m, n, project, log) ==
    [m EXCEPT !.sessions = [i \in Sessions |->
                  IF i = n THEN [state |-> "live", project |-> project,
                                 folder |-> None, log |-> log]
                  ELSE @[i]],
              !.active = n]

Started(m, n) == Opened(m, n, None, <<>>)

(* writeActiveSession: a store without chats gets one.                       *)
Written(m, n) == IF Present(m) = {} THEN Started(m, n) ELSE m

(* ensureSession: a live chat exists, and the active one is live.            *)
Ensured(m, n) ==
    IF Live(m) = {} THEN Started(m, n)
    ELSE IF m.active \in Live(m) THEN m
    ELSE [m EXCEPT !.active = First(Live(m))]

(* The end of hydrate: chats leave projects that are gone or archived,       *)
(* folders of such projects are dropped, and chats leave dropped folders.    *)
Cleaned(m) ==
    LET live(p) == p # None /\ m.projects[p] = "live"
        kept(f) == /\ m.folders[f].there
                   /\ m.folders[f].project = None \/ live(m.folders[f].project)
        project(p) == IF live(p) THEN p ELSE None
        folder(f) == IF f # None /\ kept(f) THEN f ELSE None
    IN  [m EXCEPT !.sessions = [i \in Sessions |->
                     [m.sessions[i] EXCEPT !.project = project(@), !.folder = folder(@)]],
                  !.folders = [f \in Folders |-> IF kept(f) THEN m.folders[f] ELSE NoFolder]]

(* hydrate, after the awaited read: n numbers the chat it may have to make.  *)
Hydrated(stored, n) == Cleaned(Ensured(stored, n))

-----------------------------------------------------------------------------
Put(m, i, session) == [m EXCEPT !.sessions = [@ EXCEPT ![i] = session]]

WithLog(m, log) ==
    [m EXCEPT !.sessions = [i \in Sessions |->
                  IF i = m.active THEN [@[i] EXCEPT !.log = log] ELSE @[i]]]

AddMessage(m, n, message) ==
    LET w == Written(m, n) IN WithLog(w, Append(Log(w), message))

(* createSession: after writing back the active chat.  A store without chats *)
(* takes both numbers.                                                       *)
CreateSession(m, n) ==
    IF Present(m) = {} THEN Started(Written(m, n), n + 1) ELSE Started(m, n)

SwitchSession(m, i) == [m EXCEPT !.active = i]

(* setSessionArchived: an archived active chat is replaced by the newest     *)
(* live one, or by a new one.                                                *)
SetSessionArchived(m, i, archived, n) ==
    LET a == Put(m, i, [m.sessions[i] EXCEPT !.state =
                           IF archived THEN "archived" ELSE "live"])
    IN  IF archived /\ m.active = i
        THEN IF Live(a) # {} THEN [a EXCEPT !.active = First(Live(a))] ELSE Started(a, n)
        ELSE a

(* A slip to check against: the folder of the old project is kept.           *)
SetSessionProjectOnly(m, i, p) ==
    Put(m, i, [m.sessions[i] EXCEPT !.project = p])

(* Moving a chat to a project drops its folder.                              *)
SetSessionProject(m, i, p) ==
    Put(m, i, [m.sessions[i] EXCEPT !.project = p, !.folder = None])

(* A slip to check against: the folder's id goes where its project's should. *)
SetSessionFolderIds(m, i, f) ==
    Put(m, i, [m.sessions[i] EXCEPT !.folder = f, !.project = f])

(* Filing a chat in a folder moves it to the folder's project.               *)
SetSessionFolder(m, i, f) ==
    Put(m, i, [m.sessions[i] EXCEPT
                  !.folder = f, !.project = IF f = None THEN @ ELSE m.folders[f].project])

SetProject(m, p, state) == [m EXCEPT !.projects = [@ EXCEPT ![p] = state]]

CreateFolder(m, f, p) ==
    [m EXCEPT !.folders = [@ EXCEPT ![f] = [there |-> TRUE, project |-> p]]]

Unfiled(m, gone) ==
    [i \in Sessions |-> IF m.sessions[i].folder \in gone
                        THEN [m.sessions[i] EXCEPT !.folder = None] ELSE m.sessions[i]]

DeleteFolder(m, f) ==
    [m EXCEPT !.sessions = Unfiled(m, {f}), !.folders = [@ EXCEPT ![f] = NoFolder]]

(* deleteProject: its folders go, and its chats move out.                    *)
DeleteProject(m, p) ==
    LET gone == {f \in Folders : m.folders[f].there /\ m.folders[f].project = p}
        out == Unfiled(m, gone)
    IN  [m EXCEPT !.projects = [@ EXCEPT ![p] = "absent"],
                  !.folders = [f \in Folders |-> IF f \in gone THEN NoFolder ELSE m.folders[f]],
                  !.sessions = [i \in Sessions |->
                     IF out[i].project = p THEN [out[i] EXCEPT !.project = None] ELSE out[i]]]

(* deleteSession: the last chat is replaced by a new one; a deleted active   *)
(* one by the newest, archived or not.                                       *)
DeleteSession(m, i, n) ==
    LET d == Put(m, i, NoSession)
    IN  IF Present(d) = {} THEN Started(d, n)
        ELSE IF m.active = i THEN [d EXCEPT !.active = First(Present(d))]
        ELSE d

(* A slip to check against: the cut transcript is written back to the source *)
(* before the fork is made.                                                  *)
ForkAfterWrite(m, k, n) ==
    LET cut == SubSeq(Log(m), 1, k) IN Opened(WithLog(m, cut), n, None, cut)

(* forkFromMessage: the new chat is outside any project.                     *)
ForkFromMessage(m, k, n) == Opened(m, n, None, SubSeq(Log(m), 1, k))

ForkSession(m, i, n) == Opened(m, n, m.sessions[i].project, m.sessions[i].log)

DeleteMessage(m, k) ==
    WithLog(m, SubSeq(Log(m), 1, k - 1) \o SubSeq(Log(m), k + 1, Len(Log(m))))

(* The last question before message k.                                       *)
Questions(m, k) == {j \in 1..(k - 1) : Log(m)[j].role = "user"}

(* prepareRegenerationFromMessage, in its two modes.                         *)
Overwritten(m, k) == WithLog(m, SubSeq(Log(m), 1, First(Questions(m, k))))

Branched(m, k, n) ==
    Opened(m, n, m.sessions[m.active].project, SubSeq(Log(m), 1, First(Questions(m, k))))
=============================================================================
