--------------------------- MODULE ChatProperties ---------------------------
(* What the chats promise, over the two surfaces of ChatSurfaces.            *)
EXTENDS ChatSurfaces

(* The variables hold what ChatSurfaces says they hold.                      *)
TypeOK ==
    /\ mem \in [Surfaces -> Store]
    /\ stored \in Store
    /\ up \in [Surfaces -> {"closed", "starting", "greeting", "up"}]
    /\ due \in [Surfaces -> SUBSET {"boot", "change"}]
    /\ pulls \in [Surfaces -> Seq(Pull)]
    /\ stale \in [Surfaces -> BOOLEAN]
    /\ turn \in [Surfaces -> Turn]
    /\ made \in 0..MaxSessions
    /\ used \in SUBSET (Projects \cup Folders)
    /\ asked \in 0..MaxTurns
    /\ budget \in [Surfaces -> Allowance]

-----------------------------------------------------------------------------
(* A chat's project exists; its folder exists and belongs to that project; a *)
(* folder's project exists.                                                  *)
Sound(m) ==
    /\ \A i \in Sessions : LET c == m.sessions[i] IN
        /\ c.project # None => m.projects[c.project] # "absent"
        /\ c.folder # None => /\ m.folders[c.folder].there
                              /\ m.folders[c.folder].project = c.project
    /\ \A f \in Folders : m.folders[f].there =>
        /\ m.folders[f].project # None
        /\ m.projects[m.folders[f].project] # "absent"

(* The storage is sound to begin with, as the writes of earlier runs left it.*)
ASSUME StoredIsSound == \A m \in Stored : Sound(m)

(* The tree of projects, folders and chats never points at a missing parent, *)
(* neither in a surface, nor in the storage, nor in a read that is under way *)
(* (hydrate cleans what it reads; every operation keeps the three together). *)
TreeIsSound ==
    /\ Sound(stored)
    /\ \A s \in Surfaces : /\ Sound(mem[s])
                           /\ \A j \in DOMAIN pulls[s] : Sound(pulls[s][j].snap)

(* A surface with no change to take in, no read under way, and no write of   *)
(* its own lost under an older read.                                         *)
InStep(s) == up[s] # "closed" /\ due[s] = {} /\ pulls[s] = <<>> /\ ~stale[s]

(* The surfaces stay in lockstep: one that is in step holds what the storage *)
(* holds, or what hydrate or ensureSession makes of it.  The writer tokens,  *)
(* which hide a surface's own writes from it, must not hide another          *)
(* surface's.                                                                *)
Lockstep ==
    \A s \in Surfaces : InStep(s) =>
        \/ mem[s] = stored
        \/ \E n \in 1..(MaxSessions + 1) : mem[s] \in {Hydrated(stored, n), Ensured(stored, n)}

(* The chats and messages of the storage are still there after the step.     *)
Kept ==
    \A i \in Present(stored) :
        /\ stored'.sessions[i].state # "absent"
        /\ \A j \in DOMAIN stored.sessions[i].log :
            \E k \in DOMAIN stored'.sessions[i].log :
                stored'.sessions[i].log[k] = stored.sessions[i].log[j]

(* The commands that are there to remove something.                          *)
Destructive ==
    \/ \E i \in Sessions : EraseChat(i)
    \/ \E s \in Surfaces : \E k \in 1..Len(Log(mem[s])) :
        EraseMessage(s, k) \/ Regenerate(s, k, "overwrite")

(* While both surfaces are in step no write loses a chat or a message, but   *)
(* by the command that asks for it: forks, branches, archiving, deleting a   *)
(* project and a late answer leave every transcript whole.                   *)
InStepKeepsAll ==
    [][(\A s \in Surfaces : up[s] = "closed" \/ InStep(s)) => Kept \/ Destructive]_vars

(* What the tester's runbook says of a reload: a chat can be continued, and  *)
(* what went before is preserved.                                            *)
ContinuingKeepsAll == [][(\E s \in Surfaces : Ask(s)) => Kept]_vars
=============================================================================
