------------------------ MODULE PrefsSyncProperties ------------------------
(* What the preference sync promises.                                        *)
EXTENDS PrefsSync

(* Every variable holds what the code can put there; the service's timer     *)
(* is set exactly while a document waits for it, a write has its document.   *)
TypeOK ==
    /\ local \in [Machines -> Document]
    /\ sync \in [Contexts -> SyncState]
    /\ pull \in [Contexts -> PullState]
    /\ host \in HostState
    /\ host.timer <=> host.held # <<>>
    /\ host.writing => host.chain # <<>>
    /\ disk \in [torn : BOOLEAN, n : Nat, prefs : Document]
    /\ inputs \in 0..MaxInputs /\ faults \in 0..MaxFaults

(* A push asked for by a button or by a hydrate is made: a context with no   *)
(* timer and no push in flight has read its storage since the last wish,     *)
(* however timers, presses, hydrates and failing pushes interleave.          *)
WishesAreSent ==
    \A c \in Contexts : ~sync[c].timer /\ sync[c].at = "idle" => ~sync[c].asked

(* The write chain: the file never goes back to a document accepted earlier, *)
(* and its content is always one whole accepted document.                    *)
DiskFollowsAcceptance == [][disk'.n >= disk.n]_vars

(* Coalescing loses nothing but superseded documents: when the service is    *)
(* quiet the file holds the last document it accepted, unless a stop or a    *)
(* failed write took that very document.                                     *)
QuietHostIsCurrent ==
    ~host.timer /\ host.chain = <<>>
        => (disk.n = host.accepted /\ ~disk.torn) \/ host.lost = host.accepted

(* Whatever fails, the sync comes to rest with nothing left behind: every    *)
(* push asked for was read and has ended, and the file is the last document  *)
(* the service accepted unless that one was lost.                            *)
SyncSettles ==
    <>[](/\ \A c \in Contexts : ~sync[c].asked /\ sync[c].at = "idle"
         /\ (disk.n = host.accepted /\ ~disk.torn) \/ host.lost = host.accepted)

(* prefs-sync.js:15 "if one of the synced keys changed, POST the merged      *)
(* document": an open context reads a change of its storage into a push.     *)
ChangesAreSent ==
    \A c \in Contexts :
        (sync[c].open /\ sync[c].doc # local[MachineOf[c]])
            ~> (~sync[c].open \/ sync[c].doc = local[MachineOf[c]])

(* prefs-sync.js:13 "Whichever is newer wins": a hydrate never replaces an   *)
(* edit by an older one.                                                     *)
NewerWins == [][\A m \in Machines, k \in Keys : local'[m][k] >= local[m][k]]_vars
=============================================================================
