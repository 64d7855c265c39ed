--------------------------- MODULE PageLockTable ---------------------------
(***************************************************************************)
(* What the page locks of browser jobs promise: a table of who holds which *)
(* lock.  Jobs get a lock one at a time, never one that clashes with a     *)
(* lock that is held, keep it as it is, and give it back.                  *)
(***************************************************************************)
CONSTANTS Jobs, Locks, Clash

VARIABLE held   \* pairs of a job and the lock it works under

Init == held = {}

Grant(j, l) ==
    /\ \A g \in held : g[1] # j /\ <<l, g[2]>> \notin Clash
    /\ held' = held \cup {<<j, l>>}

Release(given) ==
    /\ given # {}
    /\ held' = held \ given

Next ==
    \/ \E j \in Jobs, l \in Locks : Grant(j, l)
    \/ \E given \in SUBSET held : Release(given)

Spec == Init /\ [][Next]_held
=============================================================================
