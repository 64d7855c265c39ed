---------------------------- MODULE MCBrowserJobs ----------------------------
(***************************************************************************)
(* Small instances of BrowserJobSession for TLC: the clash relations the   *)
(* configurations choose for their page locks, and the symmetry of jobs.   *)
(***************************************************************************)
EXTENDS BrowserJobProperties, TLC

\* Every lock covers the same target as every other one.
SameTarget == Locks \X Locks

\* Every lock covers a target of its own.
OwnTarget == {<<l, l>> : l \in Locks}

\* The lock that covers a whole site; each other lock covers one page of it.
Site == CHOOSE l \in Locks : TRUE

SiteAndPages == OwnTarget \cup ({Site} \X Locks) \cup (Locks \X {Site})

\* Jobs are interchangeable: no definition tells one from another (First
\* chooses among equally new jobs only where there is one newest).
JobSymmetry == Permutations(Jobs)

\* And so are the pages of the site.
JobAndPageSymmetry == JobSymmetry \cup Permutations(Locks \ {Site})
=============================================================================
