------------------------------- MODULE MCChat -------------------------------
(* Small instances of the chats for TLC.                                     *)
EXTENDS ChatProperties

CONSTANTS p1, f1

Question == [turn |-> 0, role |-> "user"]
Reply == [turn |-> 0, role |-> "assistant"]

(* A chat with an answer, filed in a folder of a project, is the active one; *)
(* or the storage was never written.                                         *)
Filed == [sessions |-> [i \in Sessions |->
             IF i = 1 THEN [state |-> "live", project |-> p1, folder |-> f1,
                            log |-> <<Question, Reply>>] ELSE NoSession],
          projects |-> [p \in Projects |-> IF p = p1 THEN "live" ELSE "absent"],
          folders |-> [f \in Folders |-> IF f = f1 THEN [there |-> TRUE, project |-> p1]
                                         ELSE NoFolder],
          active |-> 1]

(* The main workspace takes a turn while the panel edits; both edit, or the  *)
(* panel takes a turn, while the storage may refuse one of them; and each    *)
(* alone does more of either.                                                *)
Sure(o, e, t) == [openings |-> o, edits |-> e, turns |-> t, fails |-> FALSE]
Shaky(o, e, t) == [Sure(o, e, t) EXCEPT !.fails = TRUE]
Both(panel, main) == [s \in Surfaces |-> IF s = Panel THEN panel ELSE main]
Never == Sure(0, 0, 0)
TurnAndEdit == Both(Sure(1, 1, 0), Sure(1, 0, 1))
SomeBudgets == {TurnAndEdit,
                Both(Shaky(1, 1, 0), Sure(1, 1, 0)), Both(Sure(1, 0, 1), Shaky(1, 0, 0)),
                Both(Never, Sure(1, 4, 0)), Both(Never, Shaky(1, 3, 0)),
                Both(Never, Shaky(1, 1, 1)), Both(Shaky(2, 1, 1), Never)}

SomeChats == {Blank, Filed}

(* The largest instance starts with the chat that is there.                  *)
SomeInit == Init /\ (budget = TurnAndEdit => stored = Filed)
SomeSpec == SomeInit /\ [][Next]_vars
=============================================================================
