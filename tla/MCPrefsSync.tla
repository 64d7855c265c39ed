---------------------------- MODULE MCPrefsSync ----------------------------
(* Two machines with one context each.                                       *)
EXTENDS PrefsSyncProperties, TLC

CONSTANTS c1, c2, m1, m2

OneEach == c1 :> m1 @@ c2 :> m2
=============================================================================
