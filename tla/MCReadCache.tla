---------------------------- MODULE MCReadCache ----------------------------
(***************************************************************************)
(* Two processes, the first with two request threads; one matchup with its *)
(* own key and an alias.                                                   *)
(***************************************************************************)
EXTENDS ReadCache, TLC

CONSTANTS p1, p2, t1, t2, t3

MCHome == (t1 :> p1) @@ (t2 :> p1) @@ (t3 :> p2)
=============================================================================
