------------------------- MODULE MCChatCoordinator -------------------------
(* Small instances of ChatCoordinator for TLC. *)
EXTENDS ChatCoordinator, TLC

CONSTANTS k1, k2, k3, k4, t1, t2

(* Three turns of one thread and one of another. *)
MCThreadOf == (k1 :> t1) @@ (k2 :> t1) @@ (k3 :> t1) @@ (k4 :> t2)

(* Three turns of one thread. *)
MCThreadOfTriple == (k1 :> t1) @@ (k2 :> t1) @@ (k3 :> t1)

(* They differ in name only, and the input of a handle that has not been   *)
(* created, which Init takes to be one of them, is never read.             *)
TurnSymmetry == Permutations(Keys)

(* Bound: the turns of t1 differ in name only, so they are created in one  *)
(* order (no turn is forgotten in this instance).                          *)
CreatedInOrder ==
    /\ turns[k2] # NoHandle => turns[k1] # NoHandle
    /\ turns[k3] # NoHandle => turns[k2] # NoHandle
=============================================================================
