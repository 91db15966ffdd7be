----------------------------- MODULE MCSchedule -----------------------------
(***************************************************************************)
(* A small instance of Schedule for TLC.                                   *)
(***************************************************************************)
EXTENDS Schedule, TLC

(* A duration below the buffer's negative makes a screening end before it  *)
(* starts.                                                                 *)
NewDurationsHere == {-3, 1, 2}

Symmetry == Permutations(Request) \cup Permutations(Movie) \cup Permutations(Row)
=============================================================================
