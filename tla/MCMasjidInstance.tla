-------------------------- MODULE MCMasjidInstance --------------------------
(* MasjidInstance on small instances for TLC. *)
EXTENDS MasjidInstance

CONSTANTS imam, bilal, umar

(***************************************************************************)
(* Two requests at once, under a fixed board and admin: the board is       *)
(* edited by the other run.                                                *)
(***************************************************************************)
FixedBoardNext == Next /\ UNCHANGED boardVars

FixedBoardSpec == Init /\ [][FixedBoardNext]_vars
=============================================================================
