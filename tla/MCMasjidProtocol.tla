-------------------------- MODULE MCMasjidProtocol --------------------------
(* MasjidProtocol on a small instance for TLC. *)
EXTENDS MasjidProtocol

CONSTANTS v1, v2, v3, idrx

MCAddress == {v1, v2, v3}

\* A sound board, one with a repeated member and one with the zero address.
MCBoardList == { <<v1, v2>>, <<v2, v2>>, <<v1, ZeroAddress>> }
=============================================================================
