---------------------------- MODULE MCDonateFlow ----------------------------
(* DonateFlow on a small instance for TLC. *)
EXTENDS DonateFlow

CONSTANTS fatimah, umar

\* A negative amount passes the button and fails at the encoding; a second donation
\* of 1 fits an account's funds, one of 2 does not.
Amounts == {-1, 1, 2}
=============================================================================
