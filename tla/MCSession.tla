----------------------------- MODULE MCSession ------------------------------
(* Session on a small instance for TLC. *)
EXTENDS Session

CONSTANTS aisha, zayd

\* The chain may make one of the two a verifier.
Events == {<<zayd, "verifier">>}
=============================================================================
