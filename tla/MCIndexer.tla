----------------------------- MODULE MCIndexer -----------------------------
(* Indexer on small instances for TLC. *)
EXTENDS Indexer

CONSTANTS istiqlal, alaqsa, imam, bilal

\* A chain with one mosque that waits for a vote.
OnePending == << <<Registered(istiqlal)>> >>

\* A chain with one verified mosque.
OneVerified ==
  << <<Registered(istiqlal)>>,
     <<Attested(istiqlal, imam, TRUE, 1, 0), BoardMemberUpdated(istiqlal, imam, TRUE),
       Verified(istiqlal)>> >>

\* A chain with one verified mosque and one that waits for a vote.
OneVerifiedOnePending == Append(OneVerified, <<Registered(alaqsa)>>)

(***************************************************************************)
(* Blocks are added and replaced between ticks.  A tick reads the height   *)
(* once and then only blocks below it, which no later block changes, so a  *)
(* block that arrives during a tick could as well have come after it.      *)
(***************************************************************************)
QuietChainStep == pass = "idle" /\ (ChainStep \/ ReorgStep)

QuietNext == QuietChainStep \/ IndexerStep \/ Hang \/ Crash

QuietSpec == Init /\ [][QuietNext]_vars /\ WF_vars(IndexerStep)
=============================================================================
