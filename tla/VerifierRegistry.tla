-------------------------- MODULE VerifierRegistry --------------------------
(***************************************************************************)
(* smart-contract/src/protocol/VerifierRegistry.sol: the list of accounts  *)
(* that may attest mosques, kept by one authority, and the quorum derived  *)
(* from its size.  Labels carry no control and are left out.               *)
(***************************************************************************)
EXTENDS Naturals, FiniteSets

CONSTANTS
  Address,            \* accounts that can send a transaction
  ZeroAddress,        \* address(0): never a sender
  InitialAuthority    \* authority_ of the constructor

VARIABLES
  authority,      \* the account that may change the list
  isVerifier,     \* the accounts whose isVerifier entry is true
  verifierCount   \* the counter quorum() reads

registryVars == <<authority, isVerifier, verifierCount>>

\* The type of the registry's storage.
RegistryTypeOK ==
  /\ authority \in Address
  /\ isVerifier \subseteq Address
  /\ verifierCount \in Nat

RegistryInit ==
  /\ authority = InitialAuthority
  /\ isVerifier = {}
  /\ verifierCount = 0

quorum == (verifierCount \div 2) + 1
----------------------------------------------------------------------------
\* Mutant: the authority can be thrown away.
TransferAuthorityUnchecked(caller, newAuthority) ==
  /\ caller = authority
  /\ authority' = newAuthority
  /\ UNCHANGED <<isVerifier, verifierCount>>

TransferAuthority(caller, newAuthority) ==
  /\ caller = authority
  /\ newAuthority # ZeroAddress
  /\ authority' = newAuthority
  /\ UNCHANGED <<isVerifier, verifierCount>>

AddVerifier(caller, verifier) ==
  /\ caller = authority
  /\ verifier # ZeroAddress
  /\ verifier \notin isVerifier
  /\ isVerifier' = isVerifier \cup {verifier}
  /\ verifierCount' = verifierCount + 1
  /\ UNCHANGED authority

RemoveVerifier(caller, verifier) ==
  /\ caller = authority
  /\ verifier \in isVerifier
  /\ isVerifier' = isVerifier \ {verifier}
  /\ verifierCount' = verifierCount - 1
  /\ UNCHANGED authority

RegistryNext ==
  \E caller \in Address, target \in Address \cup {ZeroAddress} :
    \/ TransferAuthority(caller, target)
    \/ AddVerifier(caller, target)
    \/ RemoveVerifier(caller, target)
----------------------------------------------------------------------------
(***************************************************************************)
(* The counter quorum() divides is the number of accounts isVerifier       *)
(* admits, so that two sets of quorum() current verifiers always share a   *)
(* member and a mosque cannot gather a quorum for and one against from     *)
(* disjoint groups of current verifiers (VerifierRegistry.sol 40-63).      *)
(***************************************************************************)
QuorumIsMajority ==
  /\ verifierCount = Cardinality(isVerifier)
  /\ 2 * quorum > Cardinality(isVerifier)
=============================================================================
