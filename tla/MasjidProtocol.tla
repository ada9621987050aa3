--------------------------- MODULE MasjidProtocol ---------------------------
(***************************************************************************)
(* smart-contract/src/protocol/MasjidProtocol.sol with the two contracts   *)
(* it drives: VerifierRegistry, whose quorum it reads at every vote, and   *)
(* MasjidFactory, which deploys one MasjidInstance per verified mosque.    *)
(* Of an instance this module keeps what the protocol writes: the status,  *)
(* the admin, and the board and threshold its constructor was given; what  *)
(* the instance then does on its own is module MasjidInstance.             *)
(*                                                                         *)
(* A transaction is one action: a revert anywhere in it is a disabled      *)
(* action.  A masjid id is its nonce (the code hashes it with constants).  *)
(***************************************************************************)
EXTENDS Naturals, FiniteSets, Sequences

CONSTANTS
  Address,            \* accounts that can send a transaction
  ZeroAddress,        \* address(0)
  InitialAuthority,   \* deployer given to the registry
  ProtocolAdmin,      \* the immutable admin of MasjidProtocol
  Proposer,           \* the accounts that register mosques
  Name,               \* mosque names
  EmptyName,          \* the empty string
  Stablecoin,         \* token contracts a mosque may be registered with
  BoardList,          \* the boardMembers arrays register may be called with
  MaxMasjid           \* bound: registrations

ASSUME ProtocolAssumption ==
  /\ IsFiniteSet(Address)
  /\ ZeroAddress \notin Address
  /\ InitialAuthority \in Address
  /\ ProtocolAdmin \in Address
  /\ Proposer \subseteq Address
  /\ EmptyName \notin Name
  /\ BoardList \subseteq Seq(Address \cup {ZeroAddress})
  /\ MaxMasjid \in Nat

VARIABLES
  authority, isVerifier, verifierCount,   \* of VerifierRegistry
  masjidNonce,      \* registrations so far
  masjidById,       \* the Masjid struct of each id
  masjidIdByName,   \* the id each name points to, 0 for none
  hasAttested,      \* who has voted on each id
  instances         \* the contract the factory deployed for each id

Registry == INSTANCE VerifierRegistry

MasjidId == 1..MaxMasjid

protocolVars == <<masjidNonce, masjidById, masjidIdByName, hasAttested, instances>>

registryVars == <<authority, isVerifier, verifierCount>>

vars == <<registryVars, protocolVars>>

MasjidStatus == {"None", "Pending", "Rejected", "Verified", "Flagged", "Revoked"}

Masjid ==
  [ proposer         : Address \cup {ZeroAddress},
    masjidAdmin      : Address \cup {ZeroAddress},
    name             : Name \cup {EmptyName},
    boardMembers     : Seq(Address \cup {ZeroAddress}),
    cashOutThreshold : Nat,
    attestYes        : Nat,
    attestNo         : Nat,
    status           : MasjidStatus ]

NoMasjid ==
  [ proposer |-> ZeroAddress, masjidAdmin |-> ZeroAddress, name |-> EmptyName,
    boardMembers |-> <<>>, cashOutThreshold |-> 0,
    attestYes |-> 0, attestNo |-> 0, status |-> "None" ]

Instance ==
  [ status           : {"Absent", "Verified", "Flagged", "Revoked"},
    masjidAdmin      : Address \cup {ZeroAddress},
    boardRole        : SUBSET (Address \cup {ZeroAddress}),
    cashOutThreshold : Nat ]

NoInstance ==
  [ status |-> "Absent", masjidAdmin |-> ZeroAddress,
    boardRole |-> {}, cashOutThreshold |-> 0 ]

\* The type of the protocol's storage and of the instances' mirrored fields.
TypeOK ==
  /\ Registry!RegistryTypeOK
  /\ masjidNonce \in 0..MaxMasjid
  /\ masjidById \in [MasjidId -> Masjid]
  /\ masjidIdByName \in [Name -> 0..MaxMasjid]
  /\ hasAttested \in [MasjidId -> SUBSET Address]
  /\ instances \in [MasjidId -> Instance]

Init ==
  /\ Registry!RegistryInit
  /\ masjidNonce = 0
  /\ masjidById = [id \in MasjidId |-> NoMasjid]
  /\ masjidIdByName = [n \in Name |-> 0]
  /\ hasAttested = [id \in MasjidId |-> {}]
  /\ instances = [id \in MasjidId |-> NoInstance]

Deployed(id) == instances[id].status # "Absent"
----------------------------------------------------------------------------
\* Mutant: only a verified holder keeps the name taken.
NameFreeUnlessVerified(name) ==
  LET existing == masjidIdByName[name]
  IN  existing # 0 => masjidById[existing].status # "Verified"

\* A name can be registered when it is new or its last holder was rejected.
NameFree(name) ==
  LET existing == masjidIdByName[name]
  IN  existing # 0 => masjidById[existing].status = "Rejected"

InitialThreshold(boardMembers) == (Len(boardMembers) \div 2) + 1

Register(caller, name, stablecoin, boardMembers) ==
  /\ masjidNonce < MaxMasjid
  /\ name # EmptyName
  /\ stablecoin # ZeroAddress
  /\ boardMembers # <<>>
  /\ NameFree(name)
  /\ masjidNonce' = masjidNonce + 1
  /\ masjidById' = [masjidById EXCEPT ![masjidNonce + 1] =
       [ proposer         |-> caller,
         masjidAdmin      |-> caller,
         name             |-> name,
         boardMembers     |-> boardMembers,
         cashOutThreshold |-> InitialThreshold(boardMembers),
         attestYes        |-> 0,
         attestNo         |-> 0,
         status           |-> "Pending" ] ]
  /\ masjidIdByName' = [masjidIdByName EXCEPT ![name] = masjidNonce + 1]
  /\ UNCHANGED <<registryVars, hasAttested, instances>>
----------------------------------------------------------------------------
Members(boardMembers) == { boardMembers[i] : i \in DOMAIN boardMembers }

\* Mutant: the constructor lets a repeated board member through.
ConstructorAcceptsRepeats(m) ==
  /\ m.cashOutThreshold \in 1..Len(m.boardMembers)
  /\ ZeroAddress \notin Members(m.boardMembers)

\* The checks of the MasjidInstance constructor on what register let through.
ConstructorAccepts(m) ==
  /\ m.cashOutThreshold \in 1..Len(m.boardMembers)
  /\ ZeroAddress \notin Members(m.boardMembers)
  /\ \A i, j \in DOMAIN m.boardMembers :
       m.boardMembers[i] = m.boardMembers[j] => i = j

\* _verified and MasjidFactory.deployMasjid: a new instance for the proposer,
\* told at once that it is Verified.
DeployMasjid(id, m) ==
  /\ ~Deployed(id)
  /\ ConstructorAccepts(m)
  /\ instances' = [instances EXCEPT ![id] =
       [ status           |-> "Verified",
         masjidAdmin      |-> m.proposer,
         boardRole        |-> Members(m.boardMembers),
         cashOutThreshold |-> m.cashOutThreshold ] ]

\* The Masjid struct after one more vote.
Voted(m, support) ==
  IF support THEN [m EXCEPT !.attestYes = @ + 1]
             ELSE [m EXCEPT !.attestNo = @ + 1]

\* Mutant: the quorum is one of turnout, the verdict the larger side.
DecisionByTurnout(m) ==
  CASE m.attestYes + m.attestNo < Registry!quorum -> "Pending"
    [] m.attestYes + m.attestNo >= Registry!quorum /\ m.attestYes >= m.attestNo -> "Verified"
    [] OTHER -> "Rejected"

\* What attest makes of a vote, quorum() being read as the vote is cast.
Decision(m) ==
  CASE m.attestYes >= Registry!quorum -> "Verified"
    [] m.attestYes < Registry!quorum /\ m.attestNo >= Registry!quorum -> "Rejected"
    [] OTHER -> "Pending"

\* Mutant: isVerifier is asked, hasAttested is not.
MayAttestAgain(caller, id) ==
  /\ caller \in isVerifier
  /\ masjidById[id].status = "Pending"

\* Mutant: late votes are still accepted once the mosque is decided.
MayAttestLate(caller, id) ==
  /\ caller \in isVerifier
  /\ masjidById[id].status \in {"Pending", "Rejected"}
  /\ caller \notin hasAttested[id]

MayAttest(caller, id) ==
  /\ caller \in isVerifier
  /\ masjidById[id].status = "Pending"
  /\ caller \notin hasAttested[id]

Attest(caller, id, support) ==
  LET voted    == Voted(masjidById[id], support)
      decision == Decision(voted)
  IN
  /\ MayAttest(caller, id)
  /\ hasAttested' = [hasAttested EXCEPT ![id] = @ \cup {caller}]
  /\ masjidById' = [masjidById EXCEPT ![id] = [voted EXCEPT !.status = decision]]
  /\ \/ decision = "Verified" /\ DeployMasjid(id, voted)
     \/ decision # "Verified" /\ UNCHANGED instances
  /\ UNCHANGED <<registryVars, masjidNonce, masjidIdByName>>
----------------------------------------------------------------------------
\* Mutant: the instance is not told of its new admin.
TransferAdminLocally(caller, id, newAdmin) ==
  /\ caller = masjidById[id].masjidAdmin
  /\ Deployed(id)
  /\ newAdmin # ZeroAddress
  /\ masjidById' = [masjidById EXCEPT ![id].masjidAdmin = newAdmin]
  /\ UNCHANGED <<registryVars, masjidNonce, masjidIdByName, hasAttested, instances>>

TransferAdmin(caller, id, newAdmin) ==
  /\ caller = masjidById[id].masjidAdmin
  /\ Deployed(id)
  /\ newAdmin # ZeroAddress
  /\ masjidById' = [masjidById EXCEPT ![id].masjidAdmin = newAdmin]
  /\ instances' = [instances EXCEPT ![id].masjidAdmin = newAdmin]
  /\ UNCHANGED <<registryVars, masjidNonce, masjidIdByName, hasAttested>>

\* _setStatus: the protocol's record and the instance change together.
SetStatus(caller, id, newStatus) ==
  /\ caller = ProtocolAdmin
  /\ Deployed(id)
  /\ masjidById' = [masjidById EXCEPT ![id].status = newStatus]
  /\ instances' = [instances EXCEPT ![id].status = newStatus]
  /\ UNCHANGED <<registryVars, masjidNonce, masjidIdByName, hasAttested>>

Flag(caller, id) ==
  /\ masjidById[id].status = "Verified"
  /\ SetStatus(caller, id, "Flagged")

\* Mutant: a revoked mosque can be brought back.
UnflagAny(caller, id) ==
  /\ masjidById[id].status # "Verified"
  /\ SetStatus(caller, id, "Verified")

Unflag(caller, id) ==
  /\ masjidById[id].status = "Flagged"
  /\ SetStatus(caller, id, "Verified")

Revoke(caller, id) ==
  /\ masjidById[id].status \in {"Verified", "Flagged"}
  /\ SetStatus(caller, id, "Revoked")
----------------------------------------------------------------------------
RegistryStep == Registry!RegistryNext /\ UNCHANGED protocolVars

Next ==
  \/ RegistryStep
  \/ \E caller \in Proposer, name \in Name \cup {EmptyName},
        stablecoin \in Stablecoin \cup {ZeroAddress}, boardMembers \in BoardList :
       Register(caller, name, stablecoin, boardMembers)
  \/ \E caller \in Address, id \in MasjidId :
       \/ \E support \in BOOLEAN : Attest(caller, id, support)
       \/ \E newAdmin \in Address \cup {ZeroAddress} : TransferAdmin(caller, id, newAdmin)
       \/ Flag(caller, id)
       \/ Unflag(caller, id)
       \/ Revoke(caller, id)

Spec == Init /\ [][Next]_vars
----------------------------------------------------------------------------
\* The registry's counter and its list agree: see VerifierRegistry.
QuorumIsMajority == Registry!QuorumIsMajority

(***************************************************************************)
(* However verifiers are removed and added again between votes, the two    *)
(* counters the quorum is compared with add up to the number of distinct   *)
(* accounts that voted (MasjidProtocol.attest 178-183).                    *)
(***************************************************************************)
OneVotePerAccount ==
  \A id \in MasjidId :
    masjidById[id].attestYes + masjidById[id].attestNo = Cardinality(hasAttested[id])

(***************************************************************************)
(* register overwrites the name table after a rejection (139-163).  Every  *)
(* mosque that is not rejected is still the one its name leads to, so no   *)
(* two of them ever share a name.                                          *)
(***************************************************************************)
LiveMasjidHoldsItsName ==
  \A id \in MasjidId :
    masjidById[id].status \notin {"None", "Rejected"} =>
      masjidIdByName[masjidById[id].name] = id

(***************************************************************************)
(* Two contracts keep a status and an admin for the same mosque; attest,   *)
(* transferAdmin and _setStatus write both in one transaction (196-237,    *)
(* 272-283).  An instance exists exactly for a mosque that was verified,   *)
(* and the copies agree.                                                   *)
(***************************************************************************)
InstanceMirrorsProtocol ==
  \A id \in MasjidId :
    IF masjidById[id].status \in {"Verified", "Flagged", "Revoked"}
    THEN /\ instances[id].status = masjidById[id].status
         /\ instances[id].masjidAdmin = masjidById[id].masjidAdmin
    ELSE instances[id] = NoInstance

(***************************************************************************)
(* register takes any non-empty array and computes the threshold from its  *)
(* length (134, 155); duplicates and the zero address are only met by the  *)
(* instance's constructor.  Every instance that exists has a board of real *)
(* accounts whose strict majority is the threshold it can reach.           *)
(***************************************************************************)
DeployedBoardHasMajorityThreshold ==
  \A id \in MasjidId : Deployed(id) =>
    /\ ZeroAddress \notin instances[id].boardRole
    /\ instances[id].cashOutThreshold <= Cardinality(instances[id].boardRole)
    /\ 2 * instances[id].cashOutThreshold > Cardinality(instances[id].boardRole)

(***************************************************************************)
(* Rejected and Revoked are the end of a mosque, and a flag can be lifted  *)
(* but not a verification: no sequence of votes, registrations, flags and  *)
(* transfers takes another route through the states (14-21, 189-257).      *)
(***************************************************************************)
Successors ==
  [ None     |-> {"Pending"},
    Pending  |-> {"Verified", "Rejected"},
    Rejected |-> {},
    Verified |-> {"Flagged", "Revoked"},
    Flagged  |-> {"Verified", "Revoked"},
    Revoked  |-> {} ]

StatusMovesForward ==
  [][ \A id \in MasjidId :
        masjidById'[id].status # masjidById[id].status =>
          masjidById'[id].status \in Successors[masjidById[id].status] ]_vars

(***************************************************************************)
(* The votes of a decided mosque are the record of why it was decided:     *)
(* nothing that happens later, a re-registration of the name included,     *)
(* changes them, and while it is open only a current verifier adds to them *)
(* (attest 173-183, register 150-160).                                     *)
(***************************************************************************)
VerdictKeepsItsVotes ==
  [][ \A id \in MasjidId :
        hasAttested'[id] # hasAttested[id]
        \/ masjidById'[id].attestYes # masjidById[id].attestYes
        \/ masjidById'[id].attestNo # masjidById[id].attestNo =>
          /\ masjidById[id].status = "Pending"
          /\ hasAttested'[id] \ hasAttested[id] \subseteq isVerifier ]_vars

(***************************************************************************)
(* Verifiers come and go while a mosque is open, and votes of former ones  *)
(* stay.  A mosque is decided with more votes than half of those who are   *)
(* verifiers at that moment, never with a quorum of an earlier one; and a  *)
(* vote that leaves it open leaves neither side with as many (attest       *)
(* 188-193, VerifierRegistry.quorum 61-63).                                *)
(***************************************************************************)
MajorityNow(votes) == 2 * votes > Cardinality(isVerifier)

VerdictHasMajority ==
  [][ \A id \in MasjidId : masjidById[id].status = "Pending" =>
        LET m == masjidById'[id] IN
        /\ m.status = "Verified" => MajorityNow(m.attestYes)
        /\ m.status = "Rejected" => MajorityNow(m.attestNo)
        /\ hasAttested'[id] # hasAttested[id] /\ m.status = "Pending" =>
             ~MajorityNow(m.attestYes) /\ ~MajorityNow(m.attestNo) ]_vars
=============================================================================
